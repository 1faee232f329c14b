--------------------------- MODULE BatchDayProofs ---------------------------
(***************************************************************************)
(* What TLAPS proves about BatchDay, for every portfolio, every feed that  *)
(* is put in the place of the day's, and every number of runs, retries and *)
(* transient faults.                                                       *)
(***************************************************************************)
EXTENDS BatchDay, SequenceTheorems, TLAPS

(***************************************************************************)
(* The invariant.                                                          *)
(***************************************************************************)
\* What load_reference has validated, and the XCom values of a run: what
\* compute_daily_actuals and reconcile_expected_actual return.
Reads ==
    [rows : { ReferenceOf(f) : f \in AllFeeds }, expected : SUBSET Plants] \cup {Null}
Summaries ==
    { ReconcileDay(a, ReferenceOf(f), c) :
        a \in Archives, f \in AllFeeds, c \in [Plants -> Nat] } \cup {Null}

Run ==
    [todo : Seq(Range(Chain)), tries : 0..Retries, state : States, reached : 0..8,
     read : Reads, actuals : Archives \cup {Null}, summaries : Summaries]

\* The tasks to do are a stretch of the chain that starts where the run has
\* been, or at the next task.
InChain(r) ==
    \E k \in 0..r.reached :
        /\ Len(r.todo) <= 8 - k
        /\ \A j \in 1..Len(r.todo) : r.todo[j] = Chain[k + j]

\* A run that can go on has a task, it remembers what it has validated only
\* within load_reference, and what it reconciled is of known plants.
OneRun(r, known) ==
    /\ r.state # "success" => r.todo # <<>>
    /\ r.read # Null => r.state = "running" /\ Head(r.todo) = "load"
    /\ InChain(r)
    /\ r.reached >= 5 => r.actuals \in Archives
    /\ r.reached >= 6 => DOMAIN r.summaries \subseteq known

RunsInv ==
    /\ runs \in Seq(Run)
    /\ current \in 0..Len(runs)
    /\ \A n \in 1..Len(runs) :
          /\ OneRun(runs[n], registry)
          /\ runs[n].state = "running" => n = current

\* What was read is a whole feed that covers what the table held and the
\* registry had.
ReadOf(read, stored, known) ==
    read # Null =>
        /\ DOMAIN stored \subseteq read.expected
        /\ read.expected \subseteq known
        /\ \E f \in AllFeeds :
              IsValidFeed(f, read.expected, Today) /\ read.rows = ReferenceOf(f)

ReadInv == current > 0 => ReadOf(runs[current].read, reference, registry)

\* A quality check that failed has been recorded, or the tries went to
\* transient faults.
CheckInv ==
    /\ At("check") => runs[current].tries <= mishaps \/ health = "FAILED"
    /\ CheckFailureIsReported

\* How far a run is that was triggered, and what n tasks of it have made of
\* the feed f, the registry, the archive a and the counts c of alerts: the
\* tables and what the run passes on.
Done(r) == 8 - Len(r.todo)

OnChain(r) ==
    /\ Len(r.todo) <= 8
    /\ \A j \in 1..Len(r.todo) : r.todo[j] = Chain[Done(r) + j]

Made(n, r, f, known, stored, a, c, written) ==
    /\ n >= 2 => IsValidFeed(f, known, Today)
    /\ n >= 4 => stored = ReferenceOf(f)
    /\ n >= 5 => r.actuals = a
    /\ n >= 6 => r.summaries = ReconcileDay(a, ReferenceOf(f), c)
    /\ n >= 7 => written = ReconcileDay(a, ReferenceOf(f), c)
    /\ n >= 8 => known \subseteq DOMAIN written

CleanInv ==
    clean =>
        /\ current > 0
        /\ OnChain(runs[current])
        /\ runs[current].state = "success" => Done(runs[current]) = 8
        /\ runs[current].read # Null =>
              runs[current].read = [rows |-> ReferenceOf(feed), expected |-> registry]
        /\ Made(Done(runs[current]), runs[current], feed, registry, reference, archive,
                raised, summary)

GoodDay ==
    /\ registry # {} /\ DOMAIN archive # {}
    /\ IsValidFeed(feed, registry, Today)
    /\ CanReconcile(archive, ReferenceOf(feed))

\* Only transient faults take the tries of a run of a good day.
GoodInv ==
    clean /\ GoodDay =>
        /\ FaultsAreFew => runs[current].state # "failed"
        /\ runs[current].state = "running" => runs[current].tries <= mishaps

IInv ==
    /\ FeedIsWhole
    /\ RunsInv
    /\ ReferenceIsOneFeed
    /\ ReadInv
    /\ CheckInv
    /\ CleanInv
    /\ GoodInv

-----------------------------------------------------------------------------
(***************************************************************************)
(* The chain of tasks, and a run that goes along it.                       *)
(***************************************************************************)
\* The chain has eight different tasks.
LEMMA ChainIs ==
    /\ Chain \in Seq(Range(Chain)) /\ Len(Chain) = 8
    /\ Chain[1] = "wait" /\ Chain[2] = "validate" /\ Chain[3] = "raw"
    /\ Chain[4] = "load" /\ Chain[5] = "actuals" /\ Chain[6] = "reconcile"
    /\ Chain[7] = "write" /\ Chain[8] = "check"
    /\ \A i, j \in 1..8 : Chain[i] = Chain[j] => i = j
<1>1. /\ Len(Chain) = 8
      /\ Chain[1] = "wait" /\ Chain[2] = "validate" /\ Chain[3] = "raw"
      /\ Chain[4] = "load" /\ Chain[5] = "actuals" /\ Chain[6] = "reconcile"
      /\ Chain[7] = "write" /\ Chain[8] = "check"
    BY DEF Chain
<1>2. ASSUME NEW i \in 1..8, NEW j \in 1..8, Chain[i] = Chain[j]
      PROVE  i = j
    <2>1. i \in {1, 2, 3, 4, 5, 6, 7, 8} /\ j \in {1, 2, 3, 4, 5, 6, 7, 8}
        OBVIOUS
    <2> QED
        BY <1>1, <1>2, <2>1
<1>4. DOMAIN Chain = 1..8 /\ Chain = [i \in 1..8 |-> Chain[i]]
    BY DEF Chain
<1>5. \A i \in 1..8 : Chain[i] \in Range(Chain)
    BY <1>4 DEF Range
<1>6. Chain \in Seq(Range(Chain))
    <2>1. Chain \in [1..8 -> Range(Chain)]
        BY <1>4, <1>5
    <2> QED
        BY <2>1, SeqDef
<1> QED
    BY <1>1, <1>2, <1>6

\* A task's position is where the chain has it.
LEMMA PositionIs ==
    \A i \in 1..8 : Position(Chain[i]) = i
<1> SUFFICES ASSUME NEW i \in 1..8
             PROVE  Position(Chain[i]) = i
    OBVIOUS
<1>1. DOMAIN Chain = 1..8
    BY ChainIs
<1>2. \E j \in DOMAIN Chain : Chain[j] = Chain[i]
    BY <1>1
<1>3. Position(Chain[i]) \in DOMAIN Chain /\ Chain[Position(Chain[i])] = Chain[i]
    BY <1>2 DEF Position
<1> QED
    BY <1>1, <1>3, ChainIs

\* What Airflow does with a run whose task ended well.
LEMMA SucceedFields ==
    ASSUME NEW r \in Run, r.todo # <<>>, InChain(r)
    PROVE  /\ Succeed(r) \in Run
           /\ Succeed(r).todo = Tail(r.todo)
           /\ Succeed(r).tries = 0
           /\ Succeed(r).read = Null
           /\ Succeed(r).actuals = r.actuals
           /\ Succeed(r).summaries = r.summaries
           /\ Succeed(r).state = IF Len(r.todo) = 1 THEN "success" ELSE r.state
           /\ InChain(Succeed(r))
           /\ \A i \in 1..8 : Head(r.todo) = Chain[i] =>
                 /\ r.reached >= i - 1
                 /\ Succeed(r).reached = IF i > r.reached THEN i ELSE r.reached
<1>1. /\ r.todo \in Seq(Range(Chain)) /\ r.tries \in 0..Retries /\ r.state \in States
      /\ r.reached \in 0..8 /\ r.read \in Reads /\ r.actuals \in Archives \cup {Null}
      /\ r.summaries \in Summaries
    BY DEF Run
<1>2. /\ Tail(r.todo) \in Seq(Range(Chain)) /\ Len(Tail(r.todo)) = Len(r.todo) - 1
      /\ \A j \in 1..Len(Tail(r.todo)) : Tail(r.todo)[j] = r.todo[j + 1]
      /\ Len(r.todo) \in Nat /\ Len(r.todo) >= 1 /\ Head(r.todo) = r.todo[1]
    BY <1>1
<1>3. PICK k \in 0..r.reached :
          /\ Len(r.todo) <= 8 - k
          /\ \A j \in 1..Len(r.todo) : r.todo[j] = Chain[k + j]
    BY DEF InChain
<1>4. k + 1 \in 1..8 /\ Head(r.todo) = Chain[k + 1] /\ Position(Head(r.todo)) = k + 1
    <2>1. k + 1 \in 1..8
        BY <1>1, <1>2, <1>3
    <2>2. Head(r.todo) = Chain[k + 1]
        BY <1>2, <1>3
    <2> QED
        BY <2>1, <2>2, PositionIs
<1> DEFINE reached == IF k + 1 > r.reached THEN k + 1 ELSE r.reached
           state == IF Len(r.todo) = 1 THEN "success" ELSE r.state
<1>5. reached \in 0..8 /\ reached >= k + 1 /\ state \in States /\ 0 \in 0..Retries
      /\ Null \in Reads
    BY <1>1, <1>4, BatchAssumption DEF States, Reads
<1>6. Succeed(r) = [r EXCEPT !.todo = Tail(@), !.tries = 0, !.reached = reached,
                             !.read = Null, !.state = state]
    BY <1>4 DEF Succeed
<1>7. /\ Succeed(r) \in Run
      /\ Succeed(r).todo = Tail(r.todo)
      /\ Succeed(r).tries = 0
      /\ Succeed(r).read = Null
      /\ Succeed(r).actuals = r.actuals
      /\ Succeed(r).summaries = r.summaries
      /\ Succeed(r).state = state
      /\ Succeed(r).reached = reached
    <2> HIDE DEF reached, state
    <2> QED
        BY <1>1, <1>2, <1>5, <1>6 DEF Run
<1>8. InChain(Succeed(r))
    <2>1. k + 1 \in 0..reached
        BY <1>4, <1>5
    <2>2. Len(Succeed(r).todo) <= 8 - (k + 1)
        BY <1>2, <1>3, <1>7
    <2>3. ASSUME NEW j \in 1..Len(Succeed(r).todo)
          PROVE  Succeed(r).todo[j] = Chain[(k + 1) + j]
        <3>1. j + 1 \in 1..Len(r.todo) /\ Tail(r.todo)[j] = r.todo[j + 1]
            BY <1>2, <1>7, <2>3
        <3>2. k + (j + 1) = (k + 1) + j
            BY <1>4, <2>3
        <3> QED
            BY <1>3, <1>7, <3>1, <3>2
    <2> HIDE DEF reached
    <2> QED
        BY <1>7, <2>1, <2>2, <2>3 DEF InChain
<1>9. ASSUME NEW i \in 1..8, Head(r.todo) = Chain[i]
      PROVE  r.reached >= i - 1 /\ reached = IF i > r.reached THEN i ELSE r.reached
    <2>1. i = k + 1
        BY <1>4, <1>9, ChainIs
    <2> QED
        BY <1>1, <2>1
<1> QED
    BY <1>7, <1>8, <1>9

\* What it does with a run whose task raised: the task is tried again.
LEMMA FailFields ==
    ASSUME NEW r \in Run, r.state = "running"
    PROVE  /\ Fail(r) \in Run
           /\ Fail(r).todo = r.todo
           /\ Fail(r).read = Null
           /\ Fail(r).actuals = r.actuals
           /\ Fail(r).summaries = r.summaries
           /\ Fail(r).reached = r.reached
           /\ \/ Fail(r).state = "running" /\ Fail(r).tries = r.tries + 1
              \/ Fail(r).state = "failed" /\ r.tries = Retries /\ Fail(r).tries = Retries
<1>1. /\ r.tries \in 0..Retries /\ Null \in Reads /\ "failed" \in States
      /\ Retries \in Nat
    BY BatchAssumption DEF Run, Reads, States
<1>2. CASE r.tries < Retries
    <2>1. Fail(r) = [r EXCEPT !.tries = @ + 1, !.read = Null]
        BY <1>2 DEF Fail
    <2>2. r.tries + 1 \in 0..Retries
        BY <1>1, <1>2
    <2> QED
        BY <1>1, <2>1, <2>2 DEF Run
<1>3. CASE ~(r.tries < Retries)
    <2>1. Fail(r) = [r EXCEPT !.state = "failed", !.read = Null]
        BY <1>3 DEF Fail
    <2>2. r.tries = Retries
        BY <1>1, <1>3
    <2> QED
        BY <1>1, <2>1, <2>2 DEF Run
<1> QED
    BY <1>2, <1>3

\* A run whose task ended either way is still a run.
LEMMA SucceedIsRun ==
    ASSUME NEW r \in Run, NEW known,
           r.todo # <<>>, r.state = "running", InChain(r),
           r.reached >= 5 \/ Head(r.todo) = "actuals" => r.actuals \in Archives,
           r.reached >= 6 \/ Head(r.todo) = "reconcile"
               => DOMAIN r.summaries \subseteq known
    PROVE  Succeed(r) \in Run /\ OneRun(Succeed(r), known)
<1>1. /\ r.todo \in Seq(Range(Chain)) /\ r.reached \in 0..8
    BY DEF Run
<1>2. Succeed(r).state # "success" => Succeed(r).todo # <<>>
    <2>1. Len(r.todo) # 1 => Tail(r.todo) # <<>>
        <3>1. Len(r.todo) \in Nat /\ Len(Tail(r.todo)) = Len(r.todo) - 1
            BY <1>1
        <3>2. Tail(r.todo) \in Seq(Range(Chain))
            BY <1>1
        <3>3. Tail(r.todo) = <<>> => Len(Tail(r.todo)) = 0
            BY <3>2, EmptySeq
        <3> QED
            BY <3>1, <3>3
    <2> QED
        BY <2>1, SucceedFields
<1>3. PICK k \in 0..r.reached :
          /\ Len(r.todo) <= 8 - k
          /\ \A j \in 1..Len(r.todo) : r.todo[j] = Chain[k + j]
    BY DEF InChain
<1>4. k + 1 \in 1..8 /\ Head(r.todo) = Chain[k + 1]
    BY <1>1, <1>3
<1>5. Succeed(r).reached = IF k + 1 > r.reached THEN k + 1 ELSE r.reached
    BY <1>4, SucceedFields
<1>6. Succeed(r).reached >= 5 => Succeed(r).actuals \in Archives
    <2>1. Succeed(r).reached >= 5 => r.reached >= 5 \/ k + 1 = 5
        BY <1>1, <1>3, <1>4, <1>5
    <2> QED
        BY <1>4, <2>1, ChainIs, SucceedFields
<1>7. Succeed(r).reached >= 6 => DOMAIN Succeed(r).summaries \subseteq known
    <2>1. Succeed(r).reached >= 6 => r.reached >= 6 \/ k + 1 = 6
        BY <1>1, <1>3, <1>4, <1>5
    <2> QED
        BY <1>4, <2>1, ChainIs, SucceedFields
<1> QED
    BY <1>2, <1>6, <1>7, SucceedFields DEF OneRun

LEMMA FailIsRun ==
    ASSUME NEW r \in Run, NEW known,
           r.state = "running", r.todo # <<>>, InChain(r),
           r.reached >= 5 => r.actuals \in Archives,
           r.reached >= 6 => DOMAIN r.summaries \subseteq known
    PROVE  Fail(r) \in Run /\ OneRun(Fail(r), known)
<1>1. InChain(Fail(r))
    BY FailFields DEF InChain
<1> QED
    BY <1>1, FailFields DEF OneRun

-----------------------------------------------------------------------------
(***************************************************************************)
(* The feed, the tables and the reconciliation.                            *)
(***************************************************************************)
\* An upsert of rows for every plant of the table replaces all of its rows.
LEMMA UpsertReplaces ==
    ASSUME NEW table, NEW rows, rows = [p \in DOMAIN rows |-> rows[p]],
           DOMAIN table \subseteq DOMAIN rows
    PROVE  Upsert(table, rows) = rows
<1>1. DOMAIN rows \cup DOMAIN table = DOMAIN rows
    OBVIOUS
<1> QED
    BY <1>1 DEF Upsert

\* The row of a plant that a valid feed names is one of its sound rows.
LEMMA RowOfPlant ==
    ASSUME NEW f, NEW known, IsValidFeed(f, known, Today), NEW p \in PlantsOf(f)
    PROVE  \E i \in DOMAIN f.rows :
              RowIsSound(f.rows[i]) /\ ReferenceOf(f)[p] = ReferenceRow(f.rows[i])
<1> DEFINE row == CHOOSE r \in Range(f.rows) : r.plant = p
<1>1. \E r \in Range(f.rows) : r.plant = p
    BY DEF PlantsOf, Range
<1>2. row \in Range(f.rows)
    BY <1>1
<1>3. PICK i \in DOMAIN f.rows : row = f.rows[i]
    BY <1>2 DEF Range
<1>4. ReferenceOf(f)[p] = ReferenceRow(row)
    BY DEF ReferenceOf
<1>5. RowIsSound(f.rows[i])
    BY DEF IsValidFeed
<1> HIDE DEF row
<1> QED
    BY <1>3, <1>4, <1>5

\* What validation let through against a registry, PostgreSQL accepts.
LEMMA ValidIsAccepted ==
    ASSUME NEW f, NEW expected, IsValidFeed(f, expected, Today), expected # {},
           NEW known, expected \subseteq known
    PROVE  AcceptedReference(ReferenceOf(f), known)
<1>1. DOMAIN ReferenceOf(f) = PlantsOf(f) /\ PlantsOf(f) = expected
    BY DEF ReferenceOf, IsValidFeed, CoversPortfolio
<1>2. ASSUME NEW p \in PlantsOf(f)
      PROVE  LET row == ReferenceOf(f)[p]
             IN  /\ row.capacity > 0 /\ row.generation > 0 /\ row.peak > 0
                 /\ row.irradiance >= 0 /\ row.rate >= 0
                 /\ row.maintenance \in BOOLEAN
    <2>1. PICK i \in DOMAIN f.rows :
              RowIsSound(f.rows[i]) /\ ReferenceOf(f)[p] = ReferenceRow(f.rows[i])
        BY RowOfPlant
    <2>2. RangesAreSound(f.rows[i]) /\ ParseBool(f.rows[i].maintenance) # Null
        BY <2>1 DEF RowIsSound
    <2>3. ParseBool(f.rows[i].maintenance) \in BOOLEAN
        BY <2>2, Zenon DEF ParseBool
    <2> QED
        BY <2>1, <2>2, <2>3 DEF ReferenceRow, RangesAreSound
<1> QED
    BY <1>1, <1>2 DEF AcceptedReference

\* What is reconciled from a feed that covers the registry passes the checks.
LEMMA ReconciledPasses ==
    ASSUME NEW f \in AllFeeds, NEW known, IsValidFeed(f, known, Today), known # {},
           NEW a \in Archives, NEW c
    PROVE  PassesQuality(ReconcileDay(a, ReferenceOf(f), c), ReferenceOf(f), known)
<1> DEFINE rows == ReferenceOf(f)
           day == ReconcileDay(a, rows, c)
<1>1. DOMAIN rows = PlantsOf(f) /\ DOMAIN day = PlantsOf(f) /\ PlantsOf(f) = known
    BY DEF ReferenceOf, ReconcileDay, IsValidFeed, CoversPortfolio
<1>2. ASSUME NEW p \in PlantsOf(f)
      PROVE  /\ day[p].actual >= 0
             /\ day[p].expected > 0
             /\ day[p].lost >= 0
             /\ day[p].revenue >= 0
             /\ day[p].lostRevenue >= 0
    <2>1. PICK i \in DOMAIN f.rows :
              RowIsSound(f.rows[i]) /\ rows[p] = ReferenceRow(f.rows[i])
        BY RowOfPlant
    <2>2. /\ f.rows[i].generation \in Int /\ f.rows[i].rate \in Int
          /\ f.rows[i].generation > 0 /\ f.rows[i].rate >= 0
        BY <2>1, BatchAssumption DEF RowIsSound, RangesAreSound, Numbers
    <2>3. /\ rows[p].generation = f.rows[i].generation /\ rows[p].rate = f.rows[i].rate
        BY <2>1 DEF ReferenceRow
    <2> DEFINE actual == Measured(a, p)
               lost == LostEnergy(actual, rows[p].generation)
    <2>4. actual \in Nat
        <3>1. PICK S \in SUBSET Plants : a \in [S -> Energies]
            BY DEF Archives
        <3> QED
            BY <3>1, BatchAssumption DEF Measured
    <2> HIDE DEF actual
    <2>5. lost \in Nat
        BY <2>2, <2>3, <2>4 DEF LostEnergy
    <2> HIDE DEF lost
    <2>6. \A x, y \in Nat : x * y >= 0
        OBVIOUS
    <2>7. rows[p].rate \in Nat
        BY <2>2, <2>3
    <2>8. day[p] = SummaryRow(actual, rows[p], c[p])
        BY <1>1 DEF ReconcileDay, actual
    <2>9. /\ day[p].actual = actual /\ day[p].expected = rows[p].generation
          /\ day[p].lost = lost /\ day[p].revenue = actual * rows[p].rate
          /\ day[p].lostRevenue = lost * rows[p].rate
        BY <2>8 DEF SummaryRow, lost
    <2> HIDE DEF rows, day
    <2> QED
        BY <2>2, <2>3, <2>4, <2>5, <2>6, <2>7, <2>9
<1> HIDE DEF rows, day
<1>3. PassesQuality(day, rows, known)
    BY <1>1, <1>2 DEF PassesQuality
<1> QED
    BY <1>3 DEF rows, day

-----------------------------------------------------------------------------
(***************************************************************************)
(* The runs.                                                               *)
(***************************************************************************)
\* What the invariant says of a run that is scheduled.
LEMMA ActiveRun ==
    ASSUME RunsInv, Active
    PROVE  /\ current \in 1..Len(runs) /\ Len(runs) \in Nat
           /\ runs[current] \in Run
           /\ runs[current].state = "running"
           /\ runs[current].todo # <<>>
           /\ InChain(runs[current])
           /\ OneRun(runs[current], registry)
<1>1. current \in 1..Len(runs) /\ Len(runs) \in Nat
    BY DEF RunsInv, Active
<1>2. runs[current] \in Run /\ OneRun(runs[current], registry)
    BY <1>1 DEF RunsInv
<1> QED
    BY <1>1, <1>2 DEF OneRun, Active

\* Its first task is one of the chain, and it has been there or right before.
LEMMA TaskIs ==
    ASSUME RunsInv, Active
    PROVE  \E i \in 1..8 : Task = Chain[i] /\ runs[current].reached >= i - 1
<1>1. /\ runs[current].todo \in Seq(Range(Chain)) /\ runs[current].todo # <<>>
      /\ runs[current].reached \in 0..8
    BY ActiveRun DEF Run
<1>2. PICK k \in 0..runs[current].reached :
          /\ Len(runs[current].todo) <= 8 - k
          /\ \A j \in 1..Len(runs[current].todo) : runs[current].todo[j] = Chain[k + j]
    BY ActiveRun DEF InChain
<1>3. k + 1 \in 1..8 /\ Task = Chain[k + 1] /\ runs[current].reached >= (k + 1) - 1
    BY <1>1, <1>2 DEF Task
<1> QED
    BY <1>3

\* What a step makes of the run that is scheduled.
LEMMA RunBecomes ==
    ASSUME RunsInv, Active, NEW r \in Run, OneRun(r, registry), Becomes(r),
           current' = current, registry' = registry
    PROVE  /\ RunsInv'
           /\ runs'[current'] = r
<1>1. current \in 1..Len(runs) /\ Len(runs) \in Nat /\ runs \in Seq(Run)
    BY ActiveRun DEF RunsInv
<1>2. /\ runs' \in Seq(Run) /\ Len(runs') = Len(runs)
      /\ \A n \in 1..Len(runs) : runs'[n] = IF n = current THEN r ELSE runs[n]
    BY <1>1, ExceptSeq DEF Becomes
<1>3. ASSUME NEW n \in 1..Len(runs')
      PROVE  OneRun(runs[n], registry)' /\ (runs'[n].state = "running" => n = current')
    <2>1. OneRun(runs'[n], registry')
        BY <1>1, <1>2 DEF RunsInv
    <2>2. OneRun(runs[n], registry)'
        BY <2>1 DEF OneRun, InChain
    <2>3. runs'[n].state = "running" => n = current'
        BY <1>1, <1>2 DEF RunsInv
    <2> QED
        BY <2>2, <2>3
<1> QED
    BY <1>1, <1>2, <1>3 DEF RunsInv

\* The scheduled run, as far as its task takes it before it ends.
AtTask(r) ==
    /\ r \in Run
    /\ r.todo = runs[current].todo
    /\ r.tries = runs[current].tries
    /\ r.state = "running"
    /\ r.reached = runs[current].reached
    /\ r.reached >= 5 => r.actuals \in Archives
    /\ r.reached >= 6 => DOMAIN r.summaries \subseteq registry

\* What was validated and made of the day's inputs is made from then on.
LEMMA MadeBefore ==
    ASSUME NEW n \in Nat, NEW r, NEW f, NEW known, NEW stored, NEW a, NEW c,
           NEW written, Made(n + 1, r, f, known, stored, a, c, written)
    PROVE  Made(n, r, f, known, stored, a, c, written)
BY DEF Made

LEMMA RunsAreTyped == RunsInv => RunsOK
<1> SUFFICES ASSUME RunsInv
             PROVE  RunsOK
    OBVIOUS
<1>1. DOMAIN runs = 1..Len(runs)
    BY DEF RunsInv
<1>2. ASSUME NEW n \in 1..Len(runs)
      PROVE  /\ runs[n].state \in States
             /\ runs[n].tries \in 0..Retries
             /\ runs[n].reached \in 0..Len(Chain)
             /\ runs[n].state = "running" => n = current /\ runs[n].todo # <<>>
    <2>1. runs[n] \in Run
        BY DEF RunsInv
    <2>2. runs[n].state \in States /\ runs[n].tries \in 0..Retries /\ runs[n].reached \in 0..8
        BY <2>1 DEF Run
    <2> QED
        BY <2>2, ChainIs DEF RunsInv, OneRun
<1> QED
    BY <1>1, <1>2 DEF RunsOK, RunsInv

\* A triggered run has done the tasks before the one it is at.
LEMMA DoneIs ==
    ASSUME NEW r \in Run, r.todo # <<>>, OnChain(r),
           NEW i \in 1..8, Head(r.todo) = Chain[i]
    PROVE  Done(r) = i - 1
<1>1. /\ Len(r.todo) \in Nat /\ Len(r.todo) >= 1 /\ Len(r.todo) <= 8
      /\ Head(r.todo) = r.todo[1] /\ r.todo[1] = Chain[Done(r) + 1]
    <2>1. r.todo \in Seq(Range(Chain))
        BY DEF Run
    <2>2. Len(r.todo) \in Nat /\ Len(r.todo) >= 1 /\ Head(r.todo) = r.todo[1]
        BY <2>1
    <2> QED
        BY <2>2 DEF OnChain
<1>2. Done(r) \in Int /\ Done(r) + 1 \in 1..8
    BY <1>1 DEF Done
<1>3. Done(r) + 1 = i
    BY <1>1, <1>2, ChainIs
<1> QED
    BY <1>2, <1>3

\* The task that ended well was the next one of a triggered run's.
LEMMA SucceedOnChain ==
    ASSUME NEW r \in Run, r.todo # <<>>, OnChain(r), InChain(r), r.state = "running",
           NEW i \in 1..8, Head(r.todo) = Chain[i]
    PROVE  /\ OnChain(Succeed(r))
           /\ Done(Succeed(r)) = i
           /\ Succeed(r).state = "success" => i = 8
<1>1. r.todo \in Seq(Range(Chain))
    BY DEF Run
<1>2. /\ Len(Tail(r.todo)) = Len(r.todo) - 1 /\ Len(r.todo) \in Nat
      /\ \A j \in 1..Len(Tail(r.todo)) : Tail(r.todo)[j] = r.todo[j + 1]
    BY <1>1
<1>3. Succeed(r).todo = Tail(r.todo) /\ (Succeed(r).state = "success" => Len(r.todo) = 1)
    BY SucceedFields
<1>4. Done(r) = i - 1 /\ Done(r) = 8 - Len(r.todo)
    BY DoneIs DEF Done
<1>5. Done(Succeed(r)) = i
    BY <1>2, <1>3, <1>4 DEF Done
<1>6. ASSUME NEW j \in 1..Len(Tail(r.todo))
      PROVE  Tail(r.todo)[j] = Chain[i + j]
    <2>1. j + 1 \in 1..Len(r.todo) /\ Done(r) + (j + 1) = i + j
        BY <1>2, <1>4, <1>6
    <2> QED
        BY <1>2, <2>1 DEF OnChain
<1>7. OnChain(Succeed(r))
    <2>1. Len(Succeed(r).todo) <= 8
        BY <1>2, <1>3 DEF OnChain
    <2> QED
        BY <1>3, <1>5, <1>6, <2>1 DEF OnChain
<1>8. Succeed(r).state = "success" => i = 8
    <2>1. Len(r.todo) = 1 => i = 8
        BY <1>4
    <2> QED
        BY <1>3, <2>1
<1> QED
    BY <1>5, <1>7, <1>8

\* A task of the scheduled run ends, well or not, with its writes to the tables:
\* the step keeps the invariant, when the task has made what it has to and a
\* failure that is no transient fault is not one of a good day.
LEMMA TaskEnds ==
    ASSUME IInv, Active, UNCHANGED <<inputs, current, clean, changes>>,
           NEW i \in 1..8, Task = Chain[i],
           NEW r, AtTask(r),
           TablesOK', ReferenceIsOneFeed',
           i # 7 => health' \in {health, "FAILED"},
           \/ /\ Becomes(Succeed(r))
              /\ i = 5 => r.actuals \in Archives
              /\ i = 6 => DOMAIN r.summaries \subseteq registry
              /\ mishaps' = mishaps
              /\ clean => Made(i, r, feed, registry, reference', archive, raised, summary')
           \/ /\ Becomes(Fail(r))
              /\ mishaps' = mishaps + 1
              /\ clean => Made(i - 1, r, feed, registry, reference', archive, raised,
                               summary')
           \/ /\ Becomes(Fail(r))
              /\ mishaps' = mishaps
              /\ clean => Made(i - 1, r, feed, registry, reference', archive, raised,
                               summary')
              /\ ~(clean /\ GoodDay)
              /\ i = 8 => health' = "FAILED"
    PROVE  IInv'
<1> DEFINE s == runs'[current]
<1>1. RunsInv /\ TypeOK /\ FeedIsWhole /\ ReadInv /\ CheckInv /\ CleanInv /\ GoodInv
    BY DEF IInv, FeedIsWhole
<1>2. /\ r \in Run /\ r.todo # <<>> /\ r.state = "running" /\ InChain(r)
      /\ Head(r.todo) = Chain[i]
      /\ r.reached >= 5 => r.actuals \in Archives
      /\ r.reached >= 6 => DOMAIN r.summaries \subseteq registry
    BY <1>1, ActiveRun DEF AtTask, InChain, Task
<1>3. Retries \in Nat /\ mishaps \in Nat /\ r.tries \in 0..Retries /\ current > 0
    BY <1>1, <1>2, BatchAssumption DEF TypeOK, Run, Active
<1>4. UNCHANGED <<portfolio, registry, simulator, temp, feed, archive, raised>>
    BY DEF inputs, files
<1>5. ASSUME NEW q \in {Succeed(r), Fail(r)}, Becomes(q), q \in Run, OneRun(q, registry)
      PROVE  RunsInv' /\ s = q /\ s \in Run /\ s.read = Null
    <2>1. RunsInv' /\ s = q
        BY <1>1, <1>4, <1>5, RunBecomes
    <2> QED
        BY <1>2, <1>5, <2>1, SucceedFields, FailFields
<1>6. ASSUME RunsInv', s.read = Null
      PROVE  FeedIsWhole' /\ ReadInv'
    <2>1. RunsOK'
        BY <1>6, RunsAreTyped, PTL
    <2>2. InputsOK'
        BY <1>1, <1>4 DEF TypeOK, InputsOK
    <2>3. clean' \in BOOLEAN
        BY <1>1, Zenon DEF TypeOK
    <2>4. changes' \in Nat /\ mishaps' \in Nat
        BY <1>1, <1>3, <1>4 DEF TypeOK
    <2>5. feed' \in AllFeeds \cup {Null}
        BY <1>1, <1>4 DEF FeedIsWhole
    <2>6. ReadInv'
        BY <1>6 DEF ReadInv, ReadOf
    <2> QED
        BY <2>1, <2>2, <2>3, <2>4, <2>5, <2>6 DEF FeedIsWhole, TypeOK
<1>7. Becomes(Fail(r)) => RunsInv' /\ s = Fail(r) /\ s \in Run /\ s.read = Null
    <2>1. Fail(r) \in Run /\ OneRun(Fail(r), registry)
        BY <1>2, FailIsRun
    <2> QED
        BY <1>5, <2>1
<1>8. clean => /\ OnChain(r) /\ Done(r) = i - 1
               /\ runs[current].state = "running"
    <2>1. ASSUME clean
          PROVE  OnChain(r)
        BY <1>1, <2>1 DEF CleanInv, OnChain, Done, AtTask
    <2> QED
        BY <1>2, <2>1, DoneIs DEF Active
<1>9. CASE /\ Becomes(Succeed(r))
           /\ i = 5 => r.actuals \in Archives
           /\ i = 6 => DOMAIN r.summaries \subseteq registry
           /\ mishaps' = mishaps
           /\ clean => Made(i, r, feed, registry, reference', archive, raised, summary')
    <2>1. /\ s = Succeed(r) /\ s.tries = 0 /\ s.state \in {"success", "running"}
          /\ s.actuals = r.actuals /\ s.summaries = r.summaries
          /\ RunsInv' /\ s \in Run /\ s.read = Null
        <3>1. Succeed(r) \in Run /\ OneRun(Succeed(r), registry)
            BY <1>2, <1>9, SucceedIsRun, ChainIs
        <3> QED
            BY <1>2, <1>5, <1>9, <3>1, SucceedFields
    <2>2. CheckInv'
        BY <1>3, <1>9, <2>1 DEF CheckInv, CheckFailureIsReported, At, Active
    <2>3. GoodInv'
        BY <1>3, <1>9, <2>1 DEF GoodInv
    <2>4. ASSUME clean
          PROVE  /\ OnChain(s) /\ Done(s) = i
                 /\ s.state = "success" => Done(s) = 8
                 /\ Made(Done(s), s, feed, registry, reference', archive, raised, summary')
        <3>1. OnChain(s) /\ Done(s) = i /\ (s.state = "success" => i = 8)
            BY <1>2, <1>8, <2>1, <2>4, SucceedOnChain
        <3> QED
            BY <1>9, <2>1, <2>4, <3>1 DEF Made
    <2>5. CleanInv'
        <3>1. ASSUME clean'
              PROVE  /\ current' > 0
                     /\ OnChain(runs[current])'
                     /\ s.state = "success" => Done(runs[current])' = 8
                     /\ Made(Done(s), s, feed', registry', reference', archive', raised',
                             summary')
            BY <1>3, <1>4, <2>4, <3>1 DEF OnChain, Done
        <3> QED
            BY <2>1, <3>1 DEF CleanInv, Made, Done
    <2> QED
        BY <1>6, <2>1, <2>2, <2>3, <2>5 DEF IInv
<1>10. ASSUME Becomes(Fail(r)),
              clean => Made(i - 1, r, feed, registry, reference', archive, raised, summary')
       PROVE  /\ s.todo = r.todo /\ Task' = Chain[i]
              /\ \/ s.state = "running" /\ s.tries = r.tries + 1
                 \/ s.state = "failed" /\ r.tries = Retries
              /\ CleanInv'
    <2>1. /\ s = Fail(r) /\ s.todo = r.todo
          /\ s.actuals = r.actuals /\ s.summaries = r.summaries
          /\ \/ s.state = "running" /\ s.tries = r.tries + 1
             \/ s.state = "failed" /\ r.tries = Retries
        BY <1>2, <1>7, <1>10, FailFields
    <2>2. Task' = Chain[i]
        BY <1>2, <2>1 DEF Task
    <2>3. CleanInv'
        <3>1. ASSUME clean'
              PROVE  /\ current' > 0
                     /\ OnChain(runs[current])'
                     /\ s.state # "success"
                     /\ Made(Done(s), s, feed', registry', reference', archive', raised',
                             summary')
            <4>1. OnChain(r) /\ Done(r) = i - 1
                BY <1>8, <3>1
            <4>2. OnChain(s) /\ Done(s) = i - 1
                BY <2>1, <4>1 DEF OnChain, Done
            <4>3. Made(i - 1, r, feed, registry, reference', archive, raised, summary')
                BY <1>10, <3>1
            <4>4. Made(Done(s), s, feed', registry', reference', archive', raised',
                       summary')
                BY <1>4, <2>1, <4>2, <4>3 DEF Made
            <4> QED
                BY <1>3, <2>1, <4>2, <4>4 DEF OnChain, Done
        <3> QED
            BY <1>7, <1>10, <3>1 DEF CleanInv, Made, Done
    <2> QED
        BY <2>1, <2>2, <2>3
<1>11. r.tries = runs[current].tries /\ runs[current].state = "running"
    BY <1>1, ActiveRun DEF AtTask
<1>12. CASE /\ Becomes(Fail(r))
            /\ mishaps' = mishaps + 1
            /\ clean => Made(i - 1, r, feed, registry, reference', archive, raised,
                             summary')
    <2>1. CheckInv'
        <3>1. Task' = "check" => i = 8 /\ At("check") /\ health' \in {health, "FAILED"}
            BY <1>10, <1>12, ChainIs DEF At
        <3>2. Task' = "check" => r.tries <= mishaps \/ health' = "FAILED"
            BY <1>1, <1>11, <3>1 DEF CheckInv
        <3>3. At("check")' => s.tries <= mishaps' \/ health' = "FAILED"
            BY <1>3, <1>10, <1>12, <3>2 DEF At, Active
        <3>4. CheckFailureIsReported'
            BY <1>3, <1>10, <1>12, <3>2 DEF CheckFailureIsReported, FaultsAreFew
        <3> QED
            BY <3>3, <3>4 DEF CheckInv
    <2>2. GoodInv'
        <3>1. clean /\ GoodDay => r.tries <= mishaps
            BY <1>1, <1>11 DEF GoodInv
        <3>2. GoodDay' => GoodDay
            BY <1>4 DEF GoodDay
        <3> QED
            BY <1>3, <1>10, <1>12, <3>1, <3>2 DEF GoodInv, FaultsAreFew
    <2> QED
        BY <1>6, <1>7, <1>10, <1>12, <2>1, <2>2 DEF IInv
<1>13. CASE /\ Becomes(Fail(r))
            /\ mishaps' = mishaps
            /\ clean => Made(i - 1, r, feed, registry, reference', archive, raised,
                             summary')
            /\ ~(clean /\ GoodDay)
            /\ i = 8 => health' = "FAILED"
    <2>1. CheckInv'
        <3>1. Task' = "check" => health' = "FAILED"
            BY <1>10, <1>13, ChainIs
        <3> QED
            BY <3>1 DEF CheckInv, CheckFailureIsReported, At
    <2>2. GoodInv'
        <3>1. GoodDay' => GoodDay
            BY <1>4 DEF GoodDay
        <3> QED
            BY <1>13, <3>1 DEF GoodInv
    <2> QED
        BY <1>6, <1>7, <1>10, <1>13, <2>1, <2>2 DEF IInv
<1> QED
    BY <1>9, <1>12, <1>13

-----------------------------------------------------------------------------
(***************************************************************************)
(* The steps around the DAG.                                               *)
(***************************************************************************)
\* What happens around the DAG keeps the invariant: the registry only grows, and
\* the ghost is cleared when an input changes.
LEMMA Around ==
    ASSUME IInv, InputsOK', registry \subseteq registry',
           UNCHANGED <<reference, summary, health, runs, current, mishaps>>,
           clean' \in BOOLEAN, changes' \in Nat, feed' \in AllFeeds \cup {Null},
           clean' => clean /\ UNCHANGED <<registry, feed, archive, raised>>
    PROVE  IInv'
<1>1. /\ TypeOK /\ RunsInv /\ ReferenceIsOneFeed /\ ReadInv /\ CheckInv /\ CleanInv
      /\ GoodInv
    BY DEF IInv, FeedIsWhole
<1>2. RunsInv'
    <2>1. ASSUME NEW n \in 1..Len(runs)
          PROVE  OneRun(runs[n], registry') /\ (runs[n].state = "running" => n = current)
        BY <1>1 DEF RunsInv, OneRun
    <2>2. ASSUME NEW n \in 1..Len(runs')
          PROVE  /\ OneRun(runs[n], registry)'
                 /\ (runs[n].state = "running" => n = current)'
        <3>1. OneRun(runs[n], registry')
            BY <2>1
        <3>2. OneRun(runs[n], registry)'
            BY <3>1 DEF OneRun, InChain
        <3> QED
            BY <2>1, <3>2
    <2> QED
        BY <1>1, <2>2 DEF RunsInv
<1>3. FeedIsWhole'
    <2>1. RunsOK'
        BY <1>2, RunsAreTyped, PTL
    <2>2. TablesOK'
        BY <1>1 DEF TypeOK, TablesOK
    <2>3. mishaps' \in Nat
        BY <1>1 DEF TypeOK
    <2> QED
        BY <2>1, <2>2, <2>3 DEF FeedIsWhole, TypeOK
<1>4. ReferenceIsOneFeed'
    BY <1>1 DEF ReferenceIsOneFeed
<1>5. ReadInv'
    BY <1>1 DEF ReadInv, ReadOf
<1>6. CheckInv'
    BY <1>1 DEF CheckInv, CheckFailureIsReported, FaultsAreFew, At, Ended, Active, Task
<1>7. CleanInv'
    <2>1. ASSUME clean'
          PROVE  /\ clean
                 /\ UNCHANGED <<registry, feed, archive, raised, reference, summary, runs,
                                current>>
        BY <2>1
    <2> QED
        BY <1>1, <2>1 DEF CleanInv, OnChain, Done, Made
<1>8. GoodInv'
    <2>1. ASSUME clean'
          PROVE  clean /\ UNCHANGED <<registry, feed, archive, runs, current, mishaps>>
        BY <2>1
    <2> QED
        BY <1>1, <2>1 DEF GoodInv, GoodDay, FaultsAreFew
<1> QED
    BY <1>2, <1>3, <1>4, <1>5, <1>6, <1>7, <1>8 DEF IInv

\* A new run has done nothing yet.
LEMMA Triggered ==
    ASSUME IInv, TriggerRun
    PROVE  IInv'
<1>1. /\ TypeOK /\ RunsInv /\ ReferenceIsOneFeed /\ ReadInv /\ CheckInv /\ CleanInv
      /\ GoodInv
    BY DEF IInv, FeedIsWhole
<1>2. UNCHANGED <<portfolio, registry, simulator, temp, feed, archive, raised, reference,
                  summary, health, changes, mishaps>>
    BY DEF TriggerRun, files, tables, bounds
<1>3. /\ NewRun \in Run /\ OneRun(NewRun, registry) /\ OnChain(NewRun)
      /\ Done(NewRun) = 0 /\ NewRun.read = Null /\ NewRun.state = "running"
      /\ NewRun.tries = 0 /\ Head(NewRun.todo) = Chain[1]
    <2>1. /\ NewRun.todo = Chain /\ NewRun.tries = 0 /\ NewRun.state = "running"
          /\ NewRun.reached = 0 /\ NewRun.read = Null
        BY DEF NewRun
    <2>2. NewRun \in Run
        BY ChainIs, BatchAssumption DEF NewRun, Run, States, Reads, Summaries
    <2>3. InChain(NewRun)
        <3>1. 0 \in 0..0 /\ Len(Chain) <= 8 - 0 /\ \A j \in 1..8 : Chain[j] = Chain[0 + j]
            BY ChainIs
        <3> QED
            BY <2>1, <3>1, ChainIs DEF InChain
    <2>4. Done(NewRun) = 0 /\ OnChain(NewRun)
        BY <2>1, ChainIs DEF Done, OnChain
    <2>5. Chain # <<>> /\ Head(Chain) = Chain[1]
        BY DEF Chain
    <2> QED
        BY <2>1, <2>2, <2>3, <2>4, <2>5 DEF OneRun
<1>4. /\ runs' \in Seq(Run) /\ Len(runs') = Len(runs) + 1 /\ current' = Len(runs) + 1
      /\ \A n \in 1..Len(runs) : runs'[n] = runs[n] /\ runs[n].state # "running"
      /\ runs'[current'] = NewRun /\ Len(runs) \in Nat /\ clean'
    <2>1. runs \in Seq(Run) /\ Len(runs) \in Nat /\ current \in 0..Len(runs)
        BY <1>1 DEF RunsInv
    <2>2. runs' = Append(runs, NewRun) /\ current' = Len(runs') /\ clean'
        BY DEF TriggerRun
    <2>3. \A n \in 1..Len(runs) : runs[n].state # "running"
        BY <1>1, <2>1 DEF TriggerRun, Active, RunsInv
    <2> QED
        BY <1>3, <2>1, <2>2, <2>3, AppendProperties
<1>5. RunsInv'
    <2>1. ASSUME NEW n \in 1..Len(runs')
          PROVE  OneRun(runs'[n], registry') /\ (runs'[n].state = "running" => n = current')
        <3>1. CASE n \in 1..Len(runs)
            BY <1>1, <1>2, <1>4, <3>1 DEF RunsInv
        <3>2. CASE n = Len(runs) + 1
            BY <1>2, <1>3, <1>4, <3>2
        <3> QED
            BY <1>4, <3>1, <3>2
    <2>2. ASSUME NEW n \in 1..Len(runs')
          PROVE  OneRun(runs[n], registry)' /\ (runs[n].state = "running" => n = current)'
        BY <2>1 DEF OneRun, InChain
    <2>3. current' \in 0..Len(runs')
        BY <1>4
    <2> QED
        BY <1>4, <2>2, <2>3 DEF RunsInv
<1>6. FeedIsWhole'
    <2>1. RunsOK'
        BY <1>5, RunsAreTyped, PTL
    <2>2. InputsOK' /\ TablesOK'
        BY <1>1, <1>2 DEF TypeOK, InputsOK, TablesOK
    <2>3. clean' \in BOOLEAN
        BY Zenon DEF TriggerRun
    <2>4. changes' \in Nat /\ mishaps' \in Nat
        BY <1>1, <1>2 DEF TypeOK
    <2> QED
        BY <1>2, <2>1, <2>2, <2>3, <2>4 DEF FeedIsWhole, TypeOK, IInv
<1>7. ReferenceIsOneFeed'
    BY <1>1, <1>2 DEF ReferenceIsOneFeed
<1>8. ReadInv'
    BY <1>3, <1>4 DEF ReadInv, ReadOf
<1>9. CheckInv'
    <2>1. Task' # "check" /\ runs'[current'].state # "failed"
        BY <1>3, <1>4, ChainIs DEF Task
    <2> QED
        BY <2>1 DEF CheckInv, CheckFailureIsReported, At
<1>10. CleanInv'
    <2>1. current' > 0
        BY <1>4
    <2>2. OnChain(runs'[current']) /\ Done(runs'[current']) = 0
        BY <1>3, <1>4
    <2>3. Made(0, runs'[current'], feed', registry', reference', archive', raised', summary')
        BY DEF Made
    <2>4. /\ OnChain(runs[current])' /\ Done(runs[current])' = 0
          /\ Made(Done(runs[current]), runs[current], feed, registry, reference, archive,
                  raised, summary)'
        BY <2>2, <2>3 DEF OnChain, Done, Made
    <2> QED
        BY <1>3, <1>4, <2>1, <2>4 DEF CleanInv
<1>11. GoodInv'
    BY <1>1, <1>2, <1>3, <1>4 DEF GoodInv, TypeOK
<1> QED
    BY <1>5, <1>6, <1>7, <1>8, <1>9, <1>10, <1>11 DEF IInv

\* A cleared task is of the chain, and the run had been there or right before.
LEMMA Cleared ==
    ASSUME IInv, ClearTask
    PROVE  IInv'
<1>1. /\ TypeOK /\ RunsInv /\ ReferenceIsOneFeed /\ ReadInv /\ CheckInv /\ CleanInv
      /\ GoodInv
    BY DEF IInv, FeedIsWhole
<1>2. /\ UNCHANGED <<portfolio, registry, simulator, temp, feed, archive, raised,
                     reference, summary, health, changes>>
      /\ ~clean' /\ clean' \in BOOLEAN /\ mishaps' = mishaps + 1
    <2>1. clean' = FALSE
        BY DEF ClearTask
    <2> QED
        BY <2>1 DEF ClearTask, files, tables
<1>3. PICK n \in DOMAIN runs, task \in Range(Chain) :
          /\ Position(task) <= runs[n].reached + 1
          /\ \E todo \in {From(task)} \cup
                          (IF runs[n].state = "success" THEN {<<task>>} ELSE {}) :
                runs' = [runs EXCEPT ![n].todo = todo, ![n].tries = 0,
                                     ![n].state = "running"]
          /\ current' = n
    BY DEF ClearTask
<1>4. PICK todo \in {From(task), <<task>>} :
          runs' = [runs EXCEPT ![n].todo = todo, ![n].tries = 0, ![n].state = "running"]
    BY <1>3
<1>5. PICK i \in 1..8 : task = Chain[i] /\ Position(task) = i
    <2>1. \E i \in 1..8 : task = Chain[i]
        BY ChainIs DEF Range
    <2> QED
        BY <2>1, PositionIs
<1>6. /\ runs \in Seq(Run) /\ Len(runs) \in Nat /\ n \in 1..Len(runs)
      /\ runs[n] \in Run /\ OneRun(runs[n], registry) /\ InChain(runs[n])
      /\ runs[n].reached \in 0..8 /\ i <= runs[n].reached + 1
    <2>1. runs \in Seq(Run) /\ Len(runs) \in Nat /\ n \in 1..Len(runs)
        BY <1>1 DEF RunsInv
    <2>2. runs[n] \in Run /\ OneRun(runs[n], registry)
        BY <1>1, <2>1 DEF RunsInv
    <2> QED
        BY <1>3, <1>5, <2>1, <2>2 DEF Run, OneRun
<1>7. \A m \in 1..Len(runs) : runs[m].state # "running" /\ runs[m].read = Null
    <2>1. \A m \in 1..Len(runs) : runs[m].state # "running"
        BY <1>1 DEF ClearTask, Active, RunsInv
    <2> QED
        BY <1>1, <2>1 DEF RunsInv, OneRun
<1>8. /\ todo \in Seq(Range(Chain)) /\ todo # <<>> /\ Len(todo) <= 8 - (i - 1)
      /\ \A j \in 1..Len(todo) : todo[j] = Chain[(i - 1) + j]
    <2>1. CASE todo = From(task)
        <3>1. todo = SubSeq(Chain, i, 8)
            BY <1>5, <2>1, ChainIs DEF From
        <3>2. /\ todo \in Seq(Range(Chain)) /\ Len(todo) = 8 - i + 1
              /\ \A j \in 1..Len(todo) : todo[j] = Chain[i + j - 1]
            <4>1. \A j \in i..8 : Chain[j] \in Range(Chain)
                <5>1. \A j \in 1..8 : Chain[j] \in Range(Chain)
                    BY ChainIs, ElementOfSeq
                <5> QED
                    BY <5>1
            <4>2. /\ SubSeq(Chain, i, 8) \in Seq(Range(Chain))
                  /\ Len(SubSeq(Chain, i, 8)) = 8 - i + 1
                  /\ \A j \in 1..(8 - i + 1) : SubSeq(Chain, i, 8)[j] = Chain[i + j - 1]
                BY <4>1, SubSeqProperties
            <4> QED
                BY <3>1, <4>2
        <3>3. \A j \in 1..Len(todo) : i + j - 1 = (i - 1) + j
            BY <3>2
        <3>4. todo # <<>>
            <4>1. Len(todo) # 0
                BY <3>2
            <4> QED
                BY <4>1, EmptySeq
        <3> QED
            BY <3>2, <3>3, <3>4
    <2>2. CASE todo = <<task>>
        BY <1>5, <2>2
    <2> QED
        BY <1>4, <2>1, <2>2
<1> DEFINE r == [runs[n] EXCEPT !.todo = todo, !.tries = 0, !.state = "running"]
<1>9. /\ r \in Run /\ r.todo = todo /\ r.tries = 0 /\ r.state = "running"
      /\ r.read = Null /\ r.reached = runs[n].reached
      /\ r.actuals = runs[n].actuals /\ r.summaries = runs[n].summaries
    <2>1. 0 \in 0..Retries /\ "running" \in States
        BY BatchAssumption DEF States
    <2> QED
        BY <1>6, <1>7, <1>8, <2>1 DEF Run
<1>10. runs' = [runs EXCEPT ![n] = r]
    BY <1>4
<1> HIDE DEF r
<1>11. OneRun(r, registry)
    <2>1. i - 1 \in 0..r.reached
        BY <1>6, <1>9
    <2>2. InChain(r)
        BY <1>8, <1>9, <2>1 DEF InChain
    <2> QED
        BY <1>6, <1>8, <1>9, <2>2 DEF OneRun
<1>12. /\ runs' \in Seq(Run) /\ Len(runs') = Len(runs) /\ runs'[current'] = r
       /\ \A m \in 1..Len(runs) : runs'[m] = IF m = n THEN r ELSE runs[m]
    BY <1>3, <1>6, <1>9, <1>10, ExceptSeq
<1>13. RunsInv'
    <2>1. ASSUME NEW m \in 1..Len(runs')
          PROVE  OneRun(runs'[m], registry') /\ (runs'[m].state = "running" => m = current')
        BY <1>1, <1>2, <1>3, <1>7, <1>11, <1>12 DEF RunsInv
    <2>2. ASSUME NEW m \in 1..Len(runs')
          PROVE  OneRun(runs[m], registry)' /\ (runs[m].state = "running" => m = current)'
        BY <2>1 DEF OneRun, InChain
    <2>3. current' \in 0..Len(runs')
        BY <1>3, <1>6, <1>12
    <2> QED
        BY <1>12, <2>2, <2>3 DEF RunsInv
<1>14. FeedIsWhole'
    <2>1. RunsOK'
        BY <1>13, RunsAreTyped, PTL
    <2>2. InputsOK' /\ TablesOK'
        BY <1>1, <1>2 DEF TypeOK, InputsOK, TablesOK
    <2>3. changes' \in Nat /\ mishaps' \in Nat
        BY <1>1, <1>2 DEF TypeOK
    <2> QED
        BY <1>2, <2>1, <2>2, <2>3 DEF FeedIsWhole, TypeOK, IInv
<1>15. ReferenceIsOneFeed'
    BY <1>1, <1>2 DEF ReferenceIsOneFeed
<1>16. ReadInv'
    BY <1>9, <1>12 DEF ReadInv, ReadOf
<1>17. CheckInv'
    <2>1. 0 <= mishaps'
        BY <1>1, <1>2 DEF TypeOK
    <2> QED
        BY <1>9, <1>12, <2>1 DEF CheckInv, CheckFailureIsReported
<1>18. CleanInv' /\ GoodInv'
    BY <1>2 DEF CleanInv, GoodInv
<1> QED
    BY <1>13, <1>14, <1>15, <1>16, <1>17, <1>18 DEF IInv

\* The steps of the portfolio, the simulator, the archive and the feed.
LEMMA Surroundings ==
    ASSUME IInv,
           \/ EditPortfolio \/ Seed \/ StartSimulator \/ StopSimulator \/ ArchiveEvents
           \/ RaiseAlert \/ WriteTemp \/ GenerateFails \/ ReplaceFeed \/ WriteFails
           \/ ResetFeed \/ ReissueFeed
    PROVE  IInv'
<1> USE DEF files, tables, inputs, bounds
<1>1. InputsOK /\ clean \in BOOLEAN /\ changes \in Nat /\ feed \in AllFeeds \cup {Null}
    <2>1. TypeOK /\ feed \in AllFeeds \cup {Null}
        BY DEF IInv, FeedIsWhole
    <2> QED
        BY <2>1, Zenon DEF TypeOK
<1>2. /\ portfolio \in Configs
      /\ registry \subseteq Plants
      /\ simulator # Null =>
            simulator \in [config : Configs, phase : {"day", "writing", "after"}]
      /\ temp \in AllFeeds \cup {Null}
      /\ archive \in Archives
      /\ raised \in [Plants -> Nat]
    BY <1>1 DEF InputsOK
<1>3. \A c \in Configs : DOMAIN c.plants \subseteq Plants /\ GeneratedFeed(c) \in AllFeeds
    BY BatchAssumption DEF AllFeeds
<1>4. ASSUME NEW phase \in {"day", "writing", "after"}, simulator # Null
      PROVE  [simulator EXCEPT !.phase = phase]
                \in [config : Configs, phase : {"day", "writing", "after"}]
    BY <1>2, <1>4
<1>5. CASE EditPortfolio
    BY <1>1, <1>5, Around DEF EditPortfolio, Change, InputsOK
<1>6. CASE Seed
    <2>1. clean' \in BOOLEAN /\ (clean' => clean /\ registry' = registry)
        BY <1>1, <1>6, Zenon DEF Seed
    <2>2. registry \subseteq registry' /\ registry' \subseteq Plants
        BY <1>2, <1>3, <1>6 DEF Seed
    <2>3. InputsOK' /\ changes' \in Nat
        BY <1>1, <1>6, <2>2 DEF Seed, InputsOK
    <2> QED
        BY <1>1, <1>6, <2>1, <2>2, <2>3, Around DEF Seed
<1>7. CASE StartSimulator
    <2>1. InputsOK'
        BY <1>1, <1>2, <1>7 DEF StartSimulator, InputsOK
    <2> QED
        BY <1>1, <1>7, <2>1, Around DEF StartSimulator
<1>8. CASE StopSimulator
    BY <1>1, <1>8, Around DEF StopSimulator, Change, InputsOK
<1>9. CASE ArchiveEvents
    <2>1. PICK p \in Plants, energy \in Energies :
              archive' = Upsert(archive, [q \in {p} |-> energy])
        BY <1>2, <1>3, <1>9 DEF ArchiveEvents
    <2>2. archive' \in Archives
        <3>1. PICK S \in SUBSET Plants : archive \in [S -> Energies]
            BY <1>2 DEF Archives
        <3>2. archive' \in [S \cup {p} -> Energies]
            BY <2>1, <3>1 DEF Upsert
        <3> QED
            BY <3>2 DEF Archives
    <2>3. InputsOK'
        BY <1>1, <1>9, <2>2 DEF ArchiveEvents, InputsOK
    <2>4. clean' = FALSE
        BY <1>9 DEF ArchiveEvents
    <2> QED
        BY <1>1, <1>9, <2>3, <2>4, Around DEF ArchiveEvents
<1>10. CASE RaiseAlert
    <2>1. PICK p \in DOMAIN archive : raised' = [raised EXCEPT ![p] = @ + 1]
        BY <1>10 DEF RaiseAlert
    <2>2. p \in Plants
        BY <1>2, <2>1 DEF Archives
    <2>3. raised' \in [Plants -> Nat]
        BY <1>2, <2>1, <2>2
    <2>4. InputsOK'
        BY <1>1, <1>10, <2>3 DEF RaiseAlert, InputsOK
    <2>5. clean' = FALSE
        BY <1>10 DEF RaiseAlert
    <2> QED
        BY <1>1, <1>10, <2>4, <2>5, Around DEF RaiseAlert
<1>11. CASE WriteTemp
    <2>1. InputsOK'
        BY <1>1, <1>2, <1>3, <1>4, <1>11 DEF WriteTemp, InputsOK
    <2> QED
        BY <1>1, <1>11, <2>1, Around DEF WriteTemp
<1>12. CASE GenerateFails
    <2>1. InputsOK'
        BY <1>1, <1>4, <1>12 DEF GenerateFails, InputsOK
    <2> QED
        BY <1>1, <1>12, <2>1, Around DEF GenerateFails
<1>13. CASE ReplaceFeed
    <2>1. InputsOK'
        BY <1>1, <1>4, <1>13 DEF ReplaceFeed, InputsOK
    <2>2. clean' \in BOOLEAN /\ (clean' => clean /\ feed' = feed)
        BY <1>1, <1>13, Zenon DEF ReplaceFeed
    <2>3. feed' \in AllFeeds \cup {Null}
        BY <1>2, <1>13 DEF ReplaceFeed
    <2> QED
        BY <1>1, <1>13, <2>1, <2>2, <2>3, Around DEF ReplaceFeed
<1>14. CASE WriteFails
    <2>1. InputsOK'
        BY <1>1, <1>4, <1>14 DEF WriteFails, InputsOK
    <2> QED
        BY <1>1, <1>14, <2>1, Around DEF WriteFails, Change
<1>15. CASE ResetFeed
    <2>1. clean' = FALSE /\ feed' = Null
        BY <1>15 DEF ResetFeed
    <2>2. InputsOK' /\ changes' \in Nat
        BY <1>1, <1>15 DEF ResetFeed, Change, InputsOK
    <2> QED
        BY <1>1, <1>15, <2>1, <2>2, Around DEF ResetFeed
<1>16. CASE ReissueFeed
    <2>1. clean' = FALSE /\ feed' \in AllFeeds
        BY <1>16 DEF ReissueFeed, AllFeeds
    <2>2. InputsOK' /\ changes' \in Nat
        BY <1>1, <1>16 DEF ReissueFeed, Change, InputsOK
    <2> QED
        BY <1>1, <1>16, <2>1, <2>2, Around DEF ReissueFeed
<1> QED
    BY <1>5, <1>6, <1>7, <1>8, <1>9, <1>10, <1>11, <1>12, <1>13, <1>14, <1>15, <1>16

-----------------------------------------------------------------------------
(***************************************************************************)
(* The tasks.                                                              *)
(***************************************************************************)
\* What is known of the scheduled run at the i-th task.
LEMMA TaskFacts ==
    ASSUME IInv, Active, NEW i \in 1..8, Task = Chain[i]
    PROVE  /\ AtTask(runs[current]) /\ runs[current].reached >= i - 1
           /\ clean => Made(i - 1, runs[current], feed, registry, reference, archive,
                            raised, summary)
           /\ TablesOK /\ ReferenceIsOneFeed /\ RunsInv /\ mishaps \in Nat
           /\ InputsOK /\ feed \in AllFeeds \cup {Null}
<1>1. /\ RunsInv /\ ReferenceIsOneFeed /\ TablesOK /\ InputsOK /\ CleanInv /\ mishaps \in Nat
      /\ feed \in AllFeeds \cup {Null}
    BY DEF IInv, FeedIsWhole, TypeOK
<1>2. AtTask(runs[current])
    BY <1>1, ActiveRun DEF AtTask, OneRun
<1>3. runs[current].reached >= i - 1
    BY <1>1, TaskIs, ChainIs
<1>4. ASSUME clean
      PROVE  Made(i - 1, runs[current], feed, registry, reference, archive, raised, summary)
    <2>1. OnChain(runs[current])
        BY <1>1, <1>4 DEF CleanInv
    <2>2. Done(runs[current]) = i - 1
        BY <1>1, <2>1, ActiveRun, DoneIs DEF Task
    <2> QED
        BY <1>1, <1>4, <2>2 DEF CleanInv
<1> QED
    BY <1>1, <1>2, <1>3, <1>4

\* A task that raises for a reason that passes.
LEMMA Transient ==
    ASSUME IInv, TransientFault
    PROVE  IInv'
<1>1. Active
    BY DEF TransientFault
<1>2. PICK i \in 1..8 : Task = Chain[i]
    BY <1>1, TaskIs DEF IInv
<1>3. /\ UNCHANGED <<inputs, current, clean, changes>>
      /\ UNCHANGED <<reference, summary, health>>
    BY DEF TransientFault
<1>4. registry' = registry
    BY <1>3 DEF inputs
<1>5. TablesOK' /\ ReferenceIsOneFeed'
    BY <1>1, <1>2, <1>3, <1>4, TaskFacts DEF TablesOK, ReferenceIsOneFeed
<1> QED
    BY <1>1, <1>2, <1>3, <1>5, TaskFacts, TaskEnds DEF TransientFault

\* The tasks that only look: the sensor that finds the feed, the validation, the
\* look at the archive.
LEMMA Checks ==
    ASSUME IInv, WaitForFile \/ ValidateReferenceFeed \/ CheckRawDailyData
    PROVE  IInv'
<1>1. /\ Active
      /\ UNCHANGED <<inputs, current, clean, changes>>
      /\ UNCHANGED <<reference, summary, health, mishaps>>
    BY DEF WaitForFile, ValidateReferenceFeed, CheckRawDailyData, At, bounds
<1>2. registry' = registry
    BY <1>1 DEF inputs
<1>3. PICK i \in 1..3 : /\ Task = Chain[i]
                        /\ i = 1 => WaitForFile
                        /\ i = 2 => ValidateReferenceFeed
                        /\ i = 3 => CheckRawDailyData
    BY ChainIs DEF WaitForFile, ValidateReferenceFeed, CheckRawDailyData, At
<1>4. /\ AtTask(runs[current])
      /\ clean => Made(i - 1, runs[current], feed, registry, reference, archive, raised,
                       summary)
      /\ TablesOK /\ ReferenceIsOneFeed
    BY <1>1, <1>3, TaskFacts
<1>5. TablesOK' /\ ReferenceIsOneFeed'
    BY <1>1, <1>2, <1>4 DEF TablesOK, ReferenceIsOneFeed
<1>6. \/ /\ Becomes(Succeed(runs[current]))
         /\ i = 2 => IsValidFeed(feed, registry, Today)
      \/ /\ Becomes(Fail(runs[current]))
         /\ ~GoodDay
    BY <1>3 DEF WaitForFile, ValidateReferenceFeed, CheckRawDailyData, GoodDay
<1>7. (i = 2 => IsValidFeed(feed, registry, Today)) /\ clean
        => Made(i, runs[current], feed, registry, reference, archive, raised, summary)
    BY <1>4 DEF Made
<1> QED
    BY <1>1, <1>3, <1>4, <1>5, <1>6, <1>7, TaskEnds

\* A sensor that times out.
LEMMA TimesOut ==
    ASSUME IInv, SensorTimesOut
    PROVE  IInv'
<1> DEFINE r == [runs[current] EXCEPT !.state = "failed"]
<1>1. /\ Active /\ Task = Chain[1] /\ feed = Null /\ Becomes(r)
      /\ UNCHANGED <<portfolio, registry, simulator, temp, feed, archive, raised>>
      /\ UNCHANGED <<reference, summary, health, current, clean, changes, mishaps>>
    BY ChainIs DEF SensorTimesOut, At, inputs, files, bounds
<1>2. /\ RunsInv /\ TypeOK /\ CleanInv /\ ReferenceIsOneFeed
      /\ feed \in AllFeeds \cup {Null}
    BY DEF IInv, FeedIsWhole
<1>3. runs[current] \in Run /\ OneRun(runs[current], registry)
    BY <1>1, <1>2, ActiveRun
<1>4. /\ r \in Run /\ r.todo = runs[current].todo /\ r.state = "failed"
      /\ r.read = runs[current].read /\ r.actuals = runs[current].actuals
      /\ r.summaries = runs[current].summaries /\ r.reached = runs[current].reached
    BY <1>3 DEF Run, States
<1> HIDE DEF r
<1>5. r.read = Null /\ r.todo # <<>> /\ OneRun(r, registry)
    <2>1. Head(runs[current].todo) # "load" /\ runs[current].todo # <<>>
        BY <1>1, <1>2, ActiveRun, ChainIs DEF Task
    <2> QED
        BY <1>3, <1>4, <2>1 DEF OneRun, InChain
<1>6. RunsInv' /\ runs'[current'] = r
    BY <1>1, <1>2, <1>4, <1>5, RunBecomes
<1>7. FeedIsWhole'
    <2>1. RunsOK'
        BY <1>6, RunsAreTyped, PTL
    <2>2. InputsOK' /\ TablesOK'
        BY <1>1, <1>2 DEF TypeOK, InputsOK, TablesOK
    <2>3. clean' \in BOOLEAN
        BY <1>1, <1>2, Zenon DEF TypeOK
    <2>4. changes' \in Nat /\ mishaps' \in Nat
        BY <1>1, <1>2 DEF TypeOK
    <2> QED
        BY <1>1, <1>2, <2>1, <2>2, <2>3, <2>4 DEF FeedIsWhole, TypeOK
<1>8. ReferenceIsOneFeed'
    BY <1>1, <1>2 DEF ReferenceIsOneFeed
<1>9. ReadInv'
    BY <1>5, <1>6 DEF ReadInv, ReadOf
<1>10. CheckInv'
    <2>1. Task' # "check"
        BY <1>1, <1>4, <1>6, ChainIs DEF Task
    <2> QED
        BY <2>1 DEF CheckInv, CheckFailureIsReported, At
<1>11. CleanInv'
    <2>1. ASSUME clean'
          PROVE  /\ current' > 0 /\ OnChain(r)
                 /\ Made(Done(r), r, feed', registry', reference', archive', raised',
                         summary')
        BY <1>1, <1>2, <1>4, <2>1 DEF CleanInv, OnChain, Done, Made
    <2>2. ASSUME clean'
          PROVE  /\ current' > 0 /\ OnChain(runs[current])'
                 /\ Made(Done(runs[current]), runs[current], feed, registry, reference,
                         archive, raised, summary)'
        BY <1>6, <2>1, <2>2 DEF OnChain, Done, Made
    <2> QED
        BY <1>4, <1>5, <1>6, <2>2 DEF CleanInv
<1>12. GoodInv'
    BY <1>1 DEF GoodInv, GoodDay, IsValidFeed
<1> QED
    BY <1>6, <1>7, <1>8, <1>9, <1>10, <1>11, <1>12 DEF IInv

\* load_reference validates: what it read is the feed as it was then.
LEMMA LoadReads ==
    ASSUME IInv, LoadValidates
    PROVE  IInv'
<1> DEFINE read == [rows |-> ReferenceOf(feed), expected |-> registry]
           r == [runs[current] EXCEPT !.read = read]
<1>1. /\ Active /\ Task = Chain[4] /\ runs[current].read = Null
      /\ UNCHANGED <<inputs, current, clean, changes>>
      /\ UNCHANGED <<portfolio, registry, simulator, temp, feed, archive, raised>>
      /\ UNCHANGED <<reference, summary, health, mishaps>>
    BY ChainIs DEF LoadValidates, At, inputs, files, bounds
<1>2. /\ RunsInv /\ TypeOK /\ CleanInv /\ ReferenceIsOneFeed /\ CheckInv /\ GoodInv
      /\ feed \in AllFeeds \cup {Null}
    BY DEF IInv, FeedIsWhole
<1>3. /\ AtTask(runs[current])
      /\ clean => Made(3, runs[current], feed, registry, reference, archive, raised,
                       summary)
      /\ TablesOK /\ InputsOK
    BY <1>1, TaskFacts
<1>4. TablesOK' /\ ReferenceIsOneFeed'
    BY <1>1, <1>2, <1>3 DEF TablesOK, ReferenceIsOneFeed
<1>5. CASE ~IsValidFeed(feed, registry, Today)
    <2>1. Becomes(Fail(runs[current])) /\ ~GoodDay
        BY <1>5 DEF LoadValidates, GoodDay
    <2> QED
        BY <1>1, <1>3, <1>4, <2>1, TaskEnds
<1>6. CASE IsValidFeed(feed, registry, Today)
    <2>1. Becomes(r) /\ feed \in AllFeeds
        BY <1>2, <1>6 DEF LoadValidates, IsValidFeed
    <2>2. runs[current] \in Run /\ OneRun(runs[current], registry) /\ registry \subseteq Plants
        BY <1>1, <1>2, <1>3, ActiveRun DEF InputsOK
    <2>3. read \in Reads
        BY <2>1, <2>2 DEF Reads
    <2> HIDE DEF read
    <2>4. /\ r \in Run /\ r.todo = runs[current].todo /\ r.state = runs[current].state
          /\ r.tries = runs[current].tries
          /\ r.read = read /\ r.actuals = runs[current].actuals
          /\ r.summaries = runs[current].summaries /\ r.reached = runs[current].reached
        BY <2>2, <2>3 DEF Run
    <2> HIDE DEF r
    <2>5. OneRun(r, registry)
        <3>1. Head(r.todo) = "load" /\ r.state = "running"
            BY <1>1, <1>2, <2>4, ActiveRun, ChainIs DEF Task
        <3> QED
            BY <2>2, <2>4, <3>1 DEF OneRun, InChain
    <2>6. RunsInv' /\ runs'[current] = r
        BY <1>1, <1>2, <2>1, <2>4, <2>5, RunBecomes
    <2>7. FeedIsWhole'
        <3>1. RunsOK'
            BY <2>6, RunsAreTyped, PTL
        <3>2. InputsOK'
            BY <1>1, <1>2 DEF TypeOK, InputsOK
        <3>3. clean' \in BOOLEAN
            BY <1>1, <1>2, Zenon DEF TypeOK
        <3>4. changes' \in Nat /\ mishaps' \in Nat
            BY <1>1, <1>2 DEF TypeOK
        <3> QED
            BY <1>1, <1>2, <1>4, <3>1, <3>2, <3>3, <3>4 DEF FeedIsWhole, TypeOK
    <2>8. ReadInv'
        <3>1. /\ DOMAIN reference \subseteq read.expected /\ read.expected = registry
              /\ IsValidFeed(feed, read.expected, Today) /\ read.rows = ReferenceOf(feed)
            BY <1>3, <1>6 DEF TablesOK, read
        <3>2. ReadOf(read, reference, registry)
            BY <2>1, <3>1 DEF ReadOf
        <3> QED
            BY <1>1, <2>4, <2>6, <3>2 DEF ReadInv, ReadOf
    <2>9. CheckInv'
        <3>1. Task' # "check"
            BY <1>1, <2>4, <2>6, ChainIs DEF Task
        <3> QED
            BY <3>1 DEF CheckInv, CheckFailureIsReported, At
    <2>10. CleanInv'
        <3>1. ASSUME clean'
              PROVE  /\ current > 0 /\ OnChain(r)
                     /\ r.state = "success" => Done(r) = 8
                     /\ Made(Done(r), r, feed, registry, reference, archive, raised,
                             summary)
            BY <1>1, <1>2, <2>4, <3>1 DEF CleanInv, OnChain, Done, Made
        <3>2. ASSUME clean'
              PROVE  /\ current' > 0 /\ OnChain(runs[current])'
                     /\ r.state = "success" => Done(runs[current])' = 8
                     /\ Made(Done(runs[current]), runs[current], feed, registry,
                             reference, archive, raised, summary)'
            BY <1>1, <2>6, <3>1, <3>2 DEF OnChain, Done, Made
        <3>3. read = [rows |-> ReferenceOf(feed'), expected |-> registry']
            BY <1>1 DEF read
        <3>4. read = [rows |-> ReferenceOf(feed), expected |-> registry]'
            BY <3>3 DEF ReferenceOf, PlantsOf
        <3> QED
            BY <1>1, <2>4, <2>6, <3>2, <3>4 DEF CleanInv
    <2>11. GoodInv'
        BY <1>1, <1>2, <2>4, <2>6 DEF GoodInv, GoodDay, FaultsAreFew
    <2> QED
        BY <1>4, <2>6, <2>7, <2>8, <2>9, <2>10, <2>11 DEF IInv
<1> QED
    BY <1>5, <1>6

\* ... and its upsert replaces what the table held.
LEMMA LoadUpserts ==
    ASSUME IInv, LoadCommits
    PROVE  IInv'
<1>1. /\ Active /\ Task = Chain[4] /\ runs[current].read # Null /\ current > 0
      /\ UNCHANGED <<inputs, current, clean, changes>>
      /\ UNCHANGED <<registry, summary, health>>
    BY ChainIs DEF LoadCommits, At, Active, inputs
<1>2. /\ AtTask(runs[current])
      /\ clean => Made(3, runs[current], feed, registry, reference, archive, raised,
                       summary)
      /\ TablesOK /\ ReferenceIsOneFeed /\ CleanInv /\ mishaps \in Nat
    BY <1>1, TaskFacts DEF IInv
<1> DEFINE rows == runs[current].read.rows
           expected == runs[current].read.expected
<1>3. PICK f \in AllFeeds :
          /\ IsValidFeed(f, expected, Today) /\ rows = ReferenceOf(f)
          /\ DOMAIN reference \subseteq expected /\ expected \subseteq registry
    BY <1>1 DEF IInv, ReadInv, ReadOf
<1>4. CASE AcceptedReference(rows, registry)
    <2>1. reference' = Upsert(reference, rows) /\ Finish(runs[current])
        BY <1>4 DEF LoadCommits
    <2>2. DOMAIN reference \subseteq DOMAIN rows
        BY <1>3 DEF ReferenceOf, IsValidFeed, CoversPortfolio
    <2>3. rows = [p \in DOMAIN rows |-> rows[p]]
        BY <1>3 DEF ReferenceOf
    <2>4. reference' = ReferenceOf(f)
        BY <1>3, <2>1, <2>2, <2>3, UpsertReplaces
    <2>5. DOMAIN reference' \subseteq registry
        BY <1>3, <1>4, <2>4 DEF AcceptedReference
    <2>6. TablesOK' /\ ReferenceIsOneFeed'
        BY <1>1, <1>2, <2>4, <2>5 DEF TablesOK, ReferenceIsOneFeed
    <2>7. ASSUME clean
          PROVE  /\ Made(4, runs[current], feed, registry, reference', archive, raised,
                         summary')
                 /\ Made(3, runs[current], feed, registry, reference', archive, raised,
                         summary')
        <3>1. rows = ReferenceOf(feed)
            BY <1>1, <1>2, <2>7 DEF CleanInv
        <3> QED
            BY <1>2, <1>3, <2>4, <2>7, <3>1 DEF Made
    <2>8. \/ Becomes(Succeed(runs[current])) /\ mishaps' = mishaps
          \/ Becomes(Fail(runs[current])) /\ mishaps' = mishaps + 1
        BY <2>1 DEF Finish
    <2> QED
        BY <1>1, <1>2, <2>6, <2>7, <2>8, TaskEnds
<1>5. CASE ~AcceptedReference(rows, registry)
    <2>1. Becomes(Fail(runs[current])) /\ UNCHANGED <<reference, mishaps>>
        BY <1>5 DEF LoadCommits
    <2>2. TablesOK' /\ ReferenceIsOneFeed'
        BY <1>1, <1>2, <2>1 DEF TablesOK, ReferenceIsOneFeed
    <2>3. ~(clean /\ GoodDay)
        <3>1. ASSUME clean, GoodDay
              PROVE  FALSE
            <4>1. rows = ReferenceOf(feed)
                BY <1>1, <1>2, <3>1 DEF CleanInv
            <4>2. AcceptedReference(ReferenceOf(feed), registry)
                BY <3>1, ValidIsAccepted DEF GoodDay
            <4> QED
                BY <1>5, <4>1, <4>2
        <3> QED
            BY <3>1
    <2>4. clean => Made(3, runs[current], feed, registry, reference', archive, raised,
                        summary')
        BY <1>1, <1>2, <2>1 DEF Made
    <2> QED
        BY <1>1, <1>2, <2>1, <2>2, <2>3, <2>4, TaskEnds
<1> QED
    BY <1>4, <1>5

\* compute_daily_actuals passes the archive on.
LEMMA Computes ==
    ASSUME IInv, ComputeDailyActuals
    PROVE  IInv'
<1> DEFINE r == [runs[current] EXCEPT !.actuals = archive]
<1>1. /\ Active /\ Task = Chain[5] /\ Finish(r)
      /\ UNCHANGED <<inputs, current, clean, changes>>
      /\ UNCHANGED <<registry, reference, summary, health>>
    BY ChainIs DEF ComputeDailyActuals, At, inputs
<1>2. /\ AtTask(runs[current])
      /\ clean => Made(4, runs[current], feed, registry, reference, archive, raised,
                       summary)
      /\ TablesOK /\ ReferenceIsOneFeed /\ mishaps \in Nat /\ archive \in Archives
    BY <1>1, TaskFacts DEF InputsOK
<1>3. /\ r \in Run /\ r.todo = runs[current].todo /\ r.state = runs[current].state
      /\ r.tries = runs[current].tries /\ r.actuals = archive
      /\ r.summaries = runs[current].summaries /\ r.reached = runs[current].reached
    BY <1>2 DEF AtTask, Run
<1> HIDE DEF r
<1>4. AtTask(r)
    BY <1>2, <1>3 DEF AtTask
<1>5. TablesOK' /\ ReferenceIsOneFeed'
    BY <1>1, <1>2 DEF TablesOK, ReferenceIsOneFeed
<1>6. clean => /\ Made(4, r, feed, registry, reference', archive, raised, summary')
               /\ Made(5, r, feed, registry, reference', archive, raised, summary')
    BY <1>1, <1>2, <1>3 DEF Made
<1>7. \/ Becomes(Succeed(r)) /\ mishaps' = mishaps
      \/ Becomes(Fail(r)) /\ mishaps' = mishaps + 1
    BY <1>1 DEF Finish
<1> QED
    BY <1>1, <1>2, <1>3, <1>4, <1>5, <1>6, <1>7, TaskEnds

\* reconcile_expected_actual passes the rows on, of the plants of the reference.
LEMMA Reconciles ==
    ASSUME IInv, ReconcileExpectedActual
    PROVE  IInv'
<1> DEFINE day == ReconcileDay(runs[current].actuals, reference, raised)
           r == [runs[current] EXCEPT !.summaries = day]
<1>1. /\ Active /\ Task = Chain[6]
      /\ UNCHANGED <<inputs, current, clean, changes>>
      /\ UNCHANGED <<registry, reference, summary, health>>
    BY ChainIs DEF ReconcileExpectedActual, At, inputs
<1>2. /\ AtTask(runs[current]) /\ runs[current].reached >= 5
      /\ clean => Made(5, runs[current], feed, registry, reference, archive, raised,
                       summary)
      /\ TablesOK /\ ReferenceIsOneFeed /\ mishaps \in Nat /\ raised \in [Plants -> Nat]
    BY <1>1, TaskFacts DEF InputsOK
<1>3. TablesOK' /\ ReferenceIsOneFeed'
    BY <1>1, <1>2 DEF TablesOK, ReferenceIsOneFeed
<1>4. CASE CanReconcile(runs[current].actuals, reference)
    <2>1. Finish(r)
        BY <1>4 DEF ReconcileExpectedActual
    <2>2. PICK f \in AllFeeds : reference = ReferenceOf(f)
        BY <1>2, <1>4 DEF ReferenceIsOneFeed, CanReconcile
    <2>3. runs[current].actuals \in Archives
        BY <1>2 DEF AtTask
    <2>4. day \in Summaries
        BY <1>2, <2>2, <2>3 DEF Summaries
    <2>5. DOMAIN day \subseteq registry
        BY <1>2 DEF ReconcileDay, TablesOK
    <2>6. clean => day = ReconcileDay(archive, ReferenceOf(feed), raised)
        BY <1>2 DEF Made
    <2> HIDE DEF day
    <2>7. /\ r \in Run /\ r.todo = runs[current].todo /\ r.state = runs[current].state
          /\ r.tries = runs[current].tries /\ r.actuals = runs[current].actuals
          /\ r.summaries = day /\ r.reached = runs[current].reached
        BY <1>2, <2>4 DEF AtTask, Run
    <2> HIDE DEF r
    <2>8. AtTask(r)
        BY <1>2, <2>5, <2>7 DEF AtTask
    <2>9. clean => /\ Made(5, r, feed, registry, reference', archive, raised, summary')
                   /\ Made(6, r, feed, registry, reference', archive, raised, summary')
        BY <1>1, <1>2, <2>6, <2>7 DEF Made
    <2>10. \/ Becomes(Succeed(r)) /\ mishaps' = mishaps
           \/ Becomes(Fail(r)) /\ mishaps' = mishaps + 1
        BY <2>1 DEF Finish
    <2> QED
        BY <1>1, <1>2, <1>3, <2>5, <2>7, <2>8, <2>9, <2>10, TaskEnds
<1>5. CASE ~CanReconcile(runs[current].actuals, reference)
    <2>1. Becomes(Fail(runs[current])) /\ UNCHANGED mishaps
        BY <1>5 DEF ReconcileExpectedActual
    <2>2. ~(clean /\ GoodDay)
        BY <1>2, <1>5 DEF GoodDay, Made
    <2>3. clean => Made(5, runs[current], feed, registry, reference', archive, raised,
                        summary')
        BY <1>1, <1>2 DEF Made
    <2> QED
        BY <1>1, <1>2, <1>3, <2>1, <2>2, <2>3, TaskEnds
<1> QED
    BY <1>4, <1>5

\* write_daily_summary replaces the day's rows, or adds to them.
LEMMA Writes ==
    ASSUME IInv, WriteDailySummary
    PROVE  IInv'
<1> DEFINE rows == runs[current].summaries
<1>1. /\ Active /\ Task = Chain[7] /\ Finish(runs[current])
      /\ UNCHANGED <<inputs, current, clean, changes>>
      /\ UNCHANGED <<registry, reference>>
      /\ summary' = Upsert(summary, rows) /\ health' = "HEALTHY"
    BY ChainIs DEF WriteDailySummary, At, inputs
<1>2. /\ AtTask(runs[current]) /\ runs[current].reached >= 6
      /\ clean => Made(6, runs[current], feed, registry, reference, archive, raised,
                       summary)
      /\ TablesOK /\ ReferenceIsOneFeed /\ mishaps \in Nat
    BY <1>1, TaskFacts
<1>3. DOMAIN rows \subseteq registry
    BY <1>2 DEF AtTask
<1>4. TablesOK' /\ ReferenceIsOneFeed'
    BY <1>1, <1>2, <1>3 DEF TablesOK, ReferenceIsOneFeed, Upsert
<1>5. clean => summary' = ReconcileDay(archive, ReferenceOf(feed), raised)
    <2>1. ASSUME clean
          PROVE  summary' = ReconcileDay(archive, ReferenceOf(feed), raised)
        <3>1. /\ rows = ReconcileDay(archive, ReferenceOf(feed), raised)
              /\ IsValidFeed(feed, registry, Today)
            BY <1>2, <2>1 DEF Made
        <3>2. DOMAIN rows = PlantsOf(feed) /\ rows = [p \in DOMAIN rows |-> rows[p]]
            BY <3>1 DEF ReconcileDay, ReferenceOf
        <3>3. DOMAIN summary \subseteq DOMAIN rows
            BY <1>2, <3>1, <3>2 DEF TablesOK, IsValidFeed, CoversPortfolio
        <3> QED
            BY <1>1, <3>1, <3>2, <3>3, UpsertReplaces
    <2> QED
        BY <2>1
<1>6. clean => /\ Made(6, runs[current], feed, registry, reference', archive, raised,
                       summary')
               /\ Made(7, runs[current], feed, registry, reference', archive, raised,
                       summary')
    BY <1>1, <1>2, <1>5 DEF Made
<1>7. \/ Becomes(Succeed(runs[current])) /\ mishaps' = mishaps
      \/ Becomes(Fail(runs[current])) /\ mishaps' = mishaps + 1
    BY <1>1 DEF Finish
<1> QED
    BY <1>1, <1>2, <1>4, <1>6, <1>7, TaskEnds

\* run_data_quality_checks lets the rows of a good day through.
LEMMA ChecksQuality ==
    ASSUME IInv, RunDataQualityChecks
    PROVE  IInv'
<1>1. /\ Active /\ Task = Chain[8]
      /\ UNCHANGED <<inputs, current, clean, changes>>
      /\ UNCHANGED <<registry, reference, summary, mishaps>>
      /\ health' \in {health, "FAILED"}
    BY ChainIs DEF RunDataQualityChecks, At, inputs, bounds
<1>2. /\ AtTask(runs[current])
      /\ clean => Made(7, runs[current], feed, registry, reference, archive, raised,
                       summary)
      /\ TablesOK /\ ReferenceIsOneFeed /\ mishaps \in Nat
      /\ archive \in Archives /\ feed \in AllFeeds \cup {Null}
    BY <1>1, TaskFacts DEF InputsOK
<1>3. TablesOK' /\ ReferenceIsOneFeed'
    BY <1>1, <1>2 DEF TablesOK, ReferenceIsOneFeed
<1>4. CASE PassesQuality(summary, reference, registry)
    <2>1. Becomes(Succeed(runs[current])) /\ registry \subseteq DOMAIN summary
        BY <1>4 DEF RunDataQualityChecks, PassesQuality
    <2>2. clean => Made(8, runs[current], feed, registry, reference', archive, raised,
                        summary')
        BY <1>1, <1>2, <2>1 DEF Made
    <2> QED
        BY <1>1, <1>2, <1>3, <2>1, <2>2, TaskEnds
<1>5. CASE ~PassesQuality(summary, reference, registry)
    <2>1. Becomes(Fail(runs[current])) /\ health' = "FAILED"
        BY <1>5 DEF RunDataQualityChecks
    <2>2. ~(clean /\ GoodDay)
        <3>1. ASSUME clean, GoodDay
              PROVE  FALSE
            <4>1. /\ reference = ReferenceOf(feed)
                  /\ summary = ReconcileDay(archive, ReferenceOf(feed), raised)
                BY <1>2, <3>1 DEF Made
            <4>2. feed \in AllFeeds
                BY <1>2, <3>1 DEF GoodDay, IsValidFeed
            <4>3. PassesQuality(summary, reference, registry)
                BY <1>2, <3>1, <4>1, <4>2, ReconciledPasses DEF GoodDay
            <4> QED
                BY <1>5, <4>3
        <3> QED
            BY <3>1
    <2>3. clean => Made(7, runs[current], feed, registry, reference', archive, raised,
                        summary')
        BY <1>1, <1>2 DEF Made
    <2> QED
        BY <1>1, <1>2, <1>3, <2>1, <2>2, <2>3, TaskEnds
<1> QED
    BY <1>4, <1>5

-----------------------------------------------------------------------------
(***************************************************************************)
(* The theorems.                                                           *)
(***************************************************************************)
LEMMA InitInv == Init => IInv
<1> SUFFICES ASSUME Init
             PROVE  IInv
    OBVIOUS
<1>1. /\ runs = <<>> /\ current = 0 /\ ~clean /\ clean \in BOOLEAN /\ feed = Null
      /\ reference = <<>> /\ summary = <<>>
    <2>1. clean = FALSE
        BY DEF Init
    <2> QED
        BY <2>1 DEF Init
<1>2. Len(runs) = 0 /\ runs \in Seq(Run)
    BY <1>1
<1>3. RunsInv
    BY <1>1, <1>2 DEF RunsInv
<1>4. InputsOK
    <2>1. archive \in [{} -> Energies]
        BY DEF Init
    <2>2. archive \in Archives
        BY <2>1 DEF Archives
    <2> QED
        BY <2>2 DEF Init, InputsOK
<1>5. TablesOK
    BY DEF Init, TablesOK
<1>6. changes \in Nat /\ mishaps \in Nat
    BY DEF Init
<1>7. FeedIsWhole
    BY <1>1, <1>3, <1>4, <1>5, <1>6, RunsAreTyped DEF FeedIsWhole, TypeOK
<1>8. ReferenceIsOneFeed /\ ReadInv /\ CleanInv /\ GoodInv
    BY <1>1 DEF ReferenceIsOneFeed, ReadInv, CleanInv, GoodInv
<1>9. CheckInv
    BY <1>1 DEF CheckInv, CheckFailureIsReported, At, Ended, Active
<1> QED
    BY <1>3, <1>7, <1>8, <1>9 DEF IInv

LEMMA NextInv == IInv /\ [Next]_vars => IInv'
<1> SUFFICES ASSUME IInv, [Next]_vars
             PROVE  IInv'
    OBVIOUS
<1>1. CASE Environment
    BY <1>1, Surroundings, Triggered, Cleared, Transient DEF Environment
<1>2. CASE Tasks
    BY <1>2, Checks, TimesOut, LoadReads, LoadUpserts, Computes, Reconciles, Writes,
       ChecksQuality DEF Tasks
<1>3. CASE UNCHANGED vars
    <2>1. /\ UNCHANGED <<portfolio, registry, simulator, temp, feed, archive, raised>>
          /\ UNCHANGED <<reference, summary, health, runs, current, clean, changes, mishaps>>
        BY <1>3 DEF vars, files, tables, bounds
    <2>2. TypeOK /\ feed \in AllFeeds \cup {Null}
        BY DEF IInv, FeedIsWhole
    <2>3. InputsOK'
        BY <2>1, <2>2 DEF TypeOK, InputsOK
    <2>4. clean' \in BOOLEAN /\ (clean' => clean)
        BY <2>1, <2>2, Zenon DEF TypeOK
    <2>5. changes' \in Nat
        BY <2>1, <2>2 DEF TypeOK
    <2> QED
        BY <2>1, <2>2, <2>3, <2>4, <2>5, Around
<1> QED
    BY <1>1, <1>2, <1>3 DEF Next

\* The invariant holds whatever the configurations, the feeds that are put in
\* place and the numbers of runs, retries and transient faults are.
THEOREM BatchInvariant == Spec => []IInv
    BY InitInv, NextInv, PTL DEF Spec

\* The file the sensor sees, and what the tables and the runs hold, have their
\* types: the feed is replaced as a whole.
THEOREM FeedIsWholeTheorem == Spec => []FeedIsWhole
<1>1. IInv => FeedIsWhole
    BY DEF IInv
<1> QED
    BY <1>1, BatchInvariant, PTL

\* daily_reference holds the rows of one feed, never of two.
THEOREM ReferenceIsOneFeedTheorem == Spec => []ReferenceIsOneFeed
<1>1. IInv => ReferenceIsOneFeed
    BY DEF IInv
<1> QED
    BY <1>1, BatchInvariant, PTL

\* A feed validated against a seeded registry is one the table's constraints
\* accept when it is loaded.
THEOREM ValidationImpliesAcceptedTheorem == Spec => []ValidationImpliesAccepted
<1>1. IInv => ValidationImpliesAccepted
    <2> SUFFICES ASSUME IInv, Active, runs[current].read # Null,
                        runs[current].read.expected # {}
                 PROVE  AcceptedReference(runs[current].read.rows, registry)
        BY DEF ValidationImpliesAccepted
    <2>1. PICK f \in AllFeeds :
              /\ IsValidFeed(f, runs[current].read.expected, Today)
              /\ runs[current].read.rows = ReferenceOf(f)
              /\ runs[current].read.expected \subseteq registry
        BY DEF IInv, ReadInv, ReadOf, Active
    <2> QED
        BY <2>1, ValidIsAccepted
<1> QED
    BY <1>1, BatchInvariant, PTL

\* What a triggered run leaves behind is the reconciliation of the day's feed
\* and archive, and nothing of what was there before.
THEOREM RunConvergesTheorem == Spec => []RunConverges
<1>1. IInv => RunConverges
    <2> SUFFICES ASSUME IInv, clean, runs[current].state = "success"
                 PROVE  /\ DOMAIN summary = registry
                        /\ reference = ReferenceOf(feed)
                        /\ summary = ReconcileDay(archive, ReferenceOf(feed), raised)
        BY DEF RunConverges
    <2>1. Made(8, runs[current], feed, registry, reference, archive, raised, summary)
        BY DEF IInv, CleanInv
    <2>2. DOMAIN summary \subseteq registry
        BY DEF IInv, FeedIsWhole, TypeOK, TablesOK
    <2> QED
        BY <2>1, <2>2 DEF Made
<1> QED
    BY <1>1, BatchInvariant, PTL

\* A run of a good day that ended has succeeded, when there were not more
\* transient faults than retries.
THEOREM GoodDayIsReconciledTheorem == Spec => []GoodDayIsReconciled
<1>1. IInv => GoodDayIsReconciled
    <2> SUFFICES ASSUME IInv, FaultsAreFew, clean, Ended, GoodDay
                 PROVE  runs[current].state = "success"
        BY DEF GoodDayIsReconciled, GoodDay
    <2>1. runs[current].state # "failed" /\ runs[current].state # "running"
        BY DEF IInv, GoodInv, Ended, Active
    <2>2. runs[current] \in Run
        BY DEF IInv, RunsInv, Ended
    <2> QED
        BY <2>1, <2>2 DEF Run, States
<1> QED
    BY <1>1, BatchInvariant, PTL

\* A run that the quality checks ended has left FAILED behind.
THEOREM CheckFailureIsReportedTheorem == Spec => []CheckFailureIsReported
<1>1. IInv => CheckFailureIsReported
    BY DEF IInv, CheckInv
<1> QED
    BY <1>1, BatchInvariant, PTL
=============================================================================
