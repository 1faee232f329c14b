-------------------------- MODULE AlertStoreProofs --------------------------
(***************************************************************************)
(* Theorems about AlertStore.  The inductive invariant IInv relates each   *)
(* row of `alerts` to the condition of its key and to the clock; BooksOK   *)
(* is stated of any two tables, so that the lemma about the transaction    *)
(* says what the tables it computes satisfy, whether or not PostgreSQL     *)
(* accepts them.                                                           *)
(***************************************************************************)
EXTENDS AlertStore, SequenceTheorems, TLAPS

RowOK(row, k, last, conds) ==
    /\ row \in Alert
    /\ IsActive(row) <=> row.ended = Null
    /\ IsActive(row) =>
          /\ last
          /\ k \in DOMAIN conds
          /\ IsSustained(conds[k])
          /\ row.started = conds[k].first
          /\ row.impact = ImpactOf(conds[k])
    /\ ~IsActive(row) =>
          /\ row.started + Sustain <= row.ended + Lag
          /\ row.ended <= high
          /\ k \in DOMAIN conds => conds[k].first + Lag >= row.ended

KeyOK(rows, k, conds) ==
    /\ \A n \in 1..Len(rows) : RowOK(rows[n], k, n = Len(rows), conds)
    /\ \A n \in 2..Len(rows) : rows[n].started + Lag >= rows[n - 1].ended
    /\ k \in DOMAIN conds /\ IsSustained(conds[k]) => HasActive(rows)

BooksOK(log, conds) == \A k \in Keys : KeyOK(log[k], k, conds)

ConditionsOK(conds) ==
    /\ DOMAIN conds \subseteq Keys
    /\ conds \in [DOMAIN conds -> Condition]
    /\ \A k \in DOMAIN conds :
          conds[k].first <= conds[k].last /\ conds[k].last <= high
    /\ \A j, k \in DOMAIN conds : j[1] = k[1] => j = k

\* The batch that is not committed obeys the clock.
BatchOK ==
    stage # "idle" =>
        batch \in Batch /\ batch.at <= high /\ batch.at + Lag >= high

\* Once the transaction of the batch has committed the condition table is
\* the one it wrote, and stays so until the next batch.
AppliedOK ==
    stage # "idle" /\ (stage = "written" \/ applied > 0) =>
        /\ DOMAIN conditions = Observed(batch)
        /\ \A k \in DOMAIN conditions : conditions[k].last >= batch.at

IInv ==
    /\ TypeOK
    /\ ConditionsOK(conditions)
    /\ BooksOK(alerts, conditions)
    /\ BatchOK
    /\ AppliedOK

-----------------------------------------------------------------------------
(***************************************************************************)
(* What the five statements compute.                                       *)
(***************************************************************************)
\* After steps 1 and 2 the condition table has exactly the keys the batch
\* observed (reconcile_alerts, upsert and delete).
LEMMA ReconciledConditionsValue ==
    ASSUME NEW conds, NEW b
    PROVE  ReconciledConditions(conds, b) =
              [k \in Observed(b) |->
                  IF k \in DOMAIN conds THEN SeenAgain(conds[k], b, k)
                  ELSE NewCondition(b, k)]
  BY DEF ReconciledConditions, DeleteCleared, UpsertConditions

\* The rows of one key after _RESOLVE_CLEARED_ALERTS, or after
\* _REFRESH_OPEN_ALERTS.
RowsClosed(rows, at) ==
    [n \in DOMAIN rows |->
        IF IsActive(rows[n]) THEN Closed(rows[n], at) ELSE rows[n]]

RowsRefreshed(rows, c, dates) ==
    [n \in DOMAIN rows |->
        IF IsActive(rows[n]) THEN Refreshed(rows[n], c, dates) ELSE rows[n]]

\* Steps 3 to 5 on a key the batch did not observe: its ACTIVE rows are
\* closed at the batch's clock.
LEMMA ClearedRows ==
    ASSUME NEW log \in [Keys -> Seq(Alert)], NEW conds, NEW b, NEW dates,
           NEW k \in Keys, k \notin Observed(b)
    PROVE  ReconciledAlerts(log, conds, b, dates)[k] = RowsClosed(log[k], b.at)
  <1> DEFINE C == ReconciledConditions(conds, b)
             O == OpenSustained(log, C, dates)
             F == RefreshOpen(O, C, dates)
  <1>1. k \notin DOMAIN C
    BY ReconciledConditionsValue
  <1>2. O[k] = log[k]
    BY <1>1 DEF OpenSustained
  <1>3. F[k] = [n \in DOMAIN log[k] |-> log[k][n]]
    BY <1>1, <1>2 DEF RefreshOpen
  <1>4. ResolveCleared(F, C, b.at)[k] =
           [n \in DOMAIN F[k] |->
               IF F[k][n].status = "ACTIVE" THEN Closed(F[k][n], b.at)
               ELSE F[k][n]]
    BY <1>1 DEF ResolveCleared
  <1>5. QED
    BY <1>3, <1>4 DEF ReconciledAlerts, IsActive, RowsClosed

\* Steps 3 to 5 on a key the batch observed and whose alert is open already,
\* or is not due: the ACTIVE rows get the figures of the condition.
LEMMA RefreshedRows ==
    ASSUME NEW log \in [Keys -> Seq(Alert)], NEW conds, NEW b, NEW dates,
           NEW k \in Keys, k \in Observed(b)
    PROVE  \/ Opens(ReconciledConditions(conds, b)[k], log[k])
           \/ ReconciledAlerts(log, conds, b, dates)[k] =
                 RowsRefreshed(log[k], ReconciledConditions(conds, b)[k], dates)
  <1> DEFINE C == ReconciledConditions(conds, b)
             O == OpenSustained(log, C, dates)
             F == RefreshOpen(O, C, dates)
  <1>0. SUFFICES ASSUME ~Opens(C[k], log[k])
                 PROVE  ReconciledAlerts(log, conds, b, dates)[k] =
                           RowsRefreshed(log[k], C[k], dates)
    OBVIOUS
  <1>1. k \in DOMAIN C
    BY ReconciledConditionsValue
  <1>2. O[k] = log[k]
    BY <1>0 DEF OpenSustained
  <1>3. F[k] = [n \in DOMAIN log[k] |->
                   IF log[k][n].status = "ACTIVE"
                   THEN Refreshed(log[k][n], C[k], dates) ELSE log[k][n]]
    BY <1>1, <1>2 DEF RefreshOpen
  <1>4. ResolveCleared(F, C, b.at)[k] = [n \in DOMAIN F[k] |-> F[k][n]]
    BY <1>1 DEF ResolveCleared
  <1>5. QED
    BY <1>3, <1>4 DEF ReconciledAlerts, IsActive, RowsRefreshed

\* A refresh right after the insert changes nothing.
LEMMA RefreshedNew ==
    ASSUME NEW c, NEW dates
    PROVE  Refreshed(NewAlert(c, dates), c, dates) = NewAlert(c, dates)
  <1> DEFINE new == NewAlert(c, dates)
  <1>1. new = [status |-> "ACTIVE", started |-> c.first, ended |-> Null,
               impact |-> ImpactOf(c), priced |-> HasRate(c, dates)]
    BY DEF NewAlert
  <1> HIDE DEF new
  <1>2. [new EXCEPT !.impact = ImpactOf(c)] = new
    BY <1>1
  <1>3. [new EXCEPT !.priced = HasRate(c, dates)] = new
    BY <1>1
  <1>4. Refreshed(new, c, dates) =
           [[new EXCEPT !.impact = ImpactOf(c)] EXCEPT !.priced = HasRate(c, dates)]
    BY <1>1, <1>2, <1>3 DEF Refreshed
  <1>5. QED
    BY <1>2, <1>3, <1>4 DEF new

\* Steps 3 to 5 on a key whose alert is due: the old rows, which are all
\* RESOLVED, stay and one row is added.
LEMMA OpenedRows ==
    ASSUME NEW log \in [Keys -> Seq(Alert)], NEW conds, NEW b, NEW dates,
           NEW k \in Keys, k \in Observed(b),
           Opens(ReconciledConditions(conds, b)[k], log[k])
    PROVE  ReconciledAlerts(log, conds, b, dates)[k] =
              Append(log[k], NewAlert(ReconciledConditions(conds, b)[k], dates))
  <1> DEFINE C == ReconciledConditions(conds, b)
             O == OpenSustained(log, C, dates)
             F == RefreshOpen(O, C, dates)
             new == NewAlert(C[k], dates)
  <1>1. k \in DOMAIN C
    BY ReconciledConditionsValue
  <1>2. O[k] = Append(log[k], new)
    BY <1>1 DEF OpenSustained
  <1>3. \A n \in DOMAIN log[k] : log[k][n].status # "ACTIVE"
    BY DEF Opens, HasActive
  <1>4. Refreshed(new, C[k], dates) = new
    BY RefreshedNew
  <1>5. F[k] = [n \in DOMAIN O[k] |->
                   IF O[k][n].status = "ACTIVE"
                   THEN Refreshed(O[k][n], C[k], dates) ELSE O[k][n]]
    BY <1>1 DEF RefreshOpen
  <1>6. /\ Len(log[k]) \in Nat /\ DOMAIN log[k] = 1..Len(log[k])
        /\ DOMAIN O[k] = 1..(Len(log[k]) + 1)
        /\ O[k][Len(log[k]) + 1] = new
        /\ \A n \in 1..Len(log[k]) : O[k][n] = log[k][n]
        /\ O[k] = [n \in 1..(Len(log[k]) + 1) |-> O[k][n]]
    <2> HIDE DEF new, O
    <2>1. log[k] \in Seq(Alert)
      OBVIOUS
    <2>2. QED
      BY <1>2, <2>1
  <1>7. F[k] = O[k]
    <2> HIDE DEF new, O, C, F
    <2>1. \A n \in DOMAIN O[k] :
             (IF O[k][n].status = "ACTIVE"
              THEN Refreshed(O[k][n], C[k], dates) ELSE O[k][n]) = O[k][n]
      <3> SUFFICES ASSUME NEW n \in DOMAIN O[k]
                   PROVE  \/ O[k][n].status # "ACTIVE"
                          \/ Refreshed(O[k][n], C[k], dates) = O[k][n]
        BY Zenon
      <3>1. CASE n = Len(log[k]) + 1
        BY <1>4, <1>6, <3>1
      <3>2. CASE n \in 1..Len(log[k])
        BY <1>3, <1>6, <3>2
      <3>3. QED
        BY <1>6, <3>1, <3>2
    <2>2. QED
      BY <1>5, <1>6, <2>1
  <1>8. ResolveCleared(F, C, b.at)[k] = [n \in DOMAIN F[k] |-> F[k][n]]
    BY <1>1 DEF ResolveCleared
  <1>9. QED
    <2> HIDE DEF new, O, F, C
    <2>1. [n \in DOMAIN F[k] |-> F[k][n]] = Append(log[k], new)
      BY <1>2, <1>6, <1>7
    <2>2. QED
      BY <1>8, <2>1 DEF ReconciledAlerts, new, O, F, C

-----------------------------------------------------------------------------
(***************************************************************************)
(* The tables one transaction leaves, from tables that satisfy IInv.       *)
(***************************************************************************)
\* The condition table stays well formed, and no condition is older than the
\* batch that observed it last.
LEMMA ConditionsAfter ==
    ASSUME NEW b \in Batch, ConditionsOK(conditions), high \in Nat, b.at <= high
    PROVE  /\ DOMAIN ReconciledConditions(conditions, b) = Observed(b)
           /\ ConditionsOK(ReconciledConditions(conditions, b))
           /\ \A k \in Observed(b) :
                 ReconciledConditions(conditions, b)[k].last >= b.at
  <1> DEFINE C == ReconciledConditions(conditions, b)
  <1>1. /\ DOMAIN C = Observed(b)
        /\ C = [k \in Observed(b) |-> C[k]]
        /\ \A k \in Observed(b) :
              C[k] = IF k \in DOMAIN conditions THEN SeenAgain(conditions[k], b, k)
                     ELSE NewCondition(b, k)
    BY ReconciledConditionsValue
  <1> HIDE DEF C
  <1>2. /\ b.at \in Times /\ Times \subseteq Nat
        /\ \A i \in Inverters : b.loss[i] \in Nat
    BY LifecycleAssumption DEF Batch
  <1>3. \A k \in Observed(b) :
           /\ k \in Keys
           /\ C[k] \in Condition
           /\ C[k].first <= C[k].last
           /\ C[k].last <= high
           /\ C[k].last >= b.at
    <2> SUFFICES ASSUME NEW k \in Observed(b)
                 PROVE  /\ C[k] \in Condition
                        /\ C[k].first <= C[k].last
                        /\ C[k].last <= high
                        /\ C[k].last >= b.at
      BY DEF Observed
    <2>1. b.loss[k[1]] \in Nat
      BY <1>2 DEF Observed, Keys
    <2>2. CASE k \in DOMAIN conditions
      <3>1. conditions[k] \in Condition
        BY <2>2 DEF ConditionsOK
      <3>2. C[k] = SeenAgain(conditions[k], b, k)
        BY <1>1, <2>2
      <3>3. conditions[k].first <= conditions[k].last /\ conditions[k].last <= high
        BY <2>2 DEF ConditionsOK
      <3>4. /\ C[k].first = conditions[k].first
            /\ C[k].last = Greatest(conditions[k].last, b.at)
            /\ C[k] = [first |-> C[k].first, last |-> C[k].last,
                       count |-> conditions[k].count + 1,
                       sum |-> conditions[k].sum + b.loss[k[1]]]
        BY <3>1, <3>2 DEF SeenAgain, Condition
      <3>5. /\ conditions[k].first \in Times /\ conditions[k].last \in Times
            /\ conditions[k].count + 1 \in Nat
            /\ conditions[k].sum + b.loss[k[1]] \in Nat
        BY <2>1, <3>1 DEF Condition
      <3>6. /\ C[k].last \in Times
            /\ C[k].first <= C[k].last
            /\ C[k].last <= high
            /\ C[k].last >= b.at
        <4>1. /\ conditions[k].first \in Nat /\ conditions[k].last \in Nat
              /\ b.at \in Nat
          BY <1>2, <3>5
        <4>2. QED
          BY <1>2, <3>3, <3>4, <3>5, <4>1 DEF Greatest
      <3>7. C[k] \in Condition
        BY <3>4, <3>5, <3>6 DEF Condition
      <3>8. QED
        BY <3>6, <3>7
    <2>3. CASE k \notin DOMAIN conditions
      BY <1>1, <1>2, <2>1, <2>3 DEF NewCondition, Condition
    <2>4. QED
      BY <2>2, <2>3
  <1>4. \A j, k \in Observed(b) : j[1] = k[1] => j = k
    BY DEF Observed, Keys
  <1>5. C \in [Observed(b) -> Condition]
    BY <1>1, <1>3
  <1>6. QED
    BY <1>1, <1>3, <1>4, <1>5 DEF ConditionsOK, C

\* Each key of the alerts table stays well formed.  The batch's clock may be
\* behind the high-water mark by Lag, which is where Lag enters RowOK.
LEMMA KeyAfter ==
    ASSUME IInv, stage # "idle", NEW k \in Keys
    PROVE  LET R == ReconciledAlerts(alerts, conditions, batch, loaded)
               C == ReconciledConditions(conditions, batch)
           IN  R[k] \in Seq(Alert) /\ KeyOK(R[k], k, C)
  <1> DEFINE R == ReconciledAlerts(alerts, conditions, batch, loaded)
             C == ReconciledConditions(conditions, batch)
             L == Len(alerts[k])
  <1>1. /\ batch \in Batch /\ batch.at <= high /\ batch.at + Lag >= high
        /\ high \in Nat
        /\ alerts \in [Keys -> Seq(Alert)]
        /\ KeyOK(alerts[k], k, conditions)
        /\ ConditionsOK(conditions)
    BY DEF IInv, BatchOK, TypeOK, BooksOK
  <1>2. /\ DOMAIN C = Observed(batch)
        /\ ConditionsOK(C)
        /\ \A j \in Observed(batch) : C[j].last >= batch.at
        /\ \A j \in Observed(batch) :
              C[j] = IF j \in DOMAIN conditions THEN SeenAgain(conditions[j], batch, j)
                     ELSE NewCondition(batch, j)
    BY <1>1, ConditionsAfter, ReconciledConditionsValue
  <1>3. /\ alerts[k] \in Seq(Alert) /\ L \in Nat /\ DOMAIN alerts[k] = 1..L
        /\ \A n \in 1..L : alerts[k][n] \in Alert
    BY <1>1
  <1>4. \A a \in Alert : /\ a.started \in Nat
                         /\ a.ended # Null => a.ended \in Nat
                         /\ a.ended \in Times \cup {Null}
    BY LifecycleAssumption DEF Alert
  <1>5. /\ batch.at \in Nat /\ batch.at \in Times /\ Lag \in Nat /\ Sustain \in Nat
        /\ Null \notin Nat
    BY <1>1, LifecycleAssumption, StoreAssumption DEF Batch
  <1>6. ASSUME k \in Observed(batch)
        PROVE  /\ C[k] \in Condition
               /\ C[k].first \in Nat /\ C[k].last \in Nat
               /\ C[k].first <= C[k].last /\ C[k].last <= high
               /\ ImpactOf(C[k]) \in Impact
               /\ k \in DOMAIN conditions => /\ C[k].first = conditions[k].first
                                             /\ C[k].last >= conditions[k].last
                                             /\ conditions[k] \in Condition
                                             /\ conditions[k].last \in Nat
               /\ k \notin DOMAIN conditions => C[k].first = batch.at
    <2>1. C[k] \in Condition /\ C[k].first <= C[k].last /\ C[k].last <= high
      BY <1>2, <1>6 DEF ConditionsOK
    <2>2. C[k].first \in Nat /\ C[k].last \in Nat
      BY <2>1, LifecycleAssumption DEF Condition
    <2>3. ImpactOf(C[k]) \in Impact
      BY <2>1, <2>2 DEF ImpactOf, Impact, Condition
    <2>4. ASSUME k \in DOMAIN conditions
          PROVE  /\ C[k].first = conditions[k].first
                 /\ C[k].last >= conditions[k].last
                 /\ conditions[k] \in Condition
                 /\ conditions[k].last \in Nat
      <3>1. conditions[k] \in Condition
        BY <1>1, <2>4 DEF ConditionsOK
      <3>2. C[k] = SeenAgain(conditions[k], batch, k)
        BY <1>2, <1>6, <2>4
      <3>3. conditions[k].last \in Nat
        BY <3>1, LifecycleAssumption DEF Condition
      <3>4. QED
        BY <3>1, <3>2, <3>3, <1>5 DEF SeenAgain, Condition, Greatest
    <2>5. ASSUME k \notin DOMAIN conditions
          PROVE  C[k].first = batch.at
      BY <1>2, <1>6, <2>5 DEF NewCondition
    <2>6. QED
      BY <2>1, <2>2, <2>3, <2>4, <2>5
  <1> HIDE DEF R, C
  <1>7. CASE k \notin Observed(batch)
    <2>1. R[k] = [n \in 1..L |-> IF IsActive(alerts[k][n])
                                 THEN Closed(alerts[k][n], batch.at)
                                 ELSE alerts[k][n]]
      <3>1. R[k] = RowsClosed(alerts[k], batch.at)
        BY <1>1, <1>7, ClearedRows DEF R
      <3>2. QED
        BY <1>3, <3>1 DEF RowsClosed
    <2>2. ASSUME NEW n \in 1..L
          PROVE  RowOK(R[k][n], k, n = L, C) /\ ~IsActive(R[k][n])
      <3>1. RowOK(alerts[k][n], k, n = L, conditions)
        BY <1>1 DEF KeyOK
      <3>2. CASE IsActive(alerts[k][n])
        <4> DEFINE a == alerts[k][n]
        <4>1. R[k][n] = Closed(a, batch.at)
          BY <2>1, <3>2
        <4>2. /\ a \in Alert
              /\ a.started = conditions[k].first
              /\ k \in DOMAIN conditions
              /\ conditions[k].last - conditions[k].first >= Sustain
          BY <3>1, <3>2 DEF RowOK, IsSustained
        <4>3. /\ conditions[k].first \in Nat /\ conditions[k].last \in Nat
              /\ conditions[k].last <= high
          BY <1>1, <4>2, LifecycleAssumption DEF ConditionsOK, Condition
        <4>4. /\ R[k][n] \in Alert
              /\ R[k][n].status = "RESOLVED"
              /\ R[k][n].started = a.started
              /\ R[k][n].ended = batch.at
          BY <4>1, <4>2, <1>5 DEF Closed, Alert
        <4>5. a.started + Sustain <= batch.at + Lag
          BY <4>2, <4>3, <1>1, <1>5
        <4>6. QED
          BY <1>1, <1>2, <1>5, <1>7, <4>4, <4>5 DEF RowOK, IsActive
      <3>3. CASE ~IsActive(alerts[k][n])
        BY <2>1, <3>1, <3>3, <1>2, <1>7 DEF RowOK
      <3>4. QED
        BY <3>2, <3>3
    <2>3. R[k] \in Seq(Alert) /\ Len(R[k]) = L
      <3>1. \A n \in 1..L : R[k][n] \in Alert
        BY <2>2 DEF RowOK
      <3>2. DOMAIN R[k] = 1..L /\ R[k] = [n \in 1..L |-> R[k][n]]
        BY <2>1
      <3>3. R[k] \in [1..L -> Alert]
        BY <3>1, <3>2
      <3>4. QED
        BY <1>3, <3>3
    <2>4. ASSUME NEW n \in 2..L
          PROVE  R[k][n].started + Lag >= R[k][n - 1].ended
      <3>1. n \in 1..L /\ n - 1 \in 1..L /\ n - 1 # L
        BY <1>3
      <3>2. ~IsActive(alerts[k][n - 1])
        BY <1>1, <3>1 DEF KeyOK, RowOK
      <3>3. R[k][n - 1] = alerts[k][n - 1]
        BY <2>1, <3>1, <3>2
      <3>4. R[k][n].started = alerts[k][n].started
        BY <2>1, <3>1, <1>3 DEF Closed, Alert
      <3>5. QED
        BY <1>1, <3>3, <3>4 DEF KeyOK
    <2>5. QED
      BY <2>2, <2>3, <2>4, <1>2, <1>7 DEF KeyOK, R, C
  <1>8. CASE k \in Observed(batch) /\ ~Opens(C[k], alerts[k])
    <2>1. R[k] = [n \in 1..L |-> IF IsActive(alerts[k][n])
                                 THEN Refreshed(alerts[k][n], C[k], loaded)
                                 ELSE alerts[k][n]]
      <3>1. R[k] = RowsRefreshed(alerts[k], C[k], loaded)
        BY <1>1, <1>8, RefreshedRows DEF R, C
      <3>2. QED
        BY <1>3, <3>1 DEF RowsRefreshed
    <2>2. ASSUME NEW n \in 1..L
          PROVE  /\ RowOK(R[k][n], k, n = L, C)
                 /\ IsActive(R[k][n]) <=> IsActive(alerts[k][n])
                 /\ R[k][n].started = alerts[k][n].started
                 /\ R[k][n].ended = alerts[k][n].ended
      <3>1. RowOK(alerts[k][n], k, n = L, conditions)
        BY <1>1 DEF KeyOK
      <3>2. CASE IsActive(alerts[k][n])
        <4> DEFINE a == alerts[k][n]
        <4>1. R[k][n] = Refreshed(a, C[k], loaded)
          BY <2>1, <3>2
        <4>2. /\ a \in Alert /\ a.status = "ACTIVE" /\ a.ended = Null /\ n = L
              /\ a.started = conditions[k].first
              /\ k \in DOMAIN conditions
              /\ conditions[k].last - conditions[k].first >= Sustain
          BY <3>1, <3>2 DEF RowOK, IsSustained, IsActive
        <4>3. /\ R[k][n] \in Alert
              /\ R[k][n].status = "ACTIVE"
              /\ R[k][n].started = a.started
              /\ R[k][n].ended = a.ended
              /\ R[k][n].impact = ImpactOf(C[k])
          <5>1. HasRate(C[k], loaded) \in BOOLEAN
            BY DEF HasRate
          <5> DEFINE i == ImpactOf(C[k])
                     p == HasRate(C[k], loaded)
          <5>2. i \in Impact /\ p \in BOOLEAN
            BY <1>6, <1>8, <5>1
          <5>3. R[k][n] = [[a EXCEPT !.impact = i] EXCEPT !.priced = p]
            BY <4>1 DEF Refreshed
          <5> HIDE DEF i, p
          <5>4. QED
            BY <4>2, <5>2, <5>3 DEF Alert, i
        <4>4. k \in DOMAIN C /\ IsSustained(C[k]) /\ C[k].first = conditions[k].first
          BY <1>2, <1>5, <1>6, <1>8, <4>2 DEF IsSustained
        <4>5. QED
          BY <4>2, <4>3, <4>4 DEF RowOK, IsActive
      <3>3. CASE ~IsActive(alerts[k][n])
        <4> DEFINE a == alerts[k][n]
        <4>1. R[k][n] = a
          BY <2>1, <3>3
        <4>2. a \in Alert /\ a.ended # Null /\ a.ended \in Nat
          BY <3>1, <3>3, <1>4 DEF RowOK
        <4>3. a.ended <= high
          BY <3>1, <3>3 DEF RowOK
        <4>4. C[k].first + Lag >= a.ended
          <5>1. CASE k \in DOMAIN conditions
            BY <5>1, <3>1, <3>3, <1>6, <1>8 DEF RowOK
          <5>2. CASE k \notin DOMAIN conditions
            BY <5>2, <1>1, <1>5, <1>6, <1>8, <4>2, <4>3
          <5>3. QED
            BY <5>1, <5>2
        <4>5. QED
          BY <3>1, <3>3, <4>1, <4>4 DEF RowOK
      <3>4. QED
        BY <3>2, <3>3
    <2>3. R[k] \in Seq(Alert) /\ Len(R[k]) = L
      <3>1. \A n \in 1..L : R[k][n] \in Alert
        BY <2>2 DEF RowOK
      <3>2. DOMAIN R[k] = 1..L /\ R[k] = [n \in 1..L |-> R[k][n]]
        BY <2>1
      <3>3. R[k] \in [1..L -> Alert]
        BY <3>1, <3>2
      <3>4. QED
        BY <1>3, <3>3
    <2>4. ASSUME NEW n \in 2..L
          PROVE  R[k][n].started + Lag >= R[k][n - 1].ended
      <3>1. n \in 1..L /\ n - 1 \in 1..L
        BY <1>3
      <3>2. alerts[k][n].started + Lag >= alerts[k][n - 1].ended
        BY <1>1 DEF KeyOK
      <3>3. QED
        BY <2>2, <3>1, <3>2
    <2>5. IsSustained(C[k]) => HasActive(R[k])
      <3> SUFFICES ASSUME IsSustained(C[k]) PROVE HasActive(R[k])
        OBVIOUS
      <3>1. PICK n \in 1..L : alerts[k][n].status = "ACTIVE"
        BY <1>3, <1>8 DEF Opens, HasActive
      <3>2. R[k][n].status = "ACTIVE"
        BY <2>2, <3>1 DEF IsActive
      <3>3. QED
        BY <2>3, <3>2, <1>3 DEF HasActive
    <2>6. QED
      BY <2>2, <2>3, <2>4, <2>5 DEF KeyOK, R, C
  <1>9. CASE k \in Observed(batch) /\ Opens(C[k], alerts[k])
    <2> DEFINE new == NewAlert(C[k], loaded)
    <2>1. R[k] = Append(alerts[k], new)
      BY <1>1, <1>9, OpenedRows DEF R, C
    <2>2. /\ new \in Alert /\ new.status = "ACTIVE" /\ new.ended = Null
          /\ new.started = C[k].first /\ new.impact = ImpactOf(C[k])
      BY <1>6, <1>9 DEF NewAlert, Alert, HasRate, Condition
    <2> HIDE DEF new
    <2>3. /\ R[k] \in Seq(Alert) /\ Len(R[k]) = L + 1
          /\ R[k][L + 1] = new
          /\ \A n \in 1..L : R[k][n] = alerts[k][n]
      BY <2>1, <2>2, <1>3
    <2>4. IsSustained(C[k]) /\ k \in DOMAIN C
      BY <1>2, <1>9 DEF Opens
    <2>5. ASSUME NEW n \in 1..L
          PROVE  /\ RowOK(alerts[k][n], k, n = L + 1, C)
                 /\ ~IsActive(alerts[k][n])
                 /\ C[k].first + Lag >= alerts[k][n].ended
      <3>1. RowOK(alerts[k][n], k, n = L, conditions)
        BY <1>1 DEF KeyOK
      <3>2. ~IsActive(alerts[k][n])
        BY <1>3, <1>9 DEF Opens, HasActive, IsActive
      <3> DEFINE a == alerts[k][n]
      <3>3. a \in Alert /\ a.ended # Null /\ a.ended \in Nat /\ a.ended <= high
        BY <3>1, <3>2, <1>4 DEF RowOK
      <3>4. C[k].first + Lag >= a.ended
        <4>1. CASE k \in DOMAIN conditions
          BY <4>1, <3>1, <3>2, <1>6, <1>9 DEF RowOK
        <4>2. CASE k \notin DOMAIN conditions
          BY <4>2, <1>1, <1>5, <1>6, <1>9, <3>3
        <4>3. QED
          BY <4>1, <4>2
      <3>5. QED
        BY <3>1, <3>2, <3>4 DEF RowOK
    <2>6. RowOK(new, k, TRUE, C)
      BY <2>2, <2>4 DEF RowOK, IsActive
    <2>7. \A n \in 1..Len(R[k]) : RowOK(R[k][n], k, n = Len(R[k]), C)
      <3> SUFFICES ASSUME NEW n \in 1..(L + 1)
                   PROVE  RowOK(R[k][n], k, n = L + 1, C)
        BY <2>3
      <3>1. CASE n = L + 1
        <4>1. (n = L + 1) = TRUE
          BY <3>1
        <4>2. QED
          BY <2>3, <2>6, <3>1, <4>1 DEF RowOK
      <3>2. CASE n \in 1..L
        BY <2>3, <2>5, <3>2
      <3>3. QED
        BY <3>1, <3>2, <1>3
    <2>8. ASSUME NEW n \in 2..(L + 1)
          PROVE  R[k][n].started + Lag >= R[k][n - 1].ended
      <3>1. CASE n = L + 1
        BY <3>1, <2>2, <2>3, <2>5, <1>3
      <3>2. CASE n \in 2..L
        <4>1. n \in 1..L /\ n - 1 \in 1..L
          BY <3>2, <1>3
        <4>2. QED
          BY <4>1, <3>2, <2>3, <1>1 DEF KeyOK
      <3>3. QED
        BY <3>1, <3>2, <1>3
    <2>9. HasActive(R[k])
      BY <2>2, <2>3, <1>3 DEF HasActive
    <2>10. QED
      BY <2>3, <2>7, <2>8, <2>9 DEF KeyOK, R, C
  <1>10. QED
    BY <1>7, <1>8, <1>9

\* The whole transaction.
LEMMA TablesAfter ==
    ASSUME IInv, stage # "idle"
    PROVE  LET R == ReconciledAlerts(alerts, conditions, batch, loaded)
               C == ReconciledConditions(conditions, batch)
           IN  /\ R \in [Keys -> Seq(Alert)]
               /\ BooksOK(R, C)
               /\ ConditionsOK(C)
               /\ DOMAIN C = Observed(batch)
               /\ \A k \in Observed(batch) : C[k].last >= batch.at
  <1> DEFINE R == ReconciledAlerts(alerts, conditions, batch, loaded)
             C == ReconciledConditions(conditions, batch)
  <1>1. R = [k \in Keys |-> R[k]]
    BY DEF ReconciledAlerts, ResolveCleared
  <1>2. \A k \in Keys : R[k] \in Seq(Alert) /\ KeyOK(R[k], k, C)
    BY KeyAfter
  <1>3. /\ batch \in Batch /\ batch.at <= high /\ high \in Nat
        /\ ConditionsOK(conditions)
    BY DEF IInv, BatchOK, TypeOK
  <1>4. /\ DOMAIN C = Observed(batch)
        /\ ConditionsOK(C)
        /\ \A k \in Observed(batch) : C[k].last >= batch.at
    BY <1>3, ConditionsAfter
  <1> HIDE DEF R, C
  <1>5. R \in [Keys -> Seq(Alert)]
    BY <1>1, <1>2
  <1>6. BooksOK(R, C)
    BY <1>2 DEF BooksOK
  <1>7. QED
    BY <1>4, <1>5, <1>6 DEF R, C

\* Tables that are well formed satisfy the constraints of migration 003, if
\* the clock cannot step back by more than the sustain time.
LEMMA WellFormedIsAccepted ==
    ASSUME Lag <= Sustain,
           NEW log \in [Keys -> Seq(Alert)], NEW conds, BooksOK(log, conds)
    PROVE  Accepted(log)
  <1> SUFFICES ASSUME NEW k \in Keys
               PROVE  /\ \A n \in DOMAIN log[k] :
                            EndMatchesStatus(log[k][n]) /\ IntervalOrdered(log[k][n])
                      /\ SingleActive(log[k])
    BY DEF Accepted
  <1>1. /\ log[k] \in Seq(Alert) /\ DOMAIN log[k] = 1..Len(log[k])
        /\ KeyOK(log[k], k, conds)
    BY DEF BooksOK
  <1>2. ASSUME NEW n \in 1..Len(log[k])
        PROVE  EndMatchesStatus(log[k][n]) /\ IntervalOrdered(log[k][n])
    <2> DEFINE a == log[k][n]
    <2>1. RowOK(a, k, n = Len(log[k]), conds)
      BY <1>1 DEF KeyOK
    <2>2. /\ a.status \in {"ACTIVE", "RESOLVED"}
          /\ a.started \in Nat
          /\ a.ended # Null => a.ended \in Nat
      BY <2>1, LifecycleAssumption DEF RowOK, Alert
    <2>3. EndMatchesStatus(a)
      BY <2>1, <2>2 DEF RowOK, EndMatchesStatus, IsActive
    <2>4. IntervalOrdered(a)
      <3> SUFFICES ASSUME a.ended # Null PROVE a.ended >= a.started
        BY DEF IntervalOrdered
      <3>1. a.started + Sustain <= a.ended + Lag
        BY <2>1 DEF RowOK
      <3>2. a.ended \in Nat /\ a.started \in Nat /\ Lag \in Nat /\ Sustain \in Nat
        BY <2>2, LifecycleAssumption, StoreAssumption
      <3> HIDE DEF a
      <3>3. QED
        BY <3>1, <3>2
    <2>5. QED
      BY <2>3, <2>4
  <1>3. SingleActive(log[k])
    BY <1>1 DEF SingleActive, KeyOK, RowOK, IsActive
  <1>4. QED
    BY <1>1, <1>2, <1>3

-----------------------------------------------------------------------------
(***************************************************************************)
(* The inductive invariant.                                                *)
(***************************************************************************)
\* IInv holds of the empty tables.
LEMMA InitIInv == Init => IInv
  <1> SUFFICES ASSUME Init PROVE IInv
    OBVIOUS
  <1>1. TypeOK
    BY LifecycleAssumption DEF Init, TypeOK, Stages
  <1>2. ConditionsOK(conditions)
    BY DEF Init, ConditionsOK
  <1>3. BooksOK(alerts, conditions)
    BY DEF Init, BooksOK, KeyOK
  <1>4. BatchOK /\ AppliedOK
    BY DEF Init, BatchOK, AppliedOK
  <1>5. QED
    BY <1>1, <1>2, <1>3, <1>4 DEF IInv

\* IInv is kept by a larger high-water mark.
LEMMA HigherMark ==
    ASSUME IInv, high' \in Nat, high' >= high, UNCHANGED <<conditions, alerts>>
    PROVE  ConditionsOK(conditions)' /\ BooksOK(alerts, conditions)'
  <1>1. /\ high \in Nat
        /\ ConditionsOK(conditions)
        /\ BooksOK(alerts, conditions)
        /\ alerts \in [Keys -> Seq(Alert)]
    BY DEF IInv, TypeOK
  <1>2. ConditionsOK(conditions)'
    <2>1. \A k \in DOMAIN conditions : conditions[k].last \in Nat
      BY <1>1, LifecycleAssumption DEF ConditionsOK, Condition
    <2>2. \A k \in DOMAIN conditions : conditions[k].last <= high'
      BY <1>1, <2>1 DEF ConditionsOK
    <2>3. QED
      BY <1>1, <2>2 DEF ConditionsOK
  <1>3. ASSUME NEW k \in Keys, NEW n \in 1..Len(alerts[k])
        PROVE  RowOK(alerts[k][n], k, n = Len(alerts[k]), conditions)'
    <2> DEFINE a == alerts[k][n]
    <2>1. RowOK(a, k, n = Len(alerts[k]), conditions)
      BY <1>1 DEF BooksOK, KeyOK
    <2>2. ~IsActive(a) => a.ended \in Nat
      BY <2>1, LifecycleAssumption DEF RowOK, Alert
    <2>3. ~IsActive(a) => a.ended <= high'
      BY <1>1, <2>1, <2>2 DEF RowOK
    <2>4. QED
      BY <2>1, <2>3 DEF RowOK
  <1>4. BooksOK(alerts, conditions)'
    <2> SUFFICES ASSUME NEW k \in Keys PROVE KeyOK(alerts[k], k, conditions)'
      BY DEF BooksOK
    <2>1. KeyOK(alerts[k], k, conditions)
      BY <1>1 DEF BooksOK
    <2>2. QED
      BY <1>3, <2>1 DEF KeyOK
  <1>5. QED
    BY <1>2, <1>4

\* Every step of the store keeps IInv.
LEMMA NextIInv == IInv /\ [Next]_vars => IInv'
  <1> SUFFICES ASSUME IInv, [Next]_vars PROVE IInv'
    OBVIOUS
  <1>0. /\ TypeOK /\ ConditionsOK(conditions) /\ BooksOK(alerts, conditions)
        /\ BatchOK /\ AppliedOK
    BY DEF IInv
  <1>1. CASE PlanBatch
    <2>1. PICK b \in Batch : /\ b.at + Lag >= high
                             /\ batch' = b
                             /\ high' = Greatest(high, b.at)
      BY <1>1 DEF PlanBatch
    <2>2. b.at \in Nat /\ high \in Nat /\ Lag \in Nat
      BY <1>0, LifecycleAssumption, StoreAssumption DEF TypeOK, Batch
    <2>3. high' \in Nat /\ high' >= high /\ b.at <= high' /\ b.at + Lag >= high'
      BY <2>1, <2>2 DEF Greatest
    <2>4. ConditionsOK(conditions)' /\ BooksOK(alerts, conditions)'
      BY <1>1, <2>3, HigherMark DEF PlanBatch
    <2>5. TypeOK'
      BY <1>0, <1>1, <2>1, <2>3 DEF PlanBatch, TypeOK, Stages
    <2>6. BatchOK'
      BY <2>1, <2>3 DEF BatchOK
    <2>7. AppliedOK'
      BY <1>1 DEF PlanBatch, AppliedOK
    <2>8. QED
      BY <2>4, <2>5, <2>6, <2>7 DEF IInv
  <1>2. CASE Reconcile
    <2> DEFINE R == ReconciledAlerts(alerts, conditions, batch, loaded)
               C == ReconciledConditions(conditions, batch)
    <2>1. /\ R \in [Keys -> Seq(Alert)]
          /\ BooksOK(R, C)
          /\ ConditionsOK(C)
          /\ DOMAIN C = Observed(batch)
          /\ \A k \in Observed(batch) : C[k].last >= batch.at
      BY <1>2, TablesAfter DEF Reconcile
    <2>2. /\ alerts' = R /\ conditions' = C /\ stage' = "written"
          /\ applied' = applied + 1
          /\ UNCHANGED <<loaded, high, batch, planned, crashes>>
          /\ stage = "planned"
      BY <1>2 DEF Reconcile
    <2> HIDE DEF R, C
    <2>3. TypeOK'
      BY <1>0, <2>1, <2>2 DEF TypeOK, ConditionsOK, Stages
    <2>4. ConditionsOK(conditions)'
      BY <2>1, <2>2 DEF ConditionsOK
    <2>5. BooksOK(alerts, conditions)'
      BY <2>1, <2>2 DEF BooksOK, KeyOK, RowOK
    <2>6. BatchOK'
      BY <1>0, <2>2 DEF BatchOK
    <2>7. AppliedOK'
      BY <2>1, <2>2 DEF AppliedOK, Observed
    <2>8. QED
      BY <2>3, <2>4, <2>5, <2>6, <2>7 DEF IInv
  <1>3. ASSUME UNCHANGED <<conditions, alerts, high, applied>>,
               TypeOK',
               stage' = "idle" \/ /\ UNCHANGED batch
                                  /\ stage # "idle"
                                  /\ stage' = "written" => stage = "written"
        PROVE  IInv'
    <2>1. ConditionsOK(conditions)' /\ BooksOK(alerts, conditions)'
      <3>1. high' \in Nat /\ high' >= high
        BY <1>0, <1>3 DEF TypeOK
      <3>2. QED
        BY <1>3, <3>1, HigherMark
    <2>2. BatchOK' /\ AppliedOK'
      BY <1>0, <1>3 DEF BatchOK, AppliedOK, Observed
    <2>3. QED
      BY <1>3, <2>1, <2>2 DEF IInv
  <1>4. CASE Reject
    <2>1. TypeOK'
      BY <1>0, <1>4 DEF Reject, TypeOK, Stages
    <2>2. QED
      BY <1>3, <1>4, <2>1 DEF Reject
  <1>5. CASE Restart
    <2>1. TypeOK'
      BY <1>0, <1>5 DEF Restart, TypeOK, Stages
    <2>2. QED
      BY <1>3, <1>5, <2>1 DEF Restart
  <1>6. CASE CommitOffsets
    <2>1. TypeOK'
      BY <1>0, <1>6 DEF CommitOffsets, TypeOK, Stages
    <2>2. QED
      BY <1>3, <1>6, <2>1 DEF CommitOffsets
  <1>7. CASE Crash
    <2>1. TypeOK'
      BY <1>0, <1>7 DEF Crash, TypeOK, Stages
    <2>2. QED
      BY <1>3, <1>7, <2>1 DEF Crash
  <1>8. CASE LoadReference
    <2>1. TypeOK'
      BY <1>0, <1>8 DEF LoadReference, TypeOK, Stages
    <2>2. QED
      BY <1>3, <1>8, <2>1 DEF LoadReference
  <1>9. CASE UNCHANGED vars
    <2>1. TypeOK'
      BY <1>0, <1>9 DEF vars, TypeOK, Stages
    <2>2. QED
      BY <1>3, <1>9, <2>1 DEF vars
  <1>10. CASE EmptyBatch
    BY <1>9, <1>10 DEF EmptyBatch
  <1>11. QED
    BY <1>1, <1>2, <1>4, <1>5, <1>6, <1>7, <1>8, <1>9, <1>10 DEF Next

\* IInv is an invariant of the store, for every fleet, every set of alert
\* types, every sustain time and every bound on the clock.
THEOREM StoreInvariant == Spec => []IInv
  BY InitIInv, NextIInv, PTL DEF Spec

\* The tables always have the types of their schema (migrations 003 and 006).
THEOREM TypeCorrect == Spec => []TypeOK
  <1>1. IInv => TypeOK
    BY DEF IInv
  <1>2. QED
    BY <1>1, StoreInvariant, PTL

-----------------------------------------------------------------------------
(***************************************************************************)
(* The safety properties.                                                  *)
(***************************************************************************)
\* A key has an ACTIVE alert exactly while its condition is sustained, and the
\* alert starts with the condition.
THEOREM AlertsAlwaysMatchConditions == Spec => []AlertsMatchConditions
  <1>1. IInv => AlertsMatchConditions
    <2> SUFFICES ASSUME IInv, NEW k \in Keys
                 PROVE  /\ HasActive(alerts[k]) <=>
                              k \in DOMAIN conditions /\ IsSustained(conditions[k])
                        /\ \A n \in DOMAIN alerts[k] :
                              IsActive(alerts[k][n]) =>
                                  alerts[k][n].started = conditions[k].first
      BY DEF AlertsMatchConditions
    <2>1. /\ DOMAIN alerts[k] = 1..Len(alerts[k])
          /\ KeyOK(alerts[k], k, conditions)
      BY DEF IInv, BooksOK, TypeOK
    <2>2. QED
      BY <2>1 DEF KeyOK, RowOK, HasActive, IsActive
  <1>2. QED
    BY <1>1, StoreInvariant, PTL

\* No batch is refused by the alerts table's constraints, as long as the clock
\* cannot step back by more than the sustain time.
THEOREM NeverRejectedTheorem ==
    ASSUME Lag <= Sustain
    PROVE  Spec => []NeverRejected
  <1> DEFINE J == IInv /\ NeverRejected
  <1>1. Init => J
    BY InitIInv DEF Init, NeverRejected
  <1>2. J /\ [Next]_vars => J'
    <2> SUFFICES ASSUME IInv, NeverRejected, [Next]_vars
                 PROVE  NeverRejected'
      BY NextIInv
    <2>1. ~Reject
      <3>1. stage = "planned" =>
               Accepted(ReconciledAlerts(alerts, conditions, batch, loaded))
        BY TablesAfter, WellFormedIsAccepted
      <3>2. QED
        BY <3>1 DEF Reject
    <2>2. QED
      BY <2>1 DEF Next, vars, NeverRejected, PlanBatch, Reconcile, Restart,
                  CommitOffsets, Crash, EmptyBatch, LoadReference
  <1>3. QED
    BY <1>1, <1>2, PTL DEF Spec

\* An inverter has one ACTIVE alert at most, over all alert types.
THEOREM OneFaultPerInverterTheorem == Spec => []OneFaultPerInverter
  <1>1. IInv /\ AlertsMatchConditions => OneFaultPerInverter
    BY DEF IInv, ConditionsOK, AlertsMatchConditions, OneFaultPerInverter
  <1>2. QED
    BY <1>1, StoreInvariant, AlertsAlwaysMatchConditions, PTL

\* A closed incident lasted for Sustain, less Lag.
THEOREM IncidentsAreSustainedTheorem == Spec => []IncidentsAreSustained
  <1>1. IInv => IncidentsAreSustained
    <2> SUFFICES ASSUME IInv, NEW k \in Keys, NEW n \in DOMAIN alerts[k],
                        ~IsActive(alerts[k][n])
                 PROVE  alerts[k][n].ended + Lag >= alerts[k][n].started + Sustain
      BY DEF IncidentsAreSustained
    <2>1. /\ n \in 1..Len(alerts[k])
          /\ RowOK(alerts[k][n], k, n = Len(alerts[k]), conditions)
      BY DEF IInv, BooksOK, KeyOK, TypeOK
    <2>2. /\ alerts[k][n].started \in Nat /\ alerts[k][n].ended \in Nat
          /\ alerts[k][n].started + Sustain <= alerts[k][n].ended + Lag
      BY <2>1, LifecycleAssumption DEF RowOK, Alert
    <2>3. QED
      BY <2>2, LifecycleAssumption, StoreAssumption
  <1>2. QED
    BY <1>1, StoreInvariant, PTL

\* The incidents of a key follow one another.
THEOREM IncidentsInOrderTheorem == Spec => []IncidentsInOrder
  <1>1. IInv => IncidentsInOrder
    <2> SUFFICES ASSUME IInv, NEW k \in Keys, NEW n \in 2..Len(alerts[k])
                 PROVE  /\ ~IsActive(alerts[k][n - 1])
                        /\ alerts[k][n].started + Lag >= alerts[k][n - 1].ended
      BY DEF IncidentsInOrder
    <2>1. /\ Len(alerts[k]) \in Nat
          /\ KeyOK(alerts[k], k, conditions)
      BY DEF IInv, BooksOK, TypeOK
    <2>2. n - 1 \in 1..Len(alerts[k]) /\ n - 1 # Len(alerts[k])
      BY <2>1
    <2>3. QED
      BY <2>1, <2>2 DEF KeyOK, RowOK
  <1>2. QED
    BY <1>1, StoreInvariant, PTL

\* The figures of an open alert are those of its condition.
THEOREM ImpactIsCurrentTheorem == Spec => []ImpactIsCurrent
  <1>1. IInv => ImpactIsCurrent
    <2> SUFFICES ASSUME IInv, NEW k \in DOMAIN conditions,
                        NEW n \in DOMAIN alerts[k], IsActive(alerts[k][n])
                 PROVE  alerts[k][n].impact = ImpactOf(conditions[k])
      BY DEF ImpactIsCurrent
    <2>1. k \in Keys /\ n \in 1..Len(alerts[k])
      BY DEF IInv, TypeOK
    <2>2. QED
      BY <2>1 DEF IInv, BooksOK, KeyOK, RowOK
  <1>2. QED
    BY <1>1, StoreInvariant, PTL

\* Once a batch is written, no alert is open for a fault it did not observe.
THEOREM NoStaleAlertTheorem == Spec => []NoStaleAlert
  <1>1. IInv /\ AlertsMatchConditions => NoStaleAlert
    BY DEF IInv, AppliedOK, AlertsMatchConditions, NoStaleAlert
  <1>2. QED
    BY <1>1, StoreInvariant, AlertsAlwaysMatchConditions, PTL

-----------------------------------------------------------------------------
(***************************************************************************)
(* The action properties.                                                  *)
(***************************************************************************)
\* What a transaction does to the rows a key had: it adds at most one after
\* them, and changes neither the start of any nor anything of a RESOLVED one.
LEMMA OldRowsAfter ==
    ASSUME IInv, stage # "idle", NEW k \in Keys
    PROVE  LET R == ReconciledAlerts(alerts, conditions, batch, loaded)
           IN  /\ Len(R[k]) >= Len(alerts[k])
               /\ \A n \in DOMAIN alerts[k] :
                     /\ R[k][n].started = alerts[k][n].started
                     /\ ~IsActive(alerts[k][n]) => R[k][n] = alerts[k][n]
  <1> DEFINE R == ReconciledAlerts(alerts, conditions, batch, loaded)
             C == ReconciledConditions(conditions, batch)
             L == Len(alerts[k])
  <1>1. /\ alerts \in [Keys -> Seq(Alert)] /\ L \in Nat
        /\ alerts[k] \in Seq(Alert) /\ DOMAIN alerts[k] = 1..L
        /\ \A n \in 1..L : alerts[k][n] \in Alert
    BY DEF IInv, TypeOK
  <1> HIDE DEF R, C
  <1>2. CASE k \notin Observed(batch)
    <2>1. R[k] = RowsClosed(alerts[k], batch.at)
      BY <1>1, <1>2, ClearedRows DEF R
    <2>2. \A a \in Alert : Closed(a, batch.at).started = a.started
      BY DEF Closed, Alert
    <2>3. DOMAIN R[k] = 1..L
      BY <1>1, <2>1 DEF RowsClosed
    <2>4. Len(R[k]) = L
      BY <1>1, <2>1, <2>3, KeyAfter DEF R
    <2>5. QED
      BY <1>1, <2>1, <2>2, <2>4 DEF RowsClosed, R
  <1>3. CASE k \in Observed(batch) /\ ~Opens(C[k], alerts[k])
    <2>1. R[k] = RowsRefreshed(alerts[k], C[k], loaded)
      BY <1>1, <1>3, RefreshedRows DEF R, C
    <2>2. \A a \in Alert : Refreshed(a, C[k], loaded).started = a.started
      BY DEF Refreshed, Alert
    <2>3. DOMAIN R[k] = 1..L
      BY <1>1, <2>1 DEF RowsRefreshed
    <2>4. Len(R[k]) = L
      BY <1>1, <2>1, <2>3, KeyAfter DEF R
    <2>5. QED
      BY <1>1, <2>1, <2>2, <2>4 DEF RowsRefreshed, R
  <1>4. CASE k \in Observed(batch) /\ Opens(C[k], alerts[k])
    <2>1. R[k] = Append(alerts[k], NewAlert(C[k], loaded))
      BY <1>1, <1>4, OpenedRows DEF R, C
    <2>2. QED
      BY <1>1, <2>1 DEF R
  <1>5. QED
    BY <1>2, <1>3, <1>4

\* Rows are never deleted, RESOLVED rows never change, and no start moves.
THEOREM HistoryIsKeptTheorem == Spec => HistoryIsKept
  <1>1. IInv /\ [Next]_vars => [HistoryKept]_vars
    <2> SUFFICES ASSUME IInv, Next PROVE HistoryKept
      OBVIOUS
    <2>1. CASE UNCHANGED alerts
      <3>1. \A k \in Keys : Len(alerts[k]) \in Nat
        BY DEF IInv, TypeOK
      <3>2. QED
        BY <2>1, <3>1 DEF HistoryKept
    <2>2. CASE Reconcile
      <3>1. stage # "idle" /\
            alerts' = ReconciledAlerts(alerts, conditions, batch, loaded)
        BY <2>2 DEF Reconcile
      <3>2. QED
        BY <3>1, OldRowsAfter DEF HistoryKept
    <2>3. QED
      BY <2>1, <2>2 DEF Next, vars, PlanBatch, Reject, Restart, CommitOffsets,
                        Crash, EmptyBatch, LoadReference
  <1>2. QED
    BY <1>1, StoreInvariant, PTL DEF Spec, HistoryIsKept

\* Running the transaction of a batch a second time changes the lifecycle of
\* no alert: the condition table is the one the first run left, so nothing is
\* due that is not open, and nothing is open that is not observed.
LEMMA ReplayedKey ==
    ASSUME IInv, stage = "planned", applied > 0, NEW k \in Keys
    PROVE  LET R == ReconciledAlerts(alerts, conditions, batch, loaded)
           IN  /\ Len(R[k]) = Len(alerts[k])
               /\ \A n \in DOMAIN alerts[k] :
                     Lifecycle(R[k][n]) = Lifecycle(alerts[k][n])
  <1> DEFINE R == ReconciledAlerts(alerts, conditions, batch, loaded)
             C == ReconciledConditions(conditions, batch)
             L == Len(alerts[k])
  <1>1. /\ alerts \in [Keys -> Seq(Alert)] /\ L \in Nat
        /\ alerts[k] \in Seq(Alert) /\ DOMAIN alerts[k] = 1..L
        /\ \A n \in 1..L : alerts[k][n] \in Alert
        /\ KeyOK(alerts[k], k, conditions)
    BY DEF IInv, TypeOK, BooksOK
  <1>2. /\ DOMAIN conditions = Observed(batch)
        /\ \A j \in DOMAIN conditions : conditions[j].last >= batch.at
    BY DEF IInv, AppliedOK
  <1>3. /\ R[k] \in Seq(Alert)
        /\ \A j \in Observed(batch) : C[j] = SeenAgain(conditions[j], batch, j)
    BY <1>2, KeyAfter, ReconciledConditionsValue
  <1> HIDE DEF R, C
  <1>4. CASE k \notin Observed(batch)
    <2>1. R[k] = RowsClosed(alerts[k], batch.at)
      BY <1>1, <1>4, ClearedRows DEF R
    <2>2. \A n \in 1..L : ~IsActive(alerts[k][n])
      BY <1>1, <1>2, <1>4 DEF KeyOK, RowOK
    <2>3. R[k] = [n \in 1..L |-> alerts[k][n]]
      BY <1>1, <2>1, <2>2 DEF RowsClosed
    <2>4. QED
      BY <1>1, <1>3, <2>3 DEF R
  <1>5. CASE k \in Observed(batch)
    <2>1. /\ conditions[k].last \in Nat /\ conditions[k].first \in Nat
          /\ conditions[k] \in Condition
          /\ batch.at \in Nat /\ conditions[k].last >= batch.at
      BY <1>2, <1>5, LifecycleAssumption
      DEF IInv, ConditionsOK, Condition, BatchOK, Batch
    <2>2. C[k].last = conditions[k].last /\ C[k].first = conditions[k].first
      BY <1>3, <1>5, <2>1 DEF SeenAgain, Condition, Greatest
    <2>3. ~Opens(C[k], alerts[k])
      <3>1. IsSustained(C[k]) => IsSustained(conditions[k])
        BY <2>2 DEF IsSustained
      <3>2. IsSustained(conditions[k]) => HasActive(alerts[k])
        BY <1>1, <1>2, <1>5 DEF KeyOK
      <3>3. QED
        BY <3>1, <3>2 DEF Opens
    <2>4. R[k] = RowsRefreshed(alerts[k], C[k], loaded)
      BY <1>1, <1>5, <2>3, RefreshedRows DEF R, C
    <2>5. \A a \in Alert : Lifecycle(Refreshed(a, C[k], loaded)) = Lifecycle(a)
      BY DEF Refreshed, Alert, Lifecycle
    <2>6. DOMAIN R[k] = 1..L
      BY <1>1, <2>4 DEF RowsRefreshed
    <2>7. Len(R[k]) = L
      BY <1>1, <1>3, <2>6
    <2>8. \A n \in 1..L : Lifecycle(R[k][n]) = Lifecycle(alerts[k][n])
      BY <1>1, <2>4, <2>5 DEF RowsRefreshed
    <2>9. QED
      BY <1>1, <2>7, <2>8 DEF R
  <1>6. QED
    BY <1>4, <1>5

\* A crash between the two commits opens, closes and moves no alert.
THEOREM ReplayKeepsLifecycleTheorem == Spec => ReplayKeepsLifecycle
  <1>1. IInv /\ [Next]_vars => [ReplayStep => SameLifecycle]_vars
    <2> SUFFICES ASSUME IInv, Next, ReplayStep PROVE SameLifecycle
      OBVIOUS
    <2>1. Reconcile
      BY DEF Next, ReplayStep, PlanBatch, Reject, Restart, CommitOffsets,
             Crash, EmptyBatch, LoadReference, vars
    <2>2. alerts' = ReconciledAlerts(alerts, conditions, batch, loaded)
      BY <2>1 DEF Reconcile
    <2>3. QED
      BY <2>2, ReplayedKey DEF SameLifecycle, ReplayStep
  <1>2. QED
    BY <1>1, StoreInvariant, PTL DEF Spec, ReplayKeepsLifecycle

-----------------------------------------------------------------------------
(***************************************************************************)
(* The abstract book.                                                      *)
(***************************************************************************)
\* The rows of a key, as incidents.
LEMMA IncidentsAre ==
    ASSUME NEW rows \in Seq(Alert)
    PROVE  /\ Incidents(rows) \in Seq(Book!Incident)
           /\ Len(Incidents(rows)) = Len(rows)
           /\ DOMAIN Incidents(rows) = 1..Len(rows)
           /\ \A n \in 1..Len(rows) :
                 Incidents(rows)[n] = [from |-> rows[n].started, to |-> rows[n].ended]
  <1> DEFINE L == Len(rows)
  <1>1. L \in Nat /\ DOMAIN rows = 1..L /\ \A n \in 1..L : rows[n] \in Alert
    OBVIOUS
  <1>2. \A n \in 1..L :
           [from |-> rows[n].started, to |-> rows[n].ended] \in Book!Incident
    BY <1>1 DEF Alert, Book!Incident
  <1>3. Incidents(rows) \in [1..L -> Book!Incident]
    BY <1>1, <1>2 DEF Incidents
  <1>4. Incidents(rows) \in Seq(Book!Incident)
    BY <1>1, <1>3, SeqDef
  <1>5. QED
    BY <1>1, <1>3, <1>4 DEF Incidents

\* What a transaction that PostgreSQL accepts does to the incidents of a key:
\* nothing, one more after a closed one, or the end of the last one.
LEMMA IncidentsAfter ==
    ASSUME IInv, stage # "idle", NEW k \in Keys,
           Accepted(ReconciledAlerts(alerts, conditions, batch, loaded))
    PROVE  LET R == ReconciledAlerts(alerts, conditions, batch, loaded)
               B == Incidents(alerts[k])
           IN  \/ Incidents(R[k]) = B
               \/ \E from \in Times :
                     /\ ~Book!IsOpen(B)
                     /\ from + Sustain <= high
                     /\ B # <<>> => from + Lag >= B[Len(B)].to
                     /\ Incidents(R[k]) = Append(B, [from |-> from, to |-> Null])
               \/ /\ Book!IsOpen(B)
                  /\ batch.at >= B[Len(B)].from
                  /\ Incidents(R[k]) = [B EXCEPT ![Len(B)].to = batch.at]
  <1> DEFINE R == ReconciledAlerts(alerts, conditions, batch, loaded)
             C == ReconciledConditions(conditions, batch)
             L == Len(alerts[k])
             B == Incidents(alerts[k])
  <1>0. alerts \in [Keys -> Seq(Alert)]
    BY DEF IInv, TypeOK
  <1>1. /\ alerts \in [Keys -> Seq(Alert)] /\ L \in Nat
        /\ alerts[k] \in Seq(Alert) /\ DOMAIN alerts[k] = 1..L
        /\ \A n \in 1..L : alerts[k][n] \in Alert
        /\ KeyOK(alerts[k], k, conditions)
    BY DEF IInv, TypeOK, BooksOK
  <1>2. /\ R[k] \in Seq(Alert) /\ KeyOK(R[k], k, C)
        /\ DOMAIN R[k] = 1..Len(R[k]) /\ Len(R[k]) \in Nat
        /\ \A n \in DOMAIN R[k] : IntervalOrdered(R[k][n])
    BY KeyAfter DEF Accepted
  <1>3. /\ B \in Seq(Book!Incident) /\ Len(B) = L /\ DOMAIN B = 1..L
        /\ \A n \in 1..L :
              B[n] = [from |-> alerts[k][n].started, to |-> alerts[k][n].ended]
    BY <1>1, IncidentsAre
  <1>4. /\ Incidents(R[k]) \in Seq(Book!Incident)
        /\ Len(Incidents(R[k])) = Len(R[k])
        /\ DOMAIN Incidents(R[k]) = 1..Len(R[k])
        /\ \A n \in 1..Len(R[k]) :
              Incidents(R[k])[n] = [from |-> R[k][n].started, to |-> R[k][n].ended]
    BY <1>2, IncidentsAre
  <1>5. \A n \in 1..L : /\ IsActive(alerts[k][n]) <=> alerts[k][n].ended = Null
                        /\ IsActive(alerts[k][n]) => n = L
    BY <1>1 DEF KeyOK, RowOK
  <1>6. batch.at \in Times /\ batch.at \in Nat /\ batch.at # Null
    BY LifecycleAssumption DEF IInv, BatchOK, Batch
  <1> HIDE DEF R, C, L, B
  <1>7. CASE k \notin Observed(batch) /\ (L = 0 \/ ~IsActive(alerts[k][L]))
    <2>1. \A n \in 1..L : ~IsActive(alerts[k][n])
      BY <1>1, <1>5, <1>7
    <2>2. R[k] = RowsClosed(alerts[k], batch.at)
      BY <1>0, <1>7, ClearedRows DEF R
    <2>3. R[k] = [n \in 1..L |-> alerts[k][n]]
      BY <1>1, <2>1, <2>2 DEF RowsClosed
    <2>4. R[k] = alerts[k]
      BY <1>1, <2>3
    <2>5. QED
      BY <2>4 DEF R, B
  <1>8. CASE k \notin Observed(batch) /\ L # 0 /\ IsActive(alerts[k][L])
    <2>1. /\ R[k] = RowsClosed(alerts[k], batch.at)
          /\ L \in 1..L /\ alerts[k][L].ended = Null
      BY <1>1, <1>5, <1>8, ClearedRows DEF R
    <2>2. DOMAIN R[k] = 1..L /\ Len(R[k]) = L
      BY <1>1, <1>2, <2>1 DEF RowsClosed
    <2>3. \A n \in 1..L : n # L => R[k][n] = alerts[k][n]
      BY <1>1, <1>5, <2>1 DEF RowsClosed
    <2>4. /\ R[k][L].started = alerts[k][L].started
          /\ R[k][L].ended = batch.at
      <3>1. R[k][L] = Closed(alerts[k][L], batch.at) /\ alerts[k][L] \in Alert
        BY <1>1, <1>8, <2>1 DEF RowsClosed
      <3>2. QED
        BY <3>1 DEF Closed, Alert
    <2>5. batch.at >= alerts[k][L].started
      BY <1>2, <1>6, <2>1, <2>2, <2>4 DEF IntervalOrdered
    <2>6. \A n \in 1..L : Incidents(R[k])[n] = [B EXCEPT ![L].to = batch.at][n]
      BY <1>3, <1>4, <2>1, <2>2, <2>3, <2>4
    <2>7. Incidents(R[k]) = [B EXCEPT ![L].to = batch.at]
      <3>1. Incidents(R[k]) = [n \in 1..L |-> Incidents(R[k])[n]]
        BY <1>4, <2>2
      <3>2. [B EXCEPT ![L].to = batch.at] =
               [n \in DOMAIN B |-> [B EXCEPT ![L].to = batch.at][n]]
        BY <1>3, Zenon
      <3>3. QED
        BY <1>3, <2>6, <3>1, <3>2
    <2>8. Book!IsOpen(B) /\ batch.at >= B[Len(B)].from
      BY <1>3, <2>1, <2>5 DEF Book!IsOpen
    <2>9. QED
      BY <1>3, <2>7, <2>8 DEF R, B
  <1>9. CASE k \in Observed(batch) /\ ~Opens(C[k], alerts[k])
    <2>1. R[k] = RowsRefreshed(alerts[k], C[k], loaded)
      BY <1>0, <1>9, RefreshedRows DEF R, C
    <2>2. \A a \in Alert : /\ Refreshed(a, C[k], loaded).started = a.started
                           /\ Refreshed(a, C[k], loaded).ended = a.ended
      BY DEF Refreshed, Alert
    <2>3. DOMAIN R[k] = 1..L /\ Len(R[k]) = L
      BY <1>1, <1>2, <2>1 DEF RowsRefreshed
    <2>4. \A n \in 1..L : /\ R[k][n].started = alerts[k][n].started
                          /\ R[k][n].ended = alerts[k][n].ended
      BY <1>1, <2>1, <2>2 DEF RowsRefreshed
    <2>5. \A n \in 1..L : Incidents(R[k])[n] = B[n]
      BY <1>3, <1>4, <2>3, <2>4
    <2>6. Incidents(R[k]) = B
      BY <1>3, <1>4, <2>3, <2>5
    <2>7. QED
      BY <2>6 DEF R, B
  <1>10. CASE k \in Observed(batch) /\ Opens(C[k], alerts[k])
    <2> DEFINE new == NewAlert(C[k], loaded)
               from == C[k].first
    <2>1. R[k] = Append(alerts[k], new)
      BY <1>1, <1>10, OpenedRows DEF R, C
    <2>2. new.started = from /\ new.ended = Null
      BY DEF NewAlert
    <2>3. /\ from \in Times /\ from + Sustain <= high
      <3>1. ConditionsOK(C) /\ k \in DOMAIN C
        BY <1>10, TablesAfter DEF C
      <3>2. /\ C[k] \in Condition /\ C[k].last <= high
            /\ C[k].last - C[k].first >= Sustain
        BY <1>10, <3>1 DEF ConditionsOK, Opens, IsSustained
      <3>3. /\ C[k].first \in Times /\ C[k].first \in Nat /\ C[k].last \in Nat
            /\ Sustain \in Nat /\ high \in Nat
        BY <3>2, LifecycleAssumption DEF Condition, IInv, TypeOK
      <3>4. QED
        BY <3>2, <3>3
    <2> HIDE DEF new, from
    <2>4. /\ Len(R[k]) = L + 1 /\ R[k][L + 1] = new
          /\ \A n \in 1..L : R[k][n] = alerts[k][n]
      BY <1>1, <2>1
    <2>5. \A n \in 1..L : alerts[k][n].ended # Null
      BY <1>1, <1>5, <1>10 DEF Opens, HasActive, IsActive
    <2>6. ~Book!IsOpen(B)
      BY <1>1, <1>3, <2>5 DEF Book!IsOpen
    <2>7. B # <<>> => from + Lag >= B[Len(B)].to
      <3> SUFFICES ASSUME B # <<>> PROVE from + Lag >= B[Len(B)].to
        OBVIOUS
      <3>1. L \in 1..L /\ L + 1 \in 2..Len(R[k])
        BY <1>1, <1>3, <2>4
      <3>2. R[k][L + 1].started + Lag >= R[k][(L + 1) - 1].ended
        BY <1>2, <3>1 DEF KeyOK
      <3>3. (L + 1) - 1 = L
        BY <1>1
      <3>4. B[Len(B)].to = alerts[k][L].ended
        BY <1>3, <3>1
      <3>5. R[k][L].ended = alerts[k][L].ended
        BY <2>4, <3>1
      <3>6. R[k][L + 1].started = from
        BY <2>2, <2>4
      <3>7. from + Lag >= R[k][L].ended
        BY <3>2, <3>3, <3>6
      <3>8. QED
        BY <3>4, <3>5, <3>7
    <2>8. Incidents(R[k]) = Append(B, [from |-> from, to |-> Null])
      <3>1. /\ Len(Append(B, [from |-> from, to |-> Null])) = L + 1
            /\ Append(B, [from |-> from, to |-> Null])[L + 1] =
                  [from |-> from, to |-> Null]
            /\ \A n \in 1..L : Append(B, [from |-> from, to |-> Null])[n] = B[n]
            /\ DOMAIN Append(B, [from |-> from, to |-> Null]) = 1..(L + 1)
            /\ Append(B, [from |-> from, to |-> Null]) =
                  [n \in 1..(L + 1) |-> Append(B, [from |-> from, to |-> Null])[n]]
        BY <1>1, <1>3
      <3>2. \A n \in 1..(L + 1) :
               Incidents(R[k])[n] = Append(B, [from |-> from, to |-> Null])[n]
        <4>1. \A n \in 1..(L + 1) : n \in 1..L \/ n = L + 1
          BY <1>1
        <4>2. QED
          BY <1>3, <1>4, <2>2, <2>4, <3>1, <4>1
      <3>3. Incidents(R[k]) = [n \in 1..(L + 1) |-> Incidents(R[k])[n]]
        BY <1>4, <2>4
      <3>4. QED
        BY <3>1, <3>2, <3>3
    <2>9. QED
      BY <2>3, <2>6, <2>7, <2>8 DEF R, B
  <1>11. QED
    BY <1>1, <1>7, <1>8, <1>9, <1>10

\* The empty table is the empty book.
LEMMA InitBook == Init => Book!Init
  <1> SUFFICES ASSUME Init PROVE Book!Init
    OBVIOUS
  <1>1. \A k \in Keys : alerts[k] = <<>>
    BY DEF Init
  <1>2. \A k \in Keys : Incidents(alerts[k]) = <<>>
    <2>1. <<>> \in Seq(Alert) /\ Len(<<>>) = 0
      OBVIOUS
    <2>2. Incidents(<<>>) \in Seq(Book!Incident) /\ Len(Incidents(<<>>)) = 0
      BY <2>1, IncidentsAre
    <2>3. QED
      BY <1>1, <2>2, EmptySeq
  <1>3. IncidentBook = [k \in Keys |-> <<>>]
    BY <1>2 DEF IncidentBook
  <1>4. QED
    BY <1>3 DEF Init, Book!Init

\* A step of the store is a step of the book, or none: a batch that is planned
\* may bring a later event time, and a transaction that commits makes one entry.
LEMMA NextBook ==
    ASSUME IInv, IInv', [Next]_vars
    PROVE  [Book!Next]_<<IncidentBook, high>>
  <1>1. CASE UNCHANGED <<alerts, high>>
    <2>1. UNCHANGED <<IncidentBook, high>>
      BY <1>1 DEF IncidentBook
    <2>2. QED
      BY <2>1
  <1>2. CASE PlanBatch
    <2>1. PICK b \in Batch : high' = Greatest(high, b.at)
      BY <1>2 DEF PlanBatch
    <2>2. b.at \in Times /\ b.at \in Nat /\ high \in Nat
      BY LifecycleAssumption DEF IInv, TypeOK, Batch
    <2>3. UNCHANGED IncidentBook
      BY <1>2 DEF PlanBatch, IncidentBook
    <2>4. CASE high >= b.at
      <3>1. UNCHANGED <<IncidentBook, high>>
        BY <2>1, <2>3, <2>4 DEF Greatest
      <3>2. QED
        BY <3>1
    <2>5. CASE ~(high >= b.at)
      <3>1. high' = b.at /\ b.at > high
        BY <2>1, <2>2, <2>5 DEF Greatest
      <3>2. Book!Advance
        BY <2>2, <2>3, <3>1 DEF Book!Advance
      <3>3. QED
        BY <3>2 DEF Book!Next
    <2>6. QED
      BY <2>4, <2>5
  <1>3. CASE Reconcile
    <2> DEFINE R == ReconciledAlerts(alerts, conditions, batch, loaded)
    <2>1. stage # "idle" /\ Accepted(R) /\ alerts' = R /\ high' = high
      BY <1>3 DEF Reconcile
    <2>2. batch.at \in Times /\ batch.at <= high /\ batch.at + Lag >= high
      BY <2>1 DEF IInv, BatchOK, Batch
    <2>3. \A k \in Keys : /\ IncidentBook[k] = Incidents(alerts[k])
                          /\ IncidentBook'[k] = Incidents(R[k])
      BY <2>1 DEF IncidentBook
    <2>4. ASSUME NEW k \in Keys
          PROVE  \/ IncidentBook'[k] = IncidentBook[k]
                 \/ \E from \in Times : Book!Opened(k, from)
                 \/ Book!ClosedAt(k, batch.at)
      BY <2>1, <2>3, IncidentsAfter DEF Book!Opened, Book!ClosedAt
    <2>5. DOMAIN IncidentBook' = Keys
      BY DEF IncidentBook
    <2>6. Book!Enter
      BY <2>1, <2>2, <2>4, <2>5 DEF Book!Enter
    <2>7. QED
      BY <2>6 DEF Book!Next
  <1>4. QED
    BY <1>1, <1>2, <1>3 DEF Next, vars, Reject, Restart, CommitOffsets, Crash,
                            EmptyBatch, LoadReference

\* The alert store implements the book of incidents, whatever the lag and the
\* sustain time: a batch the constraints refuse leaves the book as it was.
THEOREM ImplementsBookTheorem == Spec => ImplementsBook
  <1>1. Init => Book!Init
    BY InitBook
  <1>2. IInv /\ IInv' /\ [Next]_vars => [Book!Next]_<<IncidentBook, high>>
    BY NextBook
  <1>3. QED
    BY <1>1, <1>2, StoreInvariant, PTL DEF Spec, ImplementsBook, Book!Spec

-----------------------------------------------------------------------------
(***************************************************************************)
(* A rejection.                                                            *)
(***************************************************************************)
\* The rows of two tables that differ in the figures alone.
SameButFigures(r, s) ==
    /\ DOMAIN r = DOMAIN s
    /\ \A n \in DOMAIN r : Lifecycle(r[n]) = Lifecycle(s[n])

\* The reference rates decide what an alert costs, and nothing else about it.
LEMMA RatesOnlyPrice ==
    ASSUME NEW log \in [Keys -> Seq(Alert)], NEW conds, NEW b, NEW dates, NEW others,
           NEW k \in Keys
    PROVE  SameButFigures(ReconciledAlerts(log, conds, b, dates)[k],
                          ReconciledAlerts(log, conds, b, others)[k])
  <1> DEFINE R(d) == ReconciledAlerts(log, conds, b, d)
             c == ReconciledConditions(conds, b)[k]
             L == Len(log[k])
  <1>1. log[k] \in Seq(Alert) /\ L \in Nat /\ DOMAIN log[k] = 1..L
        /\ \A n \in 1..L : log[k][n] \in Alert
    OBVIOUS
  <1>2. CASE k \notin Observed(b)
    <2>1. R(dates)[k] = R(others)[k]
      BY <1>2, ClearedRows
    <2>2. QED
      BY <2>1 DEF SameButFigures
  <1>3. CASE k \in Observed(b) /\ ~Opens(c, log[k])
    <2>1. /\ R(dates)[k] = RowsRefreshed(log[k], c, dates)
          /\ R(others)[k] = RowsRefreshed(log[k], c, others)
      BY <1>3, RefreshedRows
    <2> HIDE DEF R, c
    <2>2. \A a \in Alert : Lifecycle(Refreshed(a, c, dates)) = Lifecycle(a)
                           /\ Lifecycle(Refreshed(a, c, others)) = Lifecycle(a)
      BY DEF Refreshed, Alert, Lifecycle
    <2>3. QED
      BY <1>1, <2>1, <2>2 DEF SameButFigures, RowsRefreshed, R
  <1>4. CASE k \in Observed(b) /\ Opens(c, log[k])
    <2> DEFINE new == NewAlert(c, dates)
               other == NewAlert(c, others)
    <2>1. R(dates)[k] = Append(log[k], new) /\ R(others)[k] = Append(log[k], other)
      BY <1>4, OpenedRows
    <2>2. Lifecycle(new) = Lifecycle(other)
      BY DEF NewAlert, Lifecycle
    <2> HIDE DEF new, other
    <2>3. /\ DOMAIN Append(log[k], new) = 1..(L + 1)
          /\ DOMAIN Append(log[k], other) = 1..(L + 1)
          /\ Append(log[k], new)[L + 1] = new /\ Append(log[k], other)[L + 1] = other
          /\ \A n \in 1..L : Append(log[k], new)[n] = Append(log[k], other)[n]
      BY <1>1
    <2>4. \A n \in 1..(L + 1) : n \in 1..L \/ n = L + 1
      BY <1>1
    <2>5. SameButFigures(Append(log[k], new), Append(log[k], other))
      BY <2>2, <2>3, <2>4 DEF SameButFigures
    <2>6. QED
      BY <2>1, <2>5
  <1>5. QED
    BY <1>2, <1>3, <1>4

\* ... and so not whether PostgreSQL accepts the rows.
LEMMA RatesDoNotReject ==
    ASSUME NEW log \in [Keys -> Seq(Alert)], NEW conds, NEW b, NEW dates, NEW others,
           Accepted(ReconciledAlerts(log, conds, b, dates))
    PROVE  Accepted(ReconciledAlerts(log, conds, b, others))
  <1> DEFINE R(d) == ReconciledAlerts(log, conds, b, d)
  <1>1. \A k \in Keys : SameButFigures(R(dates)[k], R(others)[k])
    BY RatesOnlyPrice
  <1>2. Accepted(R(dates))
    OBVIOUS
  <1> HIDE DEF R
  <1>3. ASSUME NEW k \in Keys
        PROVE  /\ DOMAIN R(dates)[k] = DOMAIN R(others)[k]
               /\ \A n \in DOMAIN R(dates)[k] :
                     /\ R(dates)[k][n].status = R(others)[k][n].status
                     /\ R(dates)[k][n].started = R(others)[k][n].started
                     /\ R(dates)[k][n].ended = R(others)[k][n].ended
    BY <1>1 DEF SameButFigures, Lifecycle
  <1>4. Accepted(R(others))
    BY <1>2, <1>3
    DEF Accepted, EndMatchesStatus, IntervalOrdered, SingleActive
  <1>5. QED
    BY <1>4 DEF R

\* The batch that was refused is still there, and its transaction would still
\* be refused.
Refused ==
    /\ stage \in {"failed", "planned"}
    /\ ~Accepted(ReconciledAlerts(alerts, conditions, batch, loaded))

\* A refused batch blocks the query for ever, as no step of the store changes
\* what the constraints refuse (checkpointed offsets, db.py's rollback).
THEOREM RejectionIsFinalTheorem == Spec => RejectionIsFinal
  <1>1. ASSUME TypeOK, Refused, [Next]_vars
        PROVE  Refused'
    <2>1. CASE LoadReference
      <3>1. PICK others : loaded' = others
        OBVIOUS
      <3>2. ~Accepted(ReconciledAlerts(alerts, conditions, batch, others))
        BY <1>1, RatesDoNotReject DEF Refused, TypeOK
      <3>3. UNCHANGED <<stage, alerts, conditions, batch>>
        BY <2>1 DEF LoadReference
      <3>4. ~Accepted(ReconciledAlerts(alerts', conditions', batch', loaded'))
        BY <3>1, <3>2, <3>3
      <3>5. stage' \in {"failed", "planned"}
        BY <1>1, <3>3 DEF Refused
      <3>6. QED
        BY <3>4, <3>5 DEF Refused
    <2>2. CASE Reject \/ Restart \/ UNCHANGED vars
      <3>1. /\ UNCHANGED <<alerts, conditions, batch, loaded>>
            /\ stage' \in {"failed", "planned"}
        BY <1>1, <2>2 DEF Reject, Restart, vars, Refused
      <3>2. ~Accepted(ReconciledAlerts(alerts', conditions', batch', loaded'))
        BY <1>1, <3>1 DEF Refused
      <3>3. QED
        BY <3>1, <3>2 DEF Refused
    <2>3. QED
      BY <1>1, <2>1, <2>2 DEF Next, Refused, PlanBatch, Reconcile, CommitOffsets,
                              Crash, EmptyBatch
  <1>2. ASSUME TypeOK, stage = "failed" => Refused, [Next]_vars
        PROVE  (stage = "failed" => Refused)'
    <2>1. CASE stage = "failed"
      BY <1>1, <1>2, <2>1
    <2>2. CASE stage # "failed" /\ Reject
      <3>1. /\ UNCHANGED <<alerts, conditions, batch, loaded>> /\ stage' = "failed"
            /\ ~Accepted(ReconciledAlerts(alerts, conditions, batch, loaded))
        BY <2>2 DEF Reject
      <3>2. ~Accepted(ReconciledAlerts(alerts', conditions', batch', loaded'))
        BY <3>1
      <3>3. QED
        BY <3>1, <3>2 DEF Refused
    <2>3. CASE stage # "failed" /\ ~Reject
      <3>1. stage' # "failed"
        BY <1>2, <2>3 DEF Next, vars, PlanBatch, Reconcile, Restart, CommitOffsets,
                          Crash, EmptyBatch, LoadReference
      <3>2. QED
        BY <3>1
    <2>4. QED
      BY <2>1, <2>2, <2>3
  <1>3. Init => (stage = "failed" => Refused)
    BY DEF Init
  <1>4. Refused => stage \in {"failed", "planned"}
    BY DEF Refused
  <1>5. QED
    BY <1>1, <1>2, <1>3, <1>4, TypeCorrect, PTL DEF Spec, RejectionIsFinal
=============================================================================
