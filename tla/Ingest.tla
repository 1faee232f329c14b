------------------------------- MODULE Ingest -------------------------------
(***************************************************************************)
(* The streaming queries of the speed layer as consumers of the telemetry  *)
(* topic: live metrics, raw archive and quarantine, each with a checkpoint *)
(* of its own (processing/streaming/job.py).                               *)
(*                                                                         *)
(* A record is the event time of a valid event, or Bad.  The event id is   *)
(* deterministic: it stands for one asset at one tick, so <<p, t>> names   *)
(* an event.  Each partition carries the events of one asset in the order  *)
(* of its ticks, and nothing orders the partitions.                        *)
(*                                                                         *)
(* Live metrics and archive read valid events behind a watermark and       *)
(* dropDuplicatesWithinWatermark; what Spark does there and in its         *)
(* checkpoints is outside the repository and modelled from Spark 3.5, the  *)
(* version it pins.                                                        *)
(***************************************************************************)
EXTENDS Integers, Sequences, FiniteSets, Bags

CONSTANTS
    Partitions, \* of solar.telemetry.raw
    Times,      \* event times
    Bad,        \* a record that validation rejects
    Queries,    \* the queries the job runs
    Delay,      \* STREAM_WATERMARK
    MaxRecords, \* bound: records in a partition
    MaxRuns,    \* bound: simulator runs after the first
    MaxFailures \* bound: failures and interrupts of the job

ASSUME IngestAssumption ==
    /\ IsFiniteSet(Partitions)
    /\ Times \subseteq Nat \ {0}
    /\ Bad \notin Times
    /\ Queries \subseteq {"metrics", "archive", "quarantine"}
    /\ {Delay, MaxRecords, MaxRuns, MaxFailures} \subseteq Nat

VARIABLES
    topic,     \* for each partition, its records
    tick,      \* for each partition, the last tick the simulator published
    up,        \* whether the job is running
    committed, \* for each query, its offsets in the commit log
    planned,   \* for each query, the end offsets of its latest batch
    stage,     \* where that batch is
    watermark, \* for each query, the watermark of its next batch
    lateBound, \* ... and of the batch before, which late rows are held against
    seen,      \* for each query, the event ids in its state store
    out,       \* for each query, the bag of what its sink holds
    filed,     \* the archive's own log lists the archive's latest batch
    runs,      \* simulator runs so far (bound)
    failures   \* failures so far (bound)

simulator == <<topic, tick, runs>>
progress  == <<committed, planned, watermark, lateBound, seen>>
vars == <<simulator, progress, up, stage, out, filed, failures>>

Events == Partitions \X Times
Offsets == [Partitions -> Nat]
Stages == {"idle", "planned", "written", "failed"}

SinksAreBags == DOMAIN out = Queries /\ \A q \in Queries : IsABag(out[q])

\* Offsets, state stores and sinks hold what they are meant to hold, and no
\* query reads past the end of a partition.
TypeOK ==
    /\ topic \in [Partitions -> Seq(Times \cup {Bad})]
    /\ tick \in [Partitions -> Times \cup {0}]
    /\ up \in BOOLEAN
    /\ committed \in [Queries -> Offsets]
    /\ planned \in [Queries -> Offsets]
    /\ \A q \in Queries, p \in Partitions :
          committed[q][p] <= planned[q][p] /\ planned[q][p] <= Len(topic[p])
    /\ stage \in [Queries -> Stages]
    /\ watermark \in [Queries -> Nat]
    /\ lateBound \in [Queries -> Nat]
    /\ seen \in [Queries -> SUBSET Events]
    /\ SinksAreBags
    /\ filed \in BOOLEAN
    /\ runs \in Nat
    /\ failures \in Nat

Init ==
    /\ topic = [p \in Partitions |-> <<>>]
    /\ tick = [p \in Partitions |-> 0]
    /\ up = TRUE
    /\ committed = [q \in Queries |-> [p \in Partitions |-> 0]]
    /\ planned = committed
    /\ stage = [q \in Queries |-> "idle"]
    /\ watermark = [q \in Queries |-> 0]
    /\ lateBound = [q \in Queries |-> 0]
    /\ seen = [q \in Queries |-> {}]
    /\ out = [q \in Queries |-> EmptyBag]
    /\ filed = FALSE
    /\ runs = 0
    /\ failures = 0

-----------------------------------------------------------------------------
(***************************************************************************)
(* The telemetry topic.                                                    *)
(***************************************************************************)
Send(p, record) ==
    /\ Len(topic[p]) < MaxRecords
    /\ topic' = [topic EXCEPT ![p] = Append(@, record)]
    /\ UNCHANGED <<runs, progress, up, stage, out, filed, failures>>

\* The simulator publishes a later tick of the asset; ticks in between were
\* suppressed by a scenario or never delivered.
Publish(p) ==
    \E t \in Times :
        /\ t > tick[p]
        /\ Send(p, t)
        /\ tick' = [tick EXCEPT ![p] = t]

\* Another writer puts a record on the topic that breaks the contract.
PublishBad(p) == Send(p, Bad) /\ UNCHANGED tick

\* A new run of the seeded simulator goes through the same ticks, with the
\* same event ids.
RestartSimulator ==
    /\ runs < MaxRuns
    /\ runs' = runs + 1
    /\ tick' = [p \in Partitions |-> 0]
    /\ UNCHANGED <<topic, progress, up, stage, out, filed, failures>>

(***************************************************************************)
(* One batch of a query.                                                   *)
(***************************************************************************)
\* The records of the batch, by their coordinates.
Slice(q) ==
    { c \in Partitions \X (1..MaxRecords) :
        committed[q][c[1]] < c[2] /\ c[2] <= planned[q][c[1]] }

RecordAt(c) == topic[c[1]][c[2]]

\* valid_events and invalid_events split the batch.  The quarantine query has
\* no use for valid ones, and no watermark.
ValidIn(q) ==
    { <<c[1], RecordAt(c)>> :
        c \in { d \in Slice(q) : q # "quarantine" /\ RecordAt(d) # Bad } }
InvalidIn(q) == { c \in Slice(q) : RecordAt(c) = Bad }

IsLate(q, e) == e[2] <= lateBound[q]

\* Mutant: duplicates are dropped inside each batch only.
FreshInBatch(q) == { e \in ValidIn(q) : ~IsLate(q, e) }

\* What deduplicate_events passes on.
Fresh(q) == { e \in ValidIn(q) : ~IsLate(q, e) /\ e \notin seen[q] }

Output(q) == IF q = "quarantine" THEN InvalidIn(q) ELSE Fresh(q)

Later(a, b) == IF a >= b THEN a ELSE b

\* The watermark follows the largest event time the query has read.
NextWatermark(q) ==
    CHOOSE w \in {watermark[q]} \cup { Later(e[2] - Delay, 0) : e \in ValidIn(q) } :
        /\ w >= watermark[q]
        /\ \A e \in ValidIn(q) : w >= e[2] - Delay

\* The state store forgets an id Delay after its event time.
NextSeen(q) == { e \in seen[q] \cup Fresh(q) : e[2] + Delay > watermark[q] }

Lengths == [p \in Partitions |-> Len(topic[p])]

\* Spark runs a batch for new records, and one without records when the
\* watermark has moved since the batch before, to clear the state store.
HasBatch(q) == committed[q] # Lengths \/ watermark[q] > lateBound[q]

Plan(q) ==
    /\ up
    /\ stage[q] = "idle"
    /\ HasBatch(q)
    /\ planned' = [planned EXCEPT ![q] = Lengths]
    /\ stage' = [stage EXCEPT ![q] = "planned"]
    /\ filed' = (filed /\ q # "archive")
    /\ UNCHANGED <<simulator, committed, watermark, lateBound, seen, up, out, failures>>

\* The source is polled and there is no reason for a batch.
Poll(q) ==
    /\ up
    /\ stage[q] = "idle"
    /\ ~HasBatch(q)
    /\ UNCHANGED vars

\* process_microbatch, the parquet sink, or the quarantine writer.  The
\* parquet sink skips a batch its log lists; the other two write again.
Write(q) ==
    /\ up
    /\ stage[q] = "planned"
    /\ stage' = [stage EXCEPT ![q] = "written"]
    /\ out' = [out EXCEPT ![q] =
                  IF q = "archive" /\ filed THEN @ ELSE @ (+) SetToBag(Output(q))]
    /\ filed' = (filed \/ q = "archive")
    /\ UNCHANGED <<simulator, progress, up, failures>>

\* Mutant: the sinks share one checkpoint location.
CommitShared(q) ==
    /\ up
    /\ stage[q] = "written"
    /\ stage' = [stage EXCEPT ![q] = "idle"]
    /\ committed' = [r \in Queries |->
                        IF stage[r] \in {"idle", "written"} THEN planned[q]
                        ELSE committed[r]]
    /\ planned' = [r \in Queries |->
                        IF stage[r] = "idle" THEN planned[q] ELSE planned[r]]
    /\ watermark' = [watermark EXCEPT ![q] = NextWatermark(q)]
    /\ lateBound' = [lateBound EXCEPT ![q] = watermark[q]]
    /\ seen' = [seen EXCEPT ![q] = NextSeen(q)]
    /\ UNCHANGED <<simulator, up, out, filed, failures>>

Commit(q) ==
    /\ up
    /\ stage[q] = "written"
    /\ stage' = [stage EXCEPT ![q] = "idle"]
    /\ committed' = [committed EXCEPT ![q] = planned[q]]
    /\ watermark' = [watermark EXCEPT ![q] = NextWatermark(q)]
    /\ lateBound' = [lateBound EXCEPT ![q] = watermark[q]]
    /\ seen' = [seen EXCEPT ![q] = NextSeen(q)]
    /\ UNCHANGED <<simulator, planned, up, out, filed, failures>>

(***************************************************************************)
(* Failures.                                                               *)
(***************************************************************************)
\* A query dies in the middle of a batch.  PostgreSQL and the parquet log
\* keep all of the batch or nothing; records sent to the invalid topic stay.
Fail(q) ==
    /\ up
    /\ stage[q] \in {"planned", "written"}
    /\ failures < MaxFailures
    /\ failures' = failures + 1
    /\ \E sent \in SUBSET (IF q = "quarantine" /\ stage[q] = "planned"
                            THEN Output(q) ELSE {}) :
          out' = [out EXCEPT ![q] = @ (+) SetToBag(sent)]
    /\ stage' = [stage EXCEPT ![q] = "failed"]
    /\ UNCHANGED <<simulator, progress, up, filed>>

\* The process ends.  A batch without an entry in the commit log is the one
\* each query resumes with.
Terminate ==
    /\ up' = FALSE
    /\ stage' = [q \in Queries |-> IF stage[q] = "idle" THEN "idle" ELSE "planned"]
    /\ UNCHANGED <<simulator, progress, out, filed>>

\* Mutant: the job waits for every query to terminate.
ExitWhenAllFailed ==
    /\ up
    /\ \A q \in Queries : stage[q] = "failed"
    /\ Terminate
    /\ UNCHANGED failures

\* awaitAnyTermination raises, and main stops the session.
Exit ==
    /\ up
    /\ \E q \in Queries : stage[q] = "failed"
    /\ Terminate
    /\ UNCHANGED failures

\* The operator interrupts the job.
Interrupt ==
    /\ up
    /\ failures < MaxFailures
    /\ failures' = failures + 1
    /\ Terminate

\* Mutant: the job starts without its checkpoints, at the end of the topic.
RestartAtLatest ==
    /\ ~up
    /\ up' = TRUE
    /\ stage' = [q \in Queries |-> "idle"]
    /\ committed' = [q \in Queries |-> Lengths]
    /\ planned' = committed'
    /\ UNCHANGED <<simulator, watermark, lateBound, seen, out, filed, failures>>

Restart ==
    /\ ~up
    /\ up' = TRUE
    /\ UNCHANGED <<simulator, progress, stage, out, filed, failures>>

Simulate ==
    \/ \E p \in Partitions : Publish(p) \/ PublishBad(p)
    \/ RestartSimulator

Advance(q) == Plan(q) \/ Write(q) \/ Commit(q)

Next ==
    \/ Simulate
    \/ \E q \in Queries : Advance(q) \/ Poll(q) \/ Fail(q)
    \/ Exit
    \/ Interrupt
    \/ Restart

Spec == Init /\ [][Next]_vars

\* Spark's loop runs each query's next step as long as the job is up, and the
\* main thread is waiting for a failed query.  Nothing restarts the job: no
\* fairness of Restart.
Fairness ==
    /\ \A q \in Queries : WF_vars(Advance(q))
    /\ WF_vars(Exit)

FairSpec == Spec /\ Fairness

-----------------------------------------------------------------------------
(***************************************************************************)
(* Safety.                                                                 *)
(***************************************************************************)
Copies(e, bag) == IF BagIn(e, bag) THEN bag[e] ELSE 0

Consumed(q) ==
    { c \in Partitions \X (1..MaxRecords) : c[2] <= committed[q][c[1]] }

ConsumedEvents(q) ==
    { <<c[1], RecordAt(c)>> : c \in { d \in Consumed(q) : RecordAt(d) # Bad } }

\* No event is in the archive twice, whatever is published twice, and
\* whatever is run again after a failure: the batch layer integrates energy
\* over the archive and does not look for duplicates.
ArchivedOnce ==
    "archive" \in Queries =>
        \A e \in Events : Copies(e, out["archive"]) <= 1

\* Of the events a query has moved past, its sink misses only those that were
\* behind the watermark: an event Delay older than another event it has read.
\* This one carries the type invariant.
OnlyLateIsLost ==
    /\ TypeOK
    /\ \A q \in Queries \ {"quarantine"} :
           \A e \in ConsumedEvents(q) :
               \/ Copies(e, out[q]) >= 1
               \/ \E f \in ConsumedEvents(q) : f[2] >= e[2] + Delay

\* Every rejected record the quarantine query has moved past is on the invalid
\* topic, and nothing else is.
QuarantineIsComplete ==
    "quarantine" \in Queries =>
        LET rejected == { c \in Consumed("quarantine") : RecordAt(c) = Bad }
        IN  /\ rejected \subseteq BagToSet(out["quarantine"])
            /\ \A c \in BagToSet(out["quarantine"]) : RecordAt(c) = Bad

\* What architecture.md 2 says of late data: the speed layer drops the events
\* behind the watermark, the batch layer counts them.
LateIsArchived ==
    \A e \in ConsumedEvents("metrics") \cap ConsumedEvents("archive") :
        Copies(e, out["metrics"]) = 0 => Copies(e, out["archive"]) >= 1

(***************************************************************************)
(* Liveness.                                                               *)
(***************************************************************************)
\* A query that fails takes the job down, and is not left dead beside the
\* others (job.py: "rather than silently continuing with partial coverage").
FailureSurfaces ==
    \A q \in Queries : stage[q] = "failed" ~> ~up

\* If the job stays up, every query reads the topic to its end.
CatchesUp ==
    <>[]up => \A q \in Queries : <>[](committed[q] = Lengths)
=============================================================================
