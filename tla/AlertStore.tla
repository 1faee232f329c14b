----------------------------- MODULE AlertStore -----------------------------
(***************************************************************************)
(* The alert store under the scheduling Spark gives foreachBatch.          *)
(*                                                                         *)
(* A microbatch is planned, its transaction runs reconcile_alerts, and     *)
(* Spark then commits the batch's offsets to the checkpoint.  A crash      *)
(* between the two commits runs the same batch again.  A transaction that  *)
(* PostgreSQL rejects ends the query; the restarted job finds the same     *)
(* batch planned.  The batch layer loads a day's reference rates beside    *)
(* all this.                                                               *)
(*                                                                         *)
(* The clock of a batch is its largest event time.  Partitions are not     *)
(* ordered among each other, so a batch may hold only events older than    *)
(* those of the batch before.  Lag bounds how far the clock steps back;    *)
(* the watermark (STREAM_WATERMARK, "2 minutes") bounds it up to the batch *)
(* by which Spark's late filter trails, so Lag is an assumption about the  *)
(* source and not a setting.                                               *)
(***************************************************************************)
EXTENDS AlertLifecycle

CONSTANTS
    Lag,        \* how far a batch's clock may be behind the largest so far
    MaxBatches, \* bound: batches planned
    MaxCrashes  \* bound: crashes between the two commits

ASSUME StoreAssumption ==
    Lag \in Nat /\ MaxBatches \in Nat /\ MaxCrashes \in Nat

VARIABLES
    conditions, \* table alert_conditions
    alerts,     \* table alerts
    loaded,     \* the dates daily_reference has rows for
    high,       \* the largest event time of any batch so far
    batch,      \* the batch in the offset log that is not committed, or Null
    stage,      \* where that batch is
    applied,    \* how often that batch's transaction has committed
    planned,    \* batches planned so far (bound)
    crashes     \* crashes so far (bound)

vars == <<conditions, alerts, loaded, high, batch, stage, applied, planned, crashes>>

Stages == {"idle", "planned", "written", "failed"}

\* Every table and every counter holds what its schema allows.
TypeOK ==
    /\ DOMAIN conditions \subseteq Keys
    /\ conditions \in [DOMAIN conditions -> Condition]
    /\ alerts \in [Keys -> Seq(Alert)]
    /\ loaded \subseteq Days
    /\ high \in Nat
    /\ batch \in Batch \cup {Null}
    /\ stage \in Stages
    /\ applied \in Nat
    /\ planned \in Nat
    /\ crashes \in Nat

Init ==
    /\ conditions = [k \in {} |-> Null]
    /\ alerts = [k \in Keys |-> <<>>]
    /\ loaded = {}
    /\ high = 0
    /\ batch = Null
    /\ stage = "idle"
    /\ applied = 0
    /\ planned = 0
    /\ crashes = 0

\* Spark fixes the content of the next batch in its offset log.
PlanBatch ==
    /\ stage = "idle"
    /\ planned < MaxBatches
    /\ \E b \in Batch :
          /\ b.at + Lag >= high
          /\ batch' = b
          /\ high' = Greatest(high, b.at)
    /\ stage' = "planned"
    /\ applied' = 0
    /\ planned' = planned + 1
    /\ UNCHANGED <<conditions, alerts, loaded, crashes>>

\* reconcile_alerts, in a transaction that commits.
Reconcile ==
    /\ stage = "planned"
    /\ Accepted(ReconciledAlerts(alerts, conditions, batch, loaded))
    /\ conditions' = ReconciledConditions(conditions, batch)
    /\ alerts' = ReconciledAlerts(alerts, conditions, batch, loaded)
    /\ stage' = "written"
    /\ applied' = applied + 1
    /\ UNCHANGED <<loaded, high, batch, planned, crashes>>

\* A constraint refuses a row: connect() rolls the transaction back and the
\* exception ends the query.
Reject ==
    /\ stage = "planned"
    /\ ~Accepted(ReconciledAlerts(alerts, conditions, batch, loaded))
    /\ stage' = "failed"
    /\ UNCHANGED <<conditions, alerts, loaded, high, batch, applied, planned, crashes>>

\* Mutant: the restarted job starts after the batch that failed.
RestartPastBatch ==
    /\ stage = "failed"
    /\ stage' = "idle"
    /\ batch' = Null
    /\ UNCHANGED <<conditions, alerts, loaded, high, applied, planned, crashes>>

\* A restarted job plans the uncommitted batch of its offset log again.
Restart ==
    /\ stage = "failed"
    /\ stage' = "planned"
    /\ UNCHANGED <<conditions, alerts, loaded, high, batch, applied, planned, crashes>>

CommitOffsets ==
    /\ stage = "written"
    /\ stage' = "idle"
    /\ batch' = Null
    /\ UNCHANGED <<conditions, alerts, loaded, high, applied, planned, crashes>>

\* The job dies between the two commits, and the batch is run again.
Crash ==
    /\ stage = "written"
    /\ crashes < MaxCrashes
    /\ stage' = "planned"
    /\ crashes' = crashes + 1
    /\ UNCHANGED <<conditions, alerts, loaded, high, batch, applied, planned>>

\* A batch without events returns before it touches either table.
EmptyBatch ==
    /\ stage = "idle"
    /\ UNCHANGED vars

\* The batch layer's load_reference for one simulated day.
LoadReference ==
    /\ \E d \in Days \ loaded : loaded' = loaded \cup {d}
    /\ UNCHANGED <<conditions, alerts, high, batch, stage, applied, planned, crashes>>

Next ==
    \/ PlanBatch
    \/ Reconcile
    \/ Reject
    \/ Restart
    \/ CommitOffsets
    \/ Crash
    \/ EmptyBatch
    \/ LoadReference

Spec == Init /\ [][Next]_vars

-----------------------------------------------------------------------------
(***************************************************************************)
(* Safety.                                                                 *)
(***************************************************************************)
IsActive(a) == a.status = "ACTIVE"

\* The two tables agree.  A key has an ACTIVE alert exactly while its
\* condition is tracked and has lasted Sustain, and the alert starts where
\* the condition was first seen: no alert for a fault that was not sustained,
\* none missing, none that outlives its condition.  Five statements, a clock
\* that may step back and replayed batches have to preserve it.
AlertsMatchConditions ==
    \A k \in Keys :
        /\ HasActive(alerts[k]) <=>
              k \in DOMAIN conditions /\ IsSustained(conditions[k])
        /\ \A n \in DOMAIN alerts[k] :
              IsActive(alerts[k][n]) => alerts[k][n].started = conditions[k].first

\* Once a batch is written every ACTIVE alert is of a fault this very batch
\* observed: what recovered is closed by the same transaction, also when the
\* batch shows no fault at all.
NoStaleAlert ==
    stage = "written" =>
        \A k \in Keys : HasActive(alerts[k]) => k \in Observed(batch)

\* No batch is ever refused by a constraint of the alerts table, so the job
\* never gets stuck on one (condition_rows: one clock per batch "removes the
\* whole class of bug").  It holds as long as Lag <= Sustain.
NeverRejected == stage # "failed"

\* An inverter has at most one ACTIVE alert over all alert types: when a
\* fault changes type the old alert is closed by the transaction that starts
\* tracking the new one.
OneFaultPerInverter ==
    \A j, k \in Keys :
        j[1] = k[1] /\ HasActive(alerts[j]) /\ HasActive(alerts[k]) => j = k

\* What an operator reads as a closed incident lasted for the sustain time,
\* less what the clock can step back: a passing cloud is never an incident.
IncidentsAreSustained ==
    \A k \in Keys : \A n \in DOMAIN alerts[k] :
        ~IsActive(alerts[k][n]) =>
            alerts[k][n].ended + Lag >= alerts[k][n].started + Sustain

\* The incidents of one key follow one another: a recurrence starts no
\* earlier than the end of the incident before it, less Lag.
IncidentsInOrder ==
    \A k \in Keys : \A n \in 2..Len(alerts[k]) :
        /\ ~IsActive(alerts[k][n - 1])
        /\ alerts[k][n].started + Lag >= alerts[k][n - 1].ended

\* The impact of an open alert is that of its condition now, and not the
\* figure of the moment it was opened.
ImpactIsCurrent ==
    \A k \in DOMAIN conditions : \A n \in DOMAIN alerts[k] :
        IsActive(alerts[k][n]) => alerts[k][n].impact = ImpactOf(conditions[k])

(***************************************************************************)
(* Action properties.                                                      *)
(***************************************************************************)
\* A row of alerts is never deleted, a RESOLVED row never changes, and an
\* ACTIVE one keeps its start: a recurrence is a new row, never an old one
\* reopened (architecture.md 4.4).
HistoryKept ==
    \A k \in Keys :
        /\ Len(alerts'[k]) >= Len(alerts[k])
        /\ \A n \in DOMAIN alerts[k] :
              /\ alerts'[k][n].started = alerts[k][n].started
              /\ ~IsActive(alerts[k][n]) => alerts'[k][n] = alerts[k][n]

HistoryIsKept == [][HistoryKept]_vars

Lifecycle(a) == <<a.status, a.started, a.ended>>

SameLifecycle ==
    \A k \in Keys :
        /\ Len(alerts'[k]) = Len(alerts[k])
        /\ \A n \in DOMAIN alerts[k] :
              Lifecycle(alerts'[k][n]) = Lifecycle(alerts[k][n])

\* Running a batch again after a crash opens no alert, closes none, and moves
\* no start or end.
ReplayStep == stage = "planned" /\ stage' = "written" /\ applied > 0

ReplayKeepsLifecycle == [][ReplayStep => SameLifecycle]_vars

\* A batch that a constraint refuses is refused for ever.  Nothing of it is
\* stored, the job plans it again after every restart, and no later batch is
\* ever planned.
RejectionIsFinal ==
    [](stage = "failed" => [](stage \in {"failed", "planned"}))

\* What architecture.md 4.3 says of replays: reprocessing produces the same
\* alerts.  The figures too: estimated_loss_kwh is mean loss times span, and
\* two impacts of the same span are equal if their means are.
SameFigures(a, b) ==
    a.span = b.span /\ a.sum * b.count = b.sum * a.count

ReplayKeepsFigures ==
    [][ReplayStep =>
        \A k \in Keys : \A n \in DOMAIN alerts[k] :
            SameFigures(alerts[k][n].impact, alerts'[k][n].impact)]_vars

-----------------------------------------------------------------------------
(***************************************************************************)
(* The rows of the alerts table as a book of incidents.                    *)
(***************************************************************************)
Incidents(rows) ==
    [n \in DOMAIN rows |-> [from |-> rows[n].started, to |-> rows[n].ended]]

IncidentBook == [k \in Keys |-> Incidents(alerts[k])]

Book == INSTANCE AlertBook WITH book <- IncidentBook, now <- high

\* The alert store keeps the promises of the abstract book of incidents: an
\* entry opens and closes incidents as of one instant, and what the five
\* statements, a crash or a rejected batch do to the tables is no more than
\* that.
ImplementsBook == Book!Spec
=============================================================================
