--------------------------- MODULE AlertLifecycle ---------------------------
(***************************************************************************)
(* The five SQL statements with which the speed layer turns the faults one *)
(* microbatch observed into rows of `alert_conditions` and `alerts`        *)
(* (processing/streaming/alert_store.py), as operators on the two tables.  *)
(* There are no variables here: AlertStore and Microbatch run the          *)
(* operators inside their transactions.                                    *)
(*                                                                         *)
(* `alert_conditions` is a function from the keys it has a row for to the  *)
(* row.  `alerts` is a function from every key to the sequence of the rows *)
(* inserted for that key, oldest first.  The position in the sequence      *)
(* stands for the random id.  Severity and message are left out: nothing   *)
(* in the lifecycle reads them.                                            *)
(***************************************************************************)
EXTENDS Integers, Sequences

CONSTANTS
    Inverters,  \* the asset registry: one value per (plant_id, inverter_id)
    AlertTypes, \* TELEMETRY_GAP, INVERTER_OFFLINE, UNDERPERFORMANCE
    Healthy,    \* the verdict on an inverter that shows no fault
    Losses,     \* the values loss_kw takes
    Times,      \* event time, in the unit Sustain is given in
    Sustain,    \* ALERT_SUSTAIN_SECONDS
    DayLength,  \* the length of a simulated day
    Null        \* SQL NULL

ASSUME LifecycleAssumption ==
    /\ Healthy \notin AlertTypes
    /\ Losses \subseteq Nat
    /\ Times \subseteq Nat
    /\ Sustain \in Nat
    /\ DayLength \in Nat \ {0}
    /\ Null \notin Nat

\* The primary key of alert_conditions, and what the unique index of alerts
\* ranges over.
Keys == Inverters \X AlertTypes

Greatest(a, b) == IF a >= b THEN a ELSE b

\* The simulated date of an instant, in UTC.
DayOf(t) == t \div DayLength
Days == { DayOf(t) : t \in Times }

Condition ==
    [first : Times, last : Times, count : Nat, sum : Nat]

\* What the two impact columns are computed from: the mean loss sum / count,
\* over the span of the condition.
Impact == [sum : Nat, count : Nat, span : Nat]

\* `priced` says whether estimated_revenue_loss is not NULL.
Alert ==
    [status  : {"ACTIVE", "RESOLVED"},
     started : Times,
     ended   : Times \cup {Null},
     impact  : Impact,
     priced  : BOOLEAN]

\* One microbatch as the alert store sees it: the batch's observation clock
\* and, for each configured inverter, what detection made of it and the loss.
\* An inverter has one verdict: detect_alert_conditions emits at most one row
\* for it.
Batch ==
    [at      : Times,
     verdict : [Inverters -> AlertTypes \cup {Healthy}],
     loss    : [Inverters -> Losses]]

Observed(b) == { k \in Keys : b.verdict[k[1]] = k[2] }

(***************************************************************************)
(* Step 1: _UPSERT_CONDITION for every row.                                *)
(***************************************************************************)
NewCondition(b, k) ==
    [first |-> b.at, last |-> b.at, count |-> 1, sum |-> b.loss[k[1]]]

\* Mutant: the upsert takes the new last_observed_at without GREATEST.
SeenAgainLatest(c, b, k) ==
    [c EXCEPT !.last = b.at, !.count = @ + 1, !.sum = @ + b.loss[k[1]]]

SeenAgain(c, b, k) ==
    [c EXCEPT !.last  = Greatest(@, b.at),
              !.count = @ + 1,
              !.sum   = @ + b.loss[k[1]]]

UpsertConditions(conds, b) ==
    [k \in DOMAIN conds \cup Observed(b) |->
        IF k \notin Observed(b) THEN conds[k]
        ELSE IF k \in DOMAIN conds THEN SeenAgain(conds[k], b, k)
        ELSE NewCondition(b, k)]

(***************************************************************************)
(* Step 2: _DELETE_CLEARED, or _DELETE_ALL_CONDITIONS when the batch has   *)
(* no fault at all; both leave the rows the batch observed.                *)
(***************************************************************************)
\* Mutant: a batch without faults deletes nothing, as NOT IN () would.
DeleteClearedNonEmpty(conds, b) ==
    [k \in IF Observed(b) = {} THEN DOMAIN conds
           ELSE DOMAIN conds \cap Observed(b) |-> conds[k]]

DeleteCleared(conds, b) ==
    [k \in DOMAIN conds \cap Observed(b) |-> conds[k]]

(***************************************************************************)
(* Step 3: _OPEN_SUSTAINED_ALERTS.                                         *)
(***************************************************************************)
\* Mutant: the span is taken the wrong way round.
ImpactOfSwapped(c) == [sum |-> c.sum, count |-> c.count, span |-> c.first - c.last]

ImpactOf(c) == [sum |-> c.sum, count |-> c.count, span |-> c.last - c.first]

IsSustained(c) == c.last - c.first >= Sustain

HasActive(rows) == \E n \in DOMAIN rows : rows[n].status = "ACTIVE"

\* The LEFT JOIN on daily_reference finds a rate for the day the condition
\* was first seen.
HasRate(c, loaded) == DayOf(c.first) \in loaded

NewAlert(c, loaded) ==
    [status |-> "ACTIVE", started |-> c.first, ended |-> Null,
     impact |-> ImpactOf(c), priced |-> HasRate(c, loaded)]

\* Mutant: the sustain rule is dropped.
OpensUnsustained(c, rows) == ~HasActive(rows)

\* Mutant: without the NOT EXISTS.
OpensAgain(c, rows) == IsSustained(c)

Opens(c, rows) == IsSustained(c) /\ ~HasActive(rows)

OpenSustained(log, conds, loaded) ==
    [k \in Keys |->
        IF k \in DOMAIN conds /\ Opens(conds[k], log[k])
        THEN Append(log[k], NewAlert(conds[k], loaded))
        ELSE log[k]]

(***************************************************************************)
(* Step 4: _REFRESH_OPEN_ALERTS.                                           *)
(***************************************************************************)
\* Mutant: the figures stay what they were when the alert was opened.
RefreshedFrozen(a, c, loaded) == a

Refreshed(a, c, loaded) ==
    [a EXCEPT !.impact = ImpactOf(c), !.priced = HasRate(c, loaded)]

\* Mutant: the refresh does not look at the status, and so the figures of a
\* past incident follow the current one.
RefreshAll(log, conds, loaded) ==
    [k \in Keys |->
        [n \in DOMAIN log[k] |->
            IF k \in DOMAIN conds
            THEN Refreshed(log[k][n], conds[k], loaded)
            ELSE log[k][n]]]

RefreshOpen(log, conds, loaded) ==
    [k \in Keys |->
        [n \in DOMAIN log[k] |->
            IF k \in DOMAIN conds /\ log[k][n].status = "ACTIVE"
            THEN Refreshed(log[k][n], conds[k], loaded)
            ELSE log[k][n]]]

(***************************************************************************)
(* Step 5: _RESOLVE_CLEARED_ALERTS.                                        *)
(***************************************************************************)
Closed(a, at) == [a EXCEPT !.status = "RESOLVED", !.ended = at]

\* Mutant: the condition is looked up by inverter alone, so an alert stays
\* open while the inverter has a fault of another type.
ResolveByInverter(log, conds, at) ==
    [k \in Keys |->
        [n \in DOMAIN log[k] |->
            IF /\ log[k][n].status = "ACTIVE"
               /\ \A j \in DOMAIN conds : j[1] # k[1]
            THEN Closed(log[k][n], at)
            ELSE log[k][n]]]

\* Mutant: rows that are RESOLVED already get the new ended_at too.
ResolveAny(log, conds, at) ==
    [k \in Keys |->
        [n \in DOMAIN log[k] |->
            IF k \notin DOMAIN conds THEN Closed(log[k][n], at)
            ELSE log[k][n]]]

ResolveCleared(log, conds, at) ==
    [k \in Keys |->
        [n \in DOMAIN log[k] |->
            IF log[k][n].status = "ACTIVE" /\ k \notin DOMAIN conds
            THEN Closed(log[k][n], at)
            ELSE log[k][n]]]

(***************************************************************************)
(* reconcile_alerts: the five steps in their order, in one transaction.    *)
(***************************************************************************)
ReconciledConditions(conds, b) == DeleteCleared(UpsertConditions(conds, b), b)

\* Mutant: alerts are opened from the conditions as the batch found them.
ReconciledAlertsOpenFirst(log, conds, b, loaded) ==
    LET kept      == ReconciledConditions(conds, b)
        opened    == OpenSustained(log, conds, loaded)
        refreshed == RefreshOpen(opened, kept, loaded)
    IN  ResolveCleared(refreshed, kept, b.at)

ReconciledAlerts(log, conds, b, loaded) ==
    LET kept      == ReconciledConditions(conds, b)
        opened    == OpenSustained(log, kept, loaded)
        refreshed == RefreshOpen(opened, kept, loaded)
    IN  ResolveCleared(refreshed, kept, b.at)

(***************************************************************************)
(* What PostgreSQL checks of the rows before the transaction can commit:   *)
(* the two CHECKs of migration 003 and its partial unique index.           *)
(***************************************************************************)
EndMatchesStatus(a) == (a.status = "RESOLVED") <=> (a.ended # Null)

IntervalOrdered(a) == a.ended # Null => a.ended >= a.started

SingleActive(rows) ==
    \A m, n \in DOMAIN rows :
        rows[m].status = "ACTIVE" /\ rows[n].status = "ACTIVE" => m = n

Accepted(log) ==
    \A k \in Keys :
        /\ \A n \in DOMAIN log[k] :
              EndMatchesStatus(log[k][n]) /\ IntervalOrdered(log[k][n])
        /\ SingleActive(log[k])
=============================================================================
