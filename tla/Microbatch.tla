----------------------------- MODULE Microbatch -----------------------------
(***************************************************************************)
(* One microbatch of the live metrics query, from the events it carries to *)
(* the rows it leaves in PostgreSQL: process_microbatch with the metric    *)
(* computation, fault detection, alert reconciliation and health row it    *)
(* writes in one transaction (processing/streaming/pipeline.py).           *)
(*                                                                         *)
(* An event is one inverter at one instant, and has one reading.  A batch  *)
(* carries any of the events not delivered yet: a microbatch may end in    *)
(* the middle of a tick of the fleet, and events may be out of order.      *)
(* Irradiance and power are small integers; what a reading falls short of  *)
(* is kept in units of 1/Reference kW, so nothing is rounded.              *)
(***************************************************************************)
EXTENDS Integers, Sequences, FiniteSets, FiniteSetsExt

CONSTANTS
    Inverters,  \* the active inverters of the asset registry
    Plants,
    PlantOf,    \* the plant of each inverter
    Rating,     \* rated_power_kw of each inverter
    Readings,   \* the readings an event may carry
    Reference,  \* REFERENCE_IRRADIANCE_WM2
    Minimum,    \* MIN_IRRADIANCE_WM2
    Threshold,  \* UNDERPERFORMANCE_THRESHOLD_PCT
    Times,
    Sustain,
    Silent,     \* stands for the reading of an inverter that sent nothing
    Null,
    MaxEvents,  \* bound: events in a batch
    MaxBatches, \* bound: batches planned
    MaxFaults   \* bound: aborted transactions, and crashes

Gap == "TELEMETRY_GAP"
Offline == "INVERTER_OFFLINE"
Underperformance == "UNDERPERFORMANCE"
Healthy == "none"
AlertTypes == {Gap, Offline, Underperformance}

Reading == [status : {"ONLINE", "WARNING", "OFFLINE"}, available : BOOLEAN,
            irradiance : Nat, power : Nat]

ASSUME MicrobatchAssumption ==
    /\ PlantOf \in [Inverters -> Plants]
    /\ Rating \in [Inverters -> Nat]
    /\ Readings \subseteq Reading
    /\ Reference \in Nat \ {0} /\ Minimum \in Nat /\ Threshold \in 1..100
    /\ Times \subseteq Nat /\ Times # {}
    /\ {Sustain, MaxEvents, MaxBatches, MaxFaults} \subseteq Nat
    /\ IsFiniteSet(Inverters) /\ IsFiniteSet(Times) /\ IsFiniteSet(Readings)
    /\ Null \notin Nat
    /\ Silent \notin Reading

\* The alert store.  No reference feed is loaded here, and one day suffices.
A == INSTANCE AlertLifecycle
        WITH Losses <- Nat, DayLength <- 1 + Max(Times)

VARIABLES
    delivered,  \* the events some batch has carried
    batch,      \* the uncommitted batch: a function from its events to readings
    stage,      \* "idle", "planned", "written" or "failed"
    applied,    \* how often its transaction has committed
    plantRows,  \* table live_plant_metrics, by primary key
    fleetRows,  \* table live_portfolio_metrics, by primary key
    conditions, \* table alert_conditions
    alerts,     \* table alerts
    health,     \* the row of table pipeline_health
    latestKeys, \* the keys of the rows the last non-empty batch wrote (history)
    planned,    \* bound
    faults      \* bound

tables == <<plantRows, fleetRows, conditions, alerts, health, latestKeys>>
vars == <<delivered, batch, stage, applied, tables, planned, faults>>

Events == Inverters \X Times
NoRows == [k \in {} |-> Null]

-----------------------------------------------------------------------------
(***************************************************************************)
(* The metrics of a batch (processing/streaming/metrics.py).               *)
(***************************************************************************)
Present(b) == { e[1] : e \in DOMAIN b }
PlantsIn(b) == { PlantOf[i] : i \in Present(b) }

\* latest_reading_per_inverter, with Silent for the inverters the registry
\* knows and the batch does not: detection joins from the registry.
Latest(b) ==
    [i \in Inverters |->
        IF i \notin Present(b) THEN Silent
        ELSE b[<<i, Max({ e[2] : e \in { d \in DOMAIN b : d[1] = i } })>>]]

\* Mutant: an inverter that reports itself unavailable counts as online.
IsOnlineByStatus(r) == r # Silent /\ r.status # "OFFLINE"

IsOnline(r) == r # Silent /\ r.status # "OFFLINE" /\ r.available

InvertersOf(p) == { i \in Inverters : PlantOf[i] = p }

\* Mutant: the power of every event of the window is added up.
PlantRowSummed(b, p) ==
    LET online == { i \in InvertersOf(p) : IsOnline(Latest(b)[i]) }
    IN  [current |-> SumFunctionOnSet([e \in DOMAIN b |-> b[e].power],
                                      { e \in DOMAIN b : PlantOf[e[1]] = p }),
         online  |-> Cardinality(online),
         offline |-> Cardinality(InvertersOf(p) \ online)]

PowerOf(b) == [i \in Present(b) |-> Latest(b)[i].power]

PlantRow(b, p) ==
    LET online == { i \in InvertersOf(p) : IsOnline(Latest(b)[i]) }
    IN  [current |-> SumFunctionOnSet(PowerOf(b), InvertersOf(p) \cap Present(b)),
         online  |-> Cardinality(online),
         offline |-> Cardinality(InvertersOf(p) \ online)]

TimesIn(b, p) == { e[2] : e \in { d \in DOMAIN b : PlantOf[d[1]] = p } }

\* The window of a row is the range of the event times it summarises.
PlantKey(b, p) == <<p, Min(TimesIn(b, p)), Max(TimesIn(b, p))>>

FleetKey(b) ==
    LET times == UNION { TimesIn(b, p) : p \in PlantsIn(b) }
    IN  <<Min(times), Max(times)>>

\* portfolio_metrics adds up the plants of the batch.
FleetRow(b) ==
    LET rows == [p \in PlantsIn(b) |-> PlantRow(b, p)]
    IN  [current |-> SumFunction([p \in PlantsIn(b) |-> rows[p].current]),
         online  |-> SumFunction([p \in PlantsIn(b) |-> rows[p].online]),
         offline |-> SumFunction([p \in PlantsIn(b) |-> rows[p].offline])]

\* Mutant: the upsert adds to the row it finds.
AddedUp(rows, new) ==
    [k \in DOMAIN rows \cup DOMAIN new |->
        IF k \notin DOMAIN new THEN rows[k]
        ELSE IF k \notin DOMAIN rows THEN new[k]
        ELSE [f \in DOMAIN new[k] |-> rows[k][f] + new[k][f]]]

\* INSERT ... ON CONFLICT DO UPDATE.
Upserted(rows, new) ==
    [k \in DOMAIN rows \cup DOMAIN new |->
        IF k \in DOMAIN new THEN new[k] ELSE rows[k]]

PlantRowsOf(b) ==
    [k \in { PlantKey(b, p) : p \in PlantsIn(b) } |-> PlantRow(b, k[1])]

FleetRowsOf(b) == [k \in {FleetKey(b)} |-> FleetRow(b)]

-----------------------------------------------------------------------------
(***************************************************************************)
(* Fault detection (processing/streaming/alerts.py).                       *)
(***************************************************************************)
Lesser(a, b) == IF a <= b THEN a ELSE b

Expected(i, r) == Rating[i] * Lesser(r.irradiance, Reference)

IsOffline(r) == r.status = "OFFLINE" \/ ~r.available

Underperforms(i, r) ==
    /\ r.irradiance >= Minimum
    /\ Expected(i, r) > 0
    /\ r.power * Reference * 100 < Threshold * Expected(i, r)

\* The priority: a silent inverter cannot be judged on anything else, and an
\* offline one explains its own zero output.
Verdict(i, r) ==
    CASE r = Silent          -> Gap
      [] r # Silent /\ IsOffline(r) -> Offline
      [] r # Silent /\ ~IsOffline(r) /\ Underperforms(i, r) -> Underperformance
      [] OTHER               -> Healthy

\* A silent inverter's loss is not guessed.
Loss(i, r) ==
    IF r = Silent \/ Expected(i, r) <= r.power * Reference THEN 0
    ELSE Expected(i, r) - r.power * Reference

\* The clock of the batch, max(event_time), and the faults it shows.
Observation(b) ==
    LET latest == Latest(b)
    IN  [at      |-> Max({ e[2] : e \in DOMAIN b }),
         verdict |-> [i \in Inverters |-> Verdict(i, latest[i])],
         loss    |-> [i \in Inverters |-> Loss(i, latest[i])]]

-----------------------------------------------------------------------------
(***************************************************************************)
(* The health row (processing/streaming/health.py).  `succeeded` stands    *)
(* for last_success_at: every status but FAILED moves it to now.           *)
(***************************************************************************)
Newest(a, b) ==
    IF a = Null THEN b ELSE IF b = Null THEN a ELSE Max({a, b})

\* Mutant: the row takes the event time of the batch, without GREATEST.
HealthLatest(h, status, at) == [status |-> status, lastEvent |-> at]

Health(h, status, at) == [status |-> status, lastEvent |-> Newest(h.lastEvent, at)]

-----------------------------------------------------------------------------
Init ==
    /\ delivered = {}
    /\ batch = NoRows
    /\ stage = "idle"
    /\ applied = 0
    /\ plantRows = NoRows
    /\ fleetRows = NoRows
    /\ conditions = NoRows
    /\ alerts = [k \in A!Keys |-> <<>>]
    /\ health = [status |-> Null, lastEvent |-> Null]
    /\ latestKeys = {}
    /\ planned = 0
    /\ faults = 0

\* The next microbatch: some events that have arrived, or none.
PlanBatch ==
    /\ stage = "idle"
    /\ planned < MaxBatches
    /\ \E carried \in UNION { kSubset(n, Events \ delivered) : n \in 0..MaxEvents } :
          /\ batch' \in [carried -> Readings]
          /\ delivered' = delivered \cup carried
    /\ stage' = "planned"
    /\ applied' = 0
    /\ planned' = planned + 1
    /\ UNCHANGED <<tables, faults>>

\* The source is polled and has nothing new.
Wait == stage = "idle" /\ UNCHANGED vars

NewConditions == A!ReconciledConditions(conditions, Observation(batch))
NewAlerts == A!ReconciledAlerts(alerts, conditions, Observation(batch), {})

\* The one transaction of a batch that has events.
Persist ==
    /\ stage = "planned"
    /\ DOMAIN batch # {}
    /\ A!Accepted(NewAlerts)
    /\ plantRows' = Upserted(plantRows, PlantRowsOf(batch))
    /\ fleetRows' = Upserted(fleetRows, FleetRowsOf(batch))
    /\ conditions' = NewConditions
    /\ alerts' = NewAlerts
    /\ health' = Health(health, "HEALTHY", Observation(batch).at)
    /\ latestKeys' = DOMAIN PlantRowsOf(batch)
    /\ stage' = "written"
    /\ applied' = applied + 1
    /\ UNCHANGED <<delivered, batch, planned, faults>>

\* A batch without events writes its health row and nothing else.
PersistEmpty ==
    /\ stage = "planned"
    /\ DOMAIN batch = {}
    /\ health' = Health(health, "DEGRADED", Null)
    /\ stage' = "written"
    /\ applied' = applied + 1
    /\ UNCHANGED <<plantRows, fleetRows, conditions, alerts, latestKeys>>
    /\ UNCHANGED <<delivered, batch, planned, faults>>

\* The connection is lost: the transaction is rolled back and the exception
\* ends the query.
Abort ==
    /\ stage = "planned"
    /\ faults < MaxFaults
    /\ faults' = faults + 1
    /\ stage' = "failed"
    /\ UNCHANGED <<delivered, batch, applied, tables, planned>>

\* A constraint of the alerts table refuses the batch, with the same outcome.
Refuse ==
    /\ stage = "planned"
    /\ DOMAIN batch # {}
    /\ ~A!Accepted(NewAlerts)
    /\ stage' = "failed"
    /\ UNCHANGED <<delivered, batch, applied, tables, planned, faults>>

\* The job dies after the transaction and before the offsets are committed.
Crash ==
    /\ stage = "written"
    /\ faults < MaxFaults
    /\ faults' = faults + 1
    /\ stage' = "planned"
    /\ UNCHANGED <<delivered, batch, applied, tables, planned>>

Restart ==
    /\ stage = "failed"
    /\ stage' = "planned"
    /\ UNCHANGED <<delivered, batch, applied, tables, planned, faults>>

CommitOffsets ==
    /\ stage = "written"
    /\ stage' = "idle"
    /\ batch' = NoRows
    /\ UNCHANGED <<delivered, applied, tables, planned, faults>>

Next ==
    \/ PlanBatch
    \/ Wait
    \/ Persist
    \/ PersistEmpty
    \/ Abort
    \/ Refuse
    \/ Crash
    \/ Restart
    \/ CommitOffsets

Spec == Init /\ [][Next]_vars

-----------------------------------------------------------------------------
(***************************************************************************)
(* Safety.                                                                 *)
(***************************************************************************)
Row == [current : Nat, online : Nat, offline : Nat]

\* The rows of every table are of the shape the migrations give them, and a
\* window ends no earlier than it starts.
TypeOK ==
    /\ delivered \subseteq Events
    /\ DOMAIN batch \subseteq Events /\ batch \in [DOMAIN batch -> Readings]
    /\ stage \in {"idle", "planned", "written", "failed"}
    /\ DOMAIN plantRows \subseteq Plants \X Times \X Times
    /\ plantRows \in [DOMAIN plantRows -> Row]
    /\ \A k \in DOMAIN plantRows : k[2] <= k[3]
    /\ DOMAIN fleetRows \subseteq Times \X Times
    /\ fleetRows \in [DOMAIN fleetRows -> Row]
    /\ DOMAIN conditions \subseteq A!Keys
    /\ conditions \in [DOMAIN conditions -> A!Condition]
    /\ alerts \in [A!Keys -> Seq(A!Alert)]
    /\ health.status \in {"HEALTHY", "DEGRADED", "FAILED", Null}
    /\ health.lastEvent \in Times \cup {Null}
    /\ latestKeys \subseteq DOMAIN plantRows
    /\ {applied, planned, faults} \subseteq Nat

\* The serving tables never disagree about a plant the last batch had events
\* of: the inverters its live row counts as offline are those with a gap or
\* offline condition.  metrics.py and alerts.py decide this separately, one
\* from the registry's counts and one from its rows.
LiveAgreesWithAlerts ==
    \A k \in latestKeys :
        plantRows[k].offline =
            Cardinality({ c \in DOMAIN conditions :
                PlantOf[c[1]] = k[1] /\ c[2] \in {Gap, Offline} })

\* Live power is instantaneous: no row exceeds what the inverters of the plant
\* can produce at one instant, however many readings the window holds.
PowerIsInstantaneous ==
    \A k \in DOMAIN plantRows :
        plantRows[k].current <=
            SumFunctionOnSet([i \in Inverters |-> Max({ r.power : r \in Readings })],
                             InvertersOf(k[1]))

\* The health row's event time is the high-water mark of what is stored: an
\* empty batch does not erase it and an old one does not move it back.  This
\* one carries the type invariant.
HealthCoversRows ==
    /\ TypeOK
    /\ \A k \in DOMAIN plantRows :
          health.lastEvent # Null /\ health.lastEvent >= k[3]

(***************************************************************************)
(* Action properties.                                                      *)
(***************************************************************************)
\* A batch run again after a crash rewrites the rows it wrote, unchanged
\* (sinks.py: the second write overwrites the first).
ReplayStep == stage = "planned" /\ stage' = "written" /\ applied > 0

ReplayIsIdentical ==
    [][ReplayStep => plantRows' = plantRows /\ fleetRows' = fleetRows]_vars

\* What metrics.py says of the rows: they are summaries of disjoint slices,
\* and so only a replay finds its key taken.
SlicesAreDisjoint ==
    [][stage = "planned" /\ stage' = "written" /\ applied = 0 =>
          \A k \in DOMAIN plantRows : plantRows'[k] = plantRows[k]]_vars
=============================================================================
