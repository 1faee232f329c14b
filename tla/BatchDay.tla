------------------------------ MODULE BatchDay ------------------------------
(***************************************************************************)
(* The batch layer's day: the simulator writes the day's reference feed    *)
(* while its telemetry reaches the archive, and a run of the DAG           *)
(* solariq_daily_reconciliation turns the two into daily_plant_summary.    *)
(* Meanwhile the portfolio is edited, seeded and reset, the simulator is   *)
(* restarted, a feed is reissued, and runs fail, are retried and have      *)
(* tasks cleared.                                                          *)
(*                                                                         *)
(* One simulated day.  Airflow itself is outside the repository and        *)
(* modelled from how the DAG configures it: a chain of tasks, one retry, a *)
(* sensor that times out, one active run.                                  *)
(***************************************************************************)
EXTENDS DailyFeed

CONSTANTS
    Configs,    \* what portfolio.yaml and the settings may hold
    Reissued,   \* feeds that someone puts in the place of the day's feed
    Retries,    \* retries of a task, DEFAULT_ARGS
    Energies,   \* what a plant's archived energy may grow to
    MaxAlerts,  \* bound: alerts of the day
    MaxChanges, \* bound: edits, restarts, resets and reissues
    MaxRuns,    \* bound: triggers of the DAG
    MaxMishaps  \* bound: transient faults of tasks, and tasks cleared

AllFeeds == {GeneratedFeed(c) : c \in Configs} \cup Reissued

ASSUME BatchAssumption ==
    /\ Energies \subseteq Nat \ {0}
    /\ {Retries, MaxAlerts, MaxChanges, MaxRuns, MaxMishaps} \subseteq Nat
    /\ \A c \in Configs : DOMAIN c.plants \subseteq Plants
    /\ \A f \in AllFeeds : \A i \in DOMAIN f.rows : \A field \in Numbers :
          f.rows[i][field] \in Int \cup {Null}

VARIABLES
    portfolio, \* portfolio.yaml and the settings
    registry,  \* the active plants of table plants
    simulator, \* the running simulator's configuration and phase, or Null
    temp,      \* the feed's temporary file, or Null
    feed,      \* the day's reference file, or Null
    archive,   \* the plants in the day's archive with their energy
    raised,    \* for each plant, the alerts that started today
    reference, \* the day's rows of daily_reference
    summary,   \* the day's rows of daily_plant_summary
    health,    \* the latest pipeline_health row of the batch layer
    runs,      \* the DAG runs, oldest first
    current,   \* the run being scheduled, or the last one that was; 0 for none
    clean,     \* ghost: that run was triggered, and no input changed since
    changes,   \* operator's changes so far (bound)
    mishaps    \* transient faults and clears so far (bound)

files  == <<temp, feed>>
tables == <<registry, reference, summary, health>>
inputs == <<portfolio, registry, simulator, temp, feed, archive, raised>>
bounds == <<changes, mishaps>>
vars == <<portfolio, simulator, files, tables, archive, raised, runs, current,
          clean, bounds>>

Chain == <<"wait", "validate", "raw", "load", "actuals", "reconcile", "write", "check">>
Position(task) == CHOOSE i \in DOMAIN Chain : Chain[i] = task
From(task) == SubSeq(Chain, Position(task), Len(Chain))

States == {"running", "success", "failed"}

Active == current > 0 /\ runs[current].state = "running"
Task == Head(runs[current].todo)
At(task) == Active /\ Task = task

\* What the archive of the day may hold: some plants' energy.
Archives == UNION { [S -> Energies] : S \in SUBSET Plants }

\* The configurations, the files and the archive.
InputsOK ==
    /\ portfolio \in Configs
    /\ registry \subseteq Plants
    /\ simulator \in [config : Configs, phase : {"day", "writing", "after"}] \cup {Null}
    /\ temp \in AllFeeds \cup {Null}
    /\ archive \in Archives
    /\ raised \in [Plants -> Nat]

\* The rows of the tables, whose foreign keys are to the registry.
TablesOK ==
    /\ DOMAIN reference \subseteq registry
    /\ DOMAIN summary \subseteq registry
    /\ health \in {"none", "HEALTHY", "FAILED"}

RunsOK ==
    /\ current \in 0..Len(runs)
    /\ \A n \in DOMAIN runs :
          /\ runs[n].state \in States
          /\ runs[n].tries \in 0..Retries
          /\ runs[n].reached \in 0..Len(Chain)
          /\ runs[n].state = "running" => n = current /\ runs[n].todo # <<>>

\* The rows, files and runs are what the schemas and Airflow allow.
TypeOK ==
    /\ InputsOK
    /\ TablesOK
    /\ RunsOK
    /\ clean \in BOOLEAN
    /\ changes \in Nat /\ mishaps \in Nat

Init ==
    /\ portfolio \in Configs
    /\ registry = {}
    /\ simulator = Null
    /\ temp = Null
    /\ feed = Null
    /\ archive = <<>>
    /\ raised = [p \in Plants |-> 0]
    /\ reference = <<>>
    /\ summary = <<>>
    /\ health = "none"
    /\ runs = <<>>
    /\ current = 0
    /\ clean = FALSE
    /\ changes = 0
    /\ mishaps = 0

(***************************************************************************)
(* The portfolio and the simulator.                                        *)
(***************************************************************************)
Change == changes < MaxChanges /\ changes' = changes + 1

EditPortfolio ==
    /\ Change
    /\ portfolio' \in Configs \ {portfolio}
    /\ UNCHANGED <<simulator, files, tables, archive, raised, runs, current, clean,
                   mishaps>>

\* seed_portfolio: upserts every plant of the file as active.
Seed ==
    /\ registry' = registry \cup DOMAIN portfolio.plants
    /\ clean' = (clean /\ registry' = registry)
    /\ UNCHANGED <<portfolio, simulator, files, reference, summary, health, archive,
                   raised, runs, current, bounds>>

\* build_simulator loads the portfolio as it is now.
StartSimulator ==
    /\ simulator = Null
    /\ simulator' = [config |-> portfolio, phase |-> "day"]
    /\ UNCHANGED <<portfolio, files, tables, archive, raised, runs, current, clean,
                   bounds>>

\* The simulator is stopped or dies, in the middle of a write too.
StopSimulator ==
    /\ simulator # Null
    /\ Change
    /\ simulator' = Null
    /\ UNCHANGED <<portfolio, files, tables, archive, raised, runs, current, clean,
                   mishaps>>

\* Telemetry of the day arrives in the archive, after the day's end too.
ArchiveEvents ==
    /\ simulator # Null
    /\ \E p \in DOMAIN simulator.config.plants, energy \in Energies :
          /\ energy > Measured(archive, p)
          /\ archive' = Upsert(archive, [q \in {p} |-> energy])
    /\ clean' = FALSE
    /\ UNCHANGED <<portfolio, simulator, files, tables, raised, runs, current, bounds>>

\* The speed layer opens an alert.
RaiseAlert ==
    /\ SumOf(raised) < MaxAlerts
    /\ \E p \in DOMAIN archive :
          raised' = [raised EXCEPT ![p] = @ + 1]
    /\ clean' = FALSE
    /\ UNCHANGED <<portfolio, simulator, files, tables, archive, runs, current, bounds>>

\* Mutant: the rows are written under the file's own name.
WriteInPlace ==
    /\ simulator # Null /\ simulator.phase = "day"
    /\ CanGenerate(simulator.config)
    /\ temp' = GeneratedFeed(simulator.config)
    /\ feed' = [temp' EXCEPT !.rows = Front(@)]
    /\ simulator' = [simulator EXCEPT !.phase = "writing"]
    /\ clean' = FALSE
    /\ UNCHANGED <<portfolio, tables, archive, raised, runs, current, bounds>>

\* on_day_boundary: the feed of the day that ended is written beside its
\* place.  run() passes overwrite, so an existing feed is no obstacle.
WriteTemp ==
    /\ simulator # Null /\ simulator.phase = "day"
    /\ CanGenerate(simulator.config)
    /\ temp' = GeneratedFeed(simulator.config)
    /\ simulator' = [simulator EXCEPT !.phase = "writing"]
    /\ UNCHANGED <<portfolio, feed, tables, archive, raised, runs, current, clean,
                   bounds>>

\* The generator refuses, and the simulator goes on without a feed.
GenerateFails ==
    /\ simulator # Null /\ simulator.phase = "day"
    /\ ~CanGenerate(simulator.config)
    /\ simulator' = [simulator EXCEPT !.phase = "after"]
    /\ UNCHANGED <<portfolio, files, tables, archive, raised, runs, current, clean,
                   bounds>>

\* os.replace puts the feed in its place.
ReplaceFeed ==
    /\ simulator # Null /\ simulator.phase = "writing"
    /\ simulator' = [simulator EXCEPT !.phase = "after"]
    /\ feed' = temp
    /\ temp' = Null
    /\ clean' = (clean /\ feed' = feed)
    /\ UNCHANGED <<portfolio, tables, archive, raised, runs, current, bounds>>

\* An OSError removes the temporary file, and the simulator goes on.
WriteFails ==
    /\ simulator # Null /\ simulator.phase = "writing"
    /\ Change
    /\ simulator' = [simulator EXCEPT !.phase = "after"]
    /\ temp' = Null
    /\ UNCHANGED <<portfolio, feed, tables, archive, raised, runs, current, clean,
                   mishaps>>

\* demo_reset.sh removes the feeds.
ResetFeed ==
    /\ feed # Null
    /\ Change
    /\ feed' = Null
    /\ clean' = FALSE
    /\ UNCHANGED <<portfolio, simulator, temp, tables, archive, raised, runs, current,
                   mishaps>>

\* Another feed takes the place of the day's.
ReissueFeed ==
    /\ Change
    /\ feed' \in Reissued \ {feed}
    /\ clean' = FALSE
    /\ UNCHANGED <<portfolio, simulator, temp, tables, archive, raised, runs, current,
                   mishaps>>

(***************************************************************************)
(* Airflow: a task that raises is tried again, then the run has failed.    *)
(***************************************************************************)
NewRun ==
    [todo |-> Chain, tries |-> 0, state |-> "running", reached |-> 0,
     read |-> Null, actuals |-> Null, summaries |-> Null]

Succeed(r) ==
    [r EXCEPT !.todo    = Tail(@),
              !.tries   = 0,
              !.reached = IF Position(Head(r.todo)) > @ THEN Position(Head(r.todo)) ELSE @,
              !.read    = Null,
              !.state   = IF Len(r.todo) = 1 THEN "success" ELSE @]

\* Mutant: no retries.
FailAtOnce(r) == [r EXCEPT !.state = "failed", !.read = Null]

Fail(r) ==
    IF r.tries < Retries THEN [r EXCEPT !.tries = @ + 1, !.read = Null]
    ELSE [r EXCEPT !.state = "failed", !.read = Null]

Becomes(r) == runs' = [runs EXCEPT ![current] = r]

\* A worker may die after its transaction and before Airflow hears of it.
Finish(r) ==
    \/ Becomes(Succeed(r)) /\ UNCHANGED mishaps
    \/ mishaps < MaxMishaps /\ mishaps' = mishaps + 1 /\ Becomes(Fail(r))

TriggerRun ==
    /\ ~Active
    /\ Len(runs) < MaxRuns
    /\ runs' = Append(runs, NewRun)
    /\ current' = Len(runs')
    /\ clean' = TRUE
    /\ UNCHANGED <<portfolio, simulator, files, tables, archive, raised, bounds>>

\* A task of an ended run is cleared, with all that follow or, in a run that
\* succeeded, alone: it keeps the XCom values of that run.
ClearTask ==
    /\ ~Active
    /\ mishaps < MaxMishaps
    /\ \E n \in DOMAIN runs, task \in Range(Chain) :
          /\ Position(task) <= runs[n].reached + 1
          /\ \E todo \in {From(task)} \cup
                          (IF runs[n].state = "success" THEN {<<task>>} ELSE {}) :
                runs' = [runs EXCEPT ![n].todo = todo, ![n].tries = 0,
                                     ![n].state = "running"]
          /\ current' = n
    /\ clean' = FALSE
    /\ mishaps' = mishaps + 1
    /\ UNCHANGED <<portfolio, simulator, files, tables, archive, raised, changes>>

\* A task raises for a reason that passes: the database, the object store.
TransientFault ==
    /\ Active
    /\ mishaps < MaxMishaps
    /\ mishaps' = mishaps + 1
    /\ Becomes(Fail(runs[current]))
    /\ UNCHANGED <<inputs, reference, summary, health, current, clean, changes>>

(***************************************************************************)
(* The tasks, processing/batch/tasks.py.                                   *)
(***************************************************************************)
WaitForFile ==
    /\ At("wait")
    /\ feed # Null
    /\ Becomes(Succeed(runs[current]))
    /\ UNCHANGED <<inputs, reference, summary, health, current, clean, bounds>>

\* Mutant: the sensor has no timeout.
SensorWaitsOn == At("wait") /\ feed = Null /\ UNCHANGED vars

\* A sensor that times out is not retried.
SensorTimesOut ==
    /\ At("wait")
    /\ feed = Null
    /\ Becomes([runs[current] EXCEPT !.state = "failed"])
    /\ UNCHANGED <<inputs, reference, summary, health, current, clean, bounds>>

ValidateReferenceFeed ==
    /\ At("validate")
    /\ Becomes(IF IsValidFeed(feed, registry, Today)
               THEN Succeed(runs[current]) ELSE Fail(runs[current]))
    /\ UNCHANGED <<inputs, reference, summary, health, current, clean, bounds>>

CheckRawDailyData ==
    /\ At("raw")
    /\ Becomes(IF DOMAIN archive # {}
               THEN Succeed(runs[current]) ELSE Fail(runs[current]))
    /\ UNCHANGED <<inputs, reference, summary, health, current, clean, bounds>>

\* load_reference validates again: registry and file as they are now.
LoadValidates ==
    /\ At("load")
    /\ runs[current].read = Null
    /\ Becomes(IF IsValidFeed(feed, registry, Today)
               THEN [runs[current] EXCEPT !.read = [rows |-> ReferenceOf(feed), expected |-> registry]]
               ELSE Fail(runs[current]))
    /\ UNCHANGED <<inputs, reference, summary, health, current, clean, bounds>>

\* ... and upserts in a transaction of its own, which PostgreSQL may refuse.
LoadCommits ==
    /\ At("load")
    /\ runs[current].read # Null
    /\ IF AcceptedReference(runs[current].read.rows, registry)
       THEN /\ reference' = Upsert(reference, runs[current].read.rows)
            /\ Finish(runs[current])
       ELSE /\ Becomes(Fail(runs[current]))
            /\ UNCHANGED <<reference, mishaps>>
    /\ UNCHANGED <<inputs, summary, health, current, clean, changes>>

\* The archive is not empty here: nothing in this model empties it.
ComputeDailyActuals ==
    /\ At("actuals")
    /\ Finish([runs[current] EXCEPT !.actuals = archive])
    /\ UNCHANGED <<inputs, reference, summary, health, current, clean, changes>>

ReconcileExpectedActual ==
    /\ At("reconcile")
    /\ IF CanReconcile(runs[current].actuals, reference)
       THEN Finish([runs[current] EXCEPT
                      !.summaries = ReconcileDay(runs[current].actuals, reference, raised)])
       ELSE Becomes(Fail(runs[current])) /\ UNCHANGED mishaps
    /\ UNCHANGED <<inputs, reference, summary, health, current, clean, changes>>

\* The rows and HEALTHY are one transaction.
WriteDailySummary ==
    /\ At("write")
    /\ summary' = Upsert(summary, runs[current].summaries)
    /\ health' = "HEALTHY"
    /\ Finish(runs[current])
    /\ UNCHANGED <<inputs, reference, current, clean, changes>>

\* Mutant: FAILED is written on the connection whose transaction the
\* exception rolls back.
QualityFailsSilently ==
    /\ At("check")
    /\ Becomes(IF PassesQuality(summary, reference, registry)
               THEN Succeed(runs[current]) ELSE Fail(runs[current]))
    /\ UNCHANGED <<inputs, reference, summary, health, current, clean, bounds>>

\* FAILED is committed before the exception.
RunDataQualityChecks ==
    /\ At("check")
    /\ IF PassesQuality(summary, reference, registry)
       THEN Becomes(Succeed(runs[current])) /\ UNCHANGED health
       ELSE Becomes(Fail(runs[current])) /\ health' = "FAILED"
    /\ UNCHANGED <<inputs, reference, summary, current, clean, bounds>>

Environment ==
    \/ EditPortfolio \/ Seed \/ StartSimulator \/ StopSimulator \/ ArchiveEvents
    \/ RaiseAlert \/ WriteTemp \/ GenerateFails \/ ReplaceFeed \/ WriteFails
    \/ ResetFeed \/ ReissueFeed \/ TriggerRun \/ ClearTask \/ TransientFault

Tasks ==
    \/ WaitForFile \/ SensorTimesOut \/ ValidateReferenceFeed \/ CheckRawDailyData
    \/ LoadValidates \/ LoadCommits \/ ComputeDailyActuals \/ ReconcileExpectedActual
    \/ WriteDailySummary \/ RunDataQualityChecks

Next == Environment \/ Tasks

Spec == Init /\ [][Next]_vars

\* Airflow's scheduler is always there; the operator and the simulator may
\* never do anything.
FairSpec == Spec /\ WF_vars(Tasks)

(***************************************************************************)
(* Properties.                                                             *)
(***************************************************************************)
Ended == current > 0 /\ ~Active

\* What daily_reference holds is one whole feed: coverage is checked against
\* a registry that only grows, so a later feed replaces every row of an
\* earlier one (reference.py:264-282).  A load in which plants of two feeds
\* mix would price them at rates nobody published together.
ReferenceIsOneFeed ==
    reference = <<>> \/
        \E f \in AllFeeds : reference = ReferenceOf(f)

\* A feed that passed validation against a seeded registry is one PostgreSQL
\* accepts, whatever is seeded meanwhile: what the Python rules let through,
\* the table's CHECKs and its foreign key do too (reference.py:226-282,
\* 004_daily_batch.sql:13-28).
ValidationImpliesAccepted ==
    Active /\ runs[current].read # Null /\ runs[current].read.expected # {}
        => AcceptedReference(runs[current].read.rows, registry)

\* A run that succeeded from its trigger, with nothing changing under it,
\* leaves exactly the reconciliation of the day's feed with the day's archive,
\* whatever earlier runs, retries and cleared tasks had written
\* (reference.py:347-353, reconcile.py:327-333).
RunConverges ==
    clean /\ Ended /\ runs[current].state = "success"
        => /\ DOMAIN summary = registry
           /\ reference = ReferenceOf(feed)
           /\ summary = ReconcileDay(archive, ReferenceOf(feed), raised)

\* There were not more transient faults than a task has retries.
FaultsAreFew == mishaps <= Retries

\* A day whose feed covers the registry, whose archive has telemetry of known
\* plants and whose figures are plausible is reconciled, transient faults or
\* not (solariq_daily_reconciliation.py:47-54).
GoodDayIsReconciled ==
    /\ FaultsAreFew
    /\ clean /\ Ended /\ registry # {} /\ DOMAIN archive # {}
    /\ IsValidFeed(feed, registry, Today)
    /\ CanReconcile(archive, ReferenceOf(feed))
    => runs[current].state = "success"

\* A run that ended in the quality checks left FAILED behind, over the HEALTHY
\* its own write had recorded (tasks.py:276-290): transient faults alone do not
\* end it there.
CheckFailureIsReported ==
    FaultsAreFew /\ Ended /\ runs[current].state = "failed" /\ Task = "check"
        => health = "FAILED"

\* A run of the DAG comes to an end: no task waits for what may never come.
RunEnds == Active ~> Ended

\* The file the sensor sees is a whole feed (data-contracts.md:143-145).  This
\* one carries the type invariant.
FeedIsWhole ==
    TypeOK /\ feed \in AllFeeds \cup {Null}
=============================================================================
