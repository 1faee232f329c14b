# SolarIQ: TLA+ models, model checking and proofs

SolarIQ is a Lambda architecture for a simulated solar fleet. A simulator
publishes inverter telemetry to Kafka; a Spark job turns it into live metrics,
alerts and a Parquet archive (the speed layer); an Airflow DAG reconciles each
day's archive with a daily reference feed (the batch layer); an API and a
dashboard serve both from PostgreSQL. This directory holds TLA+ models of that
code, the TLC runs that check them and TLAPS proofs about them. Paths below are
relative to the repository root.

## 1. The system

| Component | State | Operations | Interacts with | Hard behaviour | What makes it correct |
|---|---|---|---|---|---|
| Simulator (`simulators/streaming/simulator.py`, `scenarios.py`, `common/portfolio.py`, `common/time.py`) | tick index, current day, energy ledger, loaded schedule | load configuration, `tick`, `on_day_boundary`, `run`, signals | producer, reference generator | day boundary, rerun with equal ids, suppressed ticks, a stop at any point | the archive's energy is what was generated; every ended day gets a feed; its own events are valid |
| Producer (`simulators/streaming/producer.py`) | local queue, delivery counters | `publish`, `publish_quarantine`, `_delivery_callback`, `flush`, `close` | Kafka | full queue, lost delivery, flush that times out | neither a full queue nor the flush waits for ever |
| Streaming job (`processing/streaming/job.py`, `source.py`, `archive.py`) | a checkpoint per query, the archive's file log | start, one batch of a query, query failure, job exit, restart | Kafka, MinIO, PostgreSQL | three queries at their own pace, crash between sink write and commit, one dead query | nothing skipped, archive exactly once, a dead query ends the job |
| Validation and deduplication (`validation.py`, `transforms.py`) | Spark's watermark and id store | validate, normalize, deduplicate, quarantine | job | late events, duplicates in another batch | a rejected record is quarantined, a valid one processed once |
| Microbatch (`pipeline.py`, `metrics.py`, `alerts.py`, `sinks.py`, `health.py`) | `live_plant_metrics`, `live_portfolio_metrics`, `pipeline_health` | `process_microbatch` in one transaction | alert store, asset registry | replay, abort, partial and empty batches | tables agree with each other; a replay changes nothing |
| Alert store (`alert_store.py`, migrations 003 and 006) | `alert_conditions`, `alerts` | the five statements of `reconcile_alerts` | microbatch, `daily_reference` | order of statements, clock that steps back, replay, constraints | one alert per sustained fault, closed once, history kept |
| Reference generator (`simulators/batch/reference.py`) | the day's file and its temporary file | forecast, write, rename | simulator, DAG | death between write and rename, refused forecast | what the DAG finds is a whole feed |
| Daily reconciliation (`orchestration/dags`, `processing/batch`) | `daily_reference`, `daily_plant_summary`, XCom values, health row | the tasks of the DAG | archive, reference feed, alerts, registry | retries of single tasks, cleared tasks, reissued feeds, quality checks after the commit | a run converges to one feed and one archive; failures are recorded |
| Serving API (`api/app`) | connection pool | GET handlers, readiness | PostgreSQL | SELECTs of one report, pool limit, broken connections, two clocks in the freshness label | a report adds up; connections are given back; a label is of the clock it claims |
| Dashboard (`dashboard/src`) | cached answers, power buffer | poll, append, retry | API | late windows, failed polls | the chart is in order |
| Migrations and seeding (`storage/migrate.py`, `seed_portfolio.py`) | `schema_migrations`, `plants`, `inverters` | discover, plan, apply, drift check, upsert | PostgreSQL, portfolio file | failure between migrations, two runs at once, edited files, reset | each migration applied once, in order; the record matches the schema |

The tables of PostgreSQL are the shared state: the speed layer writes live rows,
conditions, alerts and health; the batch layer writes reference and summary rows
and reads alerts; `reconcile_alerts` reads the reference rates; the API reads
everything. Kafka offsets, Spark's checkpoints and the feed files are the only
other durable state that a crash has to be consistent with. The hazards of the
code, each at its line, are in `PROJECT.json`.

## 2. The modules

| Module | Models | State and actions |
|---|---|---|
| `AlertLifecycle` | the SQL of `alert_store.py` and the constraints of migration 003 | no variables: one operator per statement over the two tables, `ReconciledConditions` and `ReconciledAlerts` for the whole transaction, `Accepted` for what PostgreSQL checks |
| `AlertStore` | those operators under Spark's scheduling | `conditions`, `alerts`, `loaded` are the tables; `batch`, `stage`, `applied` are the batch in the offset log, where it is, and how often its transaction has committed; `high` is the largest event time so far. `Reconcile` is the transaction, `Reject` its refusal, `Crash`/`Restart`/`CommitOffsets` are Spark's, `LoadReference` is the batch layer's. `IncidentBook` maps `alerts` to the book of `AlertBook` |
| `AlertBook` | what the alerts table promises a reader: a book of incidents, without conditions, batches or crashes | `book`, `now`; `Enter` opens and closes incidents as of one instant |
| `Ingest` | the three streaming queries | `topic` by partition; per query `committed`, `planned`, `stage`, `watermark`, `lateBound`, `seen`, `out`; `up` is the process. `Plan`, `Write`, `Commit` are one batch; `Fail`, `Exit`, `Interrupt`, `Restart` are the failures |
| `Microbatch` | `process_microbatch` from events to rows | the tables by primary key; `Persist` is the transaction of a batch with events, `PersistEmpty` the early return, `Abort` and `Refuse` the two ways it is rolled back. It takes the alert lifecycle by `A == INSTANCE AlertLifecycle`, so the two share the SQL |
| `SiteConfig` | the two YAML files as simulator and seeder read them, the schedule on the simulated clock, one reading and what a scenario makes of it, the validation before publishing, the batch layer's reading of the meter | no variables: a document is what the YAML parser returns, and each acceptance rule is a predicate on it |
| `Simulator` | the simulator process, its producer and, at the far end, the archive | the process is `phase`, `tick`, `next` (the site of the inverter the loop is at), `ledger`, `today`; librdkafka is `queue` and `reports`. `Start`, `BeginTick`, `Suppress`, `Publish`, `QueueStaysFull`, `LeaveLoop`, `Flush`, `FlushTimesOut` are the loop; `Signal`, `ForceExit`, `Kill` stop it; `Deliver`, `FailDelivery` are the broker |
| `DailyFeed` | one day's feed as operators: generator, validation, upsert and constraints, reconciliation, quality checks | no variables: a feed is a sequence of rows, a table a function from plants |
| `BatchDay` | those operators under Airflow, beside the simulator that writes the feed | files are `temp` and `feed`, tables `registry`, `reference`, `summary`, `health`; a DAG run is its tasks still to do, its tries and its XCom values. One action per task (two for `load_reference`, which reads in one transaction and writes in another); the environment edits, seeds, resets, reissues, stops the simulator, fails and clears tasks |
| `Serving` | pool, handlers and portfolio page against the writers | `idle` and `used` are psycopg2's pool; `requests` holds what each handler has read so far; `live`, `chart`, `daily`, `tries` are the page. `GetConn`, `Read`, `Missing`, `Complete`, `Break` are a handler; `WriteLive`, `Reconcile` the two layers; `Crash`, `Restore` PostgreSQL |
| `Migrations` | the migration runner, any number at once | `schema` is the content that built each version's tables, `recorded` is `schema_migrations`; each runner has the files it read, what is pending and its phase |
| `AlertStoreProofs`, `IngestProofs`, `MicrobatchProofs`, `BatchDayProofs`, `ServingProofs`, `SimulatorProofs`, `MigrationsProofs` | theorems about the module each is named after | |
| `SetLemmas` | lemmas on the largest and the smallest of a finite set and on finite sums | |

The `MC` modules instantiate them for TLC. A definition whose comment starts with
*Mutant* is a faulty variant of the definition below it and is used by no
specification: with it in place of the original, the property it is listed with
in `PROJECT.json` is violated.

How the modules compose. `Microbatch` and `AlertStore` run the same SQL
(`AlertLifecycle`), one from telemetry, the other from abstract observations for
any number of batches. `Simulator` and the batch layer's `actuals.py` are checked
end to end in one module, with the streaming job reduced to what `Ingest` shows of
it: it archives each id once, and only late events are lost. `BatchDay` takes the
archive as energies that grow and the alerts as counts that grow, and checks what
the batch layer makes of them; `Serving` takes its transaction as the writer of
`daily_plant_summary`, and `ReportIsWhole` rests on that transaction being one.

What the models leave to data: severity, message and ids of alerts; the average,
expected-power and percentage columns of the live rows; each single validation
rule of the stream (in `Ingest` a record is an event time or `Bad`). `priced`
stands for `estimated_revenue_loss IS NOT NULL`, and `impact` holds the
numerator, denominator and span `estimated_loss_kwh` is computed from, so no
arithmetic is rounded. In `Microbatch` losses are in units of `1/Reference` kW for
that reason; in `SiteConfig` power is in a unit that the percentages divide, and
the weather is one output per tick with noise; in `DailyFeed` the shape of a day is
a sequence of outputs. A live row in `Serving` is the end of its window, a summary
row the number of the reconciliation it is of.

Spark, Kafka, Airflow, psycopg2's pool and react-query are not in the repository.
They are modelled from how the code uses and configures them and are marked
external in the map where a definition models nothing else. `Ingest` models Spark
3.5, the version the repository pins: a batch is fixed in the offset log before it
runs and run again with the same content until the commit log has it; the parquet
sink skips a batch its own log lists, `foreachBatch` does not; late rows are held
against the watermark of the batch before; `dropDuplicatesWithinWatermark` forgets
an id when the watermark reaches its event time plus the delay; a batch without
records runs when the watermark has moved. `BatchDay` models a chain of tasks, one
retry each, a sensor that times out without retry, one active run, and clearing of
tasks of ended runs, which keep their XCom values. `Serving` models a pool that
keeps one idle connection, never keeps a broken one and raises when it is
exhausted.

## 3. Runs that pass

| Run | Instance | What it shows |
|---|---|---|
| `alert_store` | 1 inverter, 2 fault types, times 0..3, `Sustain` 2, `Lag` 1, days of 4, 6 batches, 1 crash | the two tables agree after every statement sequence; no stale, duplicate or unsustained alert; incidents in order; impact current; history kept; replay moves no start or end; `ImplementsBook` |
| `alert_store_unsustained` | 2 inverters, 1 type, `Sustain` 0 < `Lag` 1, 3 batches, 1 crash | refusal by PostgreSQL happens, and the job never passes the refused batch |
| `ingest` | 1 partition of 3 records, event times 1..3, watermark delay 1, archive and quarantine, 1 rerun, 2 failures | exactly-once archive, only late events lost, complete quarantine; a dead query ends the job; a job that stays up catches up |
| `microbatch` | 1 plant of 2 inverters, 4 readings, times 0..1, batches of up to 3 of the 4 events, 3 batches, 1 fault | live rows, conditions and health agree; power is instantaneous; a replay rewrites identical rows |
| `batch_day` | 2 plants, 3 configurations (one plant, two, a day the generator refuses), 2 reissued feeds (a corrected one, one in the wrong unit), 2 energies, 1 alert, 2 runs, 1 retry, 1 change, 1 mishap | `daily_reference` is never a mix of feeds; a validated feed is accepted; runs converge; one fault does not lose a good day; a failed check is recorded; no partial feed is seen; runs end |
| `simulator` | 2 plants of 1 inverter, days of 3 ticks, end at tick 4, queue of 2, watermark delay 2, 5 portfolios and 6 schedules of which some are refused, valid or corrupt events, 2 runs, 2 faults | seeder and simulator agree on assets; scenarios produce valid events; batch energy is generated energy; ended days have feeds; runs finish |
| `serving` | 3 clients, 2 connections, 2 plants, wall clock 0..1, a chart of 2 points, batches late by 1, 2 reconciliations, 1 crash | the pool accounts for every connection; a crash costs one later request; reports are whole; chart in order; every request is answered |
| `migrations` | 2 runners (symmetric), 3 files, 3 contents of which PostgreSQL refuses one, 1 edit, 1 reset, 3 runs, 1 kill | order and record of migrations; success means current |

Where no invariant is called `TypeOK`, it is a conjunct of a named one:
`OnlyLateIsLost` in `Ingest`, `HealthCoversRows` in `Microbatch`, `FeedIsWhole` in
`BatchDay`, `EndedDaysHaveFeeds` in `Simulator`, `PoolAccounts` in `Serving` and
`SchemaIsSound` in `Migrations`.

Why the bounds are enough. In `alert_store` a key needs three instants to open an
alert (two apart), a fourth to recur, and six batches for open, close, recur and a
clock that steps back in between; two fault types on one inverter are what a
change of type needs, and keys of different inverters do not read each other's
rows. In `ingest` three records are an original, its copy in a later batch and an
event between them that moves the watermark past it; one rerun makes the copy, two
failures let the second hit the run that recovers from the first. One partition
suffices there because the queries read partitions independently and the rerun
already makes event times go back; `ingest_late` has two. In `microbatch` four
events in batches of three give every split of a tick, every order of two ticks
and a silent inverter; three batches are two data batches around an empty one. In
`batch_day` two runs are one that leaves something behind and one over it, one
mishap is a fault or a cleared task in either, and one change is what can happen
between two tasks that read the same thing twice; the portfolio may grow, shrink
and become one whose forecast is refused. In `simulator` tick 4 is in the second
day with one boundary before it, a queue of two fills within a tick of two
inverters, and the second run repeats all ids of the first; the first schedule has
the three scenarios that change the meter or hide it across noon. In `serving`
two connections for three clients exhaust the pool, and two reconciliations are
what a report can be caught between; `Retries` is 0 (two in the code) because a
retry is the same request once more, and 1 in `live_after_stop`. In `migrations`
three files give a run a version before, at and after the one that fails, and
three runs a third that finds what two at once left behind.

The bounds (`MaxBatches`, `MaxCrashes`, `MaxRecords`, `MaxRuns`, `MaxFailures`,
`MaxEvents`, `MaxFaults`, `MaxAlerts`, `MaxChanges`, `MaxMishaps`, `MaxNow`,
`MaxVersions`, `MaxFiles`, `MaxEdits`, `MaxResets`, `MaxKills`) are constants in
the guards. The deadlock check is off in `batch_day`, `simulator` and
`migrations`, whose systems may stop: no run is left to trigger or start. It is
on elsewhere: a source or a page may always poll once more.

Fairness. In `ingest`, `WF(Advance(q))`: while the process is up Spark's own
thread runs the next step of each query; `WF(Exit)`: the main thread waits in
`awaitAnyTermination` and is woken by a failed query. There is none for `Restart`:
the job is started by hand and nothing in the repository restarts it, which is why
`CatchesUp` is conditional on the job staying up. The topic is bounded, so
`CatchesUp` speaks of the time after the last record; the bound on failures does
not make it true, since a job may stay down for ever and `Exit` and every batch
have to happen by fairness. In `batch_day`, `WF(Tasks)`: Airflow's scheduler runs
the next task of an active run; nothing obliges the operator, the simulator or the
seeder to act, so `RunEnds` rests on the sensor's timeout. In `simulator`,
`WF(Loop)`: the process runs; `WF(Deliver \/ FailDelivery)`: librdkafka resolves a
message by delivery or by `delivery.timeout.ms`. In `serving`, `WF(Handle(c))`: the
server's thread pool runs the handlers it has started; `WF(Ask)` for the page's two
queries. PostgreSQL is not obliged to come back.

`Lag`, how far the clock of a batch may be behind an earlier one, is an assumption
about the source. The watermark is meant to bound it, but late rows are held
against the watermark of the batch before, so one batch can still be older.
`NeverRejected` holds only for `Lag <= Sustain`; with the default of 3600 s of
simulated time it takes a clock that steps back by more than an hour of it, 12.5 s
of real time at the demo's speed. The settings also allow a sustain time of 0,
which is what `alert_store_unsustained` runs.

## 4. Where code and documents disagree

Each of these runs checks one statement of a document or comment and finds it
violated; the quotations are in `PROJECT.json`.

| Run | Statement | What the code does |
|---|---|---|
| `alert_replay_figures` | replays produce the same alerts | a replayed batch is counted twice in the mean loss, so the figures of an alert change; its lifecycle does not |
| `ingest_late` | the batch layer counts late events | the archive is fed by the deduplicated stream and loses them too |
| `slices_overlap` | rows summarise disjoint slices | a tick split over two batches gives one key, and the first row is lost |
| `live_after_stop` | LIVE means that rows were written recently | the label compares simulated time with the wall clock: a fixed start date ahead of it makes it LIVE for ever, one behind it STALE for ever |

Others follow from the definitions at a glance and have no run: the models do what
the code does, and no interleaving is needed to see it.

- An alert that resolves before its day's feed is loaded is never priced
  (`alert_store.py:121`); `docs/member-2-handoff.md:50` says NULL *until* then.
- `alert_store.py:163-165` says that one clock per batch rules out an alert that
  ends before it starts. A batch older than the one before can ask for just that;
  the CHECK of migration 003 refuses it, again after every restart
  (`RejectionIsFinal`).
- No code path of the stream writes FAILED (`pipeline.py:161`), although
  `health.py:21` defines it as "the batch raised".
- A plant that is silent altogether is not in the portfolio row
  (`metrics.py:239`); the comment at `metrics.py:50` has a silent inverter count.
- `docs/data-contracts.md:147-148` allows a day to be regenerated only in an
  explicit reset or demo mode; `run` overwrites by default (`simulator.py:260`).
- A microbatch that ends within a tick makes the inverters of the rest look
  silent: a gap is tracked and the condition of a real fault is deleted, so its
  sustain time starts again. A batch that moves the watermark is followed by one
  without records, which records DEGRADED over HEALTHY.
- `demo_reset.sh --all` truncates `schema_migrations` and leaves the tables. Every
  version is then recorded again with the file as it is now, while `IF NOT EXISTS`
  keeps the old table: an edit between the two is never noticed. This is why
  `SchemaIsSound` relates record and schema only until a reset.
- The page asks for a day once it has a live row of it, before the day has ended,
  gets 404 and does not ask again for that date while it stays open
  (`queries.ts:18`; a 404 is not retried and the query is not polled).
- One archived event is enough for `check_raw_daily_data`: a day whose telemetry is
  still arriving is reconciled as it is. `RunConverges` speaks of runs under which
  nothing changed.
- Seeding never deactivates a plant that was removed from the file
  (`seed_portfolio.py:175`), so from then on no generated feed covers the registry
  and every day fails validation.

## 5. Proofs

`AlertStoreProofs` proves of `AlertStore`, for every fleet, every set of losses
and times, every `Sustain`, `Lag` and `DayLength` and any number of batches and
crashes, from `LifecycleAssumption` and `StoreAssumption` alone:

- `TypeCorrect`, `AlertsAlwaysMatchConditions`, `NoStaleAlertTheorem`,
  `OneFaultPerInverterTheorem`, `IncidentsAreSustainedTheorem`,
  `IncidentsInOrderTheorem`, `ImpactIsCurrentTheorem`: invariants;
- `NeverRejectedTheorem`: under `Lag <= Sustain` no batch is ever refused.
  `alert_store_unsustained` is an instance without the assumption in which
  batches are refused;
- `HistoryIsKeptTheorem`, `ReplayKeepsLifecycleTheorem`: action properties;
- `ImplementsBookTheorem`: the store implements `AlertBook`, step by step and with no
  assumption on the clock; `RejectionIsFinalTheorem`: a batch PostgreSQL refuses is
  refused at every restart, and nothing is planned after it.

The argument. None of the invariants is inductive alone: that a closed incident
was sustained depends on what was true of its condition while it was open, and
that the next one starts after it on where the clock was when it closed. `IInv`
therefore says of each row of `alerts` (`RowOK`, `KeyOK`, `BooksOK`) that an ACTIVE
row is the last of its key, starts where its condition does and carries its
impact; that a closed one lasted `Sustain - Lag`, ended no later than `high`, and at
most `Lag` after the start of a condition its key has now; of conditions
(`ConditionsOK`) that an inverter has one at most and none is newer than `high`; of
the batch (`BatchOK`) that it obeys `Lag`; and (`AppliedOK`) that once its
transaction has committed the conditions are exactly what it observed, which is
what makes a replay harmless. The lemmas go through the five statements one by
one: `ReconciledConditionsValue` and `ConditionsAfter` for the condition table,
`OpenedRows`, `RefreshedRows`, `ClearedRows` for one key's rows, `KeyAfter` and
`TablesAfter` for the whole transaction. `TablesAfter` is about the tables the
statements compute, accepted or not, and `WellFormedIsAccepted` gives
`NeverRejected` from it. For the refinement, `IncidentsAfter` says what a
transaction does to the incidents of one key (close the open one, open one at the
batch's clock, or neither), and `NextBook` that every step of the store is then a
step of the book or a stutter: a replay stutters because `AppliedOK` holds. A
refused transaction leaves the tables as they were, and `Refused` says that what is
refused depends on the tables and the batch only, apart from the reference rates:
`RatesOnlyPrice` and `RatesDoNotReject` show that those decide `priced` and
nothing a constraint reads, so a feed loaded meanwhile does not help.

`IngestProofs` proves of `Ingest`, for every set of queries, every finite set of
partitions and any number of records, reruns and failures, `ArchivedOnceTheorem`,
`OnlyLateIsLostTheorem` and `QuarantineIsCompleteTheorem`. That an id is not archived
twice is not inductive: it rests on the state store still knowing the id of
everything in the archive, or on the watermark having passed it. `QueryInv` says so
for each query: the watermark is at most the largest event time planned less the
delay (`WatermarkFollows`), an id in the store is of an event in the sink
(`StoreIsInSink`), a batch the sink has is in it as a whole (`BatchIsInSink`), an
archived event is there once and known, older than the bound late rows are held
against, or of the batch under way (`ArchivedAreKnown`), a
consumed event that is not archived was old when it came (`OldIsLost`), and what the
quarantine query has consumed is in the topic (`RejectedAreKept`).

`MicrobatchProofs` proves of `Microbatch`, for every fleet, every finite set of
inverters, readings and times and any number of batches and faults,
`HealthCoversRowsTheorem`, `LiveAgreesWithAlertsTheorem`,
`PowerIsInstantaneousTheorem` and `ReplayIsIdenticalTheorem`. The invariant adds that
a condition's first observation is not after its last (`ConditionsInOrder`) and that
once the batch's transaction has committed the tables hold the batch's rows
(`AppliedIsWritten`), which makes the replay an upsert of what is there
(`UpsertedRows`). `OfflineAgrees` is where `metrics.py` meets `alerts.py`: the
inverters the one does not count as online are those the other has a gap or offline
verdict on, one to one. `PowerIsInstantaneous` compares sums over finite sets
(`SumMonotone` of `SetLemmas`).

`BatchDayProofs` proves of `BatchDay`, for every set of plants, configurations,
reissues and energies and any number of runs, retries, changes and mishaps,
`FeedIsWholeTheorem`, `ReferenceIsOneFeedTheorem`,
`ValidationImpliesAcceptedTheorem`, `RunConvergesTheorem`,
`GoodDayIsReconciledTheorem` and `CheckFailureIsReportedTheorem`. `RunsInv` is the
shape of the runs: the ones before the current one have ended, and a run's tasks are
a suffix of the chain. `ReferenceIsOneFeed` holds because the registry only grows,
so the reference table never has a plant that the feed read now does not cover
(`ReadInv`). For a run under which nothing changed, `CleanInv` says what each task
has left behind for the next (`Made`): the feed that was read is the file, the
reference table is of it, the actuals are the archive's, the summary is their
reconciliation. `GoodInv` adds that the only failures are transient ones, so the
task's tries are bounded by the mishaps so far. The last two theorems assume
`FaultsAreFew` in their statement: with more transient faults than a task has
retries a good day is lost, which is what retries mean.

`ServingProofs` proves of `Serving`, for every set of clients, every finite set of
plants, every pool limit and any number of batches, reconciliations and crashes,
`PoolAccountsTheorem`, `OneRequestPaysTheorem`, `ReportIsWholeTheorem` and
`ChartInOrderTheorem`. `PoolInv` says that the connections given out are those of the
requests that hold one, and that the one connection the pool keeps idle is broken
only as long as no request has paid for the crash. `DailyInv`
relates what a report has read so far to the day's summary now, by the reading's
place in it, unless the day was rewritten; `DaysAreWhole` says that a day has either
all plants or none. `ChartInv` says that the chart ends with the newest row that was
shown.

`SimulatorProofs` proves of `Simulator`, for every set of portfolios and schedules,
every shape of the day and noise and any number of ticks, runs and faults,
`ActualIsGenerationTheorem`, `SeederFollowsSimulatorTheorem`,
`QuarantinesNothingItselfTheorem` and `EndedDaysHaveFeedsTheorem`. That the batch
layer's energy is what was generated has two halves. The first is an invariant of
the process: `LedgerInv` gives every inverter's meter in the middle of a tick, by
whether the loop has passed its site yet (`MeteredTicks`): the energy of the day of
the last tick it was metered in, from the start of that day. `AdvanceSites` is why no
site is passed over and none metered twice. `StocksInv` then says that what is queued
or archived is the one event there can be of an inverter and a tick (`Event`), so a
restarted run, which meets the same ticks with an empty ledger, adds nothing new. It
needs `ConfigInv`: what was loaded has passed the checks, so two inverters have two
meters (`KeysDiffer`) and no power exceeds its rating (`OutcomeIsFit`), which is also
why nothing is quarantined. The second half is about the archive alone: events of one
meter, whichever of them are missing, have increments that add up to the last reading
(`IncrementsAddUp`). For the feeds, `TodayInv` says which day the loop knows and
`NextDay` that the next tick is at most one day on, so no boundary is skipped.

The assumptions, each named in the module that declares the constants and
evaluated by TLC: types of the constants; `Partitions`, `Plants`, `Inverters`,
`Times` and `Readings` are finite, since sums and cardinalities over them are; in
`BatchDay` a configuration's plants are among `Plants` and a feed's figures are
integers or missing; in `SiteConfig` and `Simulator` a day has a whole number of
ticks, their outputs are percentages and the noise is a natural number, and a
document has lists where the parser looks for lists and numbers, or nothing, where
it looks for numbers (`IsPortfolio`, `IsSchedule`).

`MigrationsProofs` proves of `Migrations`, for every set of runners and contents
and every number of files, edits, resets, runs and kills, from
`MigrationsAssumption` alone, `SchemaIsSoundTheorem` and
`SuccessMeansCurrentTheorem`. Neither is inductive: a commit builds the version a
run has planned, and whether that is the right one depends on when the run looked.
`IInv` adds to the two: what is recorded is built (`RecordedIsBuilt`); what a run
under way found and no longer has pending is built and, unless there was a reset
since it began, recorded with the content it found (`RunsAreAhead`); a version in
an open transaction is no other runner's and not yet recorded (`OpenIsExclusive`).
The last part is what makes two runners with one plan harmless: the second comes
to a version only after the first has committed, finds it recorded and fails,
which is the primary key of `schema_migrations`. There is one lemma per action
that moves files, tables or a plan (`DirectoryPreserves`, `ResetPreserves`,
`PlanPreserves`, `ApplyPreserves`, `CommitPreserves`) and one for those that only
end or begin a run (`QuietPreserves`).

Only model-checked: the
liveness properties `CatchesUp`, `FailureSurfaces`, `RunEnds`, `RunFinishes` and
`RequestsAreAnswered`. Liveness under fairness and ENABLED are beyond the prover
used here, as are induction over data and RECURSIVE operators; no module here
declares one. Sums and maxima over finite sets are folds of the community modules;
`SetLemmas` proves what the proofs need of them by taking a smallest counterexample.

## 6. Not modelled, and what could come next

Not modelled, with the reason:

- the weather and generation model, rounding of readings, expected-power and
  performance columns: numerics without state, over reals;
- observability rules and the metrics endpoints: thresholds over counters that
  nothing of the system reads back; logging;
- the API routes for history, plants, alerts and reports and the dashboard's other
  pages: one or two SELECTs and their rendering, the shapes of which `Serving` has;
- `migrate.py --status` and `--dry-run`: they end where `Plan` ends and write
  nothing but the tracking table;
- a reset of topics and tables while the job, the page or a DAG run is at work: what
  Spark does with offsets beyond a recreated topic is decided outside the
  repository;
- an edited schedule between two runs of the simulator: the meters of two schedules
  are not comparable, and nothing says what the batch layer should make of them;
- two fetches of one query in flight: react-query makes one of them.

What could come next, most important first: `Microbatch` shown to implement
`AlertStore`, so that what is proved of the alerts holds of the tables a microbatch
writes by theorem and not only by shared definitions; `Ingest` shown to implement an
abstract exactly-once log that `Simulator`'s `Archived` could then be replaced by.
