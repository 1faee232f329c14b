----------------------------- MODULE Simulator ------------------------------
(***************************************************************************)
(* The telemetry simulator: the tick loop of                               *)
(* simulators/streaming/simulator.py with its energy ledger, the producer  *)
(* it publishes through and, at the far end, the raw archive and the daily *)
(* energy the batch layer reads from it.                                   *)
(*                                                                         *)
(* The loop is one thread and publishes the inverters of a tick one after  *)
(* another.  The broker resolves what is in librdkafka's queue at its own  *)
(* pace, and the delivery callbacks run when the loop next polls.  The     *)
(* archive takes events in the order of their delivery.  How the streaming *)
(* job gets them there is Ingest's subject: an event it loses as late is   *)
(* one whose delivery failed here.                                         *)
(***************************************************************************)
EXTENDS SiteConfig

CONSTANTS
    Portfolios, \* documents portfolio.yaml may hold
    Schedules,  \* documents scenarios.yaml may hold
    StopAt,     \* the tick at which --days is reached
    QueueLimit, \* librdkafka's queue, in messages
    Delay,      \* STREAM_WATERMARK, in ticks
    MaxRuns,    \* bound: starts of the simulator
    MaxFaults   \* bound: lost messages, full disks, stalls and kills

ASSUME SimulatorAssumption ==
    /\ {StopAt, QueueLimit, Delay, MaxRuns, MaxFaults} \subseteq Nat
    /\ \A doc \in Portfolios \ {Null} : IsPortfolio(doc)
    /\ \A doc \in Schedules \ {Null} : IsSchedule(doc)
    /\ \A doc \in Portfolios \ {Null} : \A s \in Sites(doc) : \A t \in 0..StopAt :
          Noise[<<AssetKey(InvertersOf(doc)[s]), t>>] \in Nat

VARIABLES
    portfolio,  \* the document in portfolio.yaml
    schedule,   \* the document in scenarios.yaml
    invalid,    \* SIMULATION_EMIT_INVALID_EVENTS
    phase,      \* where the process is
    shutdown,   \* a signal has been received
    fleet,      \* the inverters of the portfolio it has loaded, by site
    windows,    \* the schedule it has loaded
    tick,       \* its tick_index
    next,       \* the site of the inverter that comes next in the tick
    ledger,     \* for each asset, the day of its meter and the energy on it
    today,      \* _current_day, or Null
    stats,      \* ProducerStats
    queue,      \* messages in librdkafka's queue, oldest first
    reports,    \* delivery reports not yet polled
    quarantine, \* records of the invalid topic
    archive,    \* events in the raw archive
    feeds,      \* days with a reference feed
    unwritten,  \* ghost: days whose feed could not be written
    runs,       \* starts so far (bound)
    faults      \* faults so far (bound)

config   == <<portfolio, schedule, invalid>>
process  == <<phase, shutdown, fleet, windows, tick, next, ledger, today>>
producer == <<stats, queue, reports>>
stored   == <<quarantine, archive, feeds, unwritten>>
vars == <<config, process, producer, stored, runs, faults>>

FirstSite == <<1, 1>>
Assets == { AssetKey(fleet[s]) : s \in DOMAIN fleet }
Ticks == 0..StopAt
AtRest == [produced |-> 0, delivered |-> 0, failed |-> 0]

\* Process, producer and stores hold what their types allow.
TypeOK ==
    /\ phase \in {"stopped", "ticking", "producing", "closing"}
    /\ shutdown \in BOOLEAN
    /\ tick \in Ticks
    /\ phase = "producing" => next \in DOMAIN fleet
    /\ DOMAIN ledger \subseteq Assets
    /\ \A a \in DOMAIN ledger : ledger[a].day \in Nat /\ ledger[a].energy \in Nat
    /\ today \in {Null} \cup {DayOfTick(t) : t \in Ticks}
    /\ stats \in [produced : Nat, delivered : Nat, failed : Nat]
    /\ Len(queue) <= QueueLimit
    /\ reports \in [ok : 0..QueueLimit, failed : 0..QueueLimit]
    /\ \A e \in archive : e.asset \in Assets /\ e.tick \in Ticks
    /\ feeds \cup unwritten \subseteq Nat

Init ==
    /\ portfolio \in Portfolios
    /\ schedule \in Schedules
    /\ invalid \in BOOLEAN
    /\ phase = "stopped"
    /\ shutdown = FALSE
    /\ fleet = <<>>
    /\ windows = {}
    /\ tick = 0
    /\ next = FirstSite
    /\ ledger = <<>>
    /\ today = Null
    /\ stats = AtRest
    /\ queue = <<>>
    /\ reports = [ok |-> 0, failed |-> 0]
    /\ quarantine = {}
    /\ archive = {}
    /\ feeds = {}
    /\ unwritten = {}
    /\ runs = 0
    /\ faults = 0

Fault == faults < MaxFaults /\ faults' = faults + 1

(***************************************************************************)
(* The process starts and stops.                                           *)
(***************************************************************************)
\* build_simulator: configuration is loaded and checked, everything the
\* process keeps is new, and the clock starts at the first day again.
Start ==
    /\ phase = "stopped"
    /\ runs < MaxRuns
    /\ runs' = runs + 1
    /\ SimulatorAccepts(portfolio)
    /\ ScheduleAccepts(schedule, portfolio)
    /\ phase' = "ticking"
    /\ shutdown' = FALSE
    /\ fleet' = InvertersOf(portfolio)
    /\ windows' = WindowsOf(schedule)
    /\ tick' = 0
    /\ next' = FirstSite
    /\ ledger' = <<>>
    /\ today' = Null
    /\ stats' = AtRest
    /\ UNCHANGED <<config, queue, reports, stored, faults>>

\* A document is refused: main logs it and exits.
RefuseConfig ==
    /\ phase = "stopped"
    /\ runs < MaxRuns
    /\ runs' = runs + 1
    /\ ~(SimulatorAccepts(portfolio) /\ ScheduleAccepts(schedule, portfolio))
    /\ UNCHANGED <<config, process, producer, stored, faults>>

\* SIGINT or SIGTERM: the handler only sets a flag.
Signal ==
    /\ phase \in {"ticking", "producing"}
    /\ ~shutdown
    /\ shutdown' = TRUE
    /\ UNCHANGED <<config, phase, fleet, windows, tick, next, ledger, today, producer, stored,
                   runs, faults>>

\* A second signal leaves the tick where it is.  It raises SystemExit, so the
\* producer is closed on the way out.
ForceExit ==
    /\ phase \in {"ticking", "producing"}
    /\ shutdown
    /\ phase' = "closing"
    /\ UNCHANGED <<config, shutdown, fleet, windows, tick, next, ledger, today, producer, stored,
                   runs, faults>>

\* SIGKILL, or a signal during the flush: what is queued is gone.
Kill ==
    /\ phase # "stopped"
    /\ Fault
    /\ phase' = "stopped"
    /\ queue' = <<>>
    /\ reports' = [ok |-> 0, failed |-> 0]
    /\ UNCHANGED <<config, shutdown, fleet, windows, tick, next, ledger, today, stats, stored,
                   runs>>

(***************************************************************************)
(* One tick.                                                               *)
(***************************************************************************)
\* Mutant: the feed is written for the day that begins.
FeedOfNewDay(day, written) ==
    /\ today' = day
    /\ feeds' = IF today # Null /\ today # day /\ written THEN feeds \cup {day} ELSE feeds
    /\ unwritten' = unwritten

\* on_day_boundary: at the first tick of a new day, the feed of the day that
\* ended.  If it cannot be written the simulation goes on.
OnDayBoundary(day, written) ==
    LET ended == today # Null /\ today # day
    IN  /\ today' = day
        /\ feeds' = IF ended /\ written THEN feeds \cup {today} ELSE feeds
        /\ unwritten' = IF ended /\ ~written THEN unwritten \cup {today} ELSE unwritten

BeginTick ==
    /\ phase = "ticking"
    /\ ~shutdown
    /\ tick < StopAt
    /\ \/ OnDayBoundary(DayOfTick(tick), TRUE) /\ UNCHANGED faults
       \/ /\ today # Null /\ today # DayOfTick(tick)
          /\ Fault
          /\ OnDayBoundary(DayOfTick(tick), FALSE)
    /\ phase' = "producing"
    /\ next' = FirstSite
    /\ UNCHANGED <<config, shutdown, fleet, windows, tick, ledger, producer, quarantine,
                   archive, runs>>

\* The loop ends at a signal or when --days is reached, before the day
\* boundary is looked at.
LeaveLoop ==
    /\ phase = "ticking"
    /\ shutdown \/ tick = StopAt
    /\ phase' = "closing"
    /\ UNCHANGED <<config, shutdown, fleet, windows, tick, next, ledger, today, producer, stored,
                   runs, faults>>

\* EnergyLedger.accumulate: a new day starts from zero.  A tick is one
\* simulated hour here, so power is energy.
Accumulate(asset, day, energy) ==
    LET before == IF asset \in DOMAIN ledger /\ ledger[asset].day = day
                  THEN ledger[asset].energy ELSE 0
    IN  [day |-> day, energy |-> before + energy]

Current == fleet[next]
CurrentOutcome == OutcomeAt(windows, Current, tick)
CurrentMeter ==
    Accumulate(AssetKey(Current), DayOfTick(tick), CurrentOutcome.power)

Metered ==
    ledger' = [a \in DOMAIN ledger \cup {AssetKey(Current)} |->
                   IF a = AssetKey(Current) THEN CurrentMeter ELSE ledger[a]]

\* The loop goes on to the next inverter of the plant, to the next plant, or
\* to the next tick.
Advance ==
    LET neighbour == <<next[1], next[2] + 1>>
        elsewhere == <<next[1] + 1, 1>>
    IN  IF {neighbour, elsewhere} \cap DOMAIN fleet = {}
        THEN phase' = "ticking" /\ tick' = tick + 1 /\ next' = FirstSite
        ELSE /\ next' = IF neighbour \in DOMAIN fleet THEN neighbour ELSE elsewhere
             /\ UNCHANGED <<phase, tick>>

\* Mutant: the meter only runs when the inverter reports.
SuppressUnmetered ==
    /\ phase = "producing"
    /\ ~CurrentOutcome.publish
    /\ Advance
    /\ UNCHANGED <<config, shutdown, fleet, windows, ledger, today, producer, stored, runs,
                   faults>>

\* A gap: the meter runs on, and nothing is published.
Suppress ==
    /\ phase = "producing"
    /\ ~CurrentOutcome.publish
    /\ Metered
    /\ Advance
    /\ UNCHANGED <<config, shutdown, fleet, windows, today, producer, stored, runs, faults>>

Built == BuildEvent(Current, tick, CurrentOutcome, CurrentMeter.energy)
Payload == IF invalid THEN Corrupted(Built) ELSE Built
Reason == RejectionReason(Payload, Current.rating)

\* What goes into the queue: the event, or its quarantine record.
Message ==
    IF Reason = Null THEN [topic |-> "raw", body |-> Payload]
    ELSE [topic |-> "invalid", body |-> [event |-> Payload, reason |-> Reason]]

Unpolled == reports.ok + reports.failed
Queued == Len(queue) + Unpolled

\* _delivery_callback, for every report that is in.
Served(s) == [s EXCEPT !.delivered = @ + reports.ok, !.failed = @ + reports.failed]

\* Mutant: a full queue is waited for and not polled.
PublishUnpolled ==
    /\ phase = "producing"
    /\ CurrentOutcome.publish
    /\ Queued < QueueLimit
    /\ Metered
    /\ queue' = Append(queue, Message)
    /\ stats' = [Served(stats) EXCEPT !.produced = @ + 1]
    /\ reports' = [ok |-> 0, failed |-> 0]
    /\ Advance
    /\ UNCHANGED <<config, shutdown, fleet, windows, today, stored, runs, faults>>

\* _produce: a full queue is polled and tried once more, and every produce is
\* followed by a poll.
Publish ==
    /\ phase = "producing"
    /\ CurrentOutcome.publish
    /\ Queued < QueueLimit \/ Unpolled > 0
    /\ Metered
    /\ queue' = Append(queue, Message)
    /\ stats' = [Served(stats) EXCEPT !.produced = @ + 1]
    /\ reports' = [ok |-> 0, failed |-> 0]
    /\ Advance
    /\ UNCHANGED <<config, shutdown, fleet, windows, today, stored, runs, faults>>

\* The queue is still full after the poll: BufferError ends the run.
QueueStaysFull ==
    /\ phase = "producing"
    /\ CurrentOutcome.publish
    /\ Len(queue) = QueueLimit
    /\ Fault
    /\ Metered
    /\ phase' = "closing"
    /\ UNCHANGED <<config, shutdown, fleet, windows, tick, next, today, producer, stored, runs>>

(***************************************************************************)
(* The broker, and the producer's flush.                                   *)
(***************************************************************************)
\* The archive takes an event unless it has its id already or the event is
\* behind the watermark.
Archived(e) ==
    LET late == \E x \in archive : x.tick > e.tick + Delay
        known == \E x \in archive : x.asset = e.asset /\ x.tick = e.tick
    IN  IF late \/ known THEN archive ELSE archive \cup {e}

Delivered(message) ==
    IF message.topic = "raw"
    THEN archive' = Archived(message.body) /\ UNCHANGED quarantine
    ELSE quarantine' = quarantine \cup {message.body} /\ UNCHANGED archive

Deliver ==
    /\ queue # <<>>
    /\ Delivered(Head(queue))
    /\ queue' = Tail(queue)
    /\ reports' = [reports EXCEPT !.ok = @ + 1]
    /\ UNCHANGED <<config, process, stats, feeds, unwritten, runs, faults>>

\* The broker refuses a message, or delivery.timeout.ms passes.
FailDelivery ==
    /\ queue # <<>>
    /\ Fault
    /\ queue' = Tail(queue)
    /\ reports' = [reports EXCEPT !.failed = @ + 1]
    /\ UNCHANGED <<config, process, stats, stored, runs>>

\* close: the flush returns with the queue empty.
Flush ==
    /\ phase = "closing"
    /\ queue = <<>>
    /\ stats' = Served(stats)
    /\ reports' = [ok |-> 0, failed |-> 0]
    /\ phase' = "stopped"
    /\ UNCHANGED <<config, shutdown, fleet, windows, tick, next, ledger, today, queue, stored,
                   runs, faults>>

\* ... or with messages still in it after its timeout: they are lost.
FlushTimesOut ==
    /\ phase = "closing"
    /\ queue # <<>>
    /\ Fault
    /\ stats' = Served(stats)
    /\ reports' = [ok |-> 0, failed |-> 0]
    /\ queue' = <<>>
    /\ phase' = "stopped"
    /\ UNCHANGED <<config, shutdown, fleet, windows, tick, next, ledger, today, stored, runs>>

Loop ==
    BeginTick \/ LeaveLoop \/ Suppress \/ Publish \/ QueueStaysFull \/ Flush \/ FlushTimesOut

Next ==
    \/ Start \/ RefuseConfig \/ Signal \/ ForceExit \/ Kill
    \/ Loop \/ Deliver \/ FailDelivery

Spec == Init /\ [][Next]_vars

\* The process runs, and the broker answers or the delivery times out.
\* Nothing obliges an operator to start it.
FairSpec == Spec /\ WF_vars(Loop) /\ WF_vars(Deliver \/ FailDelivery)

(***************************************************************************)
(* Properties.                                                             *)
(***************************************************************************)
\* A portfolio the simulator runs is one the seeder takes, so every plant
\* that sends telemetry can be in the registry, with a row of its own for
\* every inverter (portfolio.py:156-241, seed_portfolio.py:97-156).
SeederFollowsSimulator ==
    fleet # <<>> =>
        /\ SeederAccepts(portfolio)
        /\ \A r, s \in DOMAIN fleet : AssetKey(fleet[r]) = AssetKey(fleet[s]) => r = s

\* What a scenario makes of a reading passes the validation before publishing:
\* nothing is quarantined unless invalid events are asked for
\* (scenarios.py:163-207 against events.py:196-231).
QuarantinesNothingItself == quarantine # {} => invalid

\* The energy an asset has generated in the day of a tick, up to it, silent
\* ticks included.
GeneratedUpTo(inverter, t) ==
    SumFunctionOnSet([u \in 0..t |-> OutcomeAt(windows, inverter, u).power],
                     { u \in 0..t : DayOfTick(u) = DayOfTick(t) })

LatestTick(events) == Max({ e.tick : e \in events })

\* The batch layer's energy of an inverter is what it had generated by the last
\* event of the day that reached the archive: silent ticks, lost messages,
\* duplicates of a restarted run and the day boundary neither lose nor add any
\* (simulator.py:155-162, generation.py:245-261, actuals.py:84-105).  All runs
\* use one schedule here: the meters of two are not comparable.
ActualIsGeneration ==
    \A s \in DOMAIN fleet : \A t \in Ticks :
        LET events == EventsOf(archive, AssetKey(fleet[s]), DayOfTick(t))
        IN  events # {} =>
                InverterActual(archive, AssetKey(fleet[s]), DayOfTick(t)).generation
                    = GeneratedUpTo(fleet[s], LatestTick(events))

\* A day that ended while the simulator ran has a reference feed, unless the
\* feed could not be written (simulator.py:214-253).  This one carries the type
\* invariant.
EndedDaysHaveFeeds ==
    /\ TypeOK
    /\ \A day \in 0..DayOfTick(StopAt) :
          today # Null /\ day < today => day \in feeds \cup unwritten

\* A run ends: --days is reached, and neither a full queue nor the flush
\* waits for ever (producer.py:121-150, 175-185).
RunFinishes == phase # "stopped" ~> phase = "stopped"
=============================================================================
