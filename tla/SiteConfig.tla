----------------------------- MODULE SiteConfig -----------------------------
(***************************************************************************)
(* The two files the simulator is started from, and what its model of the  *)
(* portfolio makes of them: simulators/common/portfolio.py,                *)
(* simulators/streaming/scenarios.py, generation.py and events.py, with    *)
(* the seeder's own reading of the portfolio (storage/seed_portfolio.py).  *)
(* There are no variables here: Simulator runs the operators.              *)
(*                                                                         *)
(* A document is what the YAML parser returns, Null where a key is missing *)
(* or a value is not of the kind it should be.  YAML's `true` and `.inf`   *)
(* are values of their own, because the two readers disagree on them.      *)
(* Power is in a unit that the instance's percentages divide.              *)
(***************************************************************************)
EXTENDS Integers, FiniteSetsExt, SequencesExt

CONSTANTS
    DaySeconds,   \* SIMULATION_DAY_SECONDS
    Interval,     \* telemetry_interval_seconds
    Shape,        \* the output of each tick of a day, in percent
    Noise,        \* power_noise of <<asset, tick>>, in percent
    MinPlants,    \* MIN_PLANTS
    InverterRange, \* MIN_INVERTERS_PER_PLANT..MAX_INVERTERS_PER_PLANT
    YamlTrue, YamlInf, Null

\* Why an event is refused before it is published.
Reasons ==
    {"NEGATIVE_ACTIVE_POWER", "NEGATIVE_ENERGY", "POWER_EXCEEDS_RATING", "STATUS_INCONSISTENT"}

ASSUME SiteAssumption ==
    /\ {DaySeconds, Interval} \subseteq Nat \ {0}
    /\ Shape \in Seq(0..100)
    /\ DaySeconds = Interval * Len(Shape)
    /\ Null \notin Int \cup Reasons

TicksPerDay == Len(Shape)
DayOfTick(tick) == tick \div TicksPerDay
SecondsIntoDay(tick) == (tick % TicksPerDay) * Interval

\* What the YAML parser makes of a list of plants and of a list of windows.
IsPortfolio(plants) ==
    /\ plants \in Seq(Range(plants))
    /\ \A p \in DOMAIN plants :
          /\ plants[p].inverters \in Seq(Range(plants[p].inverters))
          /\ \A inverter \in Range(plants[p].inverters) :
                inverter.rating \in Int \cup {Null, YamlTrue, YamlInf}

IsSchedule(doc) ==
    /\ doc.reference \in Int \cup {Null}
    /\ doc.windows # Null =>
          \A w \in Range(doc.windows) :
              /\ DOMAIN w = {"scenario", "start", "end", "plant", "inverter", "factor"}
              /\ {w.start, w.end, w.factor} \subseteq Int \cup {Null}

DistinctIds(seq) == \A i, j \in DOMAIN seq : seq[i].id = seq[j].id => i = j

(***************************************************************************)
(* portfolio.yaml, as the simulator and as the seeder read it.             *)
(***************************************************************************)
\* simulators/common/portfolio.py, _positive_float.
IsPositiveFinite(raw) == raw \notin {Null, YamlTrue, YamlInf} /\ raw > 0

\* storage/seed_portfolio.py, _positive_float: float(True) is 1, and infinity
\* is greater than zero.
IsPositive(raw) == raw \in {YamlTrue, YamlInf} \/ (raw # Null /\ raw > 0)

RatingSum(plant) ==
    FoldSeq(LAMBDA inverter, sum : inverter.rating + sum, 0, plant.inverters)

\* Within CAPACITY_TOLERANCE, a quarter, of the nameplate.
IsConsistent(plant) ==
    /\ 4 * (RatingSum(plant) - plant.capacity) <= plant.capacity
    /\ 4 * (plant.capacity - RatingSum(plant)) <= plant.capacity

SimulatorAcceptsPlant(plant) ==
    /\ plant.id # Null
    /\ plant.inverters # <<>>
    /\ \A i \in DOMAIN plant.inverters :
          /\ plant.inverters[i].id # Null
          /\ IsPositiveFinite(plant.inverters[i].rating)
    /\ DistinctIds(plant.inverters)
    /\ plant.name # Null
    /\ IsPositiveFinite(plant.capacity)
    /\ plant.rate # Null => IsPositiveFinite(plant.rate)
    /\ IsConsistent(plant)

\* Mutant: plant ids may repeat.
SimulatorAcceptsRepeats(plants) ==
    /\ plants \notin {Null, <<>>}
    /\ \A i \in DOMAIN plants : SimulatorAcceptsPlant(plants[i])
    /\ Len(plants) >= MinPlants
    /\ \A i \in DOMAIN plants : Len(plants[i].inverters) \in InverterRange

\* load_portfolio, with the demo scale it checks by default.
SimulatorAccepts(plants) ==
    /\ plants \notin {Null, <<>>}
    /\ \A i \in DOMAIN plants : SimulatorAcceptsPlant(plants[i])
    /\ DistinctIds(plants)
    /\ Len(plants) >= MinPlants
    /\ \A i \in DOMAIN plants : Len(plants[i].inverters) \in InverterRange

SeederAcceptsPlant(plant) ==
    /\ plant.id # Null
    /\ plant.inverters # <<>>
    /\ \A i \in DOMAIN plant.inverters :
          /\ plant.inverters[i].id # Null
          /\ IsPositive(plant.inverters[i].rating)
    /\ DistinctIds(plant.inverters)
    /\ IsPositive(plant.capacity)

\* A nameplate the ratings do not add up to is only a warning here.
SeederAccepts(plants) ==
    /\ plants \notin {Null, <<>>}
    /\ \A i \in DOMAIN plants : SeederAcceptsPlant(plants[i])
    /\ DistinctIds(plants)

\* Where the inverters are in the file: the place of the plant, and the place
\* in the plant.
Sites(plants) == UNION { {p} \X DOMAIN plants[p].inverters : p \in DOMAIN plants }

InvertersOf(plants) ==
    [s \in Sites(plants) |->
        [plant  |-> plants[s[1]].id,
         id     |-> plants[s[1]].inverters[s[2]].id,
         rating |-> plants[s[1]].inverters[s[2]].rating]]

AssetKey(inverter) == <<inverter.plant, inverter.id>>

(***************************************************************************)
(* scenarios.yaml.                                                         *)
(***************************************************************************)
Scenarios == {"INV_UNDERPERFORMANCE", "INV_OFFLINE", "TELEMETRY_GAP", "RECOVERY"}

WindowIsValid(w) ==
    /\ w.scenario \in Scenarios
    /\ Null \notin {w.start, w.end}
    /\ w.start >= 0
    /\ w.end > w.start
    /\ w.inverter # Null => w.plant # Null
    /\ IF w.scenario = "INV_UNDERPERFORMANCE"
       THEN w.factor # Null /\ w.factor \in 0..99
       ELSE w.factor = Null

ByStart(windows) == SortSeq(windows, LAMBDA a, b : a.start < b.start)

\* Each window is held against the next one by start, and no other.
NoOverlap(windows) ==
    LET ordered == ByStart(windows)
    IN  \A i \in 1..(Len(ordered) - 1) : ordered[i + 1].start >= ordered[i].end

TargetExists(w, plants) ==
    w.plant # Null =>
        \E p \in DOMAIN plants :
            /\ plants[p].id = w.plant
            /\ w.inverter # Null =>
                  \E i \in DOMAIN plants[p].inverters :
                      plants[p].inverters[i].id = w.inverter

\* reference_day_seconds defaults to the configured day.
Reference(doc) == IF doc.reference = Null THEN DaySeconds ELSE doc.reference

Scaled(seconds, doc) == (seconds * DaySeconds) \div Reference(doc)

ScheduleAccepts(doc, plants) ==
    /\ doc # Null
    /\ Reference(doc) > 0
    /\ doc.windows \notin {Null, <<>>}
    /\ \A i \in DOMAIN doc.windows : WindowIsValid(doc.windows[i])
    /\ NoOverlap(doc.windows)
    /\ \A i \in DOMAIN doc.windows :
          /\ doc.windows[i].end <= Reference(doc)
          /\ TargetExists(doc.windows[i], plants)

\* parse_schedule: the windows on the configured clock.
WindowsOf(doc) ==
    { [w EXCEPT !.start = Scaled(@, doc), !.end = Scaled(@, doc)] : w \in Range(doc.windows) }

Covers(w, second) == w.start <= second /\ second < w.end

\* active_window: the first by start that covers the instant, or Null.
ActiveWindow(windows, second) ==
    LET covering == { w \in windows : Covers(w, second) }
    IN  IF covering = {} THEN Null
        ELSE CHOOSE w \in covering : \A x \in covering : w.start <= x.start

Targets(w, inverter) ==
    w.plant \in {Null, inverter.plant} /\ w.inverter \in {Null, inverter.id}

WindowFor(windows, inverter, tick) ==
    LET w == ActiveWindow(windows, SecondsIntoDay(tick))
    IN  IF w # Null /\ Targets(w, inverter) THEN w ELSE Null

(***************************************************************************)
(* One inverter's reading at one tick, and what a scenario makes of it.    *)
(***************************************************************************)
Least(a, b) == IF a <= b THEN a ELSE b

\* generate_reading: a function of asset and tick, never of history, and
\* never above the rating.
Reading(inverter, tick) ==
    Least(inverter.rating,
          (inverter.rating * Shape[(tick % TicksPerDay) + 1]
              * Noise[<<AssetKey(inverter), tick>>]) \div 10000)

Outcome(publish, power, status, availability) ==
    [publish |-> publish, power |-> power, status |-> status,
     availability |-> availability]

\* Mutant: an inverter that is down goes on reporting its power.
ApplyScenarioOfflinePower(power, w) ==
    IF w # Null /\ w.scenario = "INV_OFFLINE" THEN Outcome(TRUE, power, "OFFLINE", 0)
    ELSE Outcome(TRUE, power, "ONLINE", 1)

ApplyScenario(power, w) ==
    CASE w = Null \/ w.scenario = "RECOVERY" -> Outcome(TRUE, power, "ONLINE", 1)
      [] w # Null /\ w.scenario = "TELEMETRY_GAP" -> Outcome(FALSE, power, "ONLINE", 1)
      [] w # Null /\ w.scenario = "INV_OFFLINE" -> Outcome(TRUE, 0, "OFFLINE", 0)
      [] w # Null /\ w.scenario = "INV_UNDERPERFORMANCE" ->
            Outcome(TRUE, (power * w.factor) \div 100, "WARNING", 1)

OutcomeAt(windows, inverter, tick) ==
    ApplyScenario(Reading(inverter, tick), WindowFor(windows, inverter, tick))

(***************************************************************************)
(* The event, and the validation before it is published.                   *)
(***************************************************************************)
\* The id is derived from asset and tick, which stand for it here.
BuildEvent(inverter, tick, outcome, energy) ==
    [asset        |-> AssetKey(inverter),
     tick         |-> tick,
     power        |-> outcome.power,
     energy       |-> energy,
     status       |-> outcome.status,
     availability |-> outcome.availability]

\* corrupt_event.
Corrupted(event) == [event EXCEPT !.power = -@ - 1]

\* validate_payload: the reason it raises with, or Null.  The schema is
\* checked before the rules that need the asset.
RejectionReason(e, rating) ==
    CASE e.power < 0 -> "NEGATIVE_ACTIVE_POWER"
      [] e.power >= 0 /\ e.energy < 0 -> "NEGATIVE_ENERGY"
      [] e.power > rating /\ e.energy >= 0 -> "POWER_EXCEEDS_RATING"
      [] e.power \in 0..rating /\ e.energy >= 0 ->
            IF (e.status = "OFFLINE" /\ e.availability = 0 /\ e.power = 0)
               \/ (e.status # "OFFLINE" /\ e.availability = 1)
            THEN Null ELSE "STATUS_INCONSISTENT"

(***************************************************************************)
(* The batch layer's reading of the meter, processing/batch/actuals.py.    *)
(***************************************************************************)
EventsOf(archive, asset, day) ==
    { e \in archive : e.asset = asset /\ DayOfTick(e.tick) = day }

\* The archived event of the same meter before e.
Previous(events, e) ==
    CHOOSE x \in events : x.tick < e.tick /\ \A y \in events : y.tick < e.tick => y.tick <= x.tick

\* inverter_energy_increments: first reading and reading after a fall count
\* in full, any other with its rise.
Increment(events, e) ==
    IF \E x \in events : x.tick < e.tick /\ Previous(events, e).energy <= e.energy
    THEN e.energy - Previous(events, e).energy ELSE e.energy

InverterActual(archive, asset, day) ==
    LET events == EventsOf(archive, asset, day)
    IN  [generation   |-> SumFunctionOnSet([e \in events |-> Increment(events, e)], events),
         observations |-> Cardinality(events),
         online       |-> Cardinality({ e \in events : e.status = "ONLINE" }),
         offline      |-> Cardinality({ e \in events : e.status = "OFFLINE" })]
=============================================================================
