-------------------------- MODULE SimulatorProofs --------------------------
(***************************************************************************)
(* What TLAPS proves about Simulator.                                      *)
(***************************************************************************)
EXTENDS Simulator, SetLemmas, SequenceTheorems

(***************************************************************************)
(* The invariant.                                                          *)
(***************************************************************************)
\* The process has loaded what it has checked.
ConfigInv ==
    /\ portfolio \in Portfolios /\ schedule \in Schedules
    /\ IF fleet = <<>> THEN windows = {} /\ phase = "stopped"
       ELSE /\ SimulatorAccepts(portfolio)
            /\ ScheduleAccepts(schedule, portfolio)
            /\ fleet = InvertersOf(portfolio)
            /\ windows = WindowsOf(schedule)

\* The day the loop knows is that of the tick it has begun last.
TodayInv ==
    /\ phase = "ticking" => today = IF tick = 0 THEN Null ELSE DayOfTick(tick - 1)
    /\ phase = "producing" => tick < StopAt /\ today = DayOfTick(tick)

FeedsInv ==
    \A day \in 0..DayOfTick(StopAt) :
        today # Null /\ day < today => day \in feeds \cup unwritten

\* In how many ticks an inverter has been metered, and its meter then.
Before(r, s) == r[1] < s[1] \/ (r[1] = s[1] /\ r[2] < s[2])

MeteredTicks(s) == IF phase = "producing" /\ Before(s, next) THEN tick + 1 ELSE tick

MeterAfter(inverter, n) ==
    [day |-> DayOfTick(n - 1), energy |-> GeneratedUpTo(inverter, n - 1)]

LedgerInv ==
    phase \in {"ticking", "producing"} =>
        \A s \in DOMAIN fleet :
            IF MeteredTicks(s) = 0 THEN AssetKey(fleet[s]) \notin DOMAIN ledger
            ELSE /\ AssetKey(fleet[s]) \in DOMAIN ledger
                 /\ ledger[AssetKey(fleet[s])] = MeterAfter(fleet[s], MeteredTicks(s))

\* The one event of an inverter and a tick, and the messages there can be.
Event(s, t) ==
    BuildEvent(fleet[s], t, OutcomeAt(windows, fleet[s], t), GeneratedUpTo(fleet[s], t))

Events == { Event(s, t) : s \in DOMAIN fleet, t \in Ticks }

Raw(e) == [topic |-> "raw", body |-> e]
Refused(e) ==
    [topic |-> "invalid",
     body  |-> [event |-> Corrupted(e), reason |-> "NEGATIVE_ACTIVE_POWER"]]

Messages == IF invalid THEN { Refused(e) : e \in Events } ELSE { Raw(e) : e \in Events }

StocksInv ==
    /\ queue \in Seq(Messages)
    /\ Queued <= QueueLimit
    /\ archive \subseteq Events
    /\ QuarantinesNothingItself

IInv ==
    /\ TypeOK
    /\ ConfigInv
    /\ TodayInv
    /\ FeedsInv
    /\ LedgerInv
    /\ StocksInv

-----------------------------------------------------------------------------
(***************************************************************************)
(* Days and ticks.                                                         *)
(***************************************************************************)
\* A day has at least one tick.
LEMMA DayIsPositive == TicksPerDay \in Nat \ {0}
<1>1. Len(Shape) \in Nat /\ Interval \in Nat \ {0} /\ DaySeconds \in Nat \ {0}
    BY SiteAssumption
<1>2. Len(Shape) # 0
    <2>1. Interval * 0 = 0
        BY <1>1
    <2> QED
        BY <1>1, <2>1, SiteAssumption
<1> QED
    BY <1>1, <1>2 DEF TicksPerDay

LEMMA DayIs ==
    ASSUME NEW t \in Nat
    PROVE  /\ DayOfTick(t) \in Nat
           /\ TicksPerDay * DayOfTick(t) <= t
           /\ t < TicksPerDay * (DayOfTick(t) + 1)
           /\ t % TicksPerDay \in 0..(TicksPerDay - 1)
<1>1. PICK n \in Nat \ {0} : n = TicksPerDay
    BY DayIsPositive
<1>2. /\ t \div n \in Nat
      /\ n * (t \div n) <= t
      /\ t < n * ((t \div n) + 1)
      /\ t % n \in 0..(n - 1)
    BY <1>1
<1> QED
    BY <1>1, <1>2 DEF DayOfTick

LEMMA TimesMonotone ==
    ASSUME NEW n \in Nat \ {0}, NEW a \in Nat, NEW b \in Nat, n * a < n * b
    PROVE  a < b
<1>1. SUFFICES ASSUME b <= a PROVE FALSE
    OBVIOUS
<1>2. a - b \in Nat /\ n * (a - b) >= 0 /\ n * (a - b) = n * a - n * b
    BY <1>1
<1> QED
    BY <1>2

\* Days follow one another: they never go back, and none is left out.
LEMMA DaysFollow ==
    ASSUME NEW t \in Nat, NEW u \in Nat, u <= t
    PROVE  DayOfTick(u) <= DayOfTick(t)
<1> DEFINE d == DayOfTick(u)
           e == DayOfTick(t)
           n == TicksPerDay
<1>1. n \in Nat \ {0} /\ d \in Nat /\ e \in Nat /\ n * d <= u /\ t < n * (e + 1)
    BY DayIs, DayIsPositive
<1> HIDE DEF d, e, n
<1>2. n * d < n * (e + 1)
    <2>1. n * d \in Nat /\ n * (e + 1) \in Nat
        BY <1>1
    <2> QED
        BY <1>1, <2>1
<1>3. d < e + 1
    BY <1>1, <1>2, TimesMonotone
<1> QED
    BY <1>1, <1>3 DEF d, e

LEMMA NextDay ==
    ASSUME NEW t \in Nat
    PROVE  DayOfTick(t + 1) <= DayOfTick(t) + 1
<1> DEFINE d == DayOfTick(t)
           e == DayOfTick(t + 1)
           n == TicksPerDay
<1>1. n \in Nat \ {0} /\ d \in Nat /\ e \in Nat /\ n * e <= t + 1 /\ t < n * (d + 1)
    BY DayIs, DayIsPositive
<1> HIDE DEF d, e, n
<1>2. n * e < n * (d + 2)
    <2>1. n * e \in Nat /\ n * (d + 1) \in Nat /\ n * (d + 2) = n * (d + 1) + n
        BY <1>1
    <2> QED
        BY <1>1, <2>1
<1>3. e < d + 2
    BY <1>1, <1>2, TimesMonotone
<1> QED
    BY <1>1, <1>3 DEF d, e

(***************************************************************************)
(* What the process has loaded.                                            *)
(***************************************************************************)
\* The sites of a portfolio that is accepted.
LEMMA SitesAre ==
    ASSUME NEW plants \in Portfolios, SimulatorAccepts(plants)
    PROVE  /\ plants # Null /\ IsPortfolio(plants)
           /\ plants # <<>> /\ Len(plants) \in Nat \ {0} /\ DOMAIN plants = 1..Len(plants)
           /\ \A p \in 1..Len(plants) :
                 /\ Len(plants[p].inverters) \in Nat \ {0}
                 /\ DOMAIN plants[p].inverters = 1..Len(plants[p].inverters)
           /\ \A s : s \in Sites(plants) <=>
                 \E p \in 1..Len(plants) : \E i \in 1..Len(plants[p].inverters) : s = <<p, i>>
<1>1. plants # Null /\ IsPortfolio(plants) /\ plants # <<>>
    BY SimulatorAssumption DEF SimulatorAccepts
<1>2. plants \in Seq(Range(plants))
    BY <1>1 DEF IsPortfolio
<1>3. Len(plants) \in Nat \ {0} /\ DOMAIN plants = 1..Len(plants)
    BY <1>1, <1>2
<1>4. ASSUME NEW p \in 1..Len(plants)
      PROVE  /\ Len(plants[p].inverters) \in Nat \ {0}
             /\ DOMAIN plants[p].inverters = 1..Len(plants[p].inverters)
    <2>1. plants[p].inverters \in Seq(Range(plants[p].inverters))
        BY <1>1, <1>3 DEF IsPortfolio
    <2>2. plants[p].inverters # <<>>
        BY <1>3 DEF SimulatorAccepts, SimulatorAcceptsPlant
    <2> QED
        BY <2>1, <2>2
<1>5. \A s : s \in Sites(plants) <=>
          \E p \in 1..Len(plants) : \E i \in 1..Len(plants[p].inverters) : s = <<p, i>>
    <2>1. Sites(plants) =
              UNION { {p} \X (1..Len(plants[p].inverters)) : p \in 1..Len(plants) }
        BY <1>3, <1>4 DEF Sites
    <2> QED
        BY <2>1
<1> QED
    BY <1>1, <1>3, <1>4, <1>5

\* The fleet is rated, starts with the first site, and no two inverters have
\* one asset key.
LEMMA FleetIs ==
    ASSUME NEW plants \in Portfolios, SimulatorAccepts(plants)
    PROVE  LET loaded == InvertersOf(plants)
           IN  /\ DOMAIN loaded = Sites(plants)
               /\ FirstSite \in Sites(plants)
               /\ \A s \in Sites(plants) : loaded[s].rating \in Nat \ {0}
               /\ \A r, s \in Sites(plants) :
                     AssetKey(loaded[r]) = AssetKey(loaded[s]) => r = s
<1> DEFINE loaded == InvertersOf(plants)
<1>1. PICK n \in Nat \ {0} : n = Len(plants) /\ DOMAIN plants = 1..n
    BY SitesAre
<1>2. \A s : s \in Sites(plants) <=>
          \E p \in 1..n : \E i \in 1..Len(plants[p].inverters) : s = <<p, i>>
    BY SitesAre, <1>1
<1>3. \A p \in 1..n : /\ Len(plants[p].inverters) \in Nat \ {0}
                      /\ DOMAIN plants[p].inverters = 1..Len(plants[p].inverters)
    BY SitesAre, <1>1
<1>4. FirstSite \in Sites(plants)
    <2>1. 1 \in 1..n /\ 1 \in 1..Len(plants[1].inverters)
        BY <1>1, <1>3
    <2> QED
        BY <1>2, <2>1 DEF FirstSite
<1>5. ASSUME NEW p \in 1..n, NEW i \in 1..Len(plants[p].inverters)
      PROVE  /\ loaded[<<p, i>>].plant = plants[p].id
             /\ loaded[<<p, i>>].id = plants[p].inverters[i].id
             /\ loaded[<<p, i>>].rating = plants[p].inverters[i].rating
    <2>1. <<p, i>> \in Sites(plants)
        BY <1>2
    <2>2. loaded[<<p, i>>] = [plant  |-> plants[p].id,
                              id     |-> plants[p].inverters[i].id,
                              rating |-> plants[p].inverters[i].rating]
        BY <2>1 DEF InvertersOf
    <2> QED
        BY <2>2
<1>9. DOMAIN loaded = Sites(plants)
    BY DEF InvertersOf
<1> HIDE DEF loaded
<1>6. ASSUME NEW p \in 1..n, NEW i \in 1..Len(plants[p].inverters)
      PROVE  plants[p].inverters[i].rating \in Nat \ {0}
    <2> DEFINE rating == plants[p].inverters[i].rating
    <2>1. plants[p].inverters[i] \in Range(plants[p].inverters)
        BY <1>3 DEF Range
    <2>2. rating \in Int \cup {Null, YamlTrue, YamlInf}
        BY <2>1, <1>1, SitesAre DEF IsPortfolio
    <2>3. IsPositiveFinite(rating)
        BY <1>1, <1>3 DEF SimulatorAccepts, SimulatorAcceptsPlant
    <2> HIDE DEF rating
    <2>4. rating \in Int /\ rating > 0
        BY <2>2, <2>3 DEF IsPositiveFinite
    <2>5. rating \in Nat \ {0}
        BY <2>4
    <2> QED
        BY <2>5 DEF rating
<1>7. ASSUME NEW r \in Sites(plants), NEW s \in Sites(plants),
             AssetKey(loaded[r]) = AssetKey(loaded[s])
      PROVE  r = s
    <2>1. PICK p \in 1..n : \E i \in 1..Len(plants[p].inverters) : r = <<p, i>>
        BY <1>2
    <2>2. PICK i \in 1..Len(plants[p].inverters) : r = <<p, i>>
        BY <2>1
    <2>3. PICK q \in 1..n : \E j \in 1..Len(plants[q].inverters) : s = <<q, j>>
        BY <1>2
    <2>4. PICK j \in 1..Len(plants[q].inverters) : s = <<q, j>>
        BY <2>3
    <2>5. plants[p].id = plants[q].id /\ plants[p].inverters[i].id = plants[q].inverters[j].id
        <3>1. loaded[r].plant = loaded[s].plant /\ loaded[r].id = loaded[s].id
            BY <1>7 DEF AssetKey
        <3> QED
            BY <3>1, <1>5, <2>2, <2>4
    <2>6. p = q
        BY <2>5, <1>1 DEF SimulatorAccepts, DistinctIds
    <2>7. i = j
        BY <2>5, <2>6, <1>1, <1>3 DEF SimulatorAccepts, SimulatorAcceptsPlant, DistinctIds
    <2> QED
        BY <2>2, <2>4, <2>6, <2>7
<1>8. \A s \in Sites(plants) : loaded[s].rating \in Nat \ {0}
    <2> SUFFICES ASSUME NEW s \in Sites(plants) PROVE loaded[s].rating \in Nat \ {0}
        OBVIOUS
    <2>1. PICK p \in 1..n : \E i \in 1..Len(plants[p].inverters) : s = <<p, i>>
        BY <1>2
    <2> QED
        BY <2>1, <1>5, <1>6
<1> QED
    BY <1>4, <1>7, <1>8, <1>9 DEF loaded

\* The windows of a schedule that is accepted.
LEMMA WindowsAre ==
    ASSUME NEW doc \in Schedules, NEW plants, ScheduleAccepts(doc, plants),
           NEW w \in WindowsOf(doc)
    PROVE  /\ w.scenario \in Scenarios
           /\ w.start \in Nat
           /\ w.scenario = "INV_UNDERPERFORMANCE" => w.factor \in 0..99
<1>1. doc # Null /\ IsSchedule(doc) /\ doc.windows # Null
    BY SimulatorAssumption DEF ScheduleAccepts
<1>2. PICK v \in Range(doc.windows) :
          w = [v EXCEPT !.start = Scaled(@, doc), !.end = Scaled(@, doc)]
    BY DEF WindowsOf
<1>3. /\ DOMAIN v = {"scenario", "start", "end", "plant", "inverter", "factor"}
      /\ v.start \in Int \cup {Null}
    BY <1>1 DEF IsSchedule
<1>4. WindowIsValid(v)
    <2>1. PICK i \in DOMAIN doc.windows : v = doc.windows[i]
        BY DEF Range
    <2> QED
        BY <2>1 DEF ScheduleAccepts
<1>5. w.scenario = v.scenario /\ w.factor = v.factor /\ w.start = Scaled(v.start, doc)
    BY <1>2, <1>3
<1>6. Reference(doc) \in Nat \ {0}
    <2>1. doc.reference \in Int \cup {Null} /\ Reference(doc) > 0
        BY <1>1 DEF IsSchedule, ScheduleAccepts
    <2>2. CASE doc.reference = Null
        BY <2>2, SiteAssumption DEF Reference
    <2>3. CASE doc.reference # Null
        BY <2>1, <2>3 DEF Reference
    <2> QED
        BY <2>2, <2>3
<1>7. v.start \in Nat
    BY <1>3, <1>4 DEF WindowIsValid
<1>8. Scaled(v.start, doc) \in Nat
    <2>1. PICK n \in Nat \ {0} : n = Reference(doc)
        BY <1>6
    <2>2. PICK m \in Nat : m = v.start * DaySeconds
        BY <1>7, SiteAssumption
    <2>3. m \div n \in Nat
        BY <2>1, <2>2
    <2> QED
        BY <2>1, <2>2, <2>3 DEF Scaled
<1> QED
    BY <1>4, <1>5, <1>8 DEF WindowIsValid

\* The active window is one of the schedule.
LEMMA ActiveWindowIs ==
    ASSUME NEW doc \in Schedules, NEW plants, ScheduleAccepts(doc, plants), NEW second
    PROVE  LET w == ActiveWindow(WindowsOf(doc), second)
           IN  w = Null \/ w \in WindowsOf(doc)
<1> DEFINE covering == { w \in WindowsOf(doc) : Covers(w, second) }
           starts == { w.start : w \in covering }
<1>1. SUFFICES ASSUME covering # {}
               PROVE  (CHOOSE w \in covering : \A x \in covering : w.start <= x.start)
                          \in covering
    BY DEF ActiveWindow
<1>2. \A w \in covering : w.start \in Nat
    BY WindowsAre
<1> HIDE DEF covering
<1>3. PICK w0 \in covering : TRUE
    BY <1>1
<1> DEFINE low == starts \cap (0..w0.start)
<1>4. IsFiniteSet(low)
    <2>1. IsFiniteSet(0..w0.start)
        BY <1>2, FS_Interval
    <2>2. low \subseteq 0..w0.start
        OBVIOUS
    <2> QED
        BY <2>1, <2>2, FS_Subset
<1>5. low # {} /\ low \in SUBSET Nat
    BY <1>2, <1>3
<1>6. PICK m \in low : \A n \in low : m <= n
    BY <1>4, <1>5, MinIsSmallest
<1>7. PICK w \in covering : w.start = m
    OBVIOUS
<1>8. ASSUME NEW x \in covering PROVE w.start <= x.start
    <2>1. x.start \in Nat /\ w0.start \in Nat /\ m \in 0..w0.start
        BY <1>2, <1>3
    <2>2. CASE x.start <= w0.start
        BY <1>6, <1>7, <2>1, <2>2
    <2>3. CASE w0.start < x.start
        BY <1>7, <2>1, <2>3
    <2> QED
        BY <2>1, <2>2, <2>3
<1> QED
    BY <1>8

(***************************************************************************)
(* A reading, and what a scenario makes of it.                             *)
(***************************************************************************)
\* Dividing by what is at least as large as one factor leaves at most the
\* other.
LEMMA ShareIsBelow ==
    ASSUME NEW a \in Nat, NEW b \in Nat, b <= 100
    PROVE  (a * b) \div 100 \in 0..a
<1>1. a * b \in Nat /\ a * b <= a * 100
    <2>1. PICK c \in Nat : b + c = 100
        <3>1. 100 - b \in Nat /\ b + (100 - b) = 100
            OBVIOUS
        <3> QED
            BY <3>1
    <2>2. a * b \in Nat /\ a * c \in Nat /\ a * (b + c) = a * b + a * c
        OBVIOUS
    <2> QED
        BY <2>1, <2>2
<1>2. PICK m \in Nat : m = a * b
    BY <1>1
<1>3. m \div 100 \in Nat /\ 100 * (m \div 100) <= m
    OBVIOUS
<1> QED
    BY <1>1, <1>2, <1>3

\* The power is never above the rating, and status and availability agree
\* with it: what the validation before publishing asks for.
IsFitOutcome(o, rating) ==
    /\ o.power \in 0..rating
    /\ \/ o.status = "OFFLINE" /\ o.availability = 0 /\ o.power = 0
       \/ o.status # "OFFLINE" /\ o.availability = 1

LEMMA OutcomeIsFit ==
    ASSUME NEW plants \in Portfolios, SimulatorAccepts(plants),
           NEW doc \in Schedules, ScheduleAccepts(doc, plants),
           NEW s \in Sites(plants), NEW t \in Ticks
    PROVE  LET inverter == InvertersOf(plants)[s]
           IN  IsFitOutcome(OutcomeAt(WindowsOf(doc), inverter, t), inverter.rating)
<1> DEFINE inverter == InvertersOf(plants)[s]
           w == WindowFor(WindowsOf(doc), inverter, t)
           power == Reading(inverter, t)
<1>1. inverter.rating \in Nat \ {0}
    BY FleetIs
<1>2. power \in 0..inverter.rating
    <2> DEFINE shape == Shape[(t % TicksPerDay) + 1]
               noise == Noise[<<AssetKey(inverter), t>>]
    <2>1. shape \in 0..100
        <3>1. t \in Nat
            BY SimulatorAssumption DEF Ticks
        <3>2. t % TicksPerDay \in 0..(TicksPerDay - 1) /\ TicksPerDay \in Nat \ {0}
            BY <3>1, DayIs, DayIsPositive
        <3>3. Shape \in [1..TicksPerDay -> 0..100]
            <4>1. Shape \in Seq(0..100)
                BY SiteAssumption
            <4>2. Shape \in [1..Len(Shape) -> 0..100]
                BY <4>1, LenProperties
            <4> QED
                BY <4>2 DEF TicksPerDay
        <3>4. (t % TicksPerDay) + 1 \in 1..TicksPerDay
            BY <3>2
        <3> QED
            BY <3>3, <3>4
    <2>2. noise \in Nat
        <3>1. plants \in Portfolios \ {Null} /\ t \in 0..StopAt
            BY SitesAre DEF Ticks
        <3>2. \A d \in Portfolios \ {Null} : \A r \in Sites(d) : \A u \in 0..StopAt :
                  Noise[<<AssetKey(InvertersOf(d)[r]), u>>] \in Nat
            BY SimulatorAssumption
        <3> QED
            BY <3>1, <3>2, Zenon
    <2> DEFINE raw == (inverter.rating * shape * noise) \div 10000
    <2>3. power = Least(inverter.rating, raw)
        BY DEF Reading
    <2> HIDE DEF shape, noise, inverter, power
    <2>4. raw \in Nat
        <3>1. PICK m \in Nat : m = inverter.rating * shape * noise
            <4>1. inverter.rating * shape \in Nat
                BY <1>1, <2>1
            <4> QED
                BY <4>1, <2>2
        <3>2. m \div 10000 \in Nat
            OBVIOUS
        <3> QED
            BY <3>1, <3>2
    <2> HIDE DEF raw
    <2> QED
        BY <1>1, <2>3, <2>4 DEF Least
<1>3. w = Null \/ w \in WindowsOf(doc)
    BY ActiveWindowIs DEF WindowFor
<1>4. w # Null => /\ w.scenario \in Scenarios
                  /\ w.scenario = "INV_UNDERPERFORMANCE" => w.factor \in 0..99
    BY <1>3, WindowsAre
<1>5. OutcomeAt(WindowsOf(doc), inverter, t) = ApplyScenario(power, w)
    BY DEF OutcomeAt
<1> HIDE DEF inverter, w, power
<1>6. CASE w = Null \/ w.scenario = "RECOVERY"
    <2>1. ApplyScenario(power, w) = Outcome(TRUE, power, "ONLINE", 1)
        BY <1>6 DEF ApplyScenario
    <2> QED
        BY <2>1, <1>2, <1>5 DEF Outcome, IsFitOutcome, inverter
<1>7. CASE w # Null /\ w.scenario = "TELEMETRY_GAP"
    <2>1. ApplyScenario(power, w) = Outcome(FALSE, power, "ONLINE", 1)
        BY <1>7 DEF ApplyScenario
    <2> QED
        BY <2>1, <1>2, <1>5 DEF Outcome, IsFitOutcome, inverter
<1>8. CASE w # Null /\ w.scenario = "INV_OFFLINE"
    <2>1. ApplyScenario(power, w) = Outcome(TRUE, 0, "OFFLINE", 0)
        BY <1>8 DEF ApplyScenario
    <2> QED
        BY <2>1, <1>1, <1>5 DEF Outcome, IsFitOutcome, inverter
<1>9. CASE w # Null /\ w.scenario = "INV_UNDERPERFORMANCE"
    <2>1. ApplyScenario(power, w) = Outcome(TRUE, (power * w.factor) \div 100, "WARNING", 1)
        BY <1>9 DEF ApplyScenario
    <2>2. PICK f \in Nat : f = w.factor /\ f <= 100
        BY <1>4, <1>9
    <2>3. (power * f) \div 100 \in 0..power
        BY <1>1, <1>2, <2>2, ShareIsBelow
    <2>4. (power * w.factor) \div 100 \in 0..inverter.rating
        BY <1>1, <1>2, <2>2, <2>3
    <2> QED
        BY <2>1, <2>4, <1>5 DEF Outcome, IsFitOutcome, inverter
<1> QED
    BY <1>4, <1>6, <1>7, <1>8, <1>9 DEF Scenarios

\* The same of what the process has loaded.
LEMMA LoadedIs ==
    ASSUME ConfigInv, NEW s \in DOMAIN fleet
    PROVE  /\ portfolio \in Portfolios /\ SimulatorAccepts(portfolio)
           /\ fleet = InvertersOf(portfolio) /\ DOMAIN fleet = Sites(portfolio)
           /\ fleet[s].rating \in Nat \ {0}
           /\ \A t \in Ticks : IsFitOutcome(OutcomeAt(windows, fleet[s], t), fleet[s].rating)
<1>1. fleet # <<>>
    OBVIOUS
<1>2. /\ portfolio \in Portfolios /\ SimulatorAccepts(portfolio)
      /\ schedule \in Schedules /\ ScheduleAccepts(schedule, portfolio)
      /\ fleet = InvertersOf(portfolio)
      /\ windows = WindowsOf(schedule)
    BY <1>1 DEF ConfigInv
<1>3. DOMAIN fleet = Sites(portfolio)
    BY <1>2, FleetIs
<1>4. fleet[s].rating \in Nat \ {0}
    BY <1>2, <1>3, FleetIs
<1>5. \A t \in Ticks : IsFitOutcome(OutcomeAt(windows, fleet[s], t), fleet[s].rating)
    BY <1>2, <1>3, OutcomeIsFit
<1> QED
    BY <1>2, <1>3, <1>4, <1>5

\* No two inverters have one asset key.
LEMMA KeysDiffer ==
    ASSUME ConfigInv, NEW r \in DOMAIN fleet, NEW s \in DOMAIN fleet,
           AssetKey(fleet[r]) = AssetKey(fleet[s])
    PROVE  r = s
BY LoadedIs, FleetIs

(***************************************************************************)
(* The meter.                                                              *)
(***************************************************************************)
SameDay(t) == { u \in 0..t : DayOfTick(u) = DayOfTick(t) }

Powers(inverter, t) == [u \in 0..t |-> OutcomeAt(windows, inverter, u).power]

LEMMA PowersAre ==
    ASSUME ConfigInv, NEW s \in DOMAIN fleet, NEW t \in Ticks
    PROVE  /\ t \in Nat /\ 0..t \subseteq Ticks
           /\ IsFiniteSet(SameDay(t))
           /\ \A u \in 0..t : /\ Powers(fleet[s], t)[u] = OutcomeAt(windows, fleet[s], u).power
                              /\ Powers(fleet[s], t)[u] \in Nat
           /\ GeneratedUpTo(fleet[s], t) = SumFunctionOnSet(Powers(fleet[s], t), SameDay(t))
<1>1. t \in Nat /\ 0..t \subseteq Ticks /\ StopAt \in Nat
    BY SimulatorAssumption DEF Ticks
<1>2. IsFiniteSet(SameDay(t))
    <2>1. IsFiniteSet(0..t)
        BY <1>1, FS_Interval
    <2>2. SameDay(t) \subseteq 0..t
        BY DEF SameDay
    <2> QED
        BY <2>1, <2>2, FS_Subset
<1>3. ASSUME NEW u \in 0..t
      PROVE  /\ Powers(fleet[s], t)[u] = OutcomeAt(windows, fleet[s], u).power
             /\ Powers(fleet[s], t)[u] \in Nat
    <2>1. u \in Ticks
        BY <1>1
    <2>2. /\ fleet[s].rating \in Nat
          /\ IsFitOutcome(OutcomeAt(windows, fleet[s], u), fleet[s].rating)
        BY <2>1, LoadedIs
    <2>3. OutcomeAt(windows, fleet[s], u).power \in Nat
        BY <2>2 DEF IsFitOutcome
    <2>4. Powers(fleet[s], t)[u] = OutcomeAt(windows, fleet[s], u).power
        BY DEF Powers
    <2> QED
        BY <2>3, <2>4
<1>4. GeneratedUpTo(fleet[s], t) = SumFunctionOnSet(Powers(fleet[s], t), SameDay(t))
    BY DEF GeneratedUpTo, Powers, SameDay
<1> QED
    BY <1>1, <1>2, <1>3, <1>4

\* The energy of a day only grows.
LEMMA GeneratedGrows ==
    ASSUME ConfigInv, NEW s \in DOMAIN fleet, NEW t \in Ticks, NEW u \in 0..t,
           DayOfTick(u) = DayOfTick(t)
    PROVE  /\ GeneratedUpTo(fleet[s], u) \in Nat
           /\ GeneratedUpTo(fleet[s], u) <= GeneratedUpTo(fleet[s], t)
<1>1. t \in Nat /\ 0..t \subseteq Ticks /\ u \in Nat /\ u \in Ticks
    BY PowersAre
<1>2. SameDay(u) \subseteq SameDay(t) /\ SameDay(t) \subseteq 0..t /\ SameDay(u) \subseteq 0..u
    BY <1>1 DEF SameDay
<1>3. \A v \in SameDay(u) :
          /\ Powers(fleet[s], u)[v] \in Nat
          /\ Powers(fleet[s], u)[v] <= Powers(fleet[s], t)[v]
    <2> SUFFICES ASSUME NEW v \in SameDay(u)
                 PROVE  /\ Powers(fleet[s], u)[v] \in Nat
                        /\ Powers(fleet[s], u)[v] <= Powers(fleet[s], t)[v]
        OBVIOUS
    <2>1. v \in 0..u /\ v \in 0..t
        BY <1>2
    <2>2. /\ Powers(fleet[s], u)[v] = OutcomeAt(windows, fleet[s], v).power
          /\ Powers(fleet[s], u)[v] \in Nat
        BY <1>1, <2>1, PowersAre
    <2>3. Powers(fleet[s], t)[v] = OutcomeAt(windows, fleet[s], v).power
        BY <2>1, PowersAre
    <2> QED
        BY <2>2, <2>3
<1>4. IsFiniteSet(SameDay(t)) /\ \A v \in SameDay(t) : Powers(fleet[s], t)[v] \in Nat
    BY <1>2, PowersAre
<1>5. /\ SumFunctionOnSet(Powers(fleet[s], u), SameDay(u)) \in Nat
      /\ SumFunctionOnSet(Powers(fleet[s], u), SameDay(u))
            <= SumFunctionOnSet(Powers(fleet[s], t), SameDay(t))
    BY <1>2, <1>3, <1>4, SumMonotone
<1>6. /\ GeneratedUpTo(fleet[s], t) = SumFunctionOnSet(Powers(fleet[s], t), SameDay(t))
      /\ GeneratedUpTo(fleet[s], u) = SumFunctionOnSet(Powers(fleet[s], u), SameDay(u))
    BY <1>1, PowersAre
<1> QED
    BY <1>5, <1>6

\* One tick more, on the same day or on the next.
LEMMA GeneratedStep ==
    ASSUME ConfigInv, NEW s \in DOMAIN fleet, NEW t \in Ticks
    PROVE  LET power == OutcomeAt(windows, fleet[s], t).power
           IN  /\ power \in Nat
               /\ GeneratedUpTo(fleet[s], t) =
                     power + IF t > 0 /\ DayOfTick(t - 1) = DayOfTick(t)
                             THEN GeneratedUpTo(fleet[s], t - 1) ELSE 0
<1> DEFINE f == Powers(fleet[s], t)
           earlier == SameDay(t) \ {t}
<1>1. t \in Nat /\ t \in SameDay(t) /\ f[t] = OutcomeAt(windows, fleet[s], t).power
    <2>1. t \in Nat /\ t \in 0..t
        BY PowersAre
    <2>2. t \in SameDay(t)
        BY <2>1 DEF SameDay
    <2> QED
        BY <2>1, <2>2, PowersAre
<1>2. /\ IsFiniteSet(SameDay(t)) /\ SameDay(t) \subseteq 0..t
      /\ \A u \in SameDay(t) : f[u] \in Nat /\ f[u] \in Int
    <2>1. SameDay(t) \subseteq 0..t
        BY DEF SameDay
    <2>2. \A u \in 0..t : f[u] \in Nat
        BY PowersAre
    <2>3. \A u \in 0..t : f[u] \in Int
        BY <2>2
    <2>4. IsFiniteSet(SameDay(t))
        BY PowersAre
    <2> QED
        BY <2>1, <2>2, <2>3, <2>4
<1>3. GeneratedUpTo(fleet[s], t) = f[t] + SumFunctionOnSet(f, earlier)
    <2>1. SumFunctionOnSet(f, SameDay(t)) = f[t] + SumFunctionOnSet(f, SameDay(t) \ {t})
        BY <1>1, <1>2, SumStep
    <2> QED
        BY <2>1, PowersAre
<1>4. CASE t > 0 /\ DayOfTick(t - 1) = DayOfTick(t)
    <2>1. t - 1 \in Ticks /\ t - 1 \in Nat /\ t - 1 \in 0..t
        BY <1>1, <1>4, PowersAre
    <2>2. earlier = SameDay(t - 1)
        BY <1>1, <1>4, <2>1 DEF SameDay
    <2>3. \A u \in earlier : f[u] \in Nat /\ f[u] = Powers(fleet[s], t - 1)[u]
        <3> SUFFICES ASSUME NEW u \in earlier
                     PROVE  f[u] \in Nat /\ f[u] = Powers(fleet[s], t - 1)[u]
            OBVIOUS
        <3>1. u \in 0..t /\ u \in 0..(t - 1)
            BY <1>2, <2>2 DEF SameDay
        <3>2. f[u] \in Nat /\ f[u] = OutcomeAt(windows, fleet[s], u).power
            BY <3>1, PowersAre
        <3>3. Powers(fleet[s], t - 1)[u] = OutcomeAt(windows, fleet[s], u).power
            BY <2>1, <3>1, PowersAre
        <3> QED
            BY <3>2, <3>3
    <2>4. IsFiniteSet(earlier)
        BY <2>1, <2>2, PowersAre
    <2>5. SumFunctionOnSet(f, earlier) = SumFunctionOnSet(Powers(fleet[s], t - 1), earlier)
        BY <2>3, <2>4, SumIsOfValues
    <2>6. GeneratedUpTo(fleet[s], t - 1) =
              SumFunctionOnSet(Powers(fleet[s], t - 1), SameDay(t - 1))
        BY <2>1, PowersAre
    <2> QED
        BY <1>1, <1>2, <1>3, <1>4, <2>2, <2>5, <2>6
<1>5. CASE ~(t > 0 /\ DayOfTick(t - 1) = DayOfTick(t))
    <2>1. earlier = {}
        <3> SUFFICES ASSUME NEW u \in 0..t, DayOfTick(u) = DayOfTick(t), u # t PROVE FALSE
            BY DEF SameDay
        <3>1. u \in Nat /\ t - 1 \in Nat /\ u <= t - 1 /\ t - 1 <= t
            BY <1>1
        <3>2. DayOfTick(u) <= DayOfTick(t - 1) /\ DayOfTick(t - 1) <= DayOfTick(t)
            BY <1>1, <3>1, DaysFollow
        <3>3. DayOfTick(t - 1) \in Nat /\ DayOfTick(t) \in Nat
            BY <1>1, <3>1, DayIs
        <3>4. DayOfTick(t - 1) = DayOfTick(t)
            BY <3>2, <3>3
        <3>5. t > 0
            BY <1>1, <3>1
        <3> QED
            BY <1>5, <3>4, <3>5
    <2>2. SumFunctionOnSet(f, earlier) = 0
        BY <2>1, SumEmpty
    <2> QED
        BY <1>1, <1>2, <1>3, <1>5, <2>2
<1> QED
    BY <1>1, <1>2, <1>4, <1>5

(***************************************************************************)
(* Events.                                                                 *)
(***************************************************************************)
\* An event passes the validation before it is published, and corrupted it
\* does not.
LEMMA EventIsValid ==
    ASSUME ConfigInv, NEW s \in DOMAIN fleet, NEW t \in Ticks
    PROVE  /\ Event(s, t).asset = AssetKey(fleet[s])
           /\ Event(s, t).tick = t
           /\ Event(s, t).energy = GeneratedUpTo(fleet[s], t)
           /\ Event(s, t).energy \in Nat
           /\ RejectionReason(Event(s, t), fleet[s].rating) = Null
           /\ RejectionReason(Corrupted(Event(s, t)), fleet[s].rating) = "NEGATIVE_ACTIVE_POWER"
<1> DEFINE e == Event(s, t)
           o == OutcomeAt(windows, fleet[s], t)
           c == Corrupted(Event(s, t))
<1>1. e = [asset |-> AssetKey(fleet[s]), tick |-> t, power |-> o.power,
           energy |-> GeneratedUpTo(fleet[s], t), status |-> o.status,
           availability |-> o.availability]
    BY DEF Event, BuildEvent
<1>2. PICK rating \in Nat \ {0} : rating = fleet[s].rating /\ IsFitOutcome(o, rating)
    BY LoadedIs
<1>3. GeneratedUpTo(fleet[s], t) \in Nat
    <2>1. t \in 0..t
        BY PowersAre
    <2> QED
        BY <2>1, GeneratedGrows
<1> HIDE DEF o
<1>4. /\ e.asset = AssetKey(fleet[s]) /\ e.tick = t
      /\ e.energy = GeneratedUpTo(fleet[s], t)
      /\ e.power = o.power /\ e.status = o.status /\ e.availability = o.availability
    BY <1>1
<1>5. c = [e EXCEPT !.power = -e.power - 1]
    BY DEF Corrupted
<1>6. c.power = -e.power - 1
    BY <1>1, <1>5
<1> HIDE DEF e, c
<1>7. RejectionReason(e, rating) = Null
    <2>1. e.power \in 0..rating /\ e.energy \in Nat
        BY <1>2, <1>3, <1>4 DEF IsFitOutcome
    <2>2. ~(e.power < 0) /\ e.energy >= 0 /\ ~(e.energy < 0) /\ ~(e.power > rating)
        BY <1>2, <2>1
    <2>3. \/ e.status = "OFFLINE" /\ e.availability = 0 /\ e.power = 0
          \/ e.status # "OFFLINE" /\ e.availability = 1
        BY <1>2, <1>4 DEF IsFitOutcome
    <2> QED
        BY <2>1, <2>2, <2>3 DEF RejectionReason
<1>8. RejectionReason(c, rating) = "NEGATIVE_ACTIVE_POWER"
    <2>1. e.power \in 0..rating
        BY <1>2, <1>4 DEF IsFitOutcome
    <2>2. c.power < 0 /\ ~(c.power >= 0) /\ ~(c.power > rating) /\ c.power \notin 0..rating
        BY <1>2, <1>6, <2>1
    <2> QED
        BY <2>2 DEF RejectionReason
<1> QED
    BY <1>2, <1>3, <1>4, <1>7, <1>8 DEF e, c

\* Events and messages are those of the fleet and the schedule.
LEMMA EventsStay ==
    ASSUME fleet' = fleet, windows' = windows, invalid' = invalid
    PROVE  /\ Events' = Events
           /\ Messages' = Messages
           /\ \A inverter, t : GeneratedUpTo(inverter, t)' = GeneratedUpTo(inverter, t)
<1>1. \A inverter, t : GeneratedUpTo(inverter, t)' = GeneratedUpTo(inverter, t)
    BY DEF GeneratedUpTo
<1>2. Events' = Events
    BY DEF Events, Event, GeneratedUpTo
<1>3. Messages' = Messages
    BY <1>2 DEF Messages
<1> QED
    BY <1>1, <1>2, <1>3

\* Nothing comes from a fleet without inverters.
LEMMA NoEvents ==
    ASSUME StocksInv, fleet = <<>>
    PROVE  queue = <<>> /\ archive = {}
<1>1. DOMAIN fleet = {}
    OBVIOUS
<1>2. Events = {}
    BY <1>1 DEF Events
<1>3. Messages = {}
    BY <1>2 DEF Messages
<1>4. queue \in Seq({})
    BY <1>3 DEF StocksInv
<1>5. queue = <<>>
    BY <1>4
<1> QED
    BY <1>2, <1>5 DEF StocksInv

-----------------------------------------------------------------------------
(***************************************************************************)
(* The invariant holds.                                                    *)
(***************************************************************************)
LEMMA InitInv == Init => IInv
<1> SUFFICES ASSUME Init PROVE IInv
    OBVIOUS
<1> USE DEF Init
<1>1. TypeOK
    <2>1. DOMAIN ledger = {} /\ Len(queue) = 0
        OBVIOUS
    <2>2. StopAt \in Nat /\ QueueLimit \in Nat
        BY SimulatorAssumption
    <2>3. stats \in [produced : Nat, delivered : Nat, failed : Nat]
        BY DEF AtRest
    <2>4. reports \in [ok : 0..QueueLimit, failed : 0..QueueLimit]
        BY <2>2
    <2>5. tick \in Ticks /\ Len(queue) <= QueueLimit
        BY <2>1, <2>2 DEF Ticks
    <2> QED
        BY <2>1, <2>3, <2>4, <2>5 DEF TypeOK
<1>2. ConfigInv
    BY DEF ConfigInv
<1>3. TodayInv /\ LedgerInv
    BY DEF TodayInv, LedgerInv
<1>4. FeedsInv
    BY DEF FeedsInv
<1>5. StocksInv
    BY SimulatorAssumption DEF StocksInv, Queued, Unpolled, QuarantinesNothingItself
<1> QED
    BY <1>1, <1>2, <1>3, <1>4, <1>5 DEF IInv

LEMMA ConfigStep ==
    ASSUME IInv, [Next]_vars
    PROVE  /\ ConfigInv'
           /\ UNCHANGED <<portfolio, schedule, invalid>>
           /\ \/ UNCHANGED <<fleet, windows>>
              \/ fleet = <<>>
<1> USE DEF IInv, ConfigInv
<1> DEFINE Goal == /\ ConfigInv'
                   /\ UNCHANGED <<portfolio, schedule, invalid>>
                   /\ \/ UNCHANGED <<fleet, windows>>
                      \/ fleet = <<>>
<1>1. CASE Start
    <2>1. InvertersOf(portfolio) # <<>>
        <3>1. FirstSite \in DOMAIN InvertersOf(portfolio)
            BY <1>1, FleetIs DEF Start
        <3> QED
            BY <3>1
    <2> QED
        BY <1>1, <2>1 DEF Start, config
<1>2. ASSUME UNCHANGED <<portfolio, schedule, invalid, fleet, windows>>,
             phase = "stopped" => phase' = "stopped"
      PROVE  Goal
    BY <1>2
<1>3. CASE RefuseConfig \/ UNCHANGED vars
    BY <1>2, <1>3 DEF RefuseConfig, vars, config, process
<1>4. CASE Signal
    BY <1>2, <1>4 DEF Signal, config
<1>5. CASE ForceExit
    BY <1>2, <1>5 DEF ForceExit, config
<1>6. CASE Kill
    BY <1>2, <1>6 DEF Kill, config
<1>7. CASE BeginTick
    BY <1>2, <1>7 DEF BeginTick, config
<1>8. CASE LeaveLoop
    BY <1>2, <1>8 DEF LeaveLoop, config
<1>9. CASE Suppress
    BY <1>2, <1>9 DEF Suppress, config
<1>10. CASE Publish
    BY <1>2, <1>10 DEF Publish, config
<1>11. CASE QueueStaysFull
    BY <1>2, <1>11 DEF QueueStaysFull, config
<1>12. CASE Flush
    BY <1>2, <1>12 DEF Flush, config
<1>13. CASE FlushTimesOut
    BY <1>2, <1>13 DEF FlushTimesOut, config
<1>14. CASE Deliver
    BY <1>2, <1>14 DEF Deliver, config, process
<1>15. CASE FailDelivery
    BY <1>2, <1>15 DEF FailDelivery, config, process
<1> QED
    BY <1>1, <1>3, <1>4, <1>5, <1>6, <1>7, <1>8, <1>9, <1>10, <1>11, <1>12, <1>13, <1>14,
       <1>15 DEF Next, Loop

\* The loop goes on within the tick or to the next one.
LEMMA AdvanceTicks ==
    ASSUME phase = "producing", Advance
    PROVE  \/ phase' = "producing" /\ tick' = tick
           \/ phase' = "ticking" /\ tick' = tick + 1
BY DEF Advance

LEMMA TodayStep ==
    ASSUME IInv, [Next]_vars
    PROVE  TodayInv' /\ FeedsInv'
<1>1. TodayInv /\ FeedsInv /\ tick \in Nat
    BY SimulatorAssumption DEF IInv, TypeOK, Ticks
<1>2. CASE Start
    <2>1. TodayInv'
        BY <1>2 DEF Start, TodayInv
    <2>2. FeedsInv'
        BY <1>2 DEF Start, FeedsInv
    <2> QED
        BY <2>1, <2>2
<1>3. ASSUME UNCHANGED <<tick, today, feeds, unwritten>>,
             phase' = phase \/ phase' \in {"closing", "stopped"}
      PROVE  TodayInv' /\ FeedsInv'
    <2>1. TodayInv'
        BY <1>1, <1>3 DEF TodayInv
    <2>2. FeedsInv'
        BY <1>1, <1>3 DEF FeedsInv
    <2> QED
        BY <2>1, <2>2
<1>4. CASE RefuseConfig \/ UNCHANGED vars
    BY <1>3, <1>4 DEF RefuseConfig, vars, process, stored
<1>5. CASE Signal \/ ForceExit \/ Kill
    BY <1>3, <1>5 DEF Signal, ForceExit, Kill, stored
<1>6. CASE BeginTick
    <2> DEFINE day == DayOfTick(tick)
    <2>1. today' = day /\ tick' = tick /\ phase = "ticking" /\ phase' = "producing" /\ tick < StopAt
        BY <1>6 DEF BeginTick, OnDayBoundary
    <2>2. TodayInv'
        BY <2>1 DEF TodayInv
    <2>3. \/ today = Null \/ today = day
          \/ today # Null /\ today # day /\ today \in feeds' \cup unwritten'
        BY <1>6 DEF BeginTick, OnDayBoundary
    <2>4. feeds \cup unwritten \subseteq feeds' \cup unwritten'
        BY <1>6 DEF BeginTick, OnDayBoundary
    <2>5. CASE tick = 0
        <3>1. PICK n \in Nat \ {0} : n = TicksPerDay
            BY DayIsPositive
        <3>2. 0 \div n = 0
            OBVIOUS
        <3>3. day = 0
            BY <2>5, <3>1, <3>2 DEF DayOfTick
        <3> HIDE DEF day
        <3>4. \A d \in 0..DayOfTick(StopAt) : ~(d < today')
            BY <2>1, <3>3
        <3> QED
            BY <2>2, <3>4 DEF FeedsInv
    <2>6. CASE tick # 0
        <3> DEFINE before == DayOfTick(tick - 1)
        <3>1. tick - 1 \in Nat /\ (tick - 1) + 1 = tick
            BY <1>1, <2>6
        <3>2. before \in Nat /\ day \in Nat /\ before <= day
            BY <1>1, <3>1, DayIs, DaysFollow
        <3>3. day <= before + 1
            <4>1. DayOfTick((tick - 1) + 1) <= before + 1
                BY <3>1, NextDay
            <4> QED
                BY <3>1, <4>1
        <3>4. today = before
            BY <1>1, <2>1, <2>6 DEF TodayInv
        <3>5. today # Null
            BY <3>2, <3>4, SiteAssumption
        <3> HIDE DEF day, before
        <3>6. ASSUME NEW d \in 0..DayOfTick(StopAt), d < day
              PROVE  d \in feeds' \cup unwritten'
            <4>1. d \in Nat
                OBVIOUS
            <4>2. CASE d < before
                BY <1>1, <2>4, <3>4, <3>5, <4>2 DEF FeedsInv
            <4>3. CASE ~(d < before)
                <5>1. d = before /\ before # day
                    BY <3>2, <3>3, <3>6, <4>1, <4>3
                <5> QED
                    BY <2>3, <3>4, <3>5, <5>1
            <4> QED
                BY <4>2, <4>3
        <3>7. FeedsInv'
            BY <2>1, <3>6 DEF FeedsInv
        <3> QED
            BY <2>2, <3>7
    <2> QED
        BY <2>5, <2>6
<1>7. CASE LeaveLoop \/ QueueStaysFull \/ Flush \/ FlushTimesOut
    BY <1>3, <1>7 DEF LeaveLoop, QueueStaysFull, Flush, FlushTimesOut, stored
<1>8. CASE Suppress \/ Publish
    <2>1. /\ phase = "producing" /\ Advance
          /\ UNCHANGED <<today, feeds, unwritten>>
        BY <1>8 DEF Suppress, Publish, stored
    <2>2. FeedsInv'
        BY <1>1, <2>1 DEF FeedsInv
    <2>3. CASE phase' = "producing" /\ tick' = tick
        BY <1>1, <2>1, <2>2, <2>3 DEF TodayInv
    <2>4. CASE phase' = "ticking" /\ tick' = tick + 1
        <3>1. tick' - 1 = tick /\ tick' # 0
            BY <1>1, <2>4
        <3>2. today' = DayOfTick(tick' - 1)
            BY <1>1, <2>1, <3>1 DEF TodayInv
        <3>3. TodayInv'
            BY <2>4, <3>1, <3>2 DEF TodayInv
        <3> QED
            BY <2>2, <3>3
    <2> QED
        BY <2>1, <2>3, <2>4, AdvanceTicks
<1>9. CASE Deliver \/ FailDelivery
    BY <1>3, <1>9 DEF Deliver, FailDelivery, process, stored
<1> QED
    BY <1>2, <1>4, <1>5, <1>6, <1>7, <1>8, <1>9 DEF Next, Loop

\* The site that follows is after the sites that were, and the one just
\* metered, and no other; without one, no site is left.
LEMMA AdvanceSites ==
    ASSUME ConfigInv, next \in DOMAIN fleet, Advance, fleet' = fleet, NEW s \in DOMAIN fleet
    PROVE  \/ /\ phase' = phase /\ tick' = tick /\ next' \in DOMAIN fleet
              /\ Before(s, next') <=> Before(s, next) \/ s = next
           \/ /\ phase' = "ticking" /\ tick' = tick + 1
              /\ Before(s, next) \/ s = next
<1> DEFINE len(p) == Len(portfolio[p].inverters)
<1>1. /\ portfolio \in Portfolios /\ SimulatorAccepts(portfolio)
      /\ DOMAIN fleet = Sites(portfolio)
    BY LoadedIs
<1>2. PICK n \in Nat \ {0} : n = Len(portfolio)
    BY <1>1, SitesAre
<1>3. \A r : r \in DOMAIN fleet <=> \E p \in 1..n : \E i \in 1..len(p) : r = <<p, i>>
    BY <1>1, <1>2, SitesAre
<1>4. \A p \in 1..n : len(p) \in Nat \ {0}
    BY <1>1, <1>2, SitesAre
<1> HIDE DEF len
<1>5. PICK p \in 1..n : \E i \in 1..len(p) : s = <<p, i>>
    BY <1>3
<1>6. PICK i \in 1..len(p) : s = <<p, i>>
    BY <1>5
<1>7. PICK q \in 1..n : \E j \in 1..len(q) : next = <<q, j>>
    BY <1>3
<1>8. PICK j \in 1..len(q) : next = <<q, j>>
    BY <1>7
<1> DEFINE neighbour == <<q, j + 1>>
           elsewhere == <<q + 1, 1>>
<1>9. Before(s, next) \/ s = next <=> p < q \/ (p = q /\ i <= j)
    BY <1>4, <1>6, <1>8 DEF Before
<1>10. CASE neighbour \in DOMAIN fleet
    <2>1. phase' = phase /\ tick' = tick /\ next' = neighbour
        BY <1>8, <1>10 DEF Advance
    <2>2. Before(s, next') <=> p < q \/ (p = q /\ i <= j)
        BY <1>4, <1>6, <2>1 DEF Before
    <2> QED
        BY <1>9, <1>10, <2>1, <2>2
<1>11. CASE neighbour \notin DOMAIN fleet
    <2>1. j = len(q)
        <3>1. j + 1 \notin 1..len(q)
            BY <1>3, <1>11
        <3> QED
            BY <1>4, <3>1
    <2>2. p = q => i <= j
        BY <1>4, <2>1
    <2>3. CASE elsewhere \in DOMAIN fleet
        <3>1. phase' = phase /\ tick' = tick /\ next' = elsewhere
            BY <1>8, <1>11, <2>3 DEF Advance
        <3>2. Before(s, next') <=> p <= q
            BY <1>4, <1>6, <3>1 DEF Before
        <3> QED
            BY <1>9, <2>2, <2>3, <3>1, <3>2
    <2>4. CASE elsewhere \notin DOMAIN fleet
        <3>1. q = n
            <4>1. q + 1 \notin 1..n
                <5>1. \A r \in 1..n : 1 \in 1..len(r)
                    BY <1>4
                <5> QED
                    BY <1>3, <2>4, <5>1
            <4> QED
                BY <4>1
        <3>2. phase' = "ticking" /\ tick' = tick + 1
            BY <1>8, <1>11, <2>4 DEF Advance
        <3>3. p < q \/ (p = q /\ i <= j)
            BY <2>2, <3>1
        <3> QED
            BY <1>9, <3>2, <3>3
    <2> QED
        BY <2>3, <2>4
<1> QED
    BY <1>10, <1>11

\* The meter after the tick is the energy generated up to it.
LEMMA CurrentMeterIs ==
    ASSUME TypeOK, ConfigInv, TodayInv, LedgerInv, phase = "producing"
    PROVE  /\ next \in DOMAIN fleet /\ tick + 1 \in Ticks
           /\ CurrentMeter = MeterAfter(Current, tick + 1)
           /\ CurrentMeter = [day    |-> DayOfTick(tick),
                              energy |-> GeneratedUpTo(Current, tick)]
           /\ CurrentMeter.day \in Nat /\ CurrentMeter.energy \in Nat
<1> DEFINE power == OutcomeAt(windows, fleet[next], tick).power
           asset == AssetKey(fleet[next])
<1>1. next \in DOMAIN fleet /\ tick \in Ticks /\ tick \in Nat /\ tick + 1 \in Ticks
    BY SimulatorAssumption DEF TypeOK, Ticks, TodayInv
<1>2. MeteredTicks(next) = tick
    <2>1. PICK q \in Nat : \E j \in Nat : next = <<q, j>>
        <3>1. /\ portfolio \in Portfolios /\ SimulatorAccepts(portfolio)
              /\ DOMAIN fleet = Sites(portfolio)
            BY <1>1, LoadedIs
        <3> QED
            BY <1>1, <3>1, SitesAre
    <2>2. PICK j \in Nat : next = <<q, j>>
        BY <2>1
    <2>3. ~Before(next, next)
        BY <2>2 DEF Before
    <2> QED
        BY <2>3 DEF MeteredTicks
<1>3. /\ power \in Nat
      /\ GeneratedUpTo(fleet[next], tick) =
            power + IF tick > 0 /\ DayOfTick(tick - 1) = DayOfTick(tick)
                    THEN GeneratedUpTo(fleet[next], tick - 1) ELSE 0
    BY <1>1, GeneratedStep
<1>4. CurrentMeter = Accumulate(asset, DayOfTick(tick), power)
    BY DEF CurrentMeter, CurrentOutcome, Current
<1> HIDE DEF power
<1> DEFINE before == IF asset \in DOMAIN ledger /\ ledger[asset].day = DayOfTick(tick)
                     THEN ledger[asset].energy ELSE 0
<1>5. CurrentMeter = [day |-> DayOfTick(tick), energy |-> before + power]
    BY <1>4 DEF Accumulate
<1>6. before = IF tick > 0 /\ DayOfTick(tick - 1) = DayOfTick(tick)
               THEN GeneratedUpTo(fleet[next], tick - 1) ELSE 0
    <2>1. CASE tick = 0
        <3>1. asset \notin DOMAIN ledger
            BY <1>1, <1>2, <2>1 DEF LedgerInv
        <3> QED
            BY <2>1, <3>1
    <2>2. CASE tick # 0
        <3>1. /\ asset \in DOMAIN ledger
              /\ ledger[asset] = MeterAfter(fleet[next], tick)
            BY <1>1, <1>2, <2>2 DEF LedgerInv
        <3>2. /\ ledger[asset].day = DayOfTick(tick - 1)
              /\ ledger[asset].energy = GeneratedUpTo(fleet[next], tick - 1)
            BY <3>1 DEF MeterAfter
        <3>3. tick > 0
            BY <1>1, <2>2
        <3> QED
            BY <3>1, <3>2, <3>3
    <2> QED
        BY <2>1, <2>2
<1>7. GeneratedUpTo(fleet[next], tick) \in Nat
    <2>1. tick \in 0..tick
        BY <1>1
    <2> QED
        BY <1>1, <2>1, GeneratedGrows
<1>8. before \in Nat
    <2>1. CASE tick > 0 /\ DayOfTick(tick - 1) = DayOfTick(tick)
        <3>1. tick - 1 \in 0..tick
            BY <1>1, <2>1
        <3>2. GeneratedUpTo(fleet[next], tick - 1) \in Nat
            BY <1>1, <2>1, <3>1, GeneratedGrows
        <3> QED
            BY <1>6, <2>1, <3>2
    <2> QED
        BY <1>6, <2>1
<1> HIDE DEF before
<1>9. before + power = GeneratedUpTo(fleet[next], tick)
    <2>1. before + power = power + before
        BY <1>3, <1>8
    <2> QED
        BY <1>3, <1>6, <2>1
<1>10. CurrentMeter = [day |-> DayOfTick(tick), energy |-> GeneratedUpTo(Current, tick)]
    BY <1>5, <1>9 DEF Current
<1>11. (tick + 1) - 1 = tick
    BY <1>1
<1>12. DayOfTick(tick) \in Nat
    BY <1>1, DayIs
<1> QED
    BY <1>1, <1>7, <1>10, <1>11, <1>12 DEF MeterAfter, Current

LEMMA MeteredStep ==
    ASSUME TypeOK, ConfigInv, TodayInv, LedgerInv, phase = "producing",
           Metered, Advance, UNCHANGED <<fleet, windows>>
    PROVE  LedgerInv'
<1> SUFFICES ASSUME NEW s \in DOMAIN fleet
             PROVE  /\ MeteredTicks(s)' # 0
                    /\ AssetKey(fleet[s]) \in DOMAIN ledger'
                    /\ ledger'[AssetKey(fleet[s])] = MeterAfter(fleet[s], MeteredTicks(s)')
                \/  /\ MeteredTicks(s)' = 0
                    /\ AssetKey(fleet[s]) \notin DOMAIN ledger'
    <2>1. \A inverter, n : MeterAfter(inverter, n)' = MeterAfter(inverter, n)
        BY DEF MeterAfter, GeneratedUpTo
    <2> QED
        BY <2>1 DEF LedgerInv
<1>1. /\ next \in DOMAIN fleet /\ tick \in Nat
      /\ CurrentMeter = MeterAfter(fleet[next], tick + 1)
    BY CurrentMeterIs, SimulatorAssumption DEF TypeOK, Ticks, Current
<1> DEFINE asset == AssetKey(fleet[s])
<1>2. /\ DOMAIN ledger' = DOMAIN ledger \cup {AssetKey(fleet[next])}
      /\ s = next => ledger'[asset] = CurrentMeter
      /\ s # next => /\ asset # AssetKey(fleet[next])
                     /\ asset \in DOMAIN ledger => ledger'[asset] = ledger[asset]
    <2>1. s # next => asset # AssetKey(fleet[next])
        BY <1>1, KeysDiffer
    <2> QED
        BY <2>1 DEF Metered, Current
<1>3. MeteredTicks(s)' = IF Before(s, next) \/ s = next THEN tick + 1 ELSE tick
    <2>1. \/ /\ phase' = "producing" /\ tick' = tick
             /\ Before(s, next') <=> Before(s, next) \/ s = next
          \/ /\ phase' = "ticking" /\ tick' = tick + 1
             /\ Before(s, next) \/ s = next
        BY <1>1, AdvanceSites
    <2>2. MeteredTicks(s)' =
              IF phase' = "producing" /\ Before(s, next') THEN tick' + 1 ELSE tick'
        BY DEF MeteredTicks, Before
    <2> QED
        BY <2>1, <2>2
<1>4. CASE s = next
    <2>1. tick + 1 # 0
        BY <1>1
    <2> QED
        BY <1>1, <1>2, <1>3, <1>4, <2>1
<1>5. CASE s # next
    <2>1. MeteredTicks(s)' = MeteredTicks(s)
        BY <1>3, <1>5 DEF MeteredTicks
    <2>2. IF MeteredTicks(s) = 0 THEN asset \notin DOMAIN ledger
          ELSE asset \in DOMAIN ledger /\ ledger[asset] = MeterAfter(fleet[s], MeteredTicks(s))
        BY DEF LedgerInv
    <2> HIDE DEF asset
    <2> QED
        BY <1>2, <1>5, <2>1, <2>2 DEF asset
<1> QED
    BY <1>4, <1>5

LEMMA LedgerStep ==
    ASSUME IInv, [Next]_vars
    PROVE  LedgerInv'
<1>1. TypeOK /\ ConfigInv /\ TodayInv /\ LedgerInv
    BY DEF IInv
<1>2. ASSUME phase' \in {"closing", "stopped"} PROVE LedgerInv'
    BY <1>2 DEF LedgerInv
<1>3. ASSUME UNCHANGED <<fleet, windows>>
      PROVE  \A inverter, n : MeterAfter(inverter, n)' = MeterAfter(inverter, n)
    BY <1>3 DEF MeterAfter, GeneratedUpTo
<1>4. ASSUME UNCHANGED <<phase, fleet, windows, ledger, tick, next>> PROVE LedgerInv'
    <2>1. \A s : MeteredTicks(s)' = MeteredTicks(s)
        BY <1>4 DEF MeteredTicks, Before
    <2> QED
        BY <1>1, <1>3, <1>4, <2>1 DEF LedgerInv
<1>5. CASE Start
    <2>1. phase' = "ticking" /\ tick' = 0 /\ DOMAIN ledger' = {}
        BY <1>5 DEF Start
    <2>2. \A s : MeteredTicks(s)' = 0
        BY <2>1 DEF MeteredTicks
    <2> QED
        BY <2>1, <2>2 DEF LedgerInv
<1>6. CASE RefuseConfig \/ Signal \/ UNCHANGED vars
    BY <1>4, <1>6 DEF RefuseConfig, Signal, vars, process
<1>7. CASE ForceExit \/ Kill \/ LeaveLoop \/ QueueStaysFull \/ Flush \/ FlushTimesOut
    BY <1>2, <1>7 DEF ForceExit, Kill, LeaveLoop, QueueStaysFull, Flush, FlushTimesOut
<1>8. CASE BeginTick
    <2>1. /\ phase = "ticking" /\ phase' = "producing" /\ next' = FirstSite
          /\ UNCHANGED <<fleet, windows, tick, ledger>>
        BY <1>8 DEF BeginTick, OnDayBoundary
    <2>2. ASSUME NEW s \in DOMAIN fleet PROVE MeteredTicks(s)' = MeteredTicks(s)
        <3>1. PICK p \in Nat \ {0} : \E i \in Nat \ {0} : s = <<p, i>>
            <4>1. /\ portfolio \in Portfolios /\ SimulatorAccepts(portfolio)
                  /\ s \in Sites(portfolio)
                BY <1>1, LoadedIs
            <4>2. PICK p \in 1..Len(portfolio) :
                      \E i \in 1..Len(portfolio[p].inverters) : s = <<p, i>>
                BY <4>1, SitesAre
            <4>3. PICK i \in 1..Len(portfolio[p].inverters) : s = <<p, i>>
                BY <4>2
            <4>4. p \in Nat \ {0} /\ i \in Nat \ {0}
                BY <4>1, SitesAre
            <4> QED
                BY <4>3, <4>4
        <3>2. PICK i \in Nat \ {0} : s = <<p, i>>
            BY <3>1
        <3>3. ~Before(s, next')
            BY <2>1, <3>2 DEF Before, FirstSite
        <3>4. MeteredTicks(s)' = IF Before(s, next') THEN tick' + 1 ELSE tick'
            BY <2>1 DEF MeteredTicks, Before
        <3> QED
            BY <2>1, <3>3, <3>4 DEF MeteredTicks
    <2> QED
        BY <1>1, <1>3, <2>1, <2>2 DEF LedgerInv
<1>9. CASE Suppress \/ Publish
    BY <1>1, <1>9, MeteredStep DEF Suppress, Publish
<1>10. CASE Deliver \/ FailDelivery
    BY <1>4, <1>10 DEF Deliver, FailDelivery, process
<1> QED
    BY <1>5, <1>6, <1>7, <1>8, <1>9, <1>10 DEF Next, Loop

\* What is put into the queue is the event, or the refusal of the corrupted
\* one.
LEMMA MessageIs ==
    ASSUME IInv, phase = "producing"
    PROVE  Message \in Messages
<1> DEFINE e == Event(next, tick)
<1>1. /\ ConfigInv /\ next \in DOMAIN fleet /\ tick \in Ticks
      /\ CurrentMeter.energy = GeneratedUpTo(fleet[next], tick)
    BY CurrentMeterIs DEF IInv, TypeOK, Current
<1>2. Built = e
    BY <1>1 DEF Built, Event, CurrentOutcome, Current
<1>3. e \in Events
    BY <1>1 DEF Events
<1>4. /\ RejectionReason(e, fleet[next].rating) = Null
      /\ RejectionReason(Corrupted(e), fleet[next].rating) = "NEGATIVE_ACTIVE_POWER"
    BY <1>1, EventIsValid
<1>5. Null # "NEGATIVE_ACTIVE_POWER"
    BY SiteAssumption DEF Reasons
<1> HIDE DEF e
<1>6. CASE invalid
    <2>1. Message = Refused(e)
        BY <1>2, <1>4, <1>5, <1>6 DEF Message, Reason, Payload, Current, Refused
    <2> QED
        BY <1>3, <1>6, <2>1 DEF Messages
<1>7. CASE ~invalid
    <2>1. Message = Raw(e)
        BY <1>2, <1>4, <1>7 DEF Message, Reason, Payload, Current, Raw
    <2> QED
        BY <1>3, <1>7, <2>1 DEF Messages
<1> QED
    BY <1>6, <1>7

\* What a message is tells where its body goes.
LEMMA DeliveredIs ==
    ASSUME NEW m \in Messages
    PROVE  /\ m.topic = "raw" => m.body \in Events
           /\ m.topic # "raw" => invalid
<1>1. CASE invalid
    <2>1. PICK e \in Events : m = Refused(e)
        BY <1>1 DEF Messages
    <2>2. m.topic = "invalid"
        BY <2>1 DEF Refused
    <2> QED
        BY <1>1, <2>2
<1>2. CASE ~invalid
    <2>1. PICK e \in Events : m = Raw(e)
        BY <1>2 DEF Messages
    <2>2. m.topic = "raw" /\ m.body = e
        BY <2>1 DEF Raw
    <2> QED
        BY <2>2
<1> QED
    BY <1>1, <1>2

LEMMA StocksStep ==
    ASSUME IInv, [Next]_vars
    PROVE  StocksInv'
<1>1. /\ TypeOK /\ ConfigInv /\ StocksInv
      /\ QueueLimit \in Nat /\ Len(queue) \in Nat
      /\ reports.ok \in Nat /\ reports.failed \in Nat
    <2>1. TypeOK /\ ConfigInv /\ StocksInv
        BY DEF IInv
    <2>2. Len(queue) \in Nat
        BY <2>1, LenProperties DEF StocksInv
    <2>3. QueueLimit \in Nat
        BY SimulatorAssumption
    <2>4. reports.ok \in 0..QueueLimit /\ reports.failed \in 0..QueueLimit
        BY <2>1 DEF TypeOK
    <2> QED
        BY <2>1, <2>2, <2>3, <2>4
<1>2. queue \in Seq(Messages') /\ archive \subseteq Events' /\ invalid' = invalid
    <2>1. CASE UNCHANGED <<fleet, windows>>
        BY <1>1, <2>1, ConfigStep, EventsStay DEF StocksInv
    <2>2. CASE fleet = <<>>
        <3>1. queue = <<>> /\ archive = {}
            BY <1>1, <2>2, NoEvents
        <3> QED
            BY <3>1, ConfigStep
    <2> QED
        BY <2>1, <2>2, ConfigStep
<1>3. Queued = Len(queue) + (reports.ok + reports.failed) /\ Queued <= QueueLimit
    BY <1>1 DEF Queued, Unpolled, StocksInv
<1>4. Queued' = Len(queue') + (reports'.ok + reports'.failed)
    BY DEF Queued, Unpolled
<1>5. ASSUME \/ queue' = queue
             \/ queue' = <<>>
             \/ queue # <<>> /\ queue' = Tail(queue),
             \/ queue' = queue /\ reports' = reports
             \/ reports' = [ok |-> 0, failed |-> 0]
             \/ /\ queue # <<>> /\ queue' = Tail(queue)
                /\ \/ reports' = [reports EXCEPT !.ok = @ + 1]
                   \/ reports' = [reports EXCEPT !.failed = @ + 1]
      PROVE  queue' \in Seq(Messages') /\ Queued' <= QueueLimit
    <2>1. queue # <<>> => Tail(queue) \in Seq(Messages') /\ Len(Tail(queue)) = Len(queue) - 1
        BY <1>2, HeadTailProperties
    <2>2. /\ queue' \in Seq(Messages')
          /\ queue' = <<>> => Len(queue') = 0
          /\ Len(queue') \in Nat /\ Len(queue') <= Len(queue)
        <3>1. Len(<<>>) = 0 /\ <<>> \in Seq(Messages')
            OBVIOUS
        <3>2. queue' \in Seq(Messages')
            BY <1>2, <1>5, <2>1, <3>1
        <3>3. Len(queue') <= Len(queue)
            BY <1>1, <1>5, <2>1, <3>1
        <3>4. Len(queue') \in Nat
            BY <3>2, LenProperties
        <3> QED
            BY <3>1, <3>2, <3>3, <3>4
    <2>3. CASE queue' = queue /\ reports' = reports
        BY <1>2, <1>3, <1>4, <2>3
    <2>4. CASE reports' = [ok |-> 0, failed |-> 0]
        <3>1. reports'.ok = 0 /\ reports'.failed = 0
            BY <2>4
        <3> QED
            BY <1>1, <1>3, <1>4, <2>2, <3>1
    <2>5. CASE /\ queue # <<>> /\ queue' = Tail(queue)
               /\ \/ reports' = [reports EXCEPT !.ok = @ + 1]
                  \/ reports' = [reports EXCEPT !.failed = @ + 1]
        <3>1. \/ reports'.ok = reports.ok + 1 /\ reports'.failed = reports.failed
              \/ reports'.ok = reports.ok /\ reports'.failed = reports.failed + 1
            <4>1. reports \in [ok : 0..QueueLimit, failed : 0..QueueLimit]
                BY <1>1 DEF TypeOK
            <4> QED
                BY <2>5, <4>1
        <3>2. Len(queue') = Len(queue) - 1
            BY <2>1, <2>5
        <3>3. Queued' = Queued
            BY <1>1, <1>3, <1>4, <3>1, <3>2
        <3> QED
            BY <1>3, <2>2, <3>3
    <2> QED
        BY <1>5, <2>3, <2>4, <2>5
<1>6. ASSUME UNCHANGED <<quarantine, archive>>,
             queue' \in Seq(Messages') /\ Queued' <= QueueLimit
      PROVE  StocksInv'
    BY <1>1, <1>2, <1>6 DEF StocksInv, QuarantinesNothingItself
<1>7. CASE Start
    BY <1>5, <1>6, <1>7 DEF Start, stored
<1>8. CASE RefuseConfig \/ UNCHANGED vars
    BY <1>5, <1>6, <1>8 DEF RefuseConfig, vars, producer, stored
<1>9. CASE Signal \/ ForceExit \/ LeaveLoop
    BY <1>5, <1>6, <1>9 DEF Signal, ForceExit, LeaveLoop, producer, stored
<1>10. CASE Kill
    BY <1>5, <1>6, <1>10 DEF Kill, stored
<1>11. CASE BeginTick
    BY <1>5, <1>6, <1>11 DEF BeginTick, producer
<1>12. CASE Suppress \/ QueueStaysFull
    BY <1>5, <1>6, <1>12 DEF Suppress, QueueStaysFull, producer, stored
<1>13. CASE Flush
    BY <1>5, <1>6, <1>13 DEF Flush, stored
<1>14. CASE FlushTimesOut
    BY <1>5, <1>6, <1>14 DEF FlushTimesOut, stored
<1>15. CASE FailDelivery
    BY <1>5, <1>6, <1>15 DEF FailDelivery, stored
<1>16. CASE Publish
    <2>1. /\ phase = "producing" /\ queue' = Append(queue, Message)
          /\ reports' = [ok |-> 0, failed |-> 0]
          /\ Queued < QueueLimit \/ Unpolled > 0
          /\ UNCHANGED <<fleet, windows, quarantine, archive>>
        BY <1>16 DEF Publish, stored
    <2>2. Message \in Messages'
        BY <1>2, <2>1, MessageIs, EventsStay
    <2>3. queue' \in Seq(Messages') /\ Len(queue') = Len(queue) + 1
        BY <1>2, <2>1, <2>2, AppendProperties
    <2>4. Queued' <= QueueLimit
        <3>1. reports'.ok = 0 /\ reports'.failed = 0
            BY <2>1
        <3>2. Unpolled = reports.ok + reports.failed
            BY DEF Unpolled
        <3>3. Queued' = Len(queue) + 1
            BY <1>1, <1>4, <2>3, <3>1
        <3> QED
            BY <1>1, <1>3, <2>1, <3>2, <3>3
    <2> QED
        BY <1>6, <2>1, <2>3, <2>4
<1>17. CASE Deliver
    <2> DEFINE m == Head(queue)
    <2>1. queue # <<>> /\ queue' = Tail(queue) /\ reports' = [reports EXCEPT !.ok = @ + 1]
        BY <1>17 DEF Deliver
    <2>2. queue' \in Seq(Messages') /\ Queued' <= QueueLimit
        BY <1>5, <2>1
    <2>3. m \in Messages
        BY <1>1, <2>1, HeadTailProperties DEF StocksInv
    <2> HIDE DEF m
    <2>4. m.topic = "raw" => m.body \in Events'
        <3>1. Events' = Events
            BY <1>2, <1>17, EventsStay DEF Deliver, process
        <3> QED
            BY <2>3, <3>1, DeliveredIs
    <2>5. archive' \subseteq Events'
        <3>1. m.topic = "raw" => archive' \subseteq archive \cup {m.body}
            BY <1>17 DEF Deliver, Delivered, Archived, m
        <3>2. m.topic # "raw" => archive' = archive
            BY <1>17 DEF Deliver, Delivered, m
        <3> QED
            BY <1>2, <2>4, <3>1, <3>2
    <2>6. quarantine' # {} => invalid'
        <3>1. m.topic = "raw" => quarantine' = quarantine
            BY <1>17 DEF Deliver, Delivered, m
        <3>2. m.topic # "raw" => invalid
            BY <2>3, DeliveredIs
        <3> QED
            BY <1>1, <1>2, <3>1, <3>2 DEF StocksInv, QuarantinesNothingItself
    <2> QED
        BY <2>2, <2>5, <2>6 DEF StocksInv, QuarantinesNothingItself
<1> QED
    BY <1>7, <1>8, <1>9, <1>10, <1>11, <1>12, <1>13, <1>14, <1>15, <1>16, <1>17 DEF Next, Loop

LEMMA ArchiveTyped ==
    ASSUME IInv, [Next]_vars, StocksInv'
    PROVE  \A e \in archive' : e.asset \in Assets' /\ e.tick \in Ticks
<1>1. ConfigInv /\ StocksInv /\ TypeOK
    BY DEF IInv
<1>2. \/ fleet' = fleet /\ windows' = windows
      \/ fleet = <<>>
    BY ConfigStep
<1>3. CASE fleet' = fleet /\ windows' = windows
    <2>1. archive' \subseteq Events /\ Assets' = Assets
        BY <1>3, ConfigStep, EventsStay DEF StocksInv, Assets
    <2>2. ASSUME NEW s \in DOMAIN fleet, NEW t \in Ticks
          PROVE  Event(s, t).asset \in Assets /\ Event(s, t).tick \in Ticks
        BY <1>1, EventIsValid DEF Assets
    <2> QED
        BY <2>1, <2>2 DEF Events
<1>4. CASE fleet = <<>>
    <2>1. queue = <<>> /\ archive = {}
        BY <1>1, <1>4, NoEvents
    <2>2. archive' = archive
        BY <2>1 DEF Next, Loop, Start, RefuseConfig, Signal, ForceExit, Kill, BeginTick,
                    LeaveLoop, Suppress, Publish, QueueStaysFull, Flush, FlushTimesOut,
                    Deliver, FailDelivery, vars, stored
    <2> QED
        BY <2>1, <2>2
<1> QED
    BY <1>2, <1>3, <1>4

\* The reports that are in fit the queue.
LEMMA ReportsTyped ==
    ASSUME IInv, [Next]_vars, StocksInv'
    PROVE  /\ Len(queue') <= QueueLimit
           /\ reports' \in [ok : 0..QueueLimit, failed : 0..QueueLimit]
           /\ stats' \in [produced : Nat, delivered : Nat, failed : Nat]
<1>1. /\ QueueLimit \in Nat
      /\ reports \in [ok : 0..QueueLimit, failed : 0..QueueLimit]
      /\ stats \in [produced : Nat, delivered : Nat, failed : Nat]
    BY SimulatorAssumption DEF IInv, TypeOK
<1>2. reports \in [ok : Nat, failed : Nat] /\ reports.ok \in Nat /\ reports.failed \in Nat
    BY <1>1
<1>3. /\ Served(stats) \in [produced : Nat, delivered : Nat, failed : Nat]
      /\ [Served(stats) EXCEPT !.produced = @ + 1]
             \in [produced : Nat, delivered : Nat, failed : Nat]
    <2>1. /\ stats.produced \in Nat /\ stats.produced + 1 \in Nat
          /\ stats.delivered + reports.ok \in Nat
          /\ stats.failed + reports.failed \in Nat
        BY <1>1, <1>2
    <2>2. Served(stats) = [produced  |-> stats.produced,
                           delivered |-> stats.delivered + reports.ok,
                           failed    |-> stats.failed + reports.failed]
        <3>1. PICK s0 \in [produced : Nat, delivered : Nat, failed : Nat] : s0 = stats
            BY <1>1
        <3>2. [s0 EXCEPT !.delivered = @ + reports.ok] =
                  [produced  |-> s0.produced,
                   delivered |-> s0.delivered + reports.ok,
                   failed    |-> s0.failed]
            OBVIOUS
        <3>3. Served(s0) = [[s0 EXCEPT !.delivered = @ + reports.ok]
                                EXCEPT !.failed = s0.failed + reports.failed]
            BY DEF Served
        <3> QED
            BY <3>1, <3>2, <3>3
    <2> HIDE DEF Served
    <2>3. [Served(stats) EXCEPT !.produced = @ + 1] =
              [produced  |-> stats.produced + 1,
               delivered |-> stats.delivered + reports.ok,
               failed    |-> stats.failed + reports.failed]
        BY <2>2
    <2> QED
        BY <2>1, <2>2, <2>3
<1>4. AtRest \in [produced : Nat, delivered : Nat, failed : Nat]
    BY DEF AtRest
<1>5. stats' \in {stats, AtRest, Served(stats), [Served(stats) EXCEPT !.produced = @ + 1]}
    BY DEF Next, Loop, Start, RefuseConfig, Signal, ForceExit, Kill, BeginTick, LeaveLoop,
           Suppress, Publish, QueueStaysFull, Flush, FlushTimesOut, Deliver, FailDelivery,
           vars, producer
<1>6. reports' \in {reports, [ok |-> 0, failed |-> 0], [reports EXCEPT !.ok = @ + 1],
                    [reports EXCEPT !.failed = @ + 1]}
    BY DEF Next, Loop, Start, RefuseConfig, Signal, ForceExit, Kill, BeginTick, LeaveLoop,
           Suppress, Publish, QueueStaysFull, Flush, FlushTimesOut, Deliver, FailDelivery,
           vars, producer
<1>7. reports' \in [ok : Nat, failed : Nat]
    BY <1>2, <1>6
<1>8. Len(queue') \in Nat /\ Len(queue') + (reports'.ok + reports'.failed) <= QueueLimit
    <2>1. queue' \in Seq(Messages') /\ Queued' <= QueueLimit
        BY DEF StocksInv
    <2> QED
        BY <2>1, LenProperties DEF Queued, Unpolled
<1>9. /\ Len(queue') <= QueueLimit
      /\ reports'.ok \in 0..QueueLimit /\ reports'.failed \in 0..QueueLimit
    <2>1. reports'.ok \in Nat /\ reports'.failed \in Nat
        BY <1>7
    <2> QED
        BY <1>1, <1>8, <2>1
<1> QED
    BY <1>3, <1>1, <1>4, <1>5, <1>7, <1>9

\* The process: phase, clock and place in the fleet.
LEMMA ProcessTyped ==
    ASSUME IInv, [Next]_vars
    PROVE  /\ phase' \in {"stopped", "ticking", "producing", "closing"}
           /\ shutdown' \in BOOLEAN
           /\ tick' \in Ticks
           /\ phase' = "producing" => next' \in DOMAIN fleet'
<1>1. TypeOK /\ ConfigInv /\ TodayInv /\ LedgerInv
    BY DEF IInv
<1>2. /\ phase \in {"stopped", "ticking", "producing", "closing"}
      /\ shutdown \in BOOLEAN /\ tick \in Ticks /\ 0 \in Ticks
      /\ phase = "producing" => next \in DOMAIN fleet
    BY <1>1, SimulatorAssumption DEF TypeOK, Ticks
<1>3. CASE Start
    BY <1>2, <1>3 DEF Start
<1>4. CASE RefuseConfig \/ UNCHANGED vars
    BY <1>2, <1>4 DEF RefuseConfig, vars, process
<1>5. CASE Signal \/ ForceExit \/ Kill
    BY <1>2, <1>5 DEF Signal, ForceExit, Kill
<1>6. CASE BeginTick
    <2>1. fleet # <<>>
        BY <1>1, <1>6 DEF BeginTick, ConfigInv
    <2>2. FirstSite \in DOMAIN fleet
        BY <1>1, <2>1, FleetIs DEF ConfigInv
    <2> QED
        BY <1>2, <1>6, <2>2 DEF BeginTick
<1>7. CASE LeaveLoop \/ QueueStaysFull \/ Flush \/ FlushTimesOut
    BY <1>2, <1>7 DEF LeaveLoop, QueueStaysFull, Flush, FlushTimesOut
<1>8. CASE Suppress \/ Publish
    <2>1. phase = "producing" /\ Advance /\ UNCHANGED <<shutdown, fleet>>
        BY <1>8 DEF Suppress, Publish
    <2>2. next \in DOMAIN fleet /\ tick + 1 \in Ticks
        BY <1>1, <2>1, CurrentMeterIs
    <2>3. \/ phase' = phase /\ tick' = tick /\ next' \in DOMAIN fleet
          \/ phase' = "ticking" /\ tick' = tick + 1
        BY <1>1, <2>1, <2>2, AdvanceSites
    <2> QED
        BY <1>2, <2>1, <2>2, <2>3
<1>9. CASE Deliver \/ FailDelivery
    BY <1>2, <1>9 DEF Deliver, FailDelivery, process
<1> QED
    BY <1>3, <1>4, <1>5, <1>6, <1>7, <1>8, <1>9 DEF Next, Loop

\* What the process keeps: the meters, and the day.
LEMMA KeepTyped ==
    ASSUME IInv, [Next]_vars
    PROVE  /\ DOMAIN ledger' \subseteq Assets'
           /\ \A a \in DOMAIN ledger' : ledger'[a].day \in Nat /\ ledger'[a].energy \in Nat
           /\ today' \in {Null} \cup {DayOfTick(t) : t \in Ticks}
           /\ feeds' \cup unwritten' \subseteq Nat
<1>1. TypeOK /\ ConfigInv /\ TodayInv /\ LedgerInv
    BY DEF IInv
<1>2. /\ DOMAIN ledger \subseteq Assets
      /\ \A a \in DOMAIN ledger : ledger[a].day \in Nat /\ ledger[a].energy \in Nat
      /\ today \in {Null} \cup {DayOfTick(t) : t \in Ticks}
      /\ feeds \cup unwritten \subseteq Nat
      /\ tick \in Ticks
    BY <1>1 DEF TypeOK
<1>3. today # Null => today \in Nat
    <2>1. \A t \in Ticks : DayOfTick(t) \in Nat
        BY DayIs, SimulatorAssumption DEF Ticks
    <2> QED
        BY <1>2, <2>1
<1>4. CASE Start
    <2>1. DOMAIN ledger' = {}
        BY <1>4 DEF Start
    <2> QED
        BY <1>2, <1>4, <2>1 DEF Start, stored
<1>5. ASSUME UNCHANGED <<fleet, ledger, today, feeds, unwritten>>
      PROVE  /\ DOMAIN ledger' \subseteq Assets'
             /\ \A a \in DOMAIN ledger' : ledger'[a].day \in Nat /\ ledger'[a].energy \in Nat
             /\ today' \in {Null} \cup {DayOfTick(t) : t \in Ticks}
             /\ feeds' \cup unwritten' \subseteq Nat
    BY <1>2, <1>5 DEF Assets
<1>6. CASE RefuseConfig \/ UNCHANGED vars
    BY <1>5, <1>6 DEF RefuseConfig, vars, process, stored
<1>7. CASE Signal \/ ForceExit \/ Kill \/ LeaveLoop \/ Flush \/ FlushTimesOut
    BY <1>5, <1>7 DEF Signal, ForceExit, Kill, LeaveLoop, Flush, FlushTimesOut, stored
<1>8. CASE Deliver \/ FailDelivery
    BY <1>5, <1>8 DEF Deliver, FailDelivery, process, stored
<1>9. CASE BeginTick
    <2>1. /\ today' = DayOfTick(tick)
          /\ feeds' \cup unwritten' \subseteq feeds \cup unwritten \cup ({today} \ {Null})
          /\ UNCHANGED <<fleet, ledger>>
        BY <1>9 DEF BeginTick, OnDayBoundary
    <2> QED
        BY <1>2, <1>3, <2>1 DEF Assets
<1>10. CASE Suppress \/ Publish \/ QueueStaysFull
    <2>1. phase = "producing" /\ Metered /\ UNCHANGED <<fleet, today, feeds, unwritten>>
        BY <1>10 DEF Suppress, Publish, QueueStaysFull, stored
    <2>2. /\ next \in DOMAIN fleet
          /\ CurrentMeter.day \in Nat /\ CurrentMeter.energy \in Nat
        BY <1>1, <2>1, CurrentMeterIs
    <2>3. AssetKey(Current) \in Assets
        BY <2>2 DEF Assets, Current
    <2>4. /\ DOMAIN ledger' = DOMAIN ledger \cup {AssetKey(Current)}
          /\ \A a \in DOMAIN ledger' :
                \/ ledger'[a] = CurrentMeter
                \/ a \in DOMAIN ledger /\ ledger'[a] = ledger[a]
        <3> DEFINE key == AssetKey(Current)
                   meter == CurrentMeter
        <3>1. ledger' = [a \in DOMAIN ledger \cup {key} |->
                             IF a = key THEN meter ELSE ledger[a]]
            BY <2>1 DEF Metered
        <3> HIDE DEF key, meter
        <3>2. /\ DOMAIN ledger' = DOMAIN ledger \cup {key}
              /\ \A a \in DOMAIN ledger' :
                    \/ ledger'[a] = meter
                    \/ a \in DOMAIN ledger /\ ledger'[a] = ledger[a]
            BY <3>1
        <3> QED
            BY <3>2 DEF key, meter
    <2>5. Assets' = Assets
        BY <2>1 DEF Assets
    <2> QED
        BY <1>2, <2>1, <2>2, <2>3, <2>4, <2>5
<1> QED
    BY <1>4, <1>6, <1>7, <1>8, <1>9, <1>10 DEF Next, Loop

LEMMA NextInv == IInv /\ [Next]_vars => IInv'
<1> SUFFICES ASSUME IInv, [Next]_vars PROVE IInv'
    OBVIOUS
<1>1. StocksInv'
    BY StocksStep
<1>2. TypeOK'
    BY <1>1, ArchiveTyped, ReportsTyped, ProcessTyped, KeepTyped DEF TypeOK, Ticks
<1> QED
    BY <1>1, <1>2, ConfigStep, TodayStep, LedgerStep DEF IInv

\* The invariant holds in every state the simulator can be in.
THEOREM SimulatorInvariant == Spec => []IInv
<1>1. Init => IInv
    BY InitInv
<1>2. IInv /\ [Next]_vars => IInv'
    BY NextInv
<1> QED
    BY <1>1, <1>2, PTL DEF Spec

-----------------------------------------------------------------------------
(***************************************************************************)
(* What the batch layer makes of a meter.                                  *)
(***************************************************************************)
\* Finitely many events of one meter: no two of one tick, and a reading that
\* never falls.
OneMeter(events) ==
    /\ IsFiniteSet(events)
    /\ \A e \in events : e.tick \in Nat /\ e.energy \in Nat
    /\ \A e, x \in events : e.tick = x.tick => e = x
    /\ \A e, x \in events : x.tick < e.tick => x.energy <= e.energy

LEMMA SomeOfOneMeter ==
    ASSUME NEW E, OneMeter(E), NEW T \in SUBSET E
    PROVE  OneMeter(T)
BY FS_Subset DEF OneMeter

\* The last of them has the latest tick.
LEMMA LastExists ==
    ASSUME NEW E, OneMeter(E), E # {}
    PROVE  \E last \in E : LatestTick(E) = last.tick /\ \A e \in E : e.tick <= last.tick
<1> DEFINE ticks == { e.tick : e \in E }
<1>1. ticks \in SUBSET Nat /\ ticks # {}
    BY DEF OneMeter
<1>2. IsFiniteSet(ticks)
    <2> DEFINE f == [e \in E |-> e.tick]
    <2>1. f \in Surjection(E, ticks)
        BY DEF Surjection
    <2> QED
        BY <2>1, FS_Surjection DEF OneMeter
<1>3. Max(ticks) \in ticks /\ \A n \in ticks : n <= Max(ticks)
    BY <1>1, <1>2, MaxIsLargest
<1>4. LatestTick(E) = Max(ticks)
    BY DEF LatestTick
<1> QED
    BY <1>3, <1>4

\* The rise since the event before counts, and the whole reading of the first.
LEMMA IncrementIs ==
    ASSUME NEW E, OneMeter(E), NEW e \in E
    PROVE  /\ Increment(E, e) \in Nat
           /\ (\A x \in E : ~(x.tick < e.tick)) => Increment(E, e) = e.energy
           /\ \A y \in E :
                 y.tick < e.tick /\ (\A x \in E : x.tick < e.tick => x.tick <= y.tick)
                     => Increment(E, e) = e.energy - y.energy
<1>1. e.energy \in Nat /\ e.tick \in Nat
    BY DEF OneMeter
<1>2. (\A x \in E : ~(x.tick < e.tick)) => Increment(E, e) = e.energy
    BY DEF Increment
<1>3. ASSUME NEW y \in E, y.tick < e.tick, \A x \in E : x.tick < e.tick => x.tick <= y.tick
      PROVE  Increment(E, e) = e.energy - y.energy /\ Increment(E, e) \in Nat
    <2> DEFINE Latest(z) == z.tick < e.tick /\ \A x \in E : x.tick < e.tick => x.tick <= z.tick
    <2>1. Previous(E, e) = CHOOSE z \in E : Latest(z)
        BY DEF Previous
    <2>2. ASSUME NEW z \in E, Latest(z) PROVE z = y
        <3>1. z.tick <= y.tick /\ y.tick <= z.tick /\ z.tick \in Nat /\ y.tick \in Nat
            BY <1>3, <2>2 DEF OneMeter
        <3>2. z.tick = y.tick
            BY <3>1
        <3> QED
            BY <3>2 DEF OneMeter
    <2>3. Latest(y)
        BY <1>3
    <2> HIDE DEF Latest
    <2>4. Previous(E, e) = y
        BY <2>1, <2>2, <2>3
    <2>5. y.energy <= e.energy /\ y.energy \in Nat
        BY <1>3 DEF OneMeter
    <2>6. Increment(E, e) = e.energy - y.energy
        BY <1>3, <2>4, <2>5 DEF Increment
    <2> QED
        BY <1>1, <2>5, <2>6
<1>4. CASE \A x \in E : ~(x.tick < e.tick)
    BY <1>1, <1>2, <1>3, <1>4
<1>5. CASE \E x \in E : x.tick < e.tick
    <2> DEFINE before == { x \in E : x.tick < e.tick }
    <2>1. OneMeter(before)
        BY SomeOfOneMeter
    <2>2. PICK y \in before : \A x \in before : x.tick <= y.tick
        <3>1. before # {}
            BY <1>5
        <3> HIDE DEF before
        <3> QED
            BY <2>1, <3>1, LastExists
    <2> QED
        BY <1>2, <1>3, <2>2
<1> QED
    BY <1>4, <1>5

\* The increments of a meter add up to its last reading, whichever events are
\* missing before it.
Total(events) == SumFunctionOnSet([e \in events |-> Increment(events, e)], events)

LEMMA IncrementsAddUp ==
    ASSUME NEW E, OneMeter(E), NEW last \in E, \A e \in E : e.tick <= last.tick
    PROVE  Total(E) = last.energy
<1> DEFINE IsLast(x, T) == x \in T /\ \A e \in T : e.tick <= x.tick
           Bad == { T \in FiniteSubsetsOf(E) :
                        \E x \in T : IsLast(x, T) /\ Total(T) # x.energy }
<1>1. SUFFICES ASSUME Bad # {} PROVE FALSE
    BY DEF FiniteSubsetsOf, OneMeter
<1>2. PICK T \in Bad : \A U \in Bad : U \subseteq T => U = T
    <2>1. Bad \in SUBSET FiniteSubsetsOf(E)
        OBVIOUS
    <2> HIDE DEF Bad
    <2> QED
        BY <1>1, <2>1, SmallestMember
<1>3. T \subseteq E /\ IsFiniteSet(T) /\ OneMeter(T)
    BY <1>2, SomeOfOneMeter DEF FiniteSubsetsOf
<1>4. PICK x \in T : IsLast(x, T) /\ Total(T) # x.energy
    BY <1>2
<1> DEFINE U == T \ {x}
           f == [e \in T |-> Increment(T, e)]
           g == [e \in U |-> Increment(U, e)]
<1>5. U \subseteq T /\ U # T /\ U \in FiniteSubsetsOf(E) /\ IsFiniteSet(U) /\ OneMeter(U)
    BY <1>3, <1>4, FS_RemoveElement, SomeOfOneMeter DEF FiniteSubsetsOf
<1>6. \A e \in T : e.tick \in Nat /\ e.energy \in Nat /\ Increment(T, e) \in Nat
    BY <1>3, IncrementIs DEF OneMeter
<1>7. \A e \in U : e.tick < x.tick
    <2> SUFFICES ASSUME NEW e \in U PROVE e.tick < x.tick
        OBVIOUS
    <2>1. e.tick <= x.tick /\ e.tick \in Nat /\ x.tick \in Nat
        BY <1>4, <1>6
    <2>2. e.tick # x.tick
        BY <1>3, <1>4 DEF OneMeter
    <2> QED
        BY <2>1, <2>2
<1>8. Total(T) = Increment(T, x) + Total(U)
    <2>1. \A e \in T : f[e] \in Int /\ f[e] = Increment(T, e)
        BY <1>6
    <2>2. Total(T) = SumFunctionOnSet(f, T) /\ Total(U) = SumFunctionOnSet(g, U)
        BY DEF Total
    <2>3. \A e \in U : f[e] \in Nat /\ f[e] = g[e]
        <3> SUFFICES ASSUME NEW e \in U
                     PROVE  Increment(T, e) \in Nat /\ Increment(T, e) = Increment(U, e)
            BY <1>5
        <3>1. CASE \A y \in T : ~(y.tick < e.tick)
            <4>1. Increment(T, e) = e.energy
                BY <1>3, <1>5, <3>1, IncrementIs
            <4>2. Increment(U, e) = e.energy
                BY <1>5, <3>1, IncrementIs
            <4> QED
                BY <1>6, <4>1, <4>2
        <3>2. CASE \E y \in T : y.tick < e.tick
            <4> DEFINE before == { y \in T : y.tick < e.tick }
            <4>1. PICK y \in before : \A z \in before : z.tick <= y.tick
                <5>1. before # {} /\ OneMeter(before)
                    BY <1>3, <3>2, SomeOfOneMeter
                <5> HIDE DEF before
                <5> QED
                    BY <5>1, LastExists
            <4>2. y \in T /\ y.tick < e.tick /\ \A z \in T : z.tick < e.tick => z.tick <= y.tick
                BY <4>1
            <4>3. y \in U
                <5>1. e.tick < x.tick /\ e.tick \in Nat /\ x.tick \in Nat /\ y.tick \in Nat
                    BY <1>4, <1>6, <1>7, <4>2
                <5>2. y.tick < x.tick
                    BY <4>2, <5>1
                <5> QED
                    BY <4>2, <5>1, <5>2
            <4>4. Increment(T, e) = e.energy - y.energy
                BY <1>3, <1>5, <4>2, IncrementIs
            <4>5. Increment(U, e) = e.energy - y.energy
                <5>1. \A z \in U : z.tick < e.tick => z.tick <= y.tick
                    BY <4>2
                <5> HIDE DEF U
                <5> QED
                    BY <1>5, <4>2, <4>3, <5>1, IncrementIs
            <4> QED
                BY <1>6, <4>4, <4>5
        <3> QED
            BY <3>1, <3>2
    <2> HIDE DEF f, g, U
    <2>4. SumFunctionOnSet(f, U) = SumFunctionOnSet(g, U)
        BY <1>5, <2>3, SumIsOfValues
    <2>5. SumFunctionOnSet(f, T) = f[x] + SumFunctionOnSet(f, U)
        BY <1>3, <2>1, SumStep DEF U
    <2> QED
        BY <2>1, <2>2, <2>4, <2>5
<1> HIDE DEF f, g
<1>9. CASE U = {}
    <2>1. Total(U) = 0
        BY <1>9, SumEmpty DEF Total
    <2>2. \A y \in T : ~(y.tick < x.tick)
        BY <1>6, <1>9
    <2>3. Increment(T, x) = x.energy
        BY <1>3, <2>2, IncrementIs
    <2> QED
        BY <1>4, <1>6, <1>8, <2>1, <2>3
<1>10. CASE U # {}
    <2>1. PICK y \in U : \A e \in U : e.tick <= y.tick
        <3> HIDE DEF U
        <3> QED
            BY <1>5, <1>10, LastExists
    <2>2. Total(U) = y.energy
        <3>1. U \notin Bad
            <4> HIDE DEF Bad, U
            <4> QED
                BY <1>2, <1>5
        <3>2. IsLast(y, U)
            BY <2>1
        <3> QED
            BY <1>5, <2>1, <3>1, <3>2
    <2>3. Increment(T, x) = x.energy - y.energy
        <3>1. y \in T /\ y.tick < x.tick
            BY <1>7, <2>1
        <3>2. \A z \in T : z.tick < x.tick => z.tick <= y.tick
            <4> SUFFICES ASSUME NEW z \in T, z.tick < x.tick PROVE z.tick <= y.tick
                OBVIOUS
            <4>1. z # x
                BY <1>6
            <4> QED
                BY <2>1, <4>1
        <3> QED
            BY <1>3, <3>1, <3>2, IncrementIs
    <2>4. y.energy \in Nat /\ x.energy \in Nat
        BY <1>6, <2>1
    <2>5. Total(T) = (x.energy - y.energy) + y.energy
        BY <1>8, <2>2, <2>3
    <2> HIDE DEF U
    <2> QED
        BY <1>4, <2>4, <2>5
<1> QED
    BY <1>9, <1>10

\* The archived events of an asset and a day are of one meter.
LEMMA ArchiveIsOneMeter ==
    ASSUME ConfigInv, StocksInv, NEW s \in DOMAIN fleet, NEW day
    PROVE  LET events == EventsOf(archive, AssetKey(fleet[s]), day)
           IN  /\ OneMeter(events)
               /\ \A e \in events : e.energy = GeneratedUpTo(fleet[s], e.tick)
<1> DEFINE E == EventsOf(archive, AssetKey(fleet[s]), day)
           all == { Event(s, u) : u \in Ticks }
<1>1. ASSUME NEW e \in E
      PROVE  \E u \in Ticks : e = Event(s, u) /\ e.tick = u /\ DayOfTick(u) = day
    <2>1. e \in Events /\ e.asset = AssetKey(fleet[s]) /\ DayOfTick(e.tick) = day
        BY DEF EventsOf, StocksInv
    <2>2. PICK r \in DOMAIN fleet : \E u \in Ticks : e = Event(r, u)
        BY <2>1 DEF Events
    <2>3. PICK u \in Ticks : e = Event(r, u)
        BY <2>2
    <2>4. AssetKey(fleet[r]) = AssetKey(fleet[s]) /\ e.tick = u
        BY <2>1, <2>3, EventIsValid
    <2>5. r = s
        BY <2>4, KeysDiffer
    <2> QED
        BY <2>1, <2>3, <2>4, <2>5
<1> HIDE DEF E
<1>2. IsFiniteSet(E)
    <2>1. IsFiniteSet(Ticks)
        BY FS_Interval, SimulatorAssumption DEF Ticks
    <2> DEFINE f == [u \in Ticks |-> Event(s, u)]
    <2>2. f \in Surjection(Ticks, all)
        BY DEF Surjection
    <2>3. IsFiniteSet(all)
        BY <2>1, <2>2, FS_Surjection
    <2>4. E \subseteq all
        BY <1>1
    <2> QED
        BY <2>3, <2>4, FS_Subset
<1>3. Ticks \subseteq Nat
    BY SimulatorAssumption DEF Ticks
<1>4. ASSUME NEW e \in E
      PROVE  /\ e.tick \in Ticks /\ e.tick \in Nat /\ DayOfTick(e.tick) = day
             /\ e = Event(s, e.tick)
             /\ e.energy = GeneratedUpTo(fleet[s], e.tick) /\ e.energy \in Nat
    <2>1. PICK u \in Ticks : e = Event(s, u) /\ e.tick = u /\ DayOfTick(u) = day
        BY <1>1
    <2>2. Event(s, u).energy = GeneratedUpTo(fleet[s], u) /\ Event(s, u).energy \in Nat
        BY EventIsValid
    <2> QED
        BY <1>3, <2>1, <2>2
<1>5. ASSUME NEW e \in E, NEW x \in E, x.tick < e.tick
      PROVE  x.energy <= e.energy
    <2>1. x.tick \in 0..e.tick /\ e.tick \in Ticks /\ DayOfTick(x.tick) = DayOfTick(e.tick)
        BY <1>4, <1>5
    <2>2. GeneratedUpTo(fleet[s], x.tick) <= GeneratedUpTo(fleet[s], e.tick)
        BY <2>1, GeneratedGrows
    <2> QED
        BY <1>4, <2>2
<1>6. \A e, x \in E : e.tick = x.tick => e = x
    BY <1>4
<1> QED
    BY <1>2, <1>4, <1>5, <1>6 DEF OneMeter, E

-----------------------------------------------------------------------------
(***************************************************************************)
(* The properties.                                                         *)
(***************************************************************************)
\* Process, producer and stores have their types, and a day that ended has a
\* reference feed unless it could not be written.
THEOREM EndedDaysHaveFeedsTheorem == Spec => []EndedDaysHaveFeeds
<1>1. IInv => EndedDaysHaveFeeds
    BY DEF IInv, FeedsInv, EndedDaysHaveFeeds
<1> QED
    BY <1>1, SimulatorInvariant, PTL

\* What the simulator's reading of portfolio.yaml lets through, the seeder's
\* does too: it only asks for more.
LEMMA SeederAsksForLess ==
    ASSUME NEW plants, SimulatorAccepts(plants)
    PROVE  SeederAccepts(plants)
<1>1. \A raw : IsPositiveFinite(raw) => IsPositive(raw)
    BY DEF IsPositiveFinite, IsPositive
<1>2. \A plant : SimulatorAcceptsPlant(plant) => SeederAcceptsPlant(plant)
    BY <1>1 DEF SimulatorAcceptsPlant, SeederAcceptsPlant
<1> QED
    BY <1>2 DEF SimulatorAccepts, SeederAccepts

\* A portfolio the simulator runs is one the seeder takes, with a row of its
\* own for every inverter.
THEOREM SeederFollowsSimulatorTheorem == Spec => []SeederFollowsSimulator
<1>1. ConfigInv => SeederFollowsSimulator
    <2> SUFFICES ASSUME ConfigInv, fleet # <<>>
                 PROVE  /\ SeederAccepts(portfolio)
                        /\ \A r, s \in DOMAIN fleet :
                              AssetKey(fleet[r]) = AssetKey(fleet[s]) => r = s
        BY DEF SeederFollowsSimulator
    <2>1. SimulatorAccepts(portfolio)
        BY DEF ConfigInv
    <2> QED
        BY <2>1, SeederAsksForLess, KeysDiffer
<1>2. IInv => SeederFollowsSimulator
    BY <1>1 DEF IInv
<1> QED
    BY <1>2, SimulatorInvariant, PTL

\* What a scenario makes of a reading passes the validation before publishing:
\* nothing is quarantined unless invalid events are asked for.
THEOREM QuarantinesNothingItselfTheorem == Spec => []QuarantinesNothingItself
<1>1. IInv => QuarantinesNothingItself
    BY DEF IInv, StocksInv
<1> QED
    BY <1>1, SimulatorInvariant, PTL

\* The batch layer's energy of an inverter is what it had generated by the last
\* event of the day in the archive, whatever was silent, lost, late or sent
\* again by a restarted run.
THEOREM ActualIsGenerationTheorem == Spec => []ActualIsGeneration
<1>1. ConfigInv /\ StocksInv => ActualIsGeneration
    <2> SUFFICES ASSUME ConfigInv, StocksInv, NEW s \in DOMAIN fleet, NEW t \in Ticks,
                        EventsOf(archive, AssetKey(fleet[s]), DayOfTick(t)) # {}
                 PROVE  InverterActual(archive, AssetKey(fleet[s]), DayOfTick(t)).generation
                            = GeneratedUpTo(fleet[s],
                                LatestTick(EventsOf(archive, AssetKey(fleet[s]), DayOfTick(t))))
        BY DEF ActualIsGeneration
    <2> DEFINE E == EventsOf(archive, AssetKey(fleet[s]), DayOfTick(t))
    <2>1. OneMeter(E) /\ \A e \in E : e.energy = GeneratedUpTo(fleet[s], e.tick)
        BY ArchiveIsOneMeter
    <2>2. InverterActual(archive, AssetKey(fleet[s]), DayOfTick(t)).generation = Total(E)
        BY DEF InverterActual, Total
    <2> HIDE DEF E
    <2>3. PICK last \in E : LatestTick(E) = last.tick /\ \A e \in E : e.tick <= last.tick
        BY <2>1, LastExists DEF E
    <2>4. Total(E) = last.energy
        BY <2>1, <2>3, IncrementsAddUp
    <2> QED
        BY <2>1, <2>2, <2>3, <2>4 DEF E
<1>2. IInv => ActualIsGeneration
    BY <1>1 DEF IInv
<1> QED
    BY <1>2, SimulatorInvariant, PTL
=============================================================================
