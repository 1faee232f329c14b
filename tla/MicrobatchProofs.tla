-------------------------- MODULE MicrobatchProofs --------------------------
(***************************************************************************)
(* What TLAPS proves about Microbatch, for every fleet, every set of       *)
(* readings and every bound: what one transaction leaves in the live       *)
(* tables, the alert tables and the health row agrees, and a batch that is *)
(* run again leaves the same.                                              *)
(***************************************************************************)
EXTENDS Microbatch, SetLemmas, SequenceTheorems

(***************************************************************************)
(* The invariant.                                                          *)
(***************************************************************************)
\* A condition was seen last no earlier than it was seen first.
ConditionsInOrder ==
    \A k \in DOMAIN conditions : conditions[k].first <= conditions[k].last

\* The table has the rows that are new, as they are.
Holds(rows, new) ==
    \A k \in DOMAIN new : k \in DOMAIN rows /\ rows[k] = new[k]

\* A batch whose transaction has committed is in the live tables.
AppliedIsWritten ==
    applied > 0 /\ DOMAIN batch # {} =>
        Holds(plantRows, PlantRowsOf(batch)) /\ Holds(fleetRows, FleetRowsOf(batch))

IInv ==
    /\ HealthCoversRows
    /\ ConditionsInOrder
    /\ AppliedIsWritten
    /\ LiveAgreesWithAlerts
    /\ PowerIsInstantaneous

-----------------------------------------------------------------------------
(***************************************************************************)
(* The alert tables.                                                       *)
(***************************************************************************)
\* What the alert store is given: a clock and, for each inverter, a verdict and
\* a loss.
IsObservation(b) ==
    /\ b.at \in Times
    /\ \A i \in Inverters : b.loss[i] \in Nat

AreConditions(conds) ==
    /\ DOMAIN conds \subseteq A!Keys
    /\ conds \in [DOMAIN conds -> A!Condition]
    /\ \A k \in DOMAIN conds : conds[k].first <= conds[k].last

\* After the upsert and the delete the table has the conditions of the batch.
LEMMA ConditionsAfter ==
    ASSUME NEW conds, AreConditions(conds), NEW b, IsObservation(b)
    PROVE  /\ AreConditions(A!ReconciledConditions(conds, b))
           /\ DOMAIN A!ReconciledConditions(conds, b) = A!Observed(b)
<1> DEFINE after == A!ReconciledConditions(conds, b)
<1>1. after = [k \in A!Observed(b) |->
                  IF k \in DOMAIN conds THEN A!SeenAgain(conds[k], b, k)
                  ELSE A!NewCondition(b, k)]
    BY DEF A!ReconciledConditions, A!DeleteCleared, A!UpsertConditions
<1>2. DOMAIN after = A!Observed(b) /\ A!Observed(b) \subseteq A!Keys
    BY <1>1 DEF A!Observed
<1>3. Times \subseteq Nat /\ b.at \in Times
    BY MicrobatchAssumption DEF IsObservation
<1>4. ASSUME NEW k \in A!Observed(b)
      PROVE  after[k] \in A!Condition /\ after[k].first <= after[k].last
    <2>1. b.loss[k[1]] \in Nat
        BY DEF A!Observed, A!Keys, IsObservation
    <2>2. CASE k \in DOMAIN conds
        <3>1. /\ conds[k] \in A!Condition /\ conds[k].first <= conds[k].last
            BY <2>2 DEF AreConditions
        <3>2. /\ conds[k].first \in Times /\ conds[k].last \in Times
              /\ conds[k].count \in Nat /\ conds[k].sum \in Nat
            BY <3>1 DEF A!Condition
        <3>3. after[k] = A!SeenAgain(conds[k], b, k)
            BY <1>1, <2>2
        <3> HIDE DEF after
        <3>4. /\ after[k].first = conds[k].first
              /\ after[k].last = A!Greatest(conds[k].last, b.at)
              /\ after[k] = [first |-> after[k].first, last |-> after[k].last,
                             count |-> conds[k].count + 1,
                             sum |-> conds[k].sum + b.loss[k[1]]]
            BY <3>1, <3>3 DEF A!SeenAgain, A!Condition
        <3>5. after[k].last \in Times /\ after[k].first <= after[k].last
            <4>1. conds[k].first \in Nat /\ conds[k].last \in Nat /\ b.at \in Nat
                BY <1>3, <3>2
            <4> QED
                BY <1>3, <3>1, <3>2, <3>4, <4>1 DEF A!Greatest
        <3>6. conds[k].count + 1 \in Nat /\ conds[k].sum + b.loss[k[1]] \in Nat
            BY <2>1, <3>2
        <3> QED
            BY <3>2, <3>4, <3>5, <3>6 DEF A!Condition
    <2>3. CASE k \notin DOMAIN conds
        <3>1. after[k] = [first |-> b.at, last |-> b.at, count |-> 1,
                          sum |-> b.loss[k[1]]]
            BY <1>1, <2>3 DEF A!NewCondition
        <3>2. b.at \in Nat
            BY <1>3
        <3> HIDE DEF after
        <3>3. after[k] \in A!Condition
            BY <1>3, <2>1, <3>1 DEF A!Condition
        <3> QED
            BY <3>1, <3>2, <3>3
    <2> QED
        BY <2>2, <2>3
<1>5. after \in [DOMAIN after -> A!Condition]
    <2>1. after = [k \in DOMAIN after |-> after[k]]
        BY <1>1
    <2> HIDE DEF after
    <2> QED
        BY <1>2, <1>4, <2>1
<1> HIDE DEF after
<1>6. AreConditions(after) /\ DOMAIN after = A!Observed(b)
    BY <1>2, <1>4, <1>5 DEF AreConditions
<1> QED
    BY <1>6 DEF after

\* A condition's figures are an impact, and make an alert.
LEMMA ImpactIsTyped ==
    ASSUME NEW c \in A!Condition, c.first <= c.last, NEW loaded
    PROVE  /\ A!ImpactOf(c) \in A!Impact
           /\ A!NewAlert(c, loaded) \in A!Alert
           /\ \A a \in A!Alert : A!Refreshed(a, c, loaded) \in A!Alert
<1>1. /\ c.first \in Times /\ c.last \in Times /\ c.count \in Nat /\ c.sum \in Nat
      /\ Times \subseteq Nat
    BY MicrobatchAssumption DEF A!Condition
<1>2. A!ImpactOf(c) \in A!Impact
    <2>1. c.first \in Nat /\ c.last \in Nat
        BY <1>1
    <2>2. c.last - c.first \in Nat
        BY <2>1
    <2> QED
        BY <1>1, <2>2 DEF A!ImpactOf, A!Impact
<1>3. A!HasRate(c, loaded) \in BOOLEAN
    BY DEF A!HasRate
<1> DEFINE rate == A!HasRate(c, loaded)
<1>4. A!NewAlert(c, loaded) \in A!Alert
    <2>1. A!NewAlert(c, loaded) =
              [status |-> "ACTIVE", started |-> c.first, ended |-> Null,
               impact |-> A!ImpactOf(c), priced |-> rate]
        BY DEF A!NewAlert
    <2> HIDE DEF rate
    <2> QED
        BY <1>1, <1>2, <1>3, <2>1 DEF A!Alert, rate
<1>5. \A a \in A!Alert : A!Refreshed(a, c, loaded) \in A!Alert
    <2>1. \A a \in A!Alert, i \in A!Impact, p \in BOOLEAN :
              [a EXCEPT !.impact = i, !.priced = p] \in A!Alert
        BY DEF A!Alert
    <2> QED
        BY <1>2, <1>3, <2>1 DEF A!Refreshed
<1> QED
    BY <1>2, <1>4, <1>5

\* The three statements on the alerts keep their rows typed.
LEMMA AlertsAfter ==
    ASSUME NEW log \in [A!Keys -> Seq(A!Alert)], NEW conds, AreConditions(conds),
           NEW b, IsObservation(b), NEW loaded
    PROVE  A!ReconciledAlerts(log, conds, b, loaded) \in [A!Keys -> Seq(A!Alert)]
<1> DEFINE kept == A!ReconciledConditions(conds, b)
           opened == A!OpenSustained(log, kept, loaded)
           refreshed == A!RefreshOpen(opened, kept, loaded)
           closed == A!ResolveCleared(refreshed, kept, b.at)
<1>1. AreConditions(kept)
    BY ConditionsAfter
<1> HIDE DEF kept
<1>2. ASSUME NEW k \in DOMAIN kept
      PROVE  /\ A!NewAlert(kept[k], loaded) \in A!Alert
             /\ \A a \in A!Alert : A!Refreshed(a, kept[k], loaded) \in A!Alert
    <2>1. kept[k] \in A!Condition /\ kept[k].first <= kept[k].last
        BY <1>1 DEF AreConditions
    <2> QED
        BY <2>1, ImpactIsTyped
<1>3. opened \in [A!Keys -> Seq(A!Alert)]
    BY <1>2 DEF A!OpenSustained
<1>4. \A a \in A!Alert : A!Closed(a, b.at) \in A!Alert
    BY DEF A!Closed, A!Alert, IsObservation
<1> HIDE DEF opened
<1>5. refreshed \in [A!Keys -> Seq(A!Alert)]
    <2>1. ASSUME NEW k \in A!Keys
          PROVE  refreshed[k] \in Seq(A!Alert)
        <3>1. opened[k] \in Seq(A!Alert) /\ DOMAIN opened[k] = 1..Len(opened[k])
              /\ Len(opened[k]) \in Nat
            BY <1>3
        <3>2. ASSUME NEW n \in 1..Len(opened[k])
              PROVE  (IF k \in DOMAIN kept /\ opened[k][n].status = "ACTIVE"
                      THEN A!Refreshed(opened[k][n], kept[k], loaded)
                      ELSE opened[k][n]) \in A!Alert
            BY <1>2, <3>1
        <3>3. refreshed[k] \in [1..Len(opened[k]) -> A!Alert]
            BY <3>1, <3>2 DEF A!RefreshOpen
        <3> QED
            BY <3>1, <3>3, SeqDef
    <2> QED
        BY <2>1 DEF A!RefreshOpen
<1> HIDE DEF refreshed
<1>6. closed \in [A!Keys -> Seq(A!Alert)]
    <2>1. ASSUME NEW k \in A!Keys
          PROVE  closed[k] \in Seq(A!Alert)
        <3>1. refreshed[k] \in Seq(A!Alert) /\ DOMAIN refreshed[k] = 1..Len(refreshed[k])
              /\ Len(refreshed[k]) \in Nat
            BY <1>5
        <3>2. ASSUME NEW n \in 1..Len(refreshed[k])
              PROVE  (IF refreshed[k][n].status = "ACTIVE" /\ k \notin DOMAIN kept
                      THEN A!Closed(refreshed[k][n], b.at)
                      ELSE refreshed[k][n]) \in A!Alert
            BY <1>4, <3>1
        <3>3. closed[k] \in [1..Len(refreshed[k]) -> A!Alert]
            BY <3>1, <3>2 DEF A!ResolveCleared
        <3> QED
            BY <3>1, <3>3, SeqDef
    <2> QED
        BY <2>1 DEF A!ResolveCleared
<1>7. A!ReconciledAlerts(log, conds, b, loaded) = closed
    BY DEF A!ReconciledAlerts, refreshed, opened, kept
<1> QED
    BY <1>6, <1>7

-----------------------------------------------------------------------------
(***************************************************************************)
(* The metrics of a batch that has events.                                 *)
(***************************************************************************)
CarriesEvents(b) ==
    /\ DOMAIN b \subseteq Events
    /\ b \in [DOMAIN b -> Readings]
    /\ DOMAIN b # {}

\* An inverter of the batch has one of its readings as the latest, and the
\* others are silent.
LEMMA LatestIs ==
    ASSUME NEW b, CarriesEvents(b)
    PROVE  /\ Present(b) \subseteq Inverters
           /\ \A i \in Present(b) : Latest(b)[i] \in Readings
           /\ \A i \in Inverters \ Present(b) : Latest(b)[i] = Silent
<1>1. Present(b) \subseteq Inverters
    BY DEF Present, CarriesEvents, Events
<1>2. ASSUME NEW i \in Present(b)
      PROVE  Latest(b)[i] \in Readings
    <2> DEFINE seen == { e[2] : e \in { d \in DOMAIN b : d[1] = i } }
    <2>1. PICK e \in DOMAIN b : e[1] = i
        BY DEF Present
    <2>2. seen \subseteq Times /\ seen # {} /\ seen \in SUBSET Nat
        BY <2>1, MicrobatchAssumption DEF CarriesEvents, Events
    <2>3. IsFiniteSet(seen)
        BY <2>2, MicrobatchAssumption, FS_Subset
    <2>4. Max(seen) \in seen
        <3> HIDE DEF seen
        <3> QED
            BY <2>2, <2>3, MaxIsLargest
    <2>5. PICK d \in DOMAIN b : d[1] = i /\ d[2] = Max(seen)
        BY <2>4
    <2>6. d = <<i, Max(seen)>>
        BY <2>5 DEF CarriesEvents, Events
    <2>7. Latest(b)[i] = b[<<i, Max(seen)>>]
        BY <1>1 DEF Latest
    <2> QED
        BY <2>5, <2>6, <2>7 DEF CarriesEvents
<1>3. \A i \in Inverters \ Present(b) : Latest(b)[i] = Silent
    BY DEF Latest
<1> QED
    BY <1>1, <1>2, <1>3

\* The instants of a plant of the batch have a smallest and a largest one.
LEMMA TimesInAre ==
    ASSUME NEW b, CarriesEvents(b), NEW p \in PlantsIn(b)
    PROVE  /\ TimesIn(b, p) \subseteq Times /\ TimesIn(b, p) # {}
           /\ Min(TimesIn(b, p)) \in TimesIn(b, p)
           /\ Max(TimesIn(b, p)) \in TimesIn(b, p)
           /\ Min(TimesIn(b, p)) <= Max(TimesIn(b, p))
<1> DEFINE T == TimesIn(b, p)
<1>1. T \subseteq Times /\ T \in SUBSET Nat
    BY MicrobatchAssumption DEF TimesIn, CarriesEvents, Events
<1>2. T # {}
    <2>1. PICK i \in Present(b) : PlantOf[i] = p
        BY DEF PlantsIn
    <2>2. PICK e \in DOMAIN b : e[1] = i
        BY DEF Present
    <2> QED
        BY <2>1, <2>2 DEF TimesIn
<1>3. IsFiniteSet(T)
    BY <1>1, MicrobatchAssumption, FS_Subset
<1> HIDE DEF T
<1>4. Max(T) \in T /\ Min(T) \in T /\ Min(T) <= Max(T)
    BY <1>1, <1>2, <1>3, MaxIsLargest, MinIsSmallest
<1> QED
    BY <1>1, <1>2, <1>4 DEF T

\* The clock of a batch is one of its instants, and none is later.
LEMMA ClockIs ==
    ASSUME NEW b, CarriesEvents(b)
    PROVE  /\ Observation(b).at \in Times
           /\ \A e \in DOMAIN b : e[2] <= Observation(b).at
<1> DEFINE T == { e[2] : e \in DOMAIN b }
<1>1. T \subseteq Times /\ T \in SUBSET Nat /\ T # {}
    BY MicrobatchAssumption DEF CarriesEvents, Events
<1>2. IsFiniteSet(T)
    BY <1>1, MicrobatchAssumption, FS_Subset
<1>3. Max(T) \in T /\ \A t \in T : t <= Max(T)
    <2> HIDE DEF T
    <2> QED
        BY <1>1, <1>2, MaxIsLargest
<1>4. Observation(b).at = Max(T)
    BY DEF Observation
<1> QED
    BY <1>1, <1>3, <1>4

\* The plants of a batch are finitely many.
LEMMA PlantsInAre ==
    ASSUME NEW b, CarriesEvents(b)
    PROVE  /\ PlantsIn(b) \subseteq Plants /\ PlantsIn(b) # {}
           /\ IsFiniteSet(PlantsIn(b))
<1>1. Present(b) \subseteq Inverters /\ IsFiniteSet(Present(b))
    BY LatestIs, MicrobatchAssumption, FS_Subset
<1>2. PlantsIn(b) \subseteq Plants
    BY <1>1, MicrobatchAssumption DEF PlantsIn
<1>3. PlantsIn(b) # {}
    BY DEF PlantsIn, Present, CarriesEvents
<1>4. IsFiniteSet(PlantsIn(b))
    <2> DEFINE plantOf == [i \in Present(b) |-> PlantOf[i]]
    <2>1. plantOf \in Surjection(Present(b), PlantsIn(b))
        BY DEF Surjection, PlantsIn
    <2> QED
        BY <1>1, <2>1, FS_Surjection
<1> QED
    BY <1>2, <1>3, <1>4

\* What the inverters of a plant can produce at one instant.
Capacity(p) ==
    SumFunctionOnSet([i \in Inverters |-> Max({ r.power : r \in Readings })],
                     InvertersOf(p))

Online(b, p) == { i \in InvertersOf(p) : IsOnline(Latest(b)[i]) }

\* A row of a plant has natural numbers, and no more power than the plant can
\* produce: each inverter is summed once, with one of its readings.
LEMMA PlantRowIs ==
    ASSUME NEW b, CarriesEvents(b), NEW p
    PROVE  /\ PlantRow(b, p) \in Row
           /\ PlantRow(b, p).current <= Capacity(p)
           /\ PlantRow(b, p).offline = Cardinality(InvertersOf(p) \ Online(b, p))
<1> DEFINE here == InvertersOf(p) \cap Present(b)
           power == SumFunctionOnSet(PowerOf(b), here)
           most == [i \in Inverters |-> Max({ r.power : r \in Readings })]
<1>1. /\ InvertersOf(p) \subseteq Inverters /\ IsFiniteSet(InvertersOf(p))
      /\ IsFiniteSet(Online(b, p)) /\ IsFiniteSet(InvertersOf(p) \ Online(b, p))
    BY MicrobatchAssumption, FS_Subset DEF InvertersOf, Online
<1>2. ASSUME NEW r \in Readings
      PROVE  r.power \in Nat /\ r.power <= Max({ s.power : s \in Readings })
             /\ Max({ s.power : s \in Readings }) \in Nat
    <2> DEFINE powers == { s.power : s \in Readings }
    <2>1. powers \in SUBSET Nat /\ r.power \in powers
        BY MicrobatchAssumption DEF Reading
    <2>2. IsFiniteSet(powers)
        <3> DEFINE powerOf == [s \in Readings |-> s.power]
        <3>1. powerOf \in Surjection(Readings, powers)
            BY DEF Surjection
        <3> QED
            BY <3>1, MicrobatchAssumption, FS_Surjection
    <2> HIDE DEF powers
    <2>3. Max(powers) \in powers /\ r.power <= Max(powers)
        BY <2>1, <2>2, MaxIsLargest
    <2> QED
        BY <2>1, <2>3 DEF powers
<1>3. Readings # {}
    BY DEF CarriesEvents
<1>4. \A i \in InvertersOf(p) : most[i] \in Nat
    BY <1>1, <1>2, <1>3
<1>5. \A i \in here : PowerOf(b)[i] \in Nat /\ PowerOf(b)[i] <= most[i]
    BY <1>1, <1>2, LatestIs DEF PowerOf
<1>6. power \in Nat /\ power <= SumFunctionOnSet(most, InvertersOf(p))
    <2>1. here \in SUBSET InvertersOf(p)
        OBVIOUS
    <2> HIDE DEF here, most
    <2> QED
        BY <1>1, <1>4, <1>5, <2>1, SumMonotone
<1>7. /\ Cardinality(Online(b, p)) \in Nat
      /\ Cardinality(InvertersOf(p) \ Online(b, p)) \in Nat
    BY <1>1, FS_CardinalityType
<1>8. PlantRow(b, p) = [current |-> power, online |-> Cardinality(Online(b, p)),
                        offline |-> Cardinality(InvertersOf(p) \ Online(b, p))]
    BY DEF PlantRow, Online
<1> HIDE DEF power, most
<1> QED
    BY <1>6, <1>7, <1>8 DEF Row, Capacity, most

LEMMA FleetRowIs ==
    ASSUME NEW b, CarriesEvents(b)
    PROVE  FleetRow(b) \in Row
<1> DEFINE P == PlantsIn(b)
           currents == [p \in P |-> PlantRow(b, p).current]
           onlines == [p \in P |-> PlantRow(b, p).online]
           offlines == [p \in P |-> PlantRow(b, p).offline]
<1>1. IsFiniteSet(P)
    BY PlantsInAre
<1>2. \A p \in P : currents[p] \in Nat /\ onlines[p] \in Nat /\ offlines[p] \in Nat
    BY PlantRowIs DEF Row
<1>3. FleetRow(b) = [current |-> SumFunctionOnSet(currents, P),
                     online |-> SumFunctionOnSet(onlines, P),
                     offline |-> SumFunctionOnSet(offlines, P)]
    BY DEF FleetRow, SumFunction
<1> HIDE DEF P, currents, onlines, offlines
<1> QED
    BY <1>1, <1>2, <1>3, SumIsNat DEF Row

-----------------------------------------------------------------------------
(***************************************************************************)
(* Fault detection, against the counts of the live row.                    *)
(***************************************************************************)
LEMMA ObservationIs ==
    ASSUME NEW b, CarriesEvents(b)
    PROVE  IsObservation(Observation(b))
<1>1. ASSUME NEW i \in Inverters
      PROVE  Loss(i, Latest(b)[i]) \in Nat
    <2>1. CASE i \notin Present(b)
        BY <2>1, LatestIs DEF Loss
    <2>2. CASE i \in Present(b)
        <3> DEFINE r == Latest(b)[i]
        <3>1. r \in Reading
            BY <2>2, LatestIs, MicrobatchAssumption
        <3> HIDE DEF r
        <3>2. r.irradiance \in Nat /\ r.power \in Nat
            BY <3>1 DEF Reading
        <3>3. Rating[i] \in Nat /\ Reference \in Nat
            BY MicrobatchAssumption
        <3>4. Lesser(r.irradiance, Reference) \in Nat
            BY <3>2, <3>3 DEF Lesser
        <3>5. Expected(i, r) \in Nat /\ r.power * Reference \in Nat
            BY <3>2, <3>3, <3>4 DEF Expected
        <3>6. Loss(i, r) \in Nat
            BY <3>5 DEF Loss
        <3> QED
            BY <3>6 DEF r
    <2> QED
        BY <2>1, <2>2
<1>2. \A i \in Inverters : Observation(b).loss[i] \in Nat
    BY <1>1 DEF Observation
<1> QED
    BY <1>2, ClockIs DEF IsObservation

\* An inverter has a gap or is offline for detection exactly when the live row
\* does not count it as online, and has one verdict.
LEMMA VerdictOnline ==
    ASSUME NEW b, CarriesEvents(b), NEW i \in Inverters
    PROVE  LET verdict == Verdict(i, Latest(b)[i])
           IN  /\ Observation(b).verdict[i] = verdict
               /\ verdict \in {Gap, Offline} <=> ~IsOnline(Latest(b)[i])
<1>1. Observation(b).verdict[i] = Verdict(i, Latest(b)[i])
    BY DEF Observation
<1>2. Latest(b)[i] = Silent \/ Latest(b)[i] \in Reading
    BY LatestIs, MicrobatchAssumption
<1>3. ASSUME NEW r, r = Silent \/ r \in Reading
      PROVE  Verdict(i, r) \in {Gap, Offline} <=> ~IsOnline(r)
    <2>1. CASE r = Silent
        BY <2>1 DEF Verdict, IsOnline
    <2>2. CASE r # Silent /\ IsOffline(r)
        BY <2>2 DEF Verdict, IsOnline, IsOffline
    <2>3. CASE r # Silent /\ ~IsOffline(r)
        <3>1. Verdict(i, r) \in {Underperformance, Healthy}
            BY <2>3 DEF Verdict
        <3>2. r \in Reading
            BY <1>3, <2>3
        <3>3. IsOnline(r)
            BY <2>3, <3>2 DEF IsOnline, IsOffline, Reading
        <3> QED
            BY <3>1, <3>3 DEF Gap, Offline, Underperformance, Healthy
    <2> QED
        BY <2>1, <2>2, <2>3
<1> QED
    BY <1>1, <1>2, <1>3

\* The inverters of a plant that are not online are as many as its gap and
\* offline conditions.
LEMMA OfflineAgrees ==
    ASSUME NEW b, CarriesEvents(b), NEW p
    PROVE  Cardinality(InvertersOf(p) \ Online(b, p)) =
               Cardinality({ c \in A!Observed(Observation(b)) :
                                 PlantOf[c[1]] = p /\ c[2] \in {Gap, Offline} })
<1> DEFINE off == InvertersOf(p) \ Online(b, p)
           v(i) == Verdict(i, Latest(b)[i])
           conds == { c \in A!Observed(Observation(b)) :
                          PlantOf[c[1]] = p /\ c[2] \in {Gap, Offline} }
           condOf == [i \in off |-> <<i, v(i)>>]
<1>1. off \subseteq Inverters /\ IsFiniteSet(off)
    BY MicrobatchAssumption, FS_Subset DEF InvertersOf
<1>2. \A i \in Inverters : /\ Observation(b).verdict[i] = v(i)
                           /\ v(i) \in {Gap, Offline} <=> ~IsOnline(Latest(b)[i])
    BY VerdictOnline
<1> HIDE DEF v
<1>3. ASSUME NEW i \in off
      PROVE  <<i, v(i)>> \in conds
    <2>1. i \in Inverters /\ PlantOf[i] = p /\ ~IsOnline(Latest(b)[i])
        BY DEF InvertersOf, Online
    <2>2. v(i) \in {Gap, Offline} /\ Observation(b).verdict[i] = v(i)
        BY <1>2, <2>1
    <2>3. <<i, v(i)>> \in A!Keys
        BY <2>1, <2>2 DEF A!Keys, AlertTypes
    <2> QED
        BY <2>1, <2>2, <2>3 DEF A!Observed
<1>4. ASSUME NEW c \in conds
      PROVE  c[1] \in off /\ c = <<c[1], v(c[1])>>
    <2>1. /\ c \in A!Keys /\ Observation(b).verdict[c[1]] = c[2]
          /\ PlantOf[c[1]] = p /\ c[2] \in {Gap, Offline}
        BY DEF A!Observed
    <2>2. c[1] \in Inverters /\ c = <<c[1], c[2]>>
        BY <2>1 DEF A!Keys
    <2>3. v(c[1]) = c[2] /\ ~IsOnline(Latest(b)[c[1]])
        BY <1>2, <2>1, <2>2
    <2> QED
        BY <2>1, <2>2, <2>3 DEF InvertersOf, Online
<1>5. condOf \in Bijection(off, conds)
    <2>1. condOf \in [off -> conds]
        BY <1>3
    <2>2. \A i, j \in off : condOf[i] = condOf[j] => i = j
        OBVIOUS
    <2>3. \A c \in conds : \E i \in off : condOf[i] = c
        BY <1>4
    <2> HIDE DEF off, conds, condOf
    <2> QED
        BY <2>1, <2>2, <2>3 DEF Bijection, Injection, Surjection, IsInjective
<1> HIDE DEF off, conds, condOf
<1>6. Cardinality(conds) = Cardinality(off)
    BY <1>1, <1>5, FS_Bijection DEF ExistsBijection
<1> QED
    BY <1>6 DEF off, conds

-----------------------------------------------------------------------------
(***************************************************************************)
(* The live tables.                                                        *)
(***************************************************************************)
\* The upsert leaves the rows of the batch and the others as they were, and
\* nothing to do if it is run again.
LEMMA UpsertedRows ==
    ASSUME NEW R, NEW rows, rows \in [DOMAIN rows -> R],
           NEW new, new \in [DOMAIN new -> R]
    PROVE  /\ DOMAIN Upserted(rows, new) = DOMAIN rows \cup DOMAIN new
           /\ Upserted(rows, new) \in [DOMAIN rows \cup DOMAIN new -> R]
           /\ Holds(Upserted(rows, new), new)
           /\ \A k \in DOMAIN rows \ DOMAIN new : Upserted(rows, new)[k] = rows[k]
           /\ Holds(rows, new) => Upserted(rows, new) = rows
<1>1. Holds(rows, new) => Upserted(rows, new) = rows
    <2>1. SUFFICES ASSUME Holds(rows, new) PROVE Upserted(rows, new) = rows
        OBVIOUS
    <2>2. DOMAIN rows \cup DOMAIN new = DOMAIN rows
        BY <2>1 DEF Holds
    <2>3. \A k \in DOMAIN rows : Upserted(rows, new)[k] = rows[k]
        BY <2>1 DEF Holds, Upserted
    <2>4. Upserted(rows, new) = [k \in DOMAIN rows |-> Upserted(rows, new)[k]]
        BY <2>2 DEF Upserted
    <2> QED
        BY <2>3, <2>4
<1> QED
    BY <1>1 DEF Upserted, Holds

\* The rows of the plants: the key says whose row it is, and that the window
\* ends no earlier than it starts and no later than the clock of the batch.
LEMMA PlantRowsAre ==
    ASSUME NEW b, CarriesEvents(b)
    PROVE  /\ DOMAIN PlantRowsOf(b) \subseteq Plants \X Times \X Times
           /\ PlantRowsOf(b) \in [DOMAIN PlantRowsOf(b) -> Row]
           /\ \A k \in DOMAIN PlantRowsOf(b) :
                 /\ k[2] <= k[3] /\ k[3] <= Observation(b).at
                 /\ PlantRowsOf(b)[k].current <= Capacity(k[1])
                 /\ PlantRowsOf(b)[k].offline =
                       Cardinality(InvertersOf(k[1]) \ Online(b, k[1]))
<1>1. DOMAIN PlantRowsOf(b) = { PlantKey(b, p) : p \in PlantsIn(b) }
    BY DEF PlantRowsOf
<1>2. ASSUME NEW k \in DOMAIN PlantRowsOf(b)
      PROVE  /\ k \in Plants \X Times \X Times
             /\ k[2] <= k[3] /\ k[3] <= Observation(b).at
             /\ PlantRowsOf(b)[k] = PlantRow(b, k[1])
    <2>1. PICK p \in PlantsIn(b) : k = PlantKey(b, p)
        BY <1>1
    <2>2. k[1] = p /\ k[2] = Min(TimesIn(b, p)) /\ k[3] = Max(TimesIn(b, p))
          /\ k = <<k[1], k[2], k[3]>>
        BY <2>1 DEF PlantKey
    <2>3. p \in Plants
        BY PlantsInAre
    <2>4. k[2] \in Times /\ k[3] \in TimesIn(b, p) /\ k[3] \in Times /\ k[2] <= k[3]
        BY <2>2, TimesInAre
    <2>5. k[3] <= Observation(b).at
        BY <2>4, ClockIs DEF TimesIn
    <2>6. PlantRowsOf(b)[k] = PlantRow(b, k[1])
        BY <1>1 DEF PlantRowsOf
    <2> QED
        BY <2>2, <2>3, <2>4, <2>5, <2>6
<1>3. PlantRowsOf(b) = [k \in DOMAIN PlantRowsOf(b) |-> PlantRowsOf(b)[k]]
    BY DEF PlantRowsOf
<1>4. \A k \in DOMAIN PlantRowsOf(b) :
          /\ PlantRowsOf(b)[k] \in Row
          /\ PlantRowsOf(b)[k].current <= Capacity(k[1])
          /\ PlantRowsOf(b)[k].offline =
                Cardinality(InvertersOf(k[1]) \ Online(b, k[1]))
    BY <1>2, PlantRowIs
<1> QED
    BY <1>2, <1>3, <1>4

LEMMA FleetRowsAre ==
    ASSUME NEW b, CarriesEvents(b)
    PROVE  /\ DOMAIN FleetRowsOf(b) \subseteq Times \X Times
           /\ FleetRowsOf(b) \in [DOMAIN FleetRowsOf(b) -> Row]
<1> DEFINE T == UNION { TimesIn(b, p) : p \in PlantsIn(b) }
<1>1. T \subseteq Times /\ T \in SUBSET Nat
    BY TimesInAre, MicrobatchAssumption
<1>2. T # {}
    BY TimesInAre, PlantsInAre
<1>3. IsFiniteSet(T)
    BY <1>1, MicrobatchAssumption, FS_Subset
<1>4. Min(T) \in T /\ Max(T) \in T
    <2> HIDE DEF T
    <2> QED
        BY <1>1, <1>2, <1>3, MaxIsLargest, MinIsSmallest
<1>5. FleetKey(b) = <<Min(T), Max(T)>>
    BY DEF FleetKey
<1>6. FleetKey(b) \in Times \X Times
    <2>1. Min(T) \in Times /\ Max(T) \in Times
        <3> HIDE DEF T
        <3> QED
            BY <1>1, <1>4
    <2> HIDE DEF T
    <2> QED
        BY <1>5, <2>1
<1>7. FleetRow(b) \in Row
    BY FleetRowIs
<1> QED
    BY <1>6, <1>7 DEF FleetRowsOf

\* The later of two event times, where NULL is none.
LEMMA NewestIs ==
    ASSUME NEW x \in Times \cup {Null}, NEW y \in Times \cup {Null}
    PROVE  /\ Newest(x, y) \in Times \cup {Null}
           /\ x # Null => Newest(x, y) # Null /\ x <= Newest(x, y)
           /\ y # Null => Newest(x, y) # Null /\ y <= Newest(x, y)
<1>1. Times \subseteq Nat /\ Null \notin Nat
    BY MicrobatchAssumption
<1>2. CASE x = Null
    BY <1>1, <1>2 DEF Newest
<1>3. CASE x # Null /\ y = Null
    BY <1>1, <1>3 DEF Newest
<1>4. CASE x # Null /\ y # Null
    <2>1. {x, y} \in SUBSET Nat /\ IsFiniteSet({x, y})
        <3>1. IsFiniteSet({x}) /\ IsFiniteSet({y})
            BY FS_Singleton
        <3>2. IsFiniteSet({x} \cup {y})
            BY <3>1, FS_Union
        <3>3. {x} \cup {y} = {x, y}
            OBVIOUS
        <3> QED
            BY <1>1, <1>4, <3>2, <3>3
    <2>2. Max({x, y}) \in {x, y} /\ \A n \in {x, y} : n <= Max({x, y})
        BY <2>1, MaxIsLargest
    <2>3. Newest(x, y) = Max({x, y})
        BY <1>4 DEF Newest
    <2> QED
        BY <1>1, <1>4, <2>2, <2>3
<1> QED
    BY <1>2, <1>3, <1>4

-----------------------------------------------------------------------------
(***************************************************************************)
(* The steps.                                                              *)
(***************************************************************************)
LEMMA InitInv == Init => IInv
<1> SUFFICES ASSUME Init PROVE IInv
    OBVIOUS
<1> USE DEF Init
<1>1. DOMAIN NoRows = {}
    BY DEF NoRows
<1>2. TypeOK
    <2>1. \A S : NoRows \in [DOMAIN NoRows -> S]
        BY DEF NoRows
    <2>2. alerts \in [A!Keys -> Seq(A!Alert)]
        OBVIOUS
    <2>3. {applied, planned, faults} \subseteq Nat
        OBVIOUS
    <2>4. /\ batch \in [DOMAIN batch -> Readings]
          /\ plantRows \in [DOMAIN plantRows -> Row]
          /\ fleetRows \in [DOMAIN fleetRows -> Row]
          /\ conditions \in [DOMAIN conditions -> A!Condition]
        BY <2>1, Zenon
    <2> QED
        BY <1>1, <2>2, <2>3, <2>4 DEF TypeOK
<1>3. HealthCoversRows
    BY <1>1, <1>2 DEF HealthCoversRows
<1> QED
    BY <1>1, <1>3 DEF IInv, ConditionsInOrder, AppliedIsWritten,
                      LiveAgreesWithAlerts, PowerIsInstantaneous

\* The steps that leave every table alone.  Only PlanBatch and CommitOffsets
\* touch the batch.
LEMMA QuietStep ==
    ASSUME IInv, UNCHANGED tables,
           \/ PlanBatch \/ Wait \/ Abort \/ Refuse \/ Crash \/ Restart
           \/ CommitOffsets \/ UNCHANGED vars
    PROVE  IInv'
<1>1. TypeOK /\ HealthCoversRows
    BY DEF IInv, HealthCoversRows
<1>2. UNCHANGED <<plantRows, fleetRows, conditions, alerts, health, latestKeys>>
    BY DEF tables
<1>3. /\ delivered' \subseteq Events
      /\ DOMAIN batch' \subseteq Events /\ batch' \in [DOMAIN batch' -> Readings]
      /\ stage' \in {"idle", "planned", "written", "failed"}
      /\ {applied', planned', faults'} \subseteq Nat
      /\ applied' > 0 /\ DOMAIN batch' # {} => applied' = applied /\ batch' = batch
    <2> USE <1>1 DEF TypeOK
    <2>1. CASE PlanBatch
        <3>1. PICK carried \in UNION { kSubset(n, Events \ delivered) : n \in 0..MaxEvents } :
                  batch' \in [carried -> Readings] /\ delivered' = delivered \cup carried
            BY <2>1 DEF PlanBatch
        <3>2. carried \subseteq Events
            BY <3>1 DEF kSubset
        <3> QED
            BY <2>1, <3>1, <3>2 DEF PlanBatch
    <2>2. CASE Wait \/ UNCHANGED vars
        BY <2>2 DEF Wait, vars
    <2>3. CASE Abort
        BY <2>3 DEF Abort
    <2>4. CASE Refuse
        BY <2>4 DEF Refuse
    <2>5. CASE Crash
        BY <2>5 DEF Crash
    <2>6. CASE Restart
        BY <2>6 DEF Restart
    <2>7. CASE CommitOffsets
        BY <2>7 DEF CommitOffsets, NoRows
    <2> QED
        BY <2>1, <2>2, <2>3, <2>4, <2>5, <2>6, <2>7
<1>4. TypeOK'
    BY <1>1, <1>2, <1>3 DEF TypeOK
<1>5. HealthCoversRows'
    BY <1>1, <1>2, <1>4 DEF HealthCoversRows
<1>6. AppliedIsWritten'
    <2>1. applied' > 0 /\ DOMAIN batch' # {} =>
              /\ Holds(plantRows', PlantRowsOf(batch'))
              /\ Holds(fleetRows', FleetRowsOf(batch'))
        BY <1>2, <1>3 DEF IInv, AppliedIsWritten
    <2> QED
        BY <2>1 DEF AppliedIsWritten
<1>7. ConditionsInOrder' /\ LiveAgreesWithAlerts' /\ PowerIsInstantaneous'
    BY <1>2 DEF IInv, ConditionsInOrder, LiveAgreesWithAlerts, PowerIsInstantaneous
<1> QED
    BY <1>4, <1>5, <1>6, <1>7 DEF IInv

\* The transaction of an empty batch.
LEMMA PersistEmptyStep ==
    ASSUME IInv, PersistEmpty
    PROVE  IInv'
<1>1. TypeOK /\ HealthCoversRows
    BY DEF IInv, HealthCoversRows
<1>2. /\ health.lastEvent \in Times \cup {Null}
      /\ health'.status = "DEGRADED"
      /\ health'.lastEvent = Newest(health.lastEvent, Null)
    BY <1>1 DEF TypeOK, PersistEmpty, Health
<1>3. /\ health'.lastEvent \in Times \cup {Null}
      /\ health.lastEvent # Null =>
            health'.lastEvent # Null /\ health.lastEvent <= health'.lastEvent
    BY <1>2, NewestIs
<1>4. TypeOK'
    BY <1>1, <1>2, <1>3 DEF TypeOK, PersistEmpty
<1>5. HealthCoversRows'
    <2>1. \A k \in DOMAIN plantRows : k[3] \in Nat
        BY <1>1, MicrobatchAssumption DEF TypeOK
    <2>2. ASSUME NEW k \in DOMAIN plantRows
          PROVE  health'.lastEvent # Null /\ health'.lastEvent >= k[3]
        <3>1. health.lastEvent # Null /\ health.lastEvent >= k[3]
            BY <1>1 DEF HealthCoversRows
        <3>2. /\ health'.lastEvent # Null /\ health.lastEvent <= health'.lastEvent
              /\ health.lastEvent \in Times /\ health'.lastEvent \in Times
            BY <1>2, <1>3, <3>1
        <3>3. health.lastEvent \in Nat /\ health'.lastEvent \in Nat
            BY <3>2, MicrobatchAssumption
        <3> QED
            BY <2>1, <3>1, <3>2, <3>3
    <2>3. plantRows' = plantRows
        BY DEF PersistEmpty
    <2> QED
        BY <1>4, <2>2, <2>3 DEF HealthCoversRows
<1>6. AppliedIsWritten'
    BY DEF AppliedIsWritten, PersistEmpty
<1>7. ConditionsInOrder' /\ LiveAgreesWithAlerts' /\ PowerIsInstantaneous'
    BY DEF IInv, ConditionsInOrder, LiveAgreesWithAlerts, PowerIsInstantaneous,
           PersistEmpty
<1> QED
    BY <1>4, <1>5, <1>6, <1>7 DEF IInv

\* The transaction of a batch that has events.
LEMMA PersistStep ==
    ASSUME IInv, Persist
    PROVE  IInv'
<1> DEFINE obs == Observation(batch)
           rows == PlantRowsOf(batch)
           fleet == FleetRowsOf(batch)
<1>1. TypeOK /\ HealthCoversRows /\ ConditionsInOrder /\ PowerIsInstantaneous
    BY DEF IInv, HealthCoversRows
<1>2. CarriesEvents(batch)
    BY <1>1 DEF TypeOK, Persist, CarriesEvents
<1>3. /\ plantRows' = Upserted(plantRows, rows)
      /\ fleetRows' = Upserted(fleetRows, fleet)
      /\ conditions' = A!ReconciledConditions(conditions, obs)
      /\ alerts' = A!ReconciledAlerts(alerts, conditions, obs, {})
      /\ health' = Health(health, "HEALTHY", obs.at)
      /\ latestKeys' = DOMAIN rows
      /\ stage' = "written" /\ applied' = applied + 1
      /\ UNCHANGED <<delivered, batch, planned, faults>>
    BY DEF Persist, NewConditions, NewAlerts
<1>4. /\ DOMAIN rows \subseteq Plants \X Times \X Times
      /\ rows \in [DOMAIN rows -> Row]
      /\ \A k \in DOMAIN rows :
            /\ k[2] <= k[3] /\ k[3] <= obs.at
            /\ rows[k].current <= Capacity(k[1])
            /\ rows[k].offline = Cardinality(InvertersOf(k[1]) \ Online(batch, k[1]))
    BY <1>2, PlantRowsAre
<1>5. /\ DOMAIN fleet \subseteq Times \X Times
      /\ fleet \in [DOMAIN fleet -> Row]
    BY <1>2, FleetRowsAre
<1>6. IsObservation(obs) /\ obs.at \in Times
    BY <1>2, ObservationIs DEF IsObservation
<1>7. AreConditions(conditions)
    BY <1>1 DEF TypeOK, ConditionsInOrder, AreConditions
<1> HIDE DEF obs, rows, fleet
<1>8. /\ DOMAIN plantRows' = DOMAIN plantRows \cup DOMAIN rows
      /\ plantRows' \in [DOMAIN plantRows \cup DOMAIN rows -> Row]
      /\ Holds(plantRows', rows)
      /\ \A k \in DOMAIN plantRows \ DOMAIN rows : plantRows'[k] = plantRows[k]
    <2>1. plantRows \in [DOMAIN plantRows -> Row]
        BY <1>1 DEF TypeOK
    <2> QED
        BY <1>3, <1>4, <2>1, UpsertedRows
<1>9. /\ DOMAIN fleetRows' = DOMAIN fleetRows \cup DOMAIN fleet
      /\ fleetRows' \in [DOMAIN fleetRows \cup DOMAIN fleet -> Row]
      /\ Holds(fleetRows', fleet)
    <2>1. fleetRows \in [DOMAIN fleetRows -> Row]
        BY <1>1 DEF TypeOK
    <2> QED
        BY <1>3, <1>5, <2>1, UpsertedRows
<1>10. AreConditions(conditions') /\ DOMAIN conditions' = A!Observed(obs)
    BY <1>3, <1>6, <1>7, ConditionsAfter
<1>11. alerts' \in [A!Keys -> Seq(A!Alert)]
    <2>1. alerts \in [A!Keys -> Seq(A!Alert)]
        BY <1>1 DEF TypeOK
    <2> QED
        BY <1>3, <1>6, <1>7, <2>1, AlertsAfter
<1>12. /\ health'.status = "HEALTHY"
       /\ health'.lastEvent \in Times
       /\ obs.at <= health'.lastEvent
       /\ health.lastEvent # Null => health.lastEvent <= health'.lastEvent
    <2>1. health.lastEvent \in Times \cup {Null} /\ obs.at \in Times \cup {Null}
          /\ obs.at # Null
        BY <1>1, <1>6, MicrobatchAssumption DEF TypeOK
    <2>2. health' = [status |-> "HEALTHY", lastEvent |-> Newest(health.lastEvent, obs.at)]
        BY <1>3 DEF Health
    <2>3. /\ Newest(health.lastEvent, obs.at) \in Times \cup {Null}
          /\ Newest(health.lastEvent, obs.at) # Null
          /\ obs.at <= Newest(health.lastEvent, obs.at)
          /\ health.lastEvent # Null =>
                health.lastEvent <= Newest(health.lastEvent, obs.at)
        BY <2>1, NewestIs
    <2> QED
        BY <2>2, <2>3
<1>13. \A k \in DOMAIN plantRows' : k \in DOMAIN rows \/ k \in DOMAIN plantRows \ DOMAIN rows
    BY <1>8
<1>14. TypeOK'
    <2>1. DOMAIN plantRows' \subseteq Plants \X Times \X Times
        BY <1>1, <1>4, <1>8 DEF TypeOK
    <2>2. \A k \in DOMAIN plantRows' : k[2] <= k[3]
        BY <1>1, <1>4, <1>13 DEF TypeOK
    <2>3. DOMAIN fleetRows' \subseteq Times \X Times
        BY <1>1, <1>5, <1>9 DEF TypeOK
    <2>4. /\ plantRows' \in [DOMAIN plantRows' -> Row]
          /\ fleetRows' \in [DOMAIN fleetRows' -> Row]
          /\ latestKeys' \subseteq DOMAIN plantRows'
        BY <1>3, <1>8, <1>9
    <2>5. /\ DOMAIN conditions' \subseteq A!Keys
          /\ conditions' \in [DOMAIN conditions' -> A!Condition]
        BY <1>10 DEF AreConditions
    <2>6. {applied', planned', faults'} \subseteq Nat /\ delivered' \subseteq Events
          /\ DOMAIN batch' \subseteq Events /\ batch' \in [DOMAIN batch' -> Readings]
        BY <1>1, <1>3 DEF TypeOK
    <2> QED
        BY <1>3, <1>11, <1>12, <2>1, <2>2, <2>3, <2>4, <2>5, <2>6 DEF TypeOK
<1>15. HealthCoversRows'
    <2>1. ASSUME NEW k \in DOMAIN plantRows'
          PROVE  health'.lastEvent # Null /\ health'.lastEvent >= k[3]
        <3>1. k[3] \in Nat /\ health'.lastEvent \in Nat /\ obs.at \in Nat
            <4>1. k \in Plants \X Times \X Times
                BY <1>14 DEF TypeOK
            <4>2. k[3] \in Times
                BY <4>1
            <4> QED
                BY <1>6, <1>12, <4>2, MicrobatchAssumption
        <3>2. CASE k \in DOMAIN rows
            <4>1. k[3] <= obs.at
                BY <1>4, <3>2
            <4> QED
                BY <1>12, <3>1, <4>1, MicrobatchAssumption
        <3>3. CASE k \in DOMAIN plantRows
            <4>1. health.lastEvent # Null /\ health.lastEvent >= k[3]
                BY <1>1, <3>3 DEF HealthCoversRows
            <4>2. health.lastEvent \in Nat
                BY <1>1, <4>1, MicrobatchAssumption DEF TypeOK
            <4> QED
                BY <1>12, <3>1, <4>1, <4>2, MicrobatchAssumption
        <3> QED
            BY <1>13, <3>2, <3>3
    <2> QED
        BY <1>14, <2>1 DEF HealthCoversRows
<1>16. AppliedIsWritten'
    <2>1. Holds(plantRows', PlantRowsOf(batch')) /\ Holds(fleetRows', FleetRowsOf(batch'))
        BY <1>3, <1>8, <1>9 DEF rows, fleet
    <2> QED
        BY <2>1 DEF AppliedIsWritten
<1>17. ConditionsInOrder'
    BY <1>10 DEF ConditionsInOrder, AreConditions
<1>18. LiveAgreesWithAlerts'
    <2>1. ASSUME NEW k \in latestKeys'
          PROVE  plantRows'[k].offline =
                     Cardinality({ c \in DOMAIN conditions' :
                         PlantOf[c[1]] = k[1] /\ c[2] \in {Gap, Offline} })
        <3>1. k \in DOMAIN rows /\ plantRows'[k] = rows[k]
            BY <1>3, <1>8 DEF Holds
        <3>2. rows[k].offline = Cardinality(InvertersOf(k[1]) \ Online(batch, k[1]))
            BY <1>4, <3>1
        <3> QED
            BY <1>2, <1>10, <3>1, <3>2, OfflineAgrees DEF obs
    <2> QED
        BY <2>1 DEF LiveAgreesWithAlerts
<1>19. PowerIsInstantaneous'
    <2>1. ASSUME NEW k \in DOMAIN plantRows'
          PROVE  plantRows'[k].current <= Capacity(k[1])
        <3>1. CASE k \in DOMAIN rows
            <4>1. plantRows'[k] = rows[k] /\ rows[k].current <= Capacity(k[1])
                BY <1>4, <1>8, <3>1 DEF Holds
            <4> QED
                BY <4>1
        <3>2. CASE k \in DOMAIN plantRows \ DOMAIN rows
            BY <1>1, <1>8, <3>2 DEF PowerIsInstantaneous, Capacity
        <3> QED
            BY <1>13, <3>1, <3>2
    <2> QED
        BY <2>1 DEF PowerIsInstantaneous, Capacity
<1> QED
    BY <1>14, <1>15, <1>16, <1>17, <1>18, <1>19 DEF IInv

-----------------------------------------------------------------------------
LEMMA NextInv == IInv /\ [Next]_vars => IInv'
<1> SUFFICES ASSUME IInv, [Next]_vars PROVE IInv'
    OBVIOUS
<1>1. CASE Persist
    BY <1>1, PersistStep
<1>2. CASE PersistEmpty
    BY <1>2, PersistEmptyStep
<1>3. CASE ~Persist /\ ~PersistEmpty
    <2>1. \/ PlanBatch \/ Wait \/ Abort \/ Refuse \/ Crash \/ Restart
          \/ CommitOffsets \/ UNCHANGED vars
        BY <1>3 DEF Next
    <2>2. UNCHANGED tables
        BY <2>1 DEF PlanBatch, Wait, Abort, Refuse, Crash, Restart, CommitOffsets, vars
    <2> QED
        BY <2>1, <2>2, QuietStep
<1> QED
    BY <1>1, <1>2, <1>3

\* The invariant of process_microbatch: what one transaction leaves in the live
\* tables, the alert tables and the health row agrees, whatever events the
\* batches carry and however often a batch is run again.
THEOREM MicrobatchInvariant == Spec => []IInv
    BY InitInv, NextInv, PTL DEF Spec

\* pipeline_health.last_event_time covers every stored row (health.py, GREATEST).
THEOREM HealthCoversRowsTheorem == Spec => []HealthCoversRows
<1>1. IInv => HealthCoversRows
    BY DEF IInv
<1> QED
    BY <1>1, MicrobatchInvariant, PTL

\* The counts of metrics.py and the conditions of alerts.py agree about every
\* plant of the last batch.
THEOREM LiveAgreesWithAlertsTheorem == Spec => []LiveAgreesWithAlerts
<1>1. IInv => LiveAgreesWithAlerts
    BY DEF IInv
<1> QED
    BY <1>1, MicrobatchInvariant, PTL

\* No live row has more power than the inverters of its plant can produce at one
\* instant (latest_reading_per_inverter).
THEOREM PowerIsInstantaneousTheorem == Spec => []PowerIsInstantaneous
<1>1. IInv => PowerIsInstantaneous
    BY DEF IInv
<1> QED
    BY <1>1, MicrobatchInvariant, PTL

\* A batch that is run again rewrites its rows as they are (sinks.py).
THEOREM ReplayIsIdenticalTheorem == Spec => ReplayIsIdentical
<1>1. ASSUME IInv, [Next]_vars
      PROVE  [ReplayStep => plantRows' = plantRows /\ fleetRows' = fleetRows]_vars
    <2> SUFFICES ASSUME Next, ReplayStep
                 PROVE  plantRows' = plantRows /\ fleetRows' = fleetRows
        BY <1>1
    <2>1. Persist \/ PersistEmpty
        BY DEF ReplayStep, Next, PlanBatch, Wait, Abort, Refuse, Crash, Restart,
               CommitOffsets, vars
    <2>2. CASE PersistEmpty
        BY <2>2 DEF PersistEmpty
    <2>3. CASE Persist
        <3> DEFINE rows == PlantRowsOf(batch)
                   fleet == FleetRowsOf(batch)
        <3>1. TypeOK
            BY <1>1 DEF IInv, HealthCoversRows
        <3>2. CarriesEvents(batch)
            BY <2>3, <3>1 DEF TypeOK, Persist, CarriesEvents
        <3>3. Holds(plantRows, rows) /\ Holds(fleetRows, fleet)
            BY <1>1, <3>2 DEF IInv, AppliedIsWritten, ReplayStep, CarriesEvents
        <3>4. rows \in [DOMAIN rows -> Row] /\ fleet \in [DOMAIN fleet -> Row]
            BY <3>2, PlantRowsAre, FleetRowsAre
        <3>5. /\ plantRows' = Upserted(plantRows, rows)
              /\ fleetRows' = Upserted(fleetRows, fleet)
            BY <2>3 DEF Persist
        <3>6. /\ plantRows \in [DOMAIN plantRows -> Row]
              /\ fleetRows \in [DOMAIN fleetRows -> Row]
            BY <3>1 DEF TypeOK
        <3> HIDE DEF rows, fleet
        <3> QED
            BY <3>3, <3>4, <3>5, <3>6, UpsertedRows
    <2> QED
        BY <2>1, <2>2, <2>3
<1> QED
    BY <1>1, MicrobatchInvariant, PTL DEF Spec, ReplayIsIdentical
=============================================================================
