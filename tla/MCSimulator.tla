---------------------------- MODULE MCSimulator -----------------------------
(***************************************************************************)
(* Simulator on small instances: days of three ticks, a rating of 100.     *)
(***************************************************************************)
EXTENDS Simulator

CONSTANTS p1, p2, i1, i2

MCShape == <<50, 100, 0>>
MCRated(id, rating) == [id |-> id, rating |-> rating]
MCPlant(id, inverters, capacity) ==
    [id |-> id, name |-> "name", capacity |-> capacity, rate |-> Null,
     inverters |-> inverters]

\* The same inverter id at two plants, and documents one of the two readers
\* or both refuse.
MCGood == <<MCPlant(p1, <<MCRated(i1, 100)>>, 100), MCPlant(p2, <<MCRated(i1, 100)>>, 100)>>
MCPortfolios ==
    { MCGood,
      <<MCPlant(p1, <<MCRated(i1, 100)>>, 100), MCPlant(p1, <<MCRated(i1, 100)>>, 100)>>,
      <<MCPlant(p1, <<MCRated(i1, YamlTrue)>>, 1), MCPlant(p2, <<MCRated(i1, 100)>>, 100)>>,
      <<MCPlant(p1, <<MCRated(i1, 100)>>, 200), MCPlant(p2, <<MCRated(i1, 100)>>, 100)>>,
      Null }

\* One output above what the rating allows, one below the forecast.
MCNoisy == [at \in ({p1, p2} \X {i1, i2}) \X (0..StopAt) |->
               IF at = <<<<p1, i1>>, 1>> THEN 130 ELSE 80]

MCWindow(scenario, start, end, plant, inverter, factor) ==
    [scenario |-> scenario, start |-> start, end |-> end, plant |-> plant,
     inverter |-> inverter, factor |-> factor]
MCDoc(reference, listed) == [reference |-> reference, windows |-> listed]

MCGap == MCWindow("TELEMETRY_GAP", 0, 20, p1, Null, Null)
MCOffline == MCWindow("INV_OFFLINE", 20, 40, p1, i1, Null)
MCWeak == MCWindow("INV_UNDERPERFORMANCE", 0, 10, p2, Null, 50)
MCRecovery == MCWindow("RECOVERY", 40, 60, Null, Null, Null)

\* A file in another order than the day and on a clock of twice the seconds,
\* faults of both plants, and four files that are refused: overlapping
\* windows, one past the end of the day, one for an inverter that is not
\* there, one without its factor.
MCSchedules ==
    { MCDoc(60, <<MCOffline, MCRecovery, MCGap>>),
      MCDoc(Null, <<MCWeak, MCWindow("INV_OFFLINE", 10, 20, p1, Null, Null)>>),
      MCDoc(60, <<MCWindow("RECOVERY", 10, 30, Null, Null, Null), MCGap>>),
      MCDoc(Null, <<MCRecovery>>),
      MCDoc(60, <<MCWindow("INV_OFFLINE", 20, 40, p1, i2, Null)>>),
      MCDoc(60, <<MCWindow("INV_UNDERPERFORMANCE", 20, 40, p1, i1, Null)>>) }
=============================================================================
