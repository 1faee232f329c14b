---------------------------- MODULE MCMicrobatch ----------------------------
(***************************************************************************)
(* Microbatch on small instances: one plant of two inverters.              *)
(***************************************************************************)
EXTENDS Microbatch, TLC

CONSTANTS i1, i2, p1, p2

MCOnePlant == i1 :> p1 @@ i2 :> p1
MCRating == i1 :> 2 @@ i2 :> 2
MCTimes == 0..1

Sunny(status, available, power) ==
    [status |-> status, available |-> available, irradiance |-> 1, power |-> power]

\* At full sun: producing, failed, failed but not aware of it, and weak.
MCReadings ==
    { Sunny("ONLINE", TRUE, 2), Sunny("OFFLINE", FALSE, 0),
      Sunny("ONLINE", FALSE, 0), Sunny("WARNING", TRUE, 1) }

\* Producing, and failed.
MCFewReadings == { Sunny("ONLINE", TRUE, 2), Sunny("ONLINE", FALSE, 0) }
=============================================================================
