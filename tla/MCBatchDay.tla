----------------------------- MODULE MCBatchDay -----------------------------
(***************************************************************************)
(* BatchDay on small instances.                                            *)
(***************************************************************************)
EXTENDS BatchDay

CONSTANTS p1, p2

MCDay == <<0, 1, 1, 0>>
MCSpec(rate) == [capacity |-> 1, rate |-> rate]

\* One plant, two, and one on a day of more sun hours than the limit.
MCSmall  == [plants |-> p1 :> MCSpec(Null), shape |-> MCDay]
MCLarge  == [plants |-> (p1 :> MCSpec(2)) @@ (p2 :> MCSpec(Null)), shape |-> MCDay]
MCEndless == [plants |-> p1 :> MCSpec(Null), shape |-> <<1, 1, 1, 1>>]
MCConfigs == {MCSmall, MCLarge, MCEndless}

\* A corrected feed, and one that gives the energy in the wrong unit.
MCReissued ==
    { [GeneratedFeed(MCSmall) EXCEPT !.rows[1].rate = 3, !.rows[1].maintenance = "yes"],
      [GeneratedFeed(MCSmall) EXCEPT !.rows[1].generation = 2000] }
=============================================================================
