----------------------------- MODULE MCServing ------------------------------
(***************************************************************************)
(* Serving on small instances.                                             *)
(***************************************************************************)
EXTENDS Serving

CONSTANTS p1, p2
=============================================================================
