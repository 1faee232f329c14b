------------------------------ MODULE MCIngest ------------------------------
(***************************************************************************)
(* Ingest on small instances.                                              *)
(***************************************************************************)
EXTENDS Ingest, TLC

MCTimes == 1..3

\* Partitions only differ in their names.
MCSymmetry == Permutations(Partitions)
=============================================================================
