---------------------------- MODULE MCAlertStore ----------------------------
(***************************************************************************)
(* AlertStore on a small instance.                                         *)
(***************************************************************************)
EXTENDS AlertStore, TLC

MCTimes == 0..3
=============================================================================
