---------------------------- MODULE MCMigrations ----------------------------
(***************************************************************************)
(* Migrations with two runners that may start, fail and start again.       *)
(***************************************************************************)
EXTENDS Migrations, TLC

CONSTANTS r1, r2

MCRunners == Permutations({r1, r2})
=============================================================================
