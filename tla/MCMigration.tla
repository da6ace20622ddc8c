----------------------------- MODULE MCMigration -----------------------------
(* Instances of Migration for TLC. *)
EXTENDS Migration, TLC
CONSTANTS a1, a2, a3, w1, i1
==============================================================================
