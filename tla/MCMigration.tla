----------------------------- MODULE MCMigration -----------------------------
(* One validator, one MadID, a short chain, and two Migrator runs.         *)
EXTENDS Migration, TLC

CONSTANTS v1, m1
=============================================================================
