----------------------------- MODULE MCMigrator -----------------------------
(* Small instances of Migrator for TLC. *)
EXTENDS Migrator

CONSTANTS m1, m2, s1, s2

TwoMigrators == {m1, m2}
TwoApps == {s1, s2}
=============================================================================
