---------------------------- MODULE MCMigrations ----------------------------
(* An instance of SchemaMigrations for TLC: three files, the last of them    *)
(* bare, as 013_outbox.sql is.                                               *)
EXTENDS SchemaMigrations

CONSTANTS r1, r2, r3

\* An empty database; one restored without its records; one with the table of
\* the bare migration but not its trigger.
Databases == {[m \in 1..3 |-> "none"], [m \in 1..3 |-> "all"],
              [m \in 1..3 |-> IF m = 3 THEN "some" ELSE "all"]}
=============================================================================
