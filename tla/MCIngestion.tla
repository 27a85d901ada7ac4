----------------------------- MODULE MCIngestion -----------------------------
(***************************************************************************)
(* Small instances of Ingestion: identical requests, and one that differs. *)
(***************************************************************************)
EXTENDS Ingestion

CONSTANTS r1, r2, r3, r4, f1, f2

FirstThreeAlike == [r \in Requests |-> IF r = r4 THEN f2 ELSE f1]
=============================================================================
