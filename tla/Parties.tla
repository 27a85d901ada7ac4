------------------------------ MODULE Parties -------------------------------
(***************************************************************************)
(* The names that the database, a job queue and its workers share.         *)
(***************************************************************************)
CONSTANTS Txs,      \* transactions, named by checkout_id, which is also the jobId
          Workers,  \* job slots of the worker processes, each with a database
                    \* session of its own
          NoWorker  \* holds no lock

ASSUME PartiesAssumption == NoWorker \notin Workers
=============================================================================
