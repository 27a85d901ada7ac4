-------------------------- MODULE SchemaMigrations --------------------------
(***************************************************************************)
(* packages/db/src/migration-runner.ts: API processes that start and       *)
(* operators on the command line run it on one database, also at once.     *)
(*                                                                         *)
(* Each migration is one PostgreSQL transaction: its SQL, then its row in  *)
(* schema_migrations.  A statement that creates what another transaction   *)
(* has created and not yet committed waits for it, and fails with a unique *)
(* violation if that one commits.  Migrations are numbered by their place  *)
(* in the sorted directory.                                                *)
(***************************************************************************)
EXTENDS Integers, FiniteSetsExt

CONSTANTS Runners,      \* processes that run migrations
          Cli,          \* those of them started by npm run db:migrate; they seed
          NoRunner,
          Last,         \* how many migrations there are
          Bare,         \* those that create something without IF NOT EXISTS
          Leftovers,    \* what a database without records may hold already
          Faults,       \* the kinds of fault the environment may inject
          MaxFaults,    \* and how many in one behaviour
          MaxRollbacks  \* how often an operator runs db:rollback

Migrations == 1..Last

ASSUME MigrationsAssumption ==
  /\ Cli \subseteq Runners
  /\ Runners # {} /\ NoRunner \notin Runners
  /\ Last \in Nat \ {0}
  /\ Bare \subseteq Migrations \ {1}
  /\ Leftovers \subseteq [Migrations -> {"none", "some", "all"}]
  /\ Faults \subseteq {"read", "crash"}
  /\ MaxFaults \in Nat
  /\ MaxRollbacks \in Nat

VARIABLES
  pc,        \* where each runner is
  todo,      \* the migrations it takes for pending
  fresh,     \* isFreshDatabase, as it read it
  wasEmpty,  \* history: whether there was no record when it read
  objects,   \* which of a migration's objects are committed
  leftover,  \* history: what the database held at first
  builder,   \* whose open transaction has created a migration's objects
  records,   \* committed rows of schema_migrations
  table,     \* whether schema_migrations exists
  rollbacks, faults

vars == <<pc, todo, fresh, wasEmpty, objects, leftover, builder, records, table,
          rollbacks, faults>>
readVars == <<fresh, wasEmpty>>
environment == <<leftover, rollbacks>>

Running == {"start", "read", "apply", "record", "commit", "duplicate", "seed"}

At(r, step) == pc[r] = step
Goto(r, step) == pc' = [pc EXCEPT ![r] = step]

\* mutant: the directory in the order readdir gives it
CurrentUnsorted(r) == Max(todo[r])

\* The pending migration the runner is at: lowest number first.
Current(r) == Min(todo[r])

Init ==
  /\ pc = [r \in Runners |-> "start"]
  /\ todo = [r \in Runners |-> {}]
  /\ fresh = [r \in Runners |-> FALSE]
  /\ wasEmpty = [r \in Runners |-> FALSE]
  /\ objects \in Leftovers
  /\ leftover = objects
  /\ builder = [m \in Migrations |-> NoRunner]
  /\ records = {}
  /\ table = FALSE
  /\ rollbacks = 0
  /\ faults = 0

-----------------------------------------------------------------------------
(***************************************************************************)
(* runMigrations                                                           *)
(***************************************************************************)

\* CREATE TABLE IF NOT EXISTS: of several at once all but one may fail.
EnsureTable(r) ==
  /\ At(r, "start")
  /\ table' = TRUE
  /\ \E losers \in SUBSET {s \in Runners \ {r} : ~table /\ At(s, "start")} :
       pc' = [s \in Runners |-> CASE s = r -> "read"
                                  [] s \in losers -> "exited"
                                  [] OTHER -> pc[s]]
  /\ UNCHANGED <<todo, readVars, objects, builder, records, environment, faults>>

\* mutant: files and versions counted from different ends
TakeForAppliedOffByOne(r, applied) ==
  /\ todo' = [todo EXCEPT ![r] = (0..Last) \ applied]
  /\ fresh' = [fresh EXCEPT ![r] = applied = {}]
  /\ wasEmpty' = [wasEmpty EXCEPT ![r] = records = {}]
  /\ Goto(r, IF applied = Migrations THEN "done" ELSE "apply")

\* What is not applied is pending; nothing applied means a fresh database.
TakeForApplied(r, applied) ==
  /\ todo' = [todo EXCEPT ![r] = Migrations \ applied]
  /\ fresh' = [fresh EXCEPT ![r] = applied = {}]
  /\ wasEmpty' = [wasEmpty EXCEPT ![r] = records = {}]
  /\ Goto(r, IF applied = Migrations THEN "done" ELSE "apply")

ReadApplied(r) ==
  /\ At(r, "read")
  /\ TakeForApplied(r, records)
  /\ UNCHANGED <<objects, builder, records, table, environment, faults>>

LetGo(r) == [m \in Migrations |-> IF builder[m] = r THEN NoRunner ELSE builder[m]]

\* The transaction is rolled back, the error thrown, the process exits with 1.
Abort(r) ==
  /\ builder' = LetGo(r)
  /\ Goto(r, "exited")

\* The migration's SQL, once nobody else is creating its objects.  IF NOT EXISTS
\* passes over what exists; a bare CREATE of it fails with 42P07.
Apply(r) ==
  LET m == Current(r) IN
  /\ At(r, "apply")
  /\ builder[m] = NoRunner
  /\ IF m \in Bare /\ objects[m] # "none"
       THEN Goto(r, "duplicate") /\ UNCHANGED builder
       ELSE /\ builder' = [builder EXCEPT ![m] = IF objects[m] = "all" THEN @ ELSE r]
            /\ Goto(r, "record")
  /\ UNCHANGED <<todo, readVars, objects, records, table, environment, faults>>

\* No other transaction has inserted the row of r's migration uncommitted.
RowFree(r) ==
  ~ \E s \in Runners \ {r} : At(s, "commit") /\ Current(s) = Current(r)

\* mutants: the row is inserted outside the transaction; or a conflict ignored
RecordOutside(r) ==
  /\ At(r, "record")
  /\ RowFree(r)
  /\ IF Current(r) \in records
       THEN Abort(r) /\ UNCHANGED records
       ELSE records' = records \cup {Current(r)} /\ Goto(r, "commit") /\ UNCHANGED builder
  /\ UNCHANGED <<todo, readVars, objects, table, environment, faults>>
RecordQuietly(r) ==
  /\ At(r, "record")
  /\ RowFree(r)
  /\ Goto(r, "commit")
  /\ UNCHANGED <<todo, readVars, objects, builder, records, table, environment, faults>>

\* INSERT INTO schema_migrations: a duplicate key is an error like any other.
Record(r) ==
  /\ At(r, "record")
  /\ RowFree(r)
  /\ IF Current(r) \in records
       THEN Abort(r)
       ELSE Goto(r, "commit") /\ UNCHANGED builder
  /\ UNCHANGED <<todo, readVars, objects, records, table, environment, faults>>

\* On to the next pending migration; after the last, db:migrate seeds a fresh
\* database, and the API, or a database that was not fresh, is done.
AfterCurrent(r) ==
  IF todo[r] # {Current(r)} THEN "apply"
  ELSE IF fresh[r] /\ r \in Cli THEN "seed" ELSE "done"
Advance(r) == todo' = [todo EXCEPT ![r] = @ \ {Current(r)}]

\* Those whose CREATE was waiting for this transaction fail.
Commit(r) ==
  LET m == Current(r)
      racing == {s \in Runners \ {r} : At(s, "apply") /\ builder[m] = r /\ Current(s) = m}
  IN
  /\ At(r, "commit")
  /\ records' = records \cup {m}
  /\ objects' = [objects EXCEPT ![m] = "all"]
  /\ builder' = LetGo(r)
  /\ Advance(r)
  /\ \E losers \in SUBSET racing :
       pc' = [s \in Runners |-> CASE s = r -> AfterCurrent(r)
                                  [] s \in losers -> "exited"
                                  [] OTHER -> pc[s]]
  /\ UNCHANGED <<readVars, table, environment, faults>>

\* mutant: a duplicate object ends the run
MarkAppliedNever(r) ==
  /\ At(r, "duplicate")
  /\ Abort(r)
  /\ UNCHANGED <<todo, readVars, objects, records, table, environment, faults>>

\* After a duplicate object: recorded as applied, whatever else it was to create.
MarkApplied(r) ==
  /\ At(r, "duplicate")
  /\ RowFree(r)
  /\ records' = records \cup {Current(r)}
  /\ Advance(r)
  /\ Goto(r, AfterCurrent(r))
  /\ UNCHANGED <<readVars, objects, builder, table, environment, faults>>

\* seedDevelopmentData: sets merchants, users and their balances back.
Seed(r) ==
  /\ At(r, "seed")
  /\ Goto(r, "done")
  /\ UNCHANGED <<todo, readVars, objects, builder, records, table, environment, faults>>

RunnerStep(r) ==
  \/ EnsureTable(r) \/ ReadApplied(r) \/ Apply(r) \/ Record(r) \/ Commit(r)
  \/ MarkApplied(r) \/ Seed(r)

-----------------------------------------------------------------------------
(***************************************************************************)
(* Operators and faults                                                    *)
(***************************************************************************)

\* The runner is started again: after a failure, or by the next deployment.
Restart(r) ==
  /\ Goto(r, "start")
  /\ todo' = [todo EXCEPT ![r] = {}]
  /\ fresh' = [fresh EXCEPT ![r] = FALSE]
  /\ wasEmpty' = [wasEmpty EXCEPT ![r] = FALSE]
  /\ UNCHANGED <<objects, builder, records, table, environment, faults>>
StartAgain(r) == At(r, "exited") /\ Restart(r)
Redeploy(r) == At(r, "done") /\ Restart(r)

\* rollbackLastMigration deletes WHERE migration_version = rows[0].version, a
\* column its query does not return: undefined, NULL in SQL, which equals nothing.
RollbackVersion == 0
RollbackLast ==
  /\ records # {}
  /\ rollbacks < MaxRollbacks
  /\ rollbacks' = rollbacks + 1
  /\ records' = records \ {RollbackVersion}
  /\ UNCHANGED <<pc, todo, readVars, objects, leftover, builder, table, faults>>

Fault(kind) ==
  /\ kind \in Faults
  /\ faults < MaxFaults
  /\ faults' = faults + 1

\* getAppliedMigrations takes any error for an empty table.
ReadFails(r) ==
  /\ Fault("read")
  /\ At(r, "read")
  /\ TakeForApplied(r, {})
  /\ UNCHANGED <<objects, builder, records, table, environment>>

\* mutant: the error is thrown without ROLLBACK, the session stays open
DiesInTransaction(r) ==
  /\ Fault("crash")
  /\ pc[r] \in Running
  /\ Goto(r, "exited")
  /\ UNCHANGED <<todo, readVars, objects, builder, records, table, environment>>

\* A query fails or the process dies: PostgreSQL rolls its transaction back.
Dies(r) ==
  /\ Fault("crash")
  /\ pc[r] \in Running
  /\ Abort(r)
  /\ UNCHANGED <<todo, readVars, objects, records, table, environment>>

Next ==
  \/ \E r \in Runners :
       RunnerStep(r) \/ StartAgain(r) \/ Redeploy(r) \/ ReadFails(r) \/ Dies(r)
  \/ RollbackLast

Spec == Init /\ [][Next]_vars

\* A running process goes on; nobody has to start one again.
FairSpec == Spec /\ \A r \in Runners : WF_vars(RunnerStep(r))

-----------------------------------------------------------------------------
(***************************************************************************)
(* Properties                                                              *)
(***************************************************************************)

\* What the variables hold.
TypeOK ==
  /\ pc \in [Runners -> Running \cup {"exited", "done"}]
  /\ todo \in [Runners -> SUBSET Migrations]
  /\ fresh \in [Runners -> BOOLEAN]
  /\ wasEmpty \in [Runners -> BOOLEAN]
  /\ objects \in [Migrations -> {"none", "some", "all"}]
  /\ leftover \in Leftovers
  /\ builder \in [Migrations -> Runners \cup {NoRunner}]
  /\ records \subseteq Migrations
  /\ table \in BOOLEAN
  /\ rollbacks \in 0..MaxRollbacks
  /\ faults \in 0..MaxFaults

\* A recorded migration has all its objects, however many ran it and whoever
\* died on the way.  The one exception is what "marking as applied" does to a
\* bare migration some of whose objects were there before: the rest is never made.
RecordedIsBuilt ==
  \A m \in records : objects[m] = "all" \/ (m \in Bare /\ leftover[m] = "some")

\* Records are a prefix of the directory: no migration is applied, by anyone,
\* before those it builds on.
AppliedInOrder == \A m \in records : 1..m \subseteq records

\* db:migrate sets balances back only on a database that had no record when it
\* looked: not on a live one, also when the look itself failed.
SeedOnlyEmpty == \A r \in Runners : At(r, "seed") => wasEmpty[r]

\* Runners on one database fail each other, but never all of them: as long as
\* nothing else goes wrong, one is on its way or done.
NotAllLose == faults = 0 => \E r \in Runners : ~At(r, "exited")

\* No interleaving, crash or leftover puts the database in a state that keeps
\* a process from starting, or hangs it: who is started again gets there, unless it
\* is given up.
AlwaysComesUp == \A r \in Runners : []<>At(r, "done") \/ <>[]At(r, "exited")
=============================================================================
