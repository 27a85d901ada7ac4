-------------------------- MODULE MigrationProofs --------------------------
(***************************************************************************)
(* For any number of runners and migrations, and any faults: what is       *)
(* recorded is a prefix of the directory and built, and a database with    *)
(* records is not seeded.                                                  *)
(***************************************************************************)
EXTENDS SchemaMigrations, WellFoundedInduction, TLAPS

Working == {"apply", "record", "commit", "duplicate"}

\* A runner in its loop has something left to apply, and all else is recorded.
PendingIsRest ==
  \A r \in Runners : pc[r] \in Working =>
    /\ todo[r] # {}
    /\ Migrations \ todo[r] \subseteq records

\* Objects are only ever completed, and only a bare migration finds a duplicate.
OnlyCompleted ==
  /\ \A m \in Migrations : objects[m] \in {leftover[m], "all"}
  /\ \A r \in Runners : At(r, "duplicate") =>
       Current(r) \in Bare /\ objects[Current(r)] # "none"

\* Who takes a live database for a fresh one is about to fail: the first
\* migration, which it applies again without an error, has its row already.
MisreadFails ==
  \A r \in Runners : fresh[r] /\ ~wasEmpty[r] =>
    /\ pc[r] \in Working => /\ pc[r] \in {"apply", "record"}
                             /\ todo[r] = Migrations
                             /\ 1 \in records
    /\ ~At(r, "seed")

\* A migration about to be committed has no row yet, and nobody else inserts it.
CommitFresh ==
  \A r \in Runners : At(r, "commit") => Current(r) \notin records /\ RowFree(r)

\* A runner that is not too late: nobody has recorded the migration it is at.
InTime(r) == ~At(r, "exited") /\ (pc[r] \in Working => Current(r) \notin records)

SomeoneInTime == faults = 0 => \E r \in Runners : InTime(r)

IInv ==
  /\ TypeOK
  /\ PendingIsRest
  /\ AppliedInOrder
  /\ OnlyCompleted
  /\ RecordedIsBuilt
  /\ MisreadFails
  /\ SeedOnlyEmpty
  /\ CommitFresh
  /\ SomeoneInTime

-----------------------------------------------------------------------------
\* The smallest of a non-empty set of migrations is one of them.
LEMMA FirstPending ==
  ASSUME NEW S \in SUBSET Migrations, S # {}
  PROVE  Min(S) \in S /\ \A m \in S : Min(S) <= m
<1> DEFINE Less == {pair \in Nat \X Nat : pair[1] < pair[2]}
<1>1. S \subseteq Nat
  BY MigrationsAssumption DEF Migrations
<1>2. IsWellFoundedOn(Less, Nat)
  BY NatLessThanWellFounded, Zenon DEF OpToRel
<1>3. PICK x \in S : \A y \in S : <<y, x>> \notin Less
  <2> HIDE DEF Less
  <2>1. IsWellFoundedOn(Less, S)
    BY <1>1, <1>2, IsWellFoundedOnSubset, Zenon
  <2> QED BY <2>1, WFMin, Zenon
<1>4. ASSUME NEW y \in S
      PROVE  x <= y
  <2>1. x \in Nat /\ y \in Nat
    BY <1>1
  <2>2. CASE y < x
    BY <1>3, <2>1, <2>2
  <2> QED BY <2>1, <2>2
<1> QED BY <1>4 DEF Min

\* The migration a runner is at is pending, and all before it are recorded.
LEMMA CurrentPending ==
  ASSUME TypeOK, PendingIsRest, NEW r \in Runners, pc[r] \in Working
  PROVE  /\ Current(r) \in todo[r] /\ Current(r) \in Migrations
         /\ \A m \in Migrations : m < Current(r) => m \in records
<1>1. todo[r] \in SUBSET Migrations /\ todo[r] # {}
  BY DEF TypeOK, PendingIsRest
<1>2. Current(r) \in todo[r] /\ \A m \in todo[r] : Current(r) <= m
  BY <1>1, FirstPending, Zenon DEF Current
<1>3. ASSUME NEW m \in Migrations, m < Current(r)
      PROVE  m \in records
  <2>1. m \notin todo[r]
    BY <1>1, <1>2, <1>3 DEF Migrations
  <2> QED BY <2>1, <1>3 DEF PendingIsRest
<1> QED BY <1>1, <1>2, <1>3

\* A read of schema_migrations, right or wrong, leaves a well-typed runner.
LEMMA TakeTypes ==
  ASSUME TypeOK, NEW r \in Runners, NEW applied, TakeForApplied(r, applied)
  PROVE  /\ pc' \in [Runners -> Running \cup {"exited", "done"}]
         /\ todo' \in [Runners -> SUBSET Migrations]
         /\ fresh' \in [Runners -> BOOLEAN]
         /\ wasEmpty' \in [Runners -> BOOLEAN]
<1> USE DEF TypeOK, TakeForApplied, Goto, Running
<1>1. (applied = {}) \in BOOLEAN /\ (records = {}) \in BOOLEAN
  OBVIOUS
<1>2. fresh' \in [Runners -> BOOLEAN] /\ wasEmpty' \in [Runners -> BOOLEAN]
  BY <1>1, Zenon
<1>3. pc' \in [Runners -> Running \cup {"exited", "done"}]
  OBVIOUS
<1>4. todo' \in [Runners -> SUBSET Migrations]
  OBVIOUS
<1> QED BY <1>2, <1>3, <1>4

\* Every step preserves the types.
LEMMA TypeStep ==
  ASSUME TypeOK, PendingIsRest, [Next]_vars
  PROVE  TypeOK'
<1> USE MigrationsAssumption
    DEF TypeOK, At, Goto, Running, Fault, Abort, LetGo, Restart,
        readVars, environment
<1>1. ASSUME NEW r \in Runners, EnsureTable(r)
      PROVE  TypeOK'
  <2>1. pc' \in [Runners -> Running \cup {"exited", "done"}]
    BY <1>1 DEF EnsureTable
  <2>2. table' \in BOOLEAN
    BY <1>1 DEF EnsureTable
  <2> QED BY <1>1, <2>1, <2>2 DEF EnsureTable
<1>2. ASSUME NEW r \in Runners, Seed(r)
      PROVE  TypeOK'
  BY <1>2 DEF Seed
<1>3. ASSUME NEW r \in Runners, Apply(r) \/ Record(r)
      PROVE  TypeOK'
  BY <1>3 DEF Apply, Record
<1>4. ASSUME NEW r \in Runners, Commit(r) \/ MarkApplied(r)
      PROVE  TypeOK'
  <2>1. Current(r) \in Migrations
    BY <1>4, CurrentPending DEF Working, Commit, MarkApplied
  <2>2. AfterCurrent(r) \in Running \cup {"done"}
    BY DEF AfterCurrent
  <2> QED BY <1>4, <2>1, <2>2 DEF Commit, MarkApplied, Advance
<1>5. ASSUME NEW r \in Runners, StartAgain(r) \/ Redeploy(r)
      PROVE  TypeOK'
  <2>1. pc' \in [Runners -> Running \cup {"exited", "done"}]
    BY <1>5 DEF StartAgain, Redeploy
  <2>2. todo' \in [Runners -> SUBSET Migrations]
    BY <1>5 DEF StartAgain, Redeploy
  <2>3. fresh' \in [Runners -> BOOLEAN] /\ wasEmpty' \in [Runners -> BOOLEAN]
    BY <1>5 DEF StartAgain, Redeploy
  <2>4. UNCHANGED <<objects, builder, records, table, environment, faults>>
    BY <1>5 DEF StartAgain, Redeploy
  <2> QED BY <2>1, <2>2, <2>3, <2>4
<1>6. ASSUME NEW r \in Runners, ReadApplied(r) \/ ReadFails(r)
      PROVE  TypeOK'
  BY <1>6, TakeTypes DEF ReadApplied, ReadFails
<1>7. ASSUME NEW r \in Runners, Dies(r)
      PROVE  TypeOK'
  BY <1>7 DEF Dies
<1>8. CASE RollbackLast
  BY <1>8 DEF RollbackLast
<1>9. CASE UNCHANGED vars
  BY <1>9 DEF vars
<1> QED BY <1>1, <1>2, <1>3, <1>4, <1>5, <1>6, <1>7, <1>8, <1>9 DEF Next, RunnerStep

-----------------------------------------------------------------------------
\* A migration is added to the records by its runner only, who has all before it.
LEMMA RecordStep ==
  ASSUME TypeOK, PendingIsRest, AppliedInOrder, NEW r \in Runners,
         pc[r] \in Working, records' = records \cup {Current(r)}, Advance(r),
         \A s \in Runners \ {r} : pc'[s] \in Working => pc[s] \in Working,
         pc'[r] = AfterCurrent(r)
  PROVE  PendingIsRest' /\ AppliedInOrder'
<1> DEFINE m == Current(r)
<1>1. m \in todo[r] /\ m \in Migrations /\ \A k \in Migrations : k < m => k \in records
  BY CurrentPending
<1>2. todo' = [todo EXCEPT ![r] = @ \ {m}] /\ records' = records \cup {m}
  BY DEF Advance
<1>3. AppliedInOrder'
  <2> HIDE DEF m
  <2>1. 1..m \subseteq records'
    BY <1>1, <1>2, MigrationsAssumption DEF Migrations
  <2> QED BY <1>2, <2>1 DEF AppliedInOrder
<1>4. ASSUME NEW s \in Runners, pc'[s] \in Working
      PROVE  todo'[s] # {} /\ Migrations \ todo'[s] \subseteq records'
  <2>1. CASE s = r
    <3>1. todo[r] # {m}
      BY <1>4, <2>1 DEF AfterCurrent, Working
    <3>2. todo'[r] = todo[r] \ {m} /\ Migrations \ todo[r] \subseteq records
      BY <1>2 DEF TypeOK, PendingIsRest
    <3> HIDE DEF m
    <3> QED BY <1>1, <1>2, <2>1, <3>1, <3>2
  <2>2. CASE s # r
    <3>1. todo'[s] = todo[s] /\ pc[s] \in Working
      BY <1>2, <1>4, <2>2 DEF TypeOK
    <3> QED BY <1>2, <3>1 DEF PendingIsRest
  <2> QED BY <2>1, <2>2
<1> QED BY <1>3, <1>4 DEF PendingIsRest

\* Every step leaves the records a prefix, of which each runner misses nothing.
LEMMA OrderStep ==
  ASSUME TypeOK, PendingIsRest, AppliedInOrder, [Next]_vars
  PROVE  PendingIsRest' /\ AppliedInOrder'
<1>1. ASSUME NEW r \in Runners, EnsureTable(r) \/ Seed(r) \/ Dies(r)
      PROVE  PendingIsRest' /\ AppliedInOrder'
  <2>1. records' = records /\ todo' = todo
    BY <1>1 DEF EnsureTable, Seed, Dies
  <2>2. ASSUME NEW s \in Runners, pc'[s] \in Working
        PROVE  pc[s] \in Working
    BY <1>1, <2>2 DEF EnsureTable, Seed, Dies, Abort, Goto, TypeOK, Working
  <2> QED BY <2>1, <2>2 DEF PendingIsRest, AppliedInOrder
<1>2. ASSUME NEW r \in Runners, Apply(r) \/ Record(r)
      PROVE  PendingIsRest' /\ AppliedInOrder'
  <2>1. records' = records /\ todo' = todo
    BY <1>2 DEF Apply, Record
  <2>2. ASSUME NEW s \in Runners, pc'[s] \in Working
        PROVE  pc[s] \in Working
    BY <1>2, <2>2 DEF Apply, Record, Abort, At, Goto, TypeOK, Working
  <2> QED BY <2>1, <2>2 DEF PendingIsRest, AppliedInOrder
<1>3. ASSUME NEW r \in Runners, StartAgain(r) \/ Redeploy(r)
      PROVE  PendingIsRest' /\ AppliedInOrder'
  <2>1. records' = records
    BY <1>3 DEF StartAgain, Redeploy, Restart
  <2>2. ASSUME NEW s \in Runners, pc'[s] \in Working
        PROVE  pc[s] \in Working /\ todo'[s] = todo[s]
    BY <1>3, <2>2 DEF StartAgain, Redeploy, Restart, Goto, TypeOK, Working
  <2> QED BY <2>1, <2>2 DEF PendingIsRest, AppliedInOrder
<1>4. ASSUME NEW r \in Runners, NEW applied \in SUBSET records,
             TakeForApplied(r, applied), records' = records
      PROVE  PendingIsRest' /\ AppliedInOrder'
  <2>1. ASSUME NEW s \in Runners, s # r, pc'[s] \in Working
        PROVE  pc[s] \in Working /\ todo'[s] = todo[s]
    BY <1>4, <2>1 DEF TakeForApplied, Goto, TypeOK
  <2>2. todo'[r] = Migrations \ applied
    BY <1>4 DEF TakeForApplied, TypeOK
  <2>3. pc'[r] \in Working => applied # Migrations
    BY <1>4 DEF TakeForApplied, Goto, TypeOK, Working
  <2>4. applied \subseteq Migrations
    BY <1>4 DEF TypeOK
  <2> QED BY <1>4, <2>1, <2>2, <2>3, <2>4 DEF PendingIsRest, AppliedInOrder
<1>5. ASSUME NEW r \in Runners, ReadApplied(r) \/ ReadFails(r)
      PROVE  PendingIsRest' /\ AppliedInOrder'
  BY <1>4, <1>5 DEF ReadApplied, ReadFails
<1>6. ASSUME NEW r \in Runners, Commit(r)
      PROVE  PendingIsRest' /\ AppliedInOrder'
  <2>1. pc[r] \in Working /\ records' = records \cup {Current(r)} /\ Advance(r)
    BY <1>6 DEF Commit, At, Working
  <2>2. pc'[r] = AfterCurrent(r)
    BY <1>6 DEF Commit
  <2>3. \A s \in Runners \ {r} : pc'[s] \in Working => pc[s] \in Working
    BY <1>6 DEF Commit, Working
  <2> QED BY <2>1, <2>2, <2>3, RecordStep
<1>7. ASSUME NEW r \in Runners, MarkApplied(r)
      PROVE  PendingIsRest' /\ AppliedInOrder'
  <2>1. pc[r] \in Working /\ records' = records \cup {Current(r)} /\ Advance(r)
    BY <1>7 DEF MarkApplied, At, Working
  <2>2. pc'[r] = AfterCurrent(r) /\ \A s \in Runners \ {r} : pc'[s] = pc[s]
    BY <1>7 DEF MarkApplied, Goto, TypeOK
  <2> QED BY <2>1, <2>2, RecordStep
<1>8. CASE RollbackLast
  <2>1. records' = records
    BY <1>8, MigrationsAssumption DEF RollbackLast, RollbackVersion, TypeOK, Migrations
  <2> QED BY <1>8, <2>1 DEF RollbackLast, PendingIsRest, AppliedInOrder
<1>9. CASE UNCHANGED vars
  BY <1>9 DEF vars, PendingIsRest, AppliedInOrder
<1> QED BY <1>1, <1>2, <1>3, <1>5, <1>6, <1>7, <1>8, <1>9 DEF Next, RunnerStep

-----------------------------------------------------------------------------
\* Steps that complete no objects and record nothing keep what was found.
LEMMA BuiltKept ==
  ASSUME OnlyCompleted, RecordedIsBuilt, UNCHANGED <<objects, records, leftover>>,
         \A s \in Runners : At(s, "duplicate")' =>
           \/ At(s, "duplicate") /\ todo'[s] = todo[s]
           \/ Current(s)' \in Bare /\ objects[Current(s)'] # "none"
  PROVE  OnlyCompleted' /\ RecordedIsBuilt'
<1>1. ASSUME NEW s \in Runners, At(s, "duplicate")'
      PROVE  Current(s)' \in Bare /\ objects'[Current(s)'] # "none"
  <2>1. CASE At(s, "duplicate") /\ todo'[s] = todo[s]
    BY <2>1 DEF OnlyCompleted, Current
  <2>2. CASE Current(s)' \in Bare /\ objects[Current(s)'] # "none"
    BY <2>2
  <2> QED BY <1>1, <2>1, <2>2
<1> QED BY <1>1 DEF OnlyCompleted, RecordedIsBuilt

\* Every step that records a migration has its objects, or finds them.
LEMMA BuiltStep ==
  ASSUME TypeOK, PendingIsRest, OnlyCompleted, RecordedIsBuilt, [Next]_vars
  PROVE  OnlyCompleted' /\ RecordedIsBuilt'
<1>1. ASSUME NEW r \in Runners, EnsureTable(r) \/ Seed(r) \/ Dies(r) \/ Record(r)
      PROVE  OnlyCompleted' /\ RecordedIsBuilt'
  <2>1. UNCHANGED <<objects, records, leftover, todo>>
    BY <1>1 DEF EnsureTable, Seed, Dies, Record, environment
  <2>2. ASSUME NEW s \in Runners, At(s, "duplicate")'
        PROVE  At(s, "duplicate")
    BY <1>1, <2>2 DEF EnsureTable, Seed, Dies, Record, Abort, Goto, At, TypeOK
  <2> QED BY <2>1, <2>2, BuiltKept
<1>2. ASSUME NEW r \in Runners,
             ReadApplied(r) \/ ReadFails(r) \/ StartAgain(r) \/ Redeploy(r)
      PROVE  OnlyCompleted' /\ RecordedIsBuilt'
  <2>1. UNCHANGED <<objects, records, leftover>>
    BY <1>2 DEF ReadApplied, ReadFails, StartAgain, Redeploy, Restart, environment
  <2>2. ASSUME NEW s \in Runners, At(s, "duplicate")'
        PROVE  At(s, "duplicate") /\ todo'[s] = todo[s]
    BY <1>2, <2>2 DEF ReadApplied, ReadFails, TakeForApplied, StartAgain, Redeploy,
                      Restart, Goto, At, TypeOK
  <2> QED BY <2>1, <2>2, BuiltKept
<1>3. ASSUME NEW r \in Runners, Apply(r)
      PROVE  OnlyCompleted' /\ RecordedIsBuilt'
  <2>1. UNCHANGED <<objects, records, leftover, todo>>
    BY <1>3 DEF Apply, environment
  <2>2. ASSUME NEW s \in Runners, At(s, "duplicate")', ~At(s, "duplicate")
        PROVE  Current(s)' \in Bare /\ objects[Current(s)'] # "none"
    <3>1. s = r /\ Current(s)' = Current(s)
      BY <1>3, <2>1, <2>2 DEF Apply, Goto, At, TypeOK, Current
    <3>2. Current(r) \in Bare /\ objects[Current(r)] # "none"
      BY <1>3, <2>2, <3>1 DEF Apply, Goto, At, TypeOK
    <3> QED BY <3>1, <3>2
  <2> QED BY <2>1, <2>2, BuiltKept
<1>4. ASSUME NEW r \in Runners, Commit(r)
      PROVE  OnlyCompleted' /\ RecordedIsBuilt'
  <2>1. /\ objects' = [objects EXCEPT ![Current(r)] = "all"]
        /\ records' = records \cup {Current(r)}
        /\ leftover' = leftover
    BY <1>4 DEF Commit, environment
  <2>2. Current(r) \in Migrations
    BY <1>4, CurrentPending DEF Commit, At, Working
  <2>3. \A k \in Migrations : objects'[k] = objects[k] \/ objects'[k] = "all"
    BY <2>1 DEF TypeOK
  <2>4. ASSUME NEW s \in Runners, At(s, "duplicate")'
        PROVE  Current(s)' \in Bare /\ objects'[Current(s)'] # "none"
    <3>1. s # r /\ At(s, "duplicate")
      BY <1>4, <2>4 DEF Commit, AfterCurrent, At
    <3>2. Current(s)' = Current(s)
      BY <1>4, <3>1 DEF Commit, Advance, Current, TypeOK
    <3>3. Current(s) \in Bare /\ objects[Current(s)] # "none" /\ Current(s) \in Migrations
      BY <3>1, MigrationsAssumption DEF OnlyCompleted
    <3> QED BY <2>3, <3>2, <3>3
  <2>5. RecordedIsBuilt'
    <3>1. objects'[Current(r)] = "all"
      BY <2>1, <2>2 DEF TypeOK
    <3>2. records \subseteq Migrations
      BY DEF TypeOK
    <3> QED BY <2>1, <2>3, <3>1, <3>2 DEF RecordedIsBuilt
  <2> QED BY <2>1, <2>3, <2>4, <2>5 DEF OnlyCompleted
<1>5. ASSUME NEW r \in Runners, MarkApplied(r)
      PROVE  OnlyCompleted' /\ RecordedIsBuilt'
  <2>1. /\ UNCHANGED <<objects, leftover>>
        /\ records' = records \cup {Current(r)}
    BY <1>5 DEF MarkApplied, environment
  <2>2. Current(r) \in Bare /\ objects[Current(r)] # "none"
    BY <1>5 DEF MarkApplied, OnlyCompleted
  <2>3. objects[Current(r)] = "all" \/ leftover[Current(r)] = "some"
    BY <2>2, MigrationsAssumption DEF OnlyCompleted, TypeOK
  <2>4. ASSUME NEW s \in Runners, At(s, "duplicate")'
        PROVE  Current(s)' \in Bare /\ objects'[Current(s)'] # "none"
    <3>1. s # r /\ At(s, "duplicate")
      BY <1>5, <2>4 DEF MarkApplied, AfterCurrent, At, Goto, TypeOK
    <3>2. Current(s)' = Current(s)
      BY <1>5, <3>1 DEF MarkApplied, Advance, Current, TypeOK
    <3> QED BY <2>1, <3>1, <3>2 DEF OnlyCompleted
  <2>5. RecordedIsBuilt'
    BY <2>1, <2>2, <2>3 DEF RecordedIsBuilt
  <2> QED BY <2>1, <2>4, <2>5 DEF OnlyCompleted
<1>6. CASE RollbackLast
  <2>1. UNCHANGED <<objects, leftover, pc, todo>> /\ records' \subseteq records
    BY <1>6 DEF RollbackLast
  <2> QED BY <2>1 DEF OnlyCompleted, RecordedIsBuilt, At, Current
<1>7. CASE UNCHANGED vars
  BY <1>7 DEF vars, OnlyCompleted, RecordedIsBuilt, At, Current
<1> QED BY <1>1, <1>2, <1>3, <1>4, <1>5, <1>6, <1>7 DEF Next, RunnerStep

-----------------------------------------------------------------------------
\* What MisreadFails and SeedOnlyEmpty say of one runner.
SeedsRightly(r) ==
  /\ fresh[r] /\ ~wasEmpty[r] =>
       /\ pc[r] \in Working => /\ pc[r] \in {"apply", "record"}
                                /\ todo[r] = Migrations
                                /\ 1 \in records
       /\ ~At(r, "seed")
  /\ At(r, "seed") => wasEmpty[r]

\* The first migration is 1, which is not bare.
LEMMA FirstMigration ==
  1 \in Migrations /\ 1 \notin Bare /\ Min(Migrations) = 1
<1>1. 1 \in Migrations /\ 1 \notin Bare
  BY MigrationsAssumption DEF Migrations
<1>2. Min(Migrations) \in Migrations /\ Min(Migrations) <= 1
  BY <1>1, FirstPending
<1> QED BY <1>1, <1>2 DEF Migrations

\* A runner that stays where it is, or leaves its loop for another place than the
\* seed, keeps to it while no record disappears.
LEMMA SeedsKept ==
  ASSUME NEW s \in Runners, SeedsRightly(s), records \subseteq records',
         \/ /\ pc'[s] = pc[s] /\ todo'[s] = todo[s]
            /\ fresh'[s] = fresh[s] /\ wasEmpty'[s] = wasEmpty[s]
         \/ pc'[s] \in {"start", "read", "exited", "done"}
  PROVE  SeedsRightly(s)'
BY DEF SeedsRightly, At, Working

\* Every step takes only who read an empty table to the seed.
LEMMA SeedStep ==
  ASSUME TypeOK, PendingIsRest, AppliedInOrder, MisreadFails, SeedOnlyEmpty,
         [Next]_vars
  PROVE  MisreadFails' /\ SeedOnlyEmpty'
<1> SUFFICES ASSUME NEW s \in Runners
             PROVE  SeedsRightly(s)'
  BY DEF SeedsRightly, MisreadFails, SeedOnlyEmpty
<1>1. SeedsRightly(s)
  BY DEF SeedsRightly, MisreadFails, SeedOnlyEmpty
<1>2. ASSUME NEW r \in Runners,
             EnsureTable(r) \/ Seed(r) \/ Dies(r) \/ StartAgain(r) \/ Redeploy(r)
      PROVE  SeedsRightly(s)'
  <2>1. records' = records
    BY <1>2 DEF EnsureTable, Seed, Dies, StartAgain, Redeploy, Restart
  <2>2. \/ /\ pc'[s] = pc[s] /\ todo'[s] = todo[s]
           /\ fresh'[s] = fresh[s] /\ wasEmpty'[s] = wasEmpty[s]
        \/ pc'[s] \in {"start", "read", "exited", "done"}
    BY <1>2 DEF EnsureTable, Seed, Dies, Abort, StartAgain, Redeploy, Restart, Goto,
                readVars, TypeOK
  <2> QED BY <1>1, <2>1, <2>2, SeedsKept
<1>3. ASSUME NEW r \in Runners, NEW applied \in SUBSET records,
             TakeForApplied(r, applied), records' = records,
             applied = records \/ applied = {}
      PROVE  SeedsRightly(s)'
  <2>1. CASE s # r
    <3>1. /\ pc'[s] = pc[s] /\ todo'[s] = todo[s]
          /\ fresh'[s] = fresh[s] /\ wasEmpty'[s] = wasEmpty[s]
      BY <1>3, <2>1 DEF TakeForApplied, Goto, TypeOK
    <3> QED BY <1>1, <1>3, <3>1, SeedsKept
  <2>2. CASE s = r
    <3>1. /\ todo'[s] = Migrations \ applied
          /\ fresh'[s] = (applied = {}) /\ wasEmpty'[s] = (records = {})
          /\ pc'[s] \in {"done", "apply"}
      BY <1>3, <2>2 DEF TakeForApplied, Goto, TypeOK
    <3>2. records # {} => 1 \in records
      <4>1. \A m \in Migrations : 1 \in 1..m
        BY MigrationsAssumption DEF Migrations
      <4> QED BY <4>1 DEF AppliedInOrder, TypeOK
    <3> QED BY <1>3, <3>1, <3>2 DEF SeedsRightly, At, Working
  <2> QED BY <2>1, <2>2
<1>4. ASSUME NEW r \in Runners, ReadApplied(r) \/ ReadFails(r)
      PROVE  SeedsRightly(s)'
  BY <1>3, <1>4 DEF ReadApplied, ReadFails
<1>5. ASSUME NEW r \in Runners, Apply(r) \/ Record(r)
      PROVE  SeedsRightly(s)'
  <2>1. UNCHANGED <<records, todo, fresh, wasEmpty>>
    BY <1>5 DEF Apply, Record, readVars
  <2>2. CASE s # r
    <3>1. pc'[s] = pc[s]
      BY <1>5, <2>2 DEF Apply, Record, Abort, Goto, TypeOK
    <3> QED BY <1>1, <2>1, <3>1, SeedsKept
  <2>3. CASE s = r /\ Apply(r)
    <3>1. pc[s] = "apply" /\ pc'[s] \in {"duplicate", "record"}
      BY <2>3 DEF Apply, At, Goto, TypeOK
    <3>2. todo[s] = Migrations => pc'[s] = "record"
      BY <2>3, FirstMigration DEF Apply, Current, Goto, TypeOK
    <3> QED BY <1>1, <2>1, <3>1, <3>2 DEF SeedsRightly, At, Working
  <2>4. CASE s = r /\ Record(r)
    <3>1. pc[s] = "record" /\ pc'[s] \in {"exited", "commit"}
      BY <2>4 DEF Record, At, Abort, Goto, TypeOK
    <3>2. todo[s] = Migrations /\ 1 \in records => pc'[s] = "exited"
      BY <2>4, FirstMigration DEF Record, Current, Abort, Goto, TypeOK
    <3> QED BY <1>1, <2>1, <3>1, <3>2 DEF SeedsRightly, At, Working
  <2> QED BY <1>5, <2>2, <2>3, <2>4
<1>6. ASSUME NEW r \in Runners, Commit(r) \/ MarkApplied(r)
      PROVE  SeedsRightly(s)'
  <2>1. records \subseteq records' /\ UNCHANGED <<fresh, wasEmpty>> /\ Advance(r)
    BY <1>6 DEF Commit, MarkApplied, readVars
  <2>2. CASE s # r
    <3>1. todo'[s] = todo[s] /\ pc'[s] \in {pc[s], "exited"}
      BY <1>6, <2>1, <2>2 DEF Commit, MarkApplied, Advance, Goto, TypeOK
    <3> QED BY <1>1, <2>1, <3>1, SeedsKept
  <2>3. CASE s = r
    <3>1. pc[s] \in {"commit", "duplicate"} /\ pc'[s] = AfterCurrent(s)
      BY <1>6, <2>3 DEF Commit, MarkApplied, At, Goto, TypeOK
    <3>2. fresh[s] => wasEmpty[s]
      BY <1>1, <3>1 DEF SeedsRightly, Working
    <3>3. At(s, "seed")' => fresh[s]
      BY <3>1 DEF AfterCurrent, At
    <3> QED BY <2>1, <3>2, <3>3 DEF SeedsRightly
  <2> QED BY <2>2, <2>3
<1>7. CASE RollbackLast
  <2>1. UNCHANGED <<pc, todo, fresh, wasEmpty, records>>
    BY <1>7, MigrationsAssumption
    DEF RollbackLast, RollbackVersion, readVars, TypeOK, Migrations
  <2> QED BY <1>1, <2>1, SeedsKept
<1>8. CASE UNCHANGED vars
  BY <1>1, <1>8, SeedsKept DEF vars
<1> QED BY <1>2, <1>4, <1>5, <1>6, <1>7, <1>8 DEF Next, RunnerStep

-----------------------------------------------------------------------------
\* A runner that records a migration for the first time is in time for its next.
LEMMA NextInTime ==
  ASSUME TypeOK, PendingIsRest, AppliedInOrder, NEW r \in Runners,
         pc[r] \in Working, Current(r) \notin records,
         records' = records \cup {Current(r)}, Advance(r), pc'[r] = AfterCurrent(r)
  PROVE  InTime(r)'
<1> DEFINE m == Current(r)
<1>1. m \in todo[r] /\ m \in Migrations /\ todo[r] \subseteq Migrations
  BY CurrentPending DEF TypeOK
<1>2. todo'[r] = todo[r] \ {m}
  BY DEF Advance, TypeOK
<1>3. CASE todo[r] = {m}
  BY <1>3 DEF AfterCurrent, InTime, At, Working
<1>4. CASE todo[r] # {m}
  <2>1. Current(r)' \in todo[r] \ {m}
    <3>1. todo'[r] # {} /\ todo'[r] \in SUBSET Migrations
      BY <1>1, <1>2, <1>4
    <3>2. Current(r)' = Min(todo'[r])
      BY DEF Current
    <3> QED BY <1>2, <3>1, <3>2, FirstPending
  <2>2. m <= Current(r)'
    BY <1>1, <2>1, FirstPending DEF Current
  <2>3. Current(r)' \notin records
    <3> SUFFICES ASSUME Current(r)' \in records
                 PROVE  m \in records
      OBVIOUS
    <3>1. 1..Current(r)' \subseteq records
      BY DEF AppliedInOrder
    <3>2. m \in 1..Current(r)'
      <4> HIDE DEF m
      <4> QED BY <1>1, <2>1, <2>2, MigrationsAssumption DEF Migrations
    <3> QED BY <3>1, <3>2
  <2>4. Current(r)' \notin records'
    BY <2>1, <2>3
  <2>5. pc'[r] = "apply"
    BY <1>4 DEF AfterCurrent
  <2> QED BY <2>4, <2>5 DEF InTime, At
<1> QED BY <1>3, <1>4

\* Nothing makes a runner late but the record of its migration by another.
LEMMA InTimeKept ==
  ASSUME NEW s \in Runners, InTime(s), todo'[s] = todo[s], pc'[s] # "exited",
         pc'[s] \in Working => pc[s] \in Working /\ Current(s) \notin records'
  PROVE  InTime(s)'
BY DEF InTime, At, Current

\* Rows of schema_migrations are inserted one at a time.
LEMMA FreshStep ==
  ASSUME TypeOK, CommitFresh, [Next]_vars
  PROVE  CommitFresh'
<1>1. ASSUME records' = records,
             \A s \in Runners : At(s, "commit")' => At(s, "commit") /\ todo'[s] = todo[s]
      PROVE  CommitFresh'
  BY <1>1 DEF CommitFresh, RowFree, Current
<1>2. ASSUME NEW r \in Runners,
             \/ EnsureTable(r) \/ Seed(r) \/ Dies(r) \/ StartAgain(r) \/ Redeploy(r)
             \/ ReadApplied(r) \/ ReadFails(r) \/ Apply(r)
      PROVE  CommitFresh'
  <2>1. records' = records
    BY <1>2 DEF EnsureTable, Seed, Dies, StartAgain, Redeploy, Restart, ReadApplied,
                ReadFails, Apply
  <2>2. ASSUME NEW s \in Runners, At(s, "commit")'
        PROVE  At(s, "commit") /\ todo'[s] = todo[s]
    BY <1>2, <2>2
       DEF EnsureTable, Seed, Dies, Abort, StartAgain, Redeploy, Restart, ReadApplied,
           ReadFails, TakeForApplied, Apply, Goto, At, TypeOK
  <2> QED BY <1>1, <2>1, <2>2
<1>3. ASSUME NEW r \in Runners, Record(r)
      PROVE  CommitFresh'
  <2>1. UNCHANGED <<records, todo>> /\ RowFree(r)
    BY <1>3 DEF Record
  <2>2. \A s \in Runners \ {r} : pc'[s] = pc[s]
    BY <1>3 DEF Record, Abort, Goto, TypeOK
  <2>3. At(r, "commit")' => Current(r) \notin records
    BY <1>3 DEF Record, Abort, Goto, At, TypeOK
  <2> QED BY <2>1, <2>2, <2>3 DEF CommitFresh, RowFree, At, Current
<1>4. ASSUME NEW r \in Runners, Commit(r) \/ MarkApplied(r)
      PROVE  CommitFresh'
  <2>1. /\ records' = records \cup {Current(r)} /\ RowFree(r)
        /\ \A s \in Runners \ {r} : todo'[s] = todo[s]
        /\ ~At(r, "commit")'
    BY <1>4 DEF Commit, MarkApplied, Advance, AfterCurrent, Goto, At, TypeOK, CommitFresh
  <2>2. \A s \in Runners : At(s, "commit")' => At(s, "commit") /\ s # r
    BY <1>4, <2>1 DEF Commit, MarkApplied, Goto, At, TypeOK
  <2> QED BY <2>1, <2>2 DEF CommitFresh, RowFree, Current
<1>5. CASE RollbackLast
  <2>1. UNCHANGED <<pc, todo, records>>
    BY <1>5, MigrationsAssumption DEF RollbackLast, RollbackVersion, TypeOK, Migrations
  <2> QED BY <1>1, <2>1 DEF At
<1>6. CASE UNCHANGED vars
  BY <1>1, <1>6 DEF vars, At
<1> QED BY <1>2, <1>3, <1>4, <1>5, <1>6 DEF Next, RunnerStep

\* Who makes the others late is itself in time for its next migration; who gives
\* up was late already.
LEMMA InTimeStep ==
  ASSUME TypeOK, PendingIsRest, AppliedInOrder, CommitFresh, SomeoneInTime, [Next]_vars
  PROVE  SomeoneInTime'
<1> SUFFICES ASSUME faults' = 0
             PROVE  \E s \in Runners : InTime(s)'
  BY DEF SomeoneInTime
<1>1. faults = 0
  <2>1. faults \in Nat /\ faults' # faults + 1
    BY MigrationsAssumption DEF TypeOK
  <2> QED BY <2>1 DEF Next, vars, environment, RunnerStep, EnsureTable, ReadApplied, Apply,
        Record, Commit, MarkApplied, Seed, StartAgain, Redeploy, Restart, ReadFails, Dies,
        Fault, RollbackLast
<1>2. ~\E r \in Runners : ReadFails(r) \/ Dies(r)
  BY <1>1 DEF ReadFails, Dies, Fault
<1>3. PICK w \in Runners : InTime(w)
  BY <1>1 DEF SomeoneInTime
<1>4. ASSUME NEW r \in Runners, EnsureTable(r) \/ StartAgain(r) \/ Redeploy(r)
      PROVE  InTime(r)'
  BY <1>4 DEF EnsureTable, StartAgain, Redeploy, Restart, Goto, TypeOK, InTime, At, Working
<1>5. ASSUME NEW r \in Runners, ReadApplied(r)
      PROVE  InTime(r)'
  <2>1. /\ records' = records /\ records \subseteq Migrations
        /\ todo'[r] = Migrations \ records
        /\ pc'[r] = IF records = Migrations THEN "done" ELSE "apply"
    BY <1>5 DEF ReadApplied, TakeForApplied, Goto, TypeOK
  <2>2. CASE records = Migrations
    BY <2>1, <2>2 DEF InTime, At, Working
  <2>3. CASE records # Migrations
    <3>1. todo'[r] # {} /\ todo'[r] \in SUBSET Migrations
      BY <2>1, <2>3
    <3>2. Current(r)' = Min(todo'[r])
      BY DEF Current
    <3>3. Current(r)' \notin records'
      BY <2>1, <3>1, <3>2, FirstPending
    <3> QED BY <2>1, <2>3, <3>3 DEF InTime, At
  <2> QED BY <2>2, <2>3
<1>6. ASSUME NEW r \in Runners, Apply(r) \/ Record(r) \/ Seed(r)
      PROVE  InTime(w)'
  <2>1. UNCHANGED <<records, todo>>
    BY <1>6 DEF Apply, Record, Seed
  <2>2. pc'[w] # "exited"
    BY <1>3, <1>6 DEF Apply, Record, Abort, Seed, Goto, TypeOK, InTime, At, Working
  <2>3. pc'[w] \in Working => pc[w] \in Working
    BY <1>6 DEF Apply, Record, Abort, Seed, Goto, TypeOK, At, Working
  <2>4. pc'[w] \in Working => Current(w) \notin records'
    BY <1>3, <2>1, <2>3 DEF InTime
  <2> QED BY <1>3, <2>1, <2>2, <2>3, <2>4, InTimeKept
<1>7. ASSUME NEW r \in Runners, Commit(r) \/ MarkApplied(r)
      PROVE  \E s \in Runners : InTime(s)'
  <2>1. /\ pc[r] \in Working /\ records' = records \cup {Current(r)} /\ Advance(r)
        /\ pc'[r] = AfterCurrent(r)
    BY <1>7 DEF Commit, MarkApplied, At, Goto, TypeOK, Working
  <2>2. CASE Current(r) \notin records
    BY <2>1, <2>2, NextInTime
  <2>3. CASE Current(r) \in records
    <3>1. MarkApplied(r)
      BY <1>7, <2>3 DEF Commit, CommitFresh
    <3>2. w # r
      BY <1>3, <2>1, <2>3 DEF InTime
    <3>3. pc'[w] = pc[w] /\ todo'[w] = todo[w] /\ records' = records
      BY <2>1, <2>3, <3>1, <3>2 DEF MarkApplied, Advance, Goto, TypeOK
    <3> QED BY <1>3, <3>3, InTimeKept DEF InTime, At
  <2> QED BY <2>2, <2>3
<1>8. CASE RollbackLast
  <2>1. UNCHANGED <<pc, todo, records>>
    BY <1>8, MigrationsAssumption DEF RollbackLast, RollbackVersion, TypeOK, Migrations
  <2> QED BY <1>3, <2>1, InTimeKept DEF InTime, At
<1>9. CASE UNCHANGED vars
  <2>1. UNCHANGED <<pc, todo, records>>
    BY <1>9 DEF vars
  <2> QED BY <1>3, <2>1, InTimeKept DEF InTime, At
<1> QED BY <1>2, <1>4, <1>5, <1>6, <1>7, <1>8, <1>9 DEF Next, RunnerStep

-----------------------------------------------------------------------------
\* The inductive invariant holds in every reachable state.
THEOREM MigrationInvariance == Spec => []IInv
<1>1. Init => IInv
  <2> SUFFICES ASSUME Init
               PROVE  IInv
    OBVIOUS
  <2>1. TypeOK
    <3>1. pc \in [Runners -> Running \cup {"exited", "done"}]
      BY DEF Init, Running
    <3>2. todo \in [Runners -> SUBSET Migrations]
      BY DEF Init
    <3>3. fresh \in [Runners -> BOOLEAN] /\ wasEmpty \in [Runners -> BOOLEAN]
      BY Zenon DEF Init
    <3>4. leftover \in Leftovers /\ objects \in [Migrations -> {"none", "some", "all"}]
      BY MigrationsAssumption DEF Init
    <3>5. builder \in [Migrations -> Runners \cup {NoRunner}]
      BY DEF Init
    <3>6. records \subseteq Migrations /\ table \in BOOLEAN
      BY DEF Init
    <3>7. rollbacks \in 0..MaxRollbacks /\ faults \in 0..MaxFaults
      BY MigrationsAssumption DEF Init
    <3> QED BY <3>1, <3>2, <3>3, <3>4, <3>5, <3>6, <3>7 DEF TypeOK
  <2>2. PendingIsRest /\ MisreadFails /\ SeedOnlyEmpty
    BY DEF Init, PendingIsRest, MisreadFails, SeedOnlyEmpty, At, Working
  <2>3. AppliedInOrder /\ OnlyCompleted /\ RecordedIsBuilt
    BY DEF Init, AppliedInOrder, OnlyCompleted, RecordedIsBuilt, At
  <2>4. CommitFresh /\ SomeoneInTime
    BY MigrationsAssumption DEF Init, CommitFresh, SomeoneInTime, InTime, At, Working
  <2> QED BY <2>1, <2>2, <2>3, <2>4 DEF IInv
<1>2. IInv /\ [Next]_vars => IInv'
  BY TypeStep, OrderStep, BuiltStep, SeedStep, FreshStep, InTimeStep DEF IInv
<1> QED BY <1>1, <1>2, PTL DEF Spec

\* Every runner stays at a statement of runMigrations, and what it takes for
\* pending are migrations of the directory.
THEOREM MigrationTypes == Spec => []TypeOK
<1>1. IInv => TypeOK
  BY DEF IInv
<1> QED BY <1>1, MigrationInvariance, PTL

\* However runners fail each other, crash and are started again (runMigrations),
\* no migration is recorded before those that precede it in the directory.
THEOREM RecordsInOrder == Spec => []AppliedInOrder
<1>1. IInv => AppliedInOrder
  BY DEF IInv
<1> QED BY <1>1, MigrationInvariance, PTL

\* What schema_migrations records exists, but for a bare migration that was
\* marked as applied over some of its objects.
THEOREM RecordsTrue == Spec => []RecordedIsBuilt
<1>1. IInv => RecordedIsBuilt
  BY DEF IInv
<1> QED BY <1>1, MigrationInvariance, PTL

\* A database with records is never seeded, although a failed read takes it for
\* a fresh one: its first migration is refused before the seed.
THEOREM LiveIsNotSeeded == Spec => []SeedOnlyEmpty
<1>1. IInv => SeedOnlyEmpty
  BY DEF IInv
<1> QED BY <1>1, MigrationInvariance, PTL

\* Of the runners on one database one is always on its way or done, whichever of
\* them fail on each other's tables and rows: no deployment fails as a whole.
THEOREM OneGetsThrough == Spec => []NotAllLose
<1>1. IInv => NotAllLose
  BY DEF IInv, SomeoneInTime, InTime, NotAllLose
<1> QED BY <1>1, MigrationInvariance, PTL
=============================================================================
