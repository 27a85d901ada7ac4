SPECIFICATION FairSpec
CONSTANTS
  r1 = r1
  r2 = r2
  r3 = r3
  Runners = {r1, r2, r3}
  Cli = {r1}
  NoRunner = NoRunner
  Last = 3
  Bare = {3}
  Leftovers <- Databases
  Faults = {"read", "crash"}
  MaxFaults = 1
  MaxRollbacks = 1
INVARIANTS
  TypeOK
  RecordedIsBuilt
  AppliedInOrder
  SeedOnlyEmpty
  NotAllLose
PROPERTIES
  AlwaysComesUp
CHECK_DEADLOCK FALSE
