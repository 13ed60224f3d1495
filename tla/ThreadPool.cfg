CONSTANTS
  N = 2
  Clients = {c1, c2}
  MaxTasks = 3
  MaxStarts = 2
SPECIFICATION FairSpec
INVARIANTS
  TypeOK
  TokenBalance
  NoEarlyExit
  FiniRunsAll
PROPERTIES
  FiniReturns
  SubmittedRuns
CHECK_DEADLOCK FALSE
