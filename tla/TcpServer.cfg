CONSTANTS
  NPollers = 2
  NConns = 2
  MaxStarts = 2
  None = None
SPECIFICATION FairSpec
INVARIANTS
  SessionHome
PROPERTIES
  ManagerRound
  StopQuiet
  QueuedServed
CHECK_DEADLOCK FALSE
