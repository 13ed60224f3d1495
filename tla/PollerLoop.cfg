CONSTANTS
  Producers = {p1, p2}
  PipeCap = 1
  MaxTasks = 3
  MaxRuns = 2
  MaxIntr = 1
SPECIFICATION FairSpec
INVARIANTS
  NoLostWakeup
  NoOvertake
  ExactlyOnce
  DestroyRunsPosted
PROPERTIES
  PostedRuns
  StopEndsRun
