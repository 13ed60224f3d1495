CONSTANTS
  Timers = {t1, t2}
  Delays = {0, 2}
  MaxNow = 3
  FlushMax = 1
  PollMs = 1
  NoTimer = NoTimer
SPECIFICATION Spec
INVARIANTS
  TaskDataValid
