CONSTANTS
  Timers = {t1, t2}
  Delays = {0, 2}
  MaxNow = 3
  FlushMax = 1
  PollMs = 1
  NoTimer = NoTimer
SPECIFICATION FairSpec
INVARIANTS
  SingleOwner
  QuietAfterCancel
  SleepBounded
PROPERTIES
  TimerFires
