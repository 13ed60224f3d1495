SPECIFICATION Spec
CONSTANTS
  MaxSends = 1
  MaxLen = 3
  MaxParts = 2
  IovMax = 2
  HighWater = 3
  MaxConnects = 2
  Reconnect = TRUE
  SendBuf = 2
  NPollers = 2
  NFds = 3
  MaxStarts = 1
  MaxPackets = 2
  NPool = 2
  Window = 4
  MaxTime = 1
  RangeStart = 65528
  RangeEnd = 65534
  Grow = 2
INVARIANT Registered
CHECK_DEADLOCK FALSE
