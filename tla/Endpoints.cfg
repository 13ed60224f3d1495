SPECIFICATION FairSpec
CONSTANTS
  MaxSends = 2
  MaxLen = 2
  MaxParts = 3
  IovMax = 2
  HighWater = 3
  MaxConnects = 2
  Reconnect = FALSE
  SendBuf = 2
  NPollers = 2
  NFds = 3
  MaxStarts = 3
  MaxPackets = 2
  NPool = 3
  Window = 1
  MaxTime = 2
  RangeStart = 65528
  RangeEnd = 65534
  Grow = 2
INVARIANT WireOrder SessionBalanced UdpReachable RtpAccounted
PROPERTY SessionDrains CallbackProtocol ConnectResolves UdpServed TakesLightestSeen
CHECK_DEADLOCK FALSE
