SPECIFICATION PoolSpec
CONSTANTS
  NPool = 3
  Window = 4
  MaxTime = 4
INVARIANT PickLightest
CHECK_DEADLOCK FALSE
