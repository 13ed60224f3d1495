CONSTANTS
  Producers = {p1, p2}
  Cap = 2
  MaxPush = 3
  None = None
SPECIFICATION FairSpec
INVARIANTS
  CellExclusive
PROPERTIES
  Refines
  AgainOnlyWhenFull
  ClaimedIsPopped
