CONSTANTS
  Blocks = {b1, b2, b3}
  Loop = Loop
  Main = Main
  Foreign = {}
  MaxFree = 2
  None = None
SPECIFICATION FairSpec
INVARIANTS
  NoFreelistRace
  SingleHome
PROPERTIES
  Reclaimed
