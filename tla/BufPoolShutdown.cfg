CONSTANTS
  Blocks = {b1, b2, b3}
  Loop = Loop
  Main = Main
  Foreign = {f1}
  MaxFree = 2
  None = None
SPECIFICATION Spec
INVARIANTS
  DrainedBeforeDetach
