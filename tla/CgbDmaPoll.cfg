SPECIFICATION Spec
CONSTANTS
  MaxBlocks = 1
  Mode3Min = 32
  VramPages = 1
  HighMod = 1
  PageBytes = 1
INVARIANTS
  Ff55Readable
CHECK_DEADLOCK FALSE
