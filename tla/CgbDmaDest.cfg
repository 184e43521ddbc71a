SPECIFICATION Spec
CONSTANTS
  MaxBlocks = 2
  Mode3Min = 32
  VramPages = 2
  HighMod = 4
  PageBytes = 16
INVARIANTS
  DestInVram
CHECK_DEADLOCK FALSE
