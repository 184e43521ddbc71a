SPECIFICATION FairSpec
CONSTANTS
  MaxBlocks = 2
  Mode3Min = 34
  VramPages = 1
  HighMod = 1
  PageBytes = 1
INVARIANTS
  TypeOK
  WaitingIsWholeBlocks
PROPERTIES
  MovesBlocks
  Ff55KeepsCount
  DmaEnds
CHECK_DEADLOCK FALSE
