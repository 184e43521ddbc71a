SPECIFICATION Spec
CONSTANTS
  DivMod = 64
  TimaMax = 2
  Masks = {8, 16}
  IsCgb = FALSE
INVARIANTS
  TypeOK
  CatchUpBounded
  ReloadIsClean
CHECK_DEADLOCK TRUE
