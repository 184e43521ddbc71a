SPECIFICATION Spec
CONSTANTS
  DivMod = 64
  TimaMax = 0
  Masks = {32}
  IsCgb = TRUE
INVARIANTS
  CatchUpBounded
CHECK_DEADLOCK TRUE
