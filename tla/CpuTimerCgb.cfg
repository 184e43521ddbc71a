SPECIFICATION FairSpec
CONSTANTS
  DivMod = 48
  TimaMax = 0
  Masks = {8}
  IsCgb = TRUE
INVARIANTS
  PhaseRestartsWithInstruction
PROPERTIES
  TimerKeepsFiring
CHECK_DEADLOCK TRUE
