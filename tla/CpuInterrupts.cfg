\* Every program, with three sources.
SPECIFICATION FairSpec
CONSTANTS
  Sources = {0, 1, 2}
INVARIANTS
  TypeOK
  HandlerRunsMasked
  EiDelayIsOneInstruction
  HaltBugHitsNextInstruction
PROPERTIES
  HaltWakes
  HighestIsServed
CHECK_DEADLOCK TRUE
