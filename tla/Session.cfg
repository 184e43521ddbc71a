SPECIFICATION Spec
CONSTANTS
  Layouts = {"mbc1", "mbc3"}
  MaxFrames = 2
  None = None
  Garbled = Garbled
INVARIANTS
  TypeOK
  OneMachine
PROPERTIES
  RejectedChangesNothing
CHECK_DEADLOCK FALSE
