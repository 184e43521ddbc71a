SPECIFICATION Spec
CONSTANTS
  Layouts = {"mbc1", "mbc3"}
  MaxFrames = 2
  None = None
  Garbled = Garbled
PROPERTIES
  RejectedRomUntouched
CHECK_DEADLOCK FALSE
