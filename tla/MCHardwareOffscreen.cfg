\* Objects off the screen, on lines of every kind.
SPECIFICATION Spec
CONSTANTS
  Unset = Unset
  Kinds = {"line"}
  \* The dots and the time of mode 3 are those of the PPU; six scanlines.
  DotsPerScanline = 456
  TotalScanlines = 6
  FirstVBlankScanline = 4
  OamStatDot = 4
  StartupDot = 7
  Mode3Dot = 84
  RendererDot = 89
  StartupMode3Dot = 87
  StartupRendererDot = 92
  MinTransfer = 168
  MaxTransfer = 363
  Mode3Min = 172
  Sources = {"hblank", "oam", "lyc"}
  LycValues = {0, 5}
  LycDots = {440}
  \* Lines with objects in all places, and a program that acts on some of them
  \* before their tenth pixel.
  Lines <- AllLines
  StartupLines <- FirstLines
  Disturbed <- DisturbedLines
  RewriteUntil = 10
  WindowValues = {7, 14, 255}
  \* Two ticks of the divider and four steps.
  Steps = 4
  DivMod = 2
  \* Periods of two bits instead of eleven, one tick of length instead of 64.
  PulseLength = 1
  PulseOnCgb = FALSE
  PulseLow = 2
  PulseHigh = 2
  Shifts = {0, 1}
  Paces = {0, 1}
  PaceWhenZero = 2
  \* Two groups of one byte, periods of one bit.
  WaveLength = 2
  WaveOnCgb = FALSE
  WaveLow = 2
  WaveHigh = 1
  RamSize = 2
  GroupSize = 1
  StartupDelay = 5
  Bytes = {0, 1}
  Blocked = 99
  \* A shift register of 5 bits, with 2 in narrow mode.
  NoiseLength = 1
  NoiseOnCgb = TRUE
  LfsrBits = 5
  NarrowBits = 2
  DivisorUnit = 1
  Dividers = {0, 1}
  ClockShifts = {0}
  CounterMod = 65536
  \* Four bytes of OAM, six T-cycles a byte on the serial port.
  TotalBytes = 4
  TCyclesPerByte = 4
  SerialTCycles = 6
  Pages = {PageA, PageB}
  Operands = {9, 80, 153, 255}
  HighBytes = {0, 15, 255}
INVARIANT OffscreenStaysOff
CHECK_DEADLOCK TRUE
