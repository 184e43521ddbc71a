----------------------------- MODULE MCHardware ------------------------------
(***************************************************************************)
(* The parts of the machine that Mmu::runNextTCycle() and                  *)
(* Ppu::runNextTCycle() carry on beside the CPU, and the arithmetic of the *)
(* CPU, one at a time: frames and lines of the PPU, three kinds of sound   *)
(* channel, the transfers, and the accumulator.                            *)
(*                                                                         *)
(* They share no state that the models keep, so they are checked side by   *)
(* side: "kind" says which of them a behaviour is about.  The constants    *)
(* are those of the parts, and the runs give them their values; sound      *)
(* channels differ in some of theirs.                                      *)
(***************************************************************************)
EXTENDS Integers, Sequences

CONSTANTS
  Unset,     \* no value
  Kinds      \* which of the parts are checked

CONSTANTS   \* PpuTiming, and of MinTransfer and MaxTransfer Renderer as well
  DotsPerScanline, TotalScanlines, FirstVBlankScanline, OamStatDot, StartupDot,
  Mode3Dot, RendererDot, StartupMode3Dot, StartupRendererDot,
  MinTransfer, MaxTransfer, Mode3Min, Sources, LycValues, LycDots

CONSTANTS   \* Renderer; the runs draw AllLines and FirstLines, below
  Lines, StartupLines, Disturbed, RewriteUntil, WindowValues

CONSTANTS   \* SoundChannel and the channels
  Steps, DivMod,
  PulseLength, PulseOnCgb, PulseLow, PulseHigh, Shifts, Paces, PaceWhenZero,
  WaveLength, WaveOnCgb, WaveLow, WaveHigh, RamSize, GroupSize, StartupDelay, Bytes, Blocked,
  NoiseLength, NoiseOnCgb, LfsrBits, NarrowBits, DivisorUnit, Dividers, ClockShifts, CounterMod

CONSTANTS
  TotalBytes, TCyclesPerByte, SerialTCycles, Pages,   \* Transfers
  Operands, HighBytes                                 \* CpuArithmetic

VARIABLES
  kind,
  lcdc, lyc, ppu, told, lines, hblanks, since, age,                   \* PpuTiming
  phase, startup, line, wx, objects, pipe, shown, calls, moved,       \* Renderer
  div, seq, channel,                    \* PulseChannel, WaveChannel, NoiseChannel
  waveRam, accessed, justFetched, lastFetched,                     \* WaveChannel
  narrowed,                                                        \* NoiseChannel
  dma, oam, sc, countdown, requested, page,                           \* Transfers
  a, f, sum                                                       \* CpuArithmetic

frameVars == <<lcdc, lyc, ppu, told, lines, hblanks, since, age>>
lineVars == <<phase, startup, line, wx, objects, pipe, shown, calls, moved>>
soundVars == <<div, seq, channel>>
waveVars == <<waveRam, accessed, justFetched, lastFetched>>
transferVars == <<dma, oam, sc, countdown, requested, page>>
arithmeticVars == <<a, f, sum>>
vars == <<kind, frameVars, lineVars, soundVars, waveVars, narrowed, transferVars, arithmeticVars>>

-----------------------------------------------------------------------------
(* Lines to draw: objects at and over both edges of the screen, on top of  *)
(* each other, ten in a row and eleven, the window at its extremes.        *)

At(xs) ==
  [i \in DOMAIN xs |-> [x |-> xs[i], oamIndex |-> 2 * i + 1, opaque |-> TRUE]]

\* A transparent object over two others at one place.
Stacked == <<[x |-> 20, oamIndex |-> 3, opaque |-> FALSE],
             [x |-> 18, oamIndex |-> 7, opaque |-> TRUE],
             [x |-> 18, oamIndex |-> 9, opaque |-> TRUE]>>

Overlapping == {Stacked, At(<<20, 15>>), At(<<15, 20>>), At(<<30, 11, 14, 20>>)}

Placed ==
  {At(<<>>), At(<<0>>), At(<<1>>), At(<<2>>), At(<<3>>), At(<<5>>), At(<<7>>),
   At(<<8>>), At(<<9>>), At(<<12>>), At(<<8, 8>>), At(<<160, 167>>), At(<<168>>),
   At(<<0, 0, 0, 0, 0, 0, 0, 0, 0, 0>>), At(<<9, 17, 25, 33, 41, 49, 57, 65, 73, 81>>),
   At(<<100, 90, 80, 70, 60, 50, 40, 30, 20, 10, 5>>)} \union Overlapping

LinesOf(scx, byIndex, wxs, found) ==
  [scx : scx, byIndex : byIndex, wx : wxs, objects : found]

DisturbedLines == LinesOf({0, 3}, {FALSE}, {255}, {At(<<15, 20>>)})
                  \union LinesOf({0}, {FALSE}, {20}, {Stacked})

AllLines ==
  DisturbedLines
  \union LinesOf({0, 1, 5, 7}, {FALSE}, {255}, Placed)
  \union LinesOf({0, 3}, {TRUE}, {255}, Overlapping)
  \union LinesOf({0, 1, 5, 7}, {FALSE}, {0, 3, 6, 7, 8, 20, 166},
                 {At(<<>>), At(<<2>>), At(<<12>>), At(<<30, 11, 14, 20>>)})

FirstLines == LinesOf({0}, {FALSE}, {255, 10},
                      {At(<<15, 20>>), At(<<100, 90, 80, 70, 60, 50, 40, 30, 20, 10>>)})

-----------------------------------------------------------------------------
Frame == INSTANCE PpuTiming

Line == INSTANCE Renderer WITH Width <- 160, MaxObjects <- 10

Pulse == INSTANCE PulseChannel WITH
  MaxLength <- PulseLength, IsCgbHardware <- PulseOnCgb,
  PeriodLow <- PulseLow, PeriodHigh <- PulseHigh

Wave == INSTANCE WaveChannel WITH
  MaxLength <- WaveLength, IsCgbHardware <- WaveOnCgb,
  PeriodLow <- WaveLow, PeriodHigh <- WaveHigh

Noise == INSTANCE NoiseChannel WITH
  MaxLength <- NoiseLength, IsCgbHardware <- NoiseOnCgb

Transfer == INSTANCE Transfers WITH None <- Unset

Arithmetic == INSTANCE CpuArithmetic

ASSUME HardwareAssumption ==
  /\ Kinds \subseteq {"frame", "line", "pulse", "wave", "noise", "transfers", "arithmetic"}
  /\ Frame!PpuTimingAssumption /\ Frame!Mode3IsLong /\ Line!RendererAssumption
  /\ Pulse!SoundChannelAssumption /\ Pulse!PulseChannelAssumption
  /\ Wave!SoundChannelAssumption /\ Wave!WaveChannelAssumption
  /\ Noise!SoundChannelAssumption /\ Noise!NoiseChannelAssumption
  /\ Transfer!TransfersAssumption /\ Arithmetic!CpuArithmeticAssumption

-----------------------------------------------------------------------------
NoFrame ==
  /\ lcdc = Unset  /\ lyc = Unset  /\ ppu = Unset  /\ told = Unset  /\ lines = Unset
  /\ hblanks = Unset  /\ since = Unset  /\ age = Unset
NoLine ==
  /\ phase = Unset  /\ startup = Unset  /\ line = Unset  /\ wx = Unset
  /\ objects = Unset  /\ pipe = Unset  /\ shown = Unset  /\ calls = Unset
  /\ moved = Unset
NoSound ==
  /\ div = Unset  /\ seq = Unset  /\ channel = Unset
NoWave ==
  /\ waveRam = Unset  /\ accessed = Unset  /\ justFetched = Unset
  /\ lastFetched = Unset
NoTransfers ==
  /\ dma = Unset  /\ oam = Unset  /\ sc = Unset  /\ countdown = Unset
  /\ requested = Unset  /\ page = Unset
NoNoise == narrowed = Unset
NoArithmetic == a = Unset /\ f = Unset /\ sum = Unset

Init ==
  /\ kind \in Kinds
  /\ IF kind = "frame" THEN Frame!Init ELSE NoFrame
  /\ IF kind = "line" THEN Line!Init ELSE NoLine
  /\ CASE kind = "pulse" -> Pulse!Init /\ NoWave /\ NoNoise
       [] kind = "wave" -> Wave!Init /\ NoNoise
       [] kind = "noise" -> Noise!Init /\ NoWave
       [] OTHER -> NoSound /\ NoWave /\ NoNoise
  /\ IF kind = "transfers" THEN Transfer!Init ELSE NoTransfers
  /\ IF kind = "arithmetic" THEN Arithmetic!Init ELSE NoArithmetic

ButFrame == UNCHANGED <<kind, lineVars, soundVars, waveVars, narrowed, transferVars, arithmeticVars>>
ButLine == UNCHANGED <<kind, frameVars, soundVars, waveVars, narrowed, transferVars, arithmeticVars>>
ButPulse == UNCHANGED <<kind, frameVars, lineVars, waveVars, narrowed, transferVars, arithmeticVars>>
ButWave == UNCHANGED <<kind, frameVars, lineVars, narrowed, transferVars, arithmeticVars>>
ButNoise == UNCHANGED <<kind, frameVars, lineVars, waveVars, transferVars, arithmeticVars>>
ButTransfers ==
  UNCHANGED <<kind, frameVars, lineVars, soundVars, waveVars, narrowed, arithmeticVars>>
ButArithmetic ==
  UNCHANGED <<kind, frameVars, lineVars, soundVars, waveVars, narrowed, transferVars>>

Next ==
  \/ kind = "frame" /\ Frame!Next /\ ButFrame
  \/ kind = "line" /\ Line!Next /\ ButLine
  \/ kind = "pulse" /\ Pulse!Next /\ ButPulse
  \/ kind = "wave" /\ Wave!Next /\ ButWave
  \/ kind = "noise" /\ Noise!Next /\ ButNoise
  \/ kind = "transfers" /\ Transfer!Next /\ ButTransfers
  \/ kind = "arithmetic" /\ Arithmetic!Next /\ ButArithmetic

TCycle ==
  \/ kind = "frame" /\ Frame!Tick /\ ButFrame
  \/ kind = "line" /\ Line!HandlePixelTransfer /\ ButLine
  \/ kind = "pulse" /\ Pulse!RunNextTCycle /\ ButPulse
  \/ kind = "wave" /\ Wave!RunNextTCycle /\ ButWave
  \/ kind = "noise" /\ Noise!RunNextTCycle /\ ButNoise
  \/ kind = "transfers" /\ Transfer!RunNextTCycle /\ ButTransfers

\* A T-cycle has nothing to do: the LCD is off, or the renderer, or both
\* transfers.
Still ==
  \/ kind = "frame" /\ ~lcdc /\ ~ppu.lcdEnabled
  \/ kind = "line" /\ phase # "transfer"
  \/ kind = "transfers" /\ dma = Unset /\ countdown = Unset

\* Cpu::advanceHardware() keeps the T-cycles coming: weak fairness of TCycle,
\* with the states in which it is not enabled, or changes nothing, in Still.
Fairness == []<>Still \/ []<><<TCycle>>_vars

Spec == Init /\ [][Next]_vars /\ Fairness

-----------------------------------------------------------------------------
(* Properties: those of the parts, each for the behaviours it is about.    *)

TypeOK ==
  CASE kind = "frame" -> Frame!TypeOK
    [] kind = "line" -> Line!TypeOK
    [] kind = "pulse" -> Pulse!TypeOK
    [] kind = "wave" -> Wave!TypeOK
    [] kind = "noise" -> Noise!TypeOK
    [] kind = "transfers" -> Transfer!TypeOK
    [] kind = "arithmetic" -> Arithmetic!TypeOK

\* Every visible line lets an H-Blank transfer move one block, and only after
\* the time that CgbDma relies on (PpuTiming).
HBlanksPaceDma ==
  [][kind = "frame" => Frame!OneHBlankPerLine /\ Frame!HBlankIsLate]_vars

\* Frames are whole when VBlank is requested, and LY=LYC requests its interrupt
\* once in each of them (PpuTiming).
InterruptsFollowFrames ==
  [][kind = "frame" => Frame!VBlankFollowsFrame /\ Frame!LycIsDue]_vars

\* An LCD left on keeps showing frames (PpuTiming).
FramesKeepComing ==
  <>[](kind = "frame" /\ lcdc) => []<>(kind = "frame" /\ "frame" \in told)

\* A line takes the renderer a time that leaves room for the rest (Renderer).
LineFits == kind = "line" => Line!LineFits

\* What is drawn of a line is what ScanLine promises, to its end (Renderer).
Drawn == INSTANCE ScanLine WITH
  Width <- 160,
  NoObject <- Line!NoObject,
  on <- kind = "line" /\ phase = "transfer",
  scroll <- IF kind = "line" THEN line.scx ELSE 0,
  objects <- IF kind = "line" THEN Line!Promised ELSE <<>>,
  byIndex <- kind = "line" /\ line.byIndex,
  wx <- IF kind = "line" THEN Line!WindowBegins ELSE 255,
  moved <- kind = "line" /\ moved,
  x <- IF kind = "line" THEN pipe.x ELSE 0,
  shown <- IF kind = "line" THEN shown ELSE Unset
DrawsTheLine == Drawn!Spec

\* A channel that plays has something left that will stop it, its DAC on and
\* the APU on (PulseChannel, WaveChannel, NoiseChannel).
PlayingHasLength ==
  /\ kind = "pulse" => Pulse!PlayingHasLength
  /\ kind = "wave" => Wave!PlayingHasLength
  /\ kind = "noise" => Noise!PlayingHasLength

\* The sweep stops a note before its period overflows, and one that has
\* subtracted never adds (PulseChannel).
SweepStopsInTime ==
  kind = "pulse" => Pulse!SweepStopsInTime /\ Pulse!SubtractionIsFinal

\* The CPU meets the wave channel at the byte it fetches (WaveChannel).
AccessesMeetFetches == [][kind = "wave" => Wave!AccessMeetsFetch]_vars

\* The shift register of a note does not run dry (NoiseChannel).
NoiseNeverFreezes == kind = "noise" => Noise!NoiseNeverFreezes

\* OAM holds what was asked for last (Transfers).
OamIsOnePage == kind = "transfers" => Transfer!OamIsOnePage

\* Decimal numbers of several bytes add up (CpuArithmetic).
DecimalsAddUp == kind = "arithmetic" => Arithmetic!DecimalsAddUp

\* Words are what their bytes add up to (CpuArithmetic).
SumsAgree == kind = "arithmetic" => Arithmetic!SumsAgree

\* What the program started and leaves alone, the divider included, comes to
\* its end: a note whose length counter is on, and either transfer.
LeftAloneItEnds ==
  <>[][TCycle]_vars =>
    <>[](/\ kind \in {"pulse", "wave", "noise"} =>
              ~(channel.enabled /\ channel.lengthEnabled)
         /\ kind = "transfers" =>
              dma = Unset /\ countdown = Unset /\ ~(sc.start /\ sc.internal))

\* Nothing is seen of an object that is off the screen (Renderer).
OffscreenStaysOff == kind = "line" => Line!OffscreenStaysOff
=============================================================================
