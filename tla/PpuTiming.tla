----------------------------- MODULE PpuTiming -----------------------------
(***************************************************************************)
(* The timing of the PPU: Ppu::runNextTCycle() and Ppu::incrementDot(),    *)
(* one call a step, with the CPU switching the LCD on and off in between.  *)
(*                                                                         *)
(* The renderer is reduced to when handlePixelTransfer() reports that the  *)
(* line is full: after some number of calls between MinTransfer and        *)
(* MaxTransfer.  What the T-cycle tells the rest of the machine (the STAT  *)
(* and VBlank interrupts, the H-Blank notification, the completed frame)   *)
(* is left in "told" until the next one.                                   *)
(***************************************************************************)
EXTENDS Integers

CONSTANTS
  DotsPerScanline,      \* 456
  TotalScanlines,       \* 154
  FirstVBlankScanline,  \* 144
  OamStatDot,           \* dot from which STAT shows mode 2 (4)
  StartupDot,           \* dot on which a switched-on LCD starts (7)
  Mode3Dot, RendererDot,               \* 84 and 89
  StartupMode3Dot, StartupRendererDot, \* 87 and 92
  MinTransfer, MaxTransfer, \* calls a line takes the renderer (168, ...)
  Mode3Min,   \* what CgbDma takes for granted of mode 3
  Sources,    \* the STAT interrupts the program has enabled
  LycValues,  \* what the program writes to LYC
  LycDots     \* the dots of a line on which it does, with the LCD on (a bound)

PpuTimingAssumption ==
  /\ {DotsPerScanline, TotalScanlines, OamStatDot, StartupDot, Mode3Dot,
      RendererDot, StartupMode3Dot, StartupRendererDot, MinTransfer, MaxTransfer,
      Mode3Min} \subseteq Nat
  /\ FirstVBlankScanline \in 1 .. TotalScanlines - 1
  /\ 0 < OamStatDot /\ OamStatDot < Mode3Dot
  /\ StartupDot < StartupMode3Dot
  /\ Mode3Dot < RendererDot /\ StartupMode3Dot < StartupRendererDot
  /\ RendererDot <= StartupRendererDot
  /\ 0 < MinTransfer /\ MinTransfer <= MaxTransfer
  /\ StartupRendererDot + MaxTransfer < DotsPerScanline
  /\ Sources \subseteq {"hblank", "vblank", "oam", "lyc"}
  /\ 0 \in LycValues /\ LycValues \subseteq 0 .. 255

\* With these dots STAT shows another mode than 0 for Mode3Min T-cycles of a
\* line, from where it shows mode 2 or, on the first line, mode 3.
Mode3IsLong ==
  /\ Mode3Min <= RendererDot - OamStatDot + MinTransfer
  /\ Mode3Min <= StartupRendererDot - StartupMode3Dot + MinTransfer

VARIABLES
  lcdc,   \* bit 7 of LCDC
  lyc,    \* LYC
  ppu,    \* the members of Ppu, and the read-only bits of STAT
  told,   \* what the last T-cycle told the machine
  lines,  \* history: lines drawn since the last VBlank interrupt
  hblanks,\* history: H-Blank notifications on the current line
  since,  \* history: T-cycles since STAT last showed mode 0, up to Mode3Min
  age     \* history: scanlines since the last request for LY=LYC, or NoRequest
          \* when LCD or LYC have been touched since

vars == <<lcdc, lyc, ppu, told, lines, hblanks, since, age>>

HBlank == "hblank"
VBlank == "vblank"
OAMSearch == "oam"
PixelTransfer == "transfer"
Modes == {HBlank, VBlank, OAMSearch, PixelTransfer}

Notices == {"statInterrupt", "lycInterrupt", "vblankInterrupt", "hblankStart",
            "frame", "white"}
NoRequest == -1

Ppu == [lcdEnabled : BOOLEAN, lcdStartupLine : BOOLEAN, blankFirstFrame : BOOLEAN,
        dot : 0 .. DotsPerScanline - 1, scanline : 0 .. TotalScanlines - 1,
        mode : Modes, stat : Modes, coincidence : BOOLEAN,
        calls : 0 .. MaxTransfer]

TypeOK ==
  /\ lcdc \in BOOLEAN /\ lyc \in LycValues
  /\ ppu \in Ppu
  /\ told \subseteq Notices
  /\ lines \in 0 .. FirstVBlankScanline
  /\ hblanks \in 0 .. 1
  /\ since \in 0 .. Mode3Min
  /\ age \in NoRequest .. TotalScanlines

\* STAT is cleared with the rest of the I/O registers.
Init ==
  /\ lcdc = FALSE /\ lyc = 0
  /\ ppu = [lcdEnabled |-> FALSE, lcdStartupLine |-> FALSE,
            blankFirstFrame |-> FALSE, dot |-> 0, scanline |-> 0,
            mode |-> OAMSearch, stat |-> HBlank, coincidence |-> FALSE, calls |-> 0]
  /\ told = {} /\ lines = 0 /\ hblanks = 0 /\ since = 0 /\ age = NoRequest

-----------------------------------------------------------------------------
(* The pieces of a T-cycle, as functions from the PPU before to the PPU    *)
(* after, and what each of them tells the machine.                         *)

Visible(p) == p.scanline < FirstVBlankScanline

\* updateStatMode()
StatInterrupt(mode) == IF mode \in Sources THEN {"statInterrupt"} ELSE {}

\* updateStatCoincidence()
CoincidenceInterrupt(scanline) ==
  IF scanline = lyc /\ "lyc" \in Sources THEN {"lycInterrupt"} ELSE {}

SwitchOff(p) ==
  [p EXCEPT !.lcdEnabled = FALSE, !.lcdStartupLine = FALSE, !.dot = 0,
            !.scanline = 0, !.mode = HBlank, !.stat = HBlank,
            !.coincidence = (lyc = 0)]

SwitchOn(p) ==
  [p EXCEPT !.lcdEnabled = TRUE, !.lcdStartupLine = TRUE,
            !.blankFirstFrame = TRUE, !.dot = StartupDot, !.scanline = 0,
            !.mode = HBlank, !.stat = HBlank, !.coincidence = (lyc = 0)]

\* Whether this T-cycle runs the renderer.
Renders(p) ==
  /\ p.mode = PixelTransfer
  /\ p.dot >= (IF p.lcdStartupLine THEN StartupRendererDot ELSE RendererDot)

\* Whether the renderer may report now that the line is full.
CanEnd(p, ends) ==
  IF ~Renders(p) THEN ~ends
  ELSE /\ ends => p.calls + 1 >= MinTransfer
       /\ ~ends => p.calls + 1 < MaxTransfer

\* The switch over the mode: only mode 3 changes it.
HandleMode(p, ends) ==
  IF ~Renders(p) THEN p
  ELSE IF ends THEN [p EXCEPT !.mode = HBlank, !.stat = HBlank, !.calls = 0]
       ELSE [p EXCEPT !.calls = @ + 1]

\* Mutant: only lines above the first tell of their H-Blank.
HBlankStartsLate(p, ends) == ends /\ p.scanline \in 1 .. FirstVBlankScanline - 1

\* notifyHBlankStart()
HBlankStarts(p, ends) == ends /\ p.scanline <= FirstVBlankScanline - 1

\* Mutant: lines are counted without coming round.
NextLineUnwrapped(p) ==
  LET line == p.scanline + 1
      q == [p EXCEPT !.dot = 0, !.scanline = line, !.coincidence = (line = lyc)]
  IN  IF line < FirstVBlankScanline THEN [q EXCEPT !.mode = OAMSearch]
      ELSE [q EXCEPT !.mode = VBlank, !.stat = VBlank,
                     !.blankFirstFrame = @ /\ line # FirstVBlankScanline]

\* Mutant: after the first blank frame all others are blank.
NextLineKeepingBlank(p) ==
  LET line == (p.scanline + 1) % TotalScanlines
      q == [p EXCEPT !.dot = 0, !.scanline = line, !.coincidence = (line = lyc)]
  IN  IF line < FirstVBlankScanline THEN [q EXCEPT !.mode = OAMSearch]
      ELSE [q EXCEPT !.mode = VBlank, !.stat = VBlank]

\* The first half of incrementDot(): the dot was the last of its line.
NextLine(p) ==
  LET line == (p.scanline + 1) % TotalScanlines
      q == [p EXCEPT !.dot = 0, !.scanline = line, !.coincidence = (line = lyc)]
  IN  IF line < FirstVBlankScanline THEN [q EXCEPT !.mode = OAMSearch]
      ELSE [q EXCEPT !.mode = VBlank, !.stat = VBlank,
                     !.blankFirstFrame = @ /\ line # FirstVBlankScanline]

\* Mutant: VBlank is requested on every one of its lines.
NextLineTellsAlways(p) ==
  LET line == (p.scanline + 1) % TotalScanlines
  IN  CoincidenceInterrupt(line) \union
      IF line >= FirstVBlankScanline
      THEN StatInterrupt(VBlank) \union
             {"vblankInterrupt", IF p.blankFirstFrame THEN "white" ELSE "frame"}
      ELSE IF line > 0 THEN StatInterrupt(OAMSearch) ELSE {}

NextLineTells(p) ==
  LET line == (p.scanline + 1) % TotalScanlines
  IN  CoincidenceInterrupt(line) \union
      IF line >= FirstVBlankScanline
      THEN StatInterrupt(VBlank) \union
             (IF line # FirstVBlankScanline THEN {}
              ELSE {"vblankInterrupt", IF p.blankFirstFrame THEN "white" ELSE "frame"})
      ELSE IF line > 0 THEN StatInterrupt(OAMSearch) ELSE {}

\* Mutant: after a switch-on STAT shows mode 3 only when the renderer starts.
NextDotLateMode3(p) ==
  LET dot == p.dot + 1
      q == [p EXCEPT !.dot = dot]
  IN  IF ~Visible(p) THEN q
      ELSE IF ~p.lcdStartupLine /\ dot = OamStatDot
      THEN [q EXCEPT !.stat = OAMSearch]
      ELSE IF dot = (IF p.lcdStartupLine THEN StartupMode3Dot ELSE Mode3Dot)
      THEN [q EXCEPT !.mode = PixelTransfer,
                     !.stat = IF p.lcdStartupLine THEN @ ELSE PixelTransfer]
      ELSE IF dot = (IF p.lcdStartupLine THEN StartupRendererDot ELSE RendererDot)
      THEN [q EXCEPT !.lcdStartupLine = FALSE, !.stat = PixelTransfer, !.calls = 0]
      ELSE q

\* The second half: milestones within a visible line.
NextDot(p) ==
  LET dot == p.dot + 1
      q == [p EXCEPT !.dot = dot]
  IN  IF ~Visible(p) THEN q
      ELSE IF ~p.lcdStartupLine /\ dot = OamStatDot
      THEN [q EXCEPT !.stat = OAMSearch]
      ELSE IF dot = (IF p.lcdStartupLine THEN StartupMode3Dot ELSE Mode3Dot)
      THEN [q EXCEPT !.mode = PixelTransfer, !.stat = PixelTransfer]
      ELSE IF dot = (IF p.lcdStartupLine THEN StartupRendererDot ELSE RendererDot)
      THEN [q EXCEPT !.lcdStartupLine = FALSE, !.calls = 0]
      ELSE q

\* Mutant: LY=LYC is looked at again when STAT shows mode 2.
NextDotTellsTwice(p) ==
  IF Visible(p) /\ ~p.lcdStartupLine /\ p.dot + 1 = OamStatDot
  THEN CoincidenceInterrupt(p.scanline) \union
       (IF p.scanline = 0 THEN StatInterrupt(OAMSearch) ELSE {})
  ELSE {}

NextDotTells(p) ==
  IF Visible(p) /\ ~p.lcdStartupLine /\ p.dot + 1 = OamStatDot /\ p.scanline = 0
  THEN StatInterrupt(OAMSearch)
  ELSE {}

LastDot(p) == p.dot + 1 >= DotsPerScanline

IncrementDot(p) == IF LastDot(p) THEN NextLine(p) ELSE NextDot(p)

IncrementDotTells(p) == IF LastDot(p) THEN NextLineTells(p) ELSE NextDotTells(p)

-----------------------------------------------------------------------------
\* History of a T-cycle that leads from p to ppu'.
Record(p) ==
  /\ since' = IF ppu'.stat = HBlank THEN 0
              ELSE IF since < Mode3Min THEN since + 1 ELSE since
  /\ LET full == IF "hblankStart" \in told' THEN 1 ELSE 0
     IN  /\ hblanks' = IF ppu'.dot <= StartupDot /\ ppu'.scanline # p.scanline
                       THEN 0 ELSE hblanks + full
         /\ lines' = IF "vblankInterrupt" \in told THEN 0 ELSE lines + full
  /\ LET next == IF ppu'.scanline # p.scanline THEN 1 ELSE 0
     IN  age' = IF "lycInterrupt" \in told' THEN 0
                ELSE IF age = NoRequest \/ age = TotalScanlines THEN age ELSE age + next

\* A T-cycle with the LCD on; the first one switches it on.
RunNextTCycle(ends) ==
  /\ lcdc
  /\ LET on   == IF ppu.lcdEnabled THEN ppu ELSE SwitchOn(ppu)
         done == HandleMode(on, ends)
     IN  /\ CanEnd(on, ends)
         /\ ppu' = IncrementDot(done)
         /\ told' = (IF ~ppu.lcdEnabled \/ ends THEN StatInterrupt(HBlank) ELSE {})
                    \union (IF ppu.lcdEnabled THEN {} ELSE CoincidenceInterrupt(0))
                    \union (IF HBlankStarts(on, ends) THEN {"hblankStart"} ELSE {})
                    \union IncrementDotTells(done)
         /\ Record(on)
  /\ UNCHANGED <<lcdc, lyc>>

\* A T-cycle with the LCD off; the first one blanks the screen.
RunNextTCycleOff ==
  /\ ~lcdc
  /\ IF ppu.lcdEnabled
     THEN /\ ppu' = SwitchOff(ppu)
          /\ told' = StatInterrupt(HBlank) \union CoincidenceInterrupt(0) \union {"white"}
     ELSE UNCHANGED ppu /\ told' = {}
  /\ lines' = 0 /\ hblanks' = 0 /\ since' = 0 /\ age' = NoRequest
  /\ UNCHANGED <<lcdc, lyc>>

\* The CPU writes LCDC.
WriteLcdc ==
  /\ lcdc' = ~lcdc
  /\ UNCHANGED <<lyc, ppu, told, lines, hblanks, since, age>>

\* The CPU writes LYC: nothing looks at it before the next line, or LCD switch.
WriteLyc(value) ==
  /\ ppu.lcdEnabled => ppu.dot \in LycDots
  /\ lyc' = value /\ age' = NoRequest
  /\ UNCHANGED <<lcdc, ppu, told, lines, hblanks, since>>

Tick == (\E ends \in BOOLEAN : RunNextTCycle(ends)) \/ RunNextTCycleOff

Next == Tick \/ WriteLcdc \/ \E value \in LycValues : WriteLyc(value)

Spec == Init /\ [][Next]_vars

-----------------------------------------------------------------------------
(* Properties.                                                             *)

\* Every line that ends as a visible one let an H-Blank transfer move exactly
\* one block, the line on which the LCD was switched on included.
OneHBlankPerLine ==
  ppu.lcdEnabled /\ LastDot(ppu) =>
    hblanks = IF Visible(ppu) THEN 1 ELSE 0

\* STAT has not shown mode 0 for at least Mode3Min T-cycles when an H-Blank
\* starts: a block VRAM DMA started in mode 0 is over by then (see CgbDma).
HBlankIsLate ==
  \A ends \in BOOLEAN :
    RunNextTCycle(ends) /\ "hblankStart" \in told' => since = Mode3Min

\* Between two VBlank interrupts, or the LCD being switched on and the first,
\* every visible line has been drawn exactly once; so a frame that is shown is
\* a whole one, whenever the LCD was off in between.
VBlankFollowsFrame == "vblankInterrupt" \in told => lines = FirstVBlankScanline

\* With LYC and the LCD left alone, LY=LYC requests its interrupt exactly once
\* in a frame.
LycIsDue ==
  /\ age' < TotalScanlines
  /\ \A ends \in BOOLEAN :
       RunNextTCycle(ends) /\ "lycInterrupt" \in told' =>
         age \in {NoRequest, TotalScanlines - 1}

\* What VRAM DMA relies on: every visible line lets an H-Blank transfer move one
\* block, and no sooner than a block takes.
HBlanksPaceDma == [][OneHBlankPerLine /\ HBlankIsLate]_vars

\* What programs rely on: VBlank after each whole frame, LY=LYC once in it.
InterruptsFollowFrames == [][VBlankFollowsFrame /\ LycIsDue]_vars
=============================================================================
