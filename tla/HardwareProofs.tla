--------------------------- MODULE HardwareProofs ---------------------------
(***************************************************************************)
(* Theorems about PpuTiming, for every length of the lines, every number   *)
(* of them, every time the renderer takes and every moment at which the    *)
(* program switches the LCD or writes LYC.                                 *)
(*                                                                         *)
(* All of them rest on where the PPU stands within its line (Phase): a     *)
(* visible line goes through modes 2, 3 and 0 in that order, and mode 3    *)
(* ends before the line does.  The histories are then what the position    *)
(* says they are.  A PPU that is off satisfies the invariant of one that   *)
(* has just been switched on (OnKeeps), so the line on which that happens  *)
(* is no case of its own.                                                  *)
(***************************************************************************)
EXTENDS RendererProofs

\* STAT has not shown mode 0 for n T-cycles, or for as many as are counted.
NoMode0For(n) == since = Mode3Min \/ since >= n

\* The line on which the LCD was switched on has no mode 2.
FirstLine(p) ==
  /\ p.scanline = 0 /\ StartupDot <= p.dot /\ p.dot < StartupRendererDot
  /\ \/ p.mode = Frame!HBlank /\ p.dot < StartupMode3Dot
     \/ /\ p.mode = Frame!PixelTransfer /\ p.stat = Frame!PixelTransfer
        /\ StartupMode3Dot <= p.dot
        /\ NoMode0For(p.dot - StartupMode3Dot + 1)

\* Mode 2, mode 3 before the renderer starts and while it runs, and mode 0.
\* The renderer leaves room for the end of the line, and has not been quicker
\* than VRAM DMA relies on.
VisibleLine(p) ==
  \/ /\ p.mode = Frame!OAMSearch /\ p.dot < Mode3Dot
     /\ p.dot >= OamStatDot =>
          p.stat = Frame!OAMSearch /\ NoMode0For(p.dot - OamStatDot + 1)
  \/ /\ p.mode = Frame!PixelTransfer /\ p.stat = Frame!PixelTransfer
     /\ Mode3Dot <= p.dot /\ p.dot < RendererDot
     /\ NoMode0For(p.dot - OamStatDot + 1)
  \/ /\ p.mode = Frame!PixelTransfer /\ p.stat = Frame!PixelTransfer
     /\ RendererDot <= p.dot /\ p.dot <= p.calls + StartupRendererDot
     /\ p.calls < MaxTransfer
     /\ Frame!Mode3IsLong => NoMode0For(p.calls + 1 + Mode3Min - MinTransfer)
  \/ p.mode = Frame!HBlank /\ RendererDot < p.dot

Phase(p) ==
  IF ~Frame!Visible(p) THEN p.mode = Frame!VBlank /\ ~p.lcdStartupLine
  ELSE IF p.lcdStartupLine THEN FirstLine(p) ELSE VisibleLine(p)

\* The histories, of a PPU that is on and stands at p.
HBlankSeen(p) == Frame!Visible(p) /\ ~p.lcdStartupLine /\ p.mode = Frame!HBlank

Counted(p) ==
  /\ hblanks = IF HBlankSeen(p) THEN 1 ELSE 0
  /\ lines = IF Frame!Visible(p) THEN p.scanline + hblanks
             ELSE IF "vblankInterrupt" \in told THEN FirstVBlankScanline ELSE 0
  /\ Frame!Visible(p) => "vblankInterrupt" \notin told

\* LY=LYC was requested age lines ago, on line LYC.
Aged(p) ==
  age # Frame!NoRequest =>
    /\ "lyc" \in Sources
    /\ age \in 0 .. TotalScanlines - 1 /\ lyc < TotalScanlines
    /\ p.scanline \in {lyc + age, lyc + age - TotalScanlines}

OnInv(p) == p \in Frame!Ppu /\ p.lcdEnabled /\ Phase(p) /\ Counted(p) /\ Aged(p)

OffInv ==
  /\ ppu \in Frame!Ppu /\ lines = 0 /\ hblanks = 0 /\ age = Frame!NoRequest
  /\ "vblankInterrupt" \notin told

IInv ==
  /\ lcdc \in BOOLEAN /\ lyc \in LycValues
  /\ told \subseteq Frame!Notices
  /\ since \in 0 .. Mode3Min
  /\ IF ppu.lcdEnabled THEN OnInv(ppu) ELSE OffInv

\* The PPU in the middle of a T-cycle with the LCD on: switched on, and with the
\* renderer's call behind it.
On == IF ppu.lcdEnabled THEN ppu ELSE Frame!SwitchOn(ppu)

-----------------------------------------------------------------------------
(* The pieces of a T-cycle, field by field.                                *)

\* Scanlines are counted round.
LEMMA NextScanline ==
  ASSUME Frame!PpuTimingAssumption, NEW y \in 0 .. TotalScanlines - 1
  PROVE  (y + 1) % TotalScanlines = IF y + 1 = TotalScanlines THEN 0 ELSE y + 1
BY DEF Frame!PpuTimingAssumption

LEMMA SwitchOnFields ==
  ASSUME Frame!PpuTimingAssumption, lyc \in LycValues, NEW p \in Frame!Ppu
  PROVE  /\ Frame!SwitchOn(p) \in Frame!Ppu
         /\ Frame!SwitchOn(p).lcdEnabled /\ Frame!SwitchOn(p).lcdStartupLine
         /\ Frame!SwitchOn(p).dot = StartupDot /\ Frame!SwitchOn(p).scanline = 0
         /\ Frame!SwitchOn(p).mode = Frame!HBlank
<1> DEFINE q == Frame!SwitchOn(p)
<1>1. q = [p EXCEPT !.lcdEnabled = TRUE, !.lcdStartupLine = TRUE,
                    !.blankFirstFrame = TRUE, !.dot = StartupDot, !.scanline = 0,
                    !.mode = Frame!HBlank, !.stat = Frame!HBlank, !.coincidence = (lyc = 0)]
  BY DEF Frame!SwitchOn
<1>2. StartupDot \in 0 .. DotsPerScanline - 1 /\ 0 \in 0 .. TotalScanlines - 1
  BY DEF Frame!PpuTimingAssumption
<1>3. q \in Frame!Ppu
  BY <1>1, <1>2 DEF Frame!Ppu, Frame!Modes
<1>4. QED
  BY <1>1, <1>3 DEF Frame!Ppu

LEMMA SwitchOffFields ==
  ASSUME Frame!PpuTimingAssumption, lyc \in LycValues, NEW p \in Frame!Ppu
  PROVE  Frame!SwitchOff(p) \in Frame!Ppu /\ ~Frame!SwitchOff(p).lcdEnabled
<1>1. 0 \in 0 .. DotsPerScanline - 1 /\ 0 \in 0 .. TotalScanlines - 1
  BY DEF Frame!PpuTimingAssumption
<1>2. QED
  BY <1>1 DEF Frame!SwitchOff, Frame!Ppu, Frame!Modes

LEMMA HandleModeFields ==
  ASSUME Frame!PpuTimingAssumption, NEW p \in Frame!Ppu, NEW ends \in BOOLEAN, Frame!CanEnd(p, ends)
  PROVE  LET q == Frame!HandleMode(p, ends)
         IN  /\ q \in Frame!Ppu
             /\ q.lcdEnabled = p.lcdEnabled /\ q.lcdStartupLine = p.lcdStartupLine
             /\ q.dot = p.dot /\ q.scanline = p.scanline
             /\ IF ends THEN q.mode = Frame!HBlank
                ELSE q.mode = p.mode /\ q.stat = p.stat
                     /\ q.calls = IF Frame!Renders(p) THEN p.calls + 1 ELSE p.calls
<1> DEFINE q == Frame!HandleMode(p, ends)
<1>1. CASE ~Frame!Renders(p)
  BY <1>1 DEF Frame!HandleMode, Frame!CanEnd
<1>2. CASE Frame!Renders(p) /\ ends
  BY <1>2, 0 \in 0 .. MaxTransfer DEF Frame!HandleMode, Frame!Ppu, Frame!Modes, Frame!PpuTimingAssumption
<1>3. CASE Frame!Renders(p) /\ ~ends
  <2>1. p.calls + 1 \in 0 .. MaxTransfer
    BY <1>3 DEF Frame!CanEnd, Frame!Ppu, Frame!PpuTimingAssumption
  <2>2. QED
    BY <1>3, <2>1 DEF Frame!HandleMode, Frame!Ppu
<1>4. QED
  BY <1>1, <1>2, <1>3

LEMMA NextLineFields ==
  ASSUME Frame!PpuTimingAssumption, NEW p \in Frame!Ppu
  PROVE  LET q == Frame!NextLine(p)
         IN  /\ q \in Frame!Ppu
             /\ q.lcdEnabled = p.lcdEnabled /\ q.lcdStartupLine = p.lcdStartupLine
             /\ q.dot = 0 /\ q.scanline = (p.scanline + 1) % TotalScanlines
             /\ q.mode = IF Frame!Visible(q) THEN Frame!OAMSearch ELSE Frame!VBlank
<1> DEFINE y == (p.scanline + 1) % TotalScanlines
           q == [p EXCEPT !.dot = 0, !.scanline = y, !.coincidence = (y = lyc)]
<1>1. /\ y \in 0 .. TotalScanlines - 1
      /\ 0 \in 0 .. DotsPerScanline - 1
  <2>1. p.scanline \in 0 .. TotalScanlines - 1
    BY DEF Frame!Ppu
  <2>2. QED
    BY <2>1, NextScanline DEF Frame!PpuTimingAssumption
<1> HIDE DEF y
<1>2. /\ q \in Frame!Ppu
      /\ q.lcdEnabled = p.lcdEnabled /\ q.lcdStartupLine = p.lcdStartupLine
      /\ q.dot = 0 /\ q.scanline = y
  BY <1>1 DEF Frame!Ppu
<1> HIDE DEF q
<1>3. Frame!NextLine(p) = IF y < FirstVBlankScanline THEN [q EXCEPT !.mode = Frame!OAMSearch]
                    ELSE [q EXCEPT !.mode = Frame!VBlank, !.stat = Frame!VBlank,
                                   !.blankFirstFrame = @ /\ y # FirstVBlankScanline]
  BY DEF Frame!NextLine, q, y
<1>4. CASE y < FirstVBlankScanline
  BY <1>2, <1>3, <1>4 DEF Frame!Ppu, Frame!Modes, Frame!Visible, y
<1>5. CASE ~(y < FirstVBlankScanline)
  <2>1. (q.blankFirstFrame /\ y # FirstVBlankScanline) \in BOOLEAN
    BY Zenon
  <2>2. QED
    BY <1>2, <1>3, <1>5, <2>1 DEF Frame!Ppu, Frame!Modes, Frame!Visible, y
<1>6. QED
  BY <1>4, <1>5

\* The milestones of a visible line; on the first one mode 2 is none.
Milestone(p, q) ==
  LET d == p.dot + 1
      first == p.lcdStartupLine
  IN  IF Frame!Visible(p) /\ ~first /\ d = OamStatDot
      THEN /\ q.stat = Frame!OAMSearch /\ q.mode = p.mode
           /\ q.lcdStartupLine = first /\ q.calls = p.calls
      ELSE IF Frame!Visible(p) /\ d = (IF first THEN StartupMode3Dot ELSE Mode3Dot)
      THEN /\ q.mode = Frame!PixelTransfer /\ q.stat = Frame!PixelTransfer
           /\ q.lcdStartupLine = first /\ q.calls = p.calls
      ELSE IF Frame!Visible(p) /\ d = (IF first THEN StartupRendererDot ELSE RendererDot)
      THEN /\ q.mode = p.mode /\ q.stat = p.stat
           /\ q.lcdStartupLine = FALSE /\ q.calls = 0
      ELSE /\ q.mode = p.mode /\ q.stat = p.stat
           /\ q.lcdStartupLine = first /\ q.calls = p.calls

LEMMA NextDotFields ==
  ASSUME Frame!PpuTimingAssumption, NEW p \in Frame!Ppu, ~Frame!LastDot(p)
  PROVE  LET q == Frame!NextDot(p)
         IN  /\ q \in Frame!Ppu /\ q.lcdEnabled = p.lcdEnabled
             /\ q.dot = p.dot + 1 /\ q.scanline = p.scanline
             /\ Milestone(p, q)
<1>1. p.dot + 1 \in 0 .. DotsPerScanline - 1 /\ 0 \in 0 .. MaxTransfer
  BY DEF Frame!LastDot, Frame!Ppu, Frame!PpuTimingAssumption
<1> DEFINE d == p.dot + 1
           q == [p EXCEPT !.dot = d]
           first == p.lcdStartupLine
<1>2. /\ q \in Frame!Ppu /\ q.dot = d /\ q.scanline = p.scanline
      /\ q.lcdEnabled = p.lcdEnabled /\ q.lcdStartupLine = first
      /\ q.mode = p.mode /\ q.stat = p.stat /\ q.calls = p.calls
  BY <1>1 DEF Frame!Ppu
<1>3. Frame!NextDot(p) =
        IF ~Frame!Visible(p) THEN q
        ELSE IF ~first /\ d = OamStatDot THEN [q EXCEPT !.stat = Frame!OAMSearch]
        ELSE IF d = (IF first THEN StartupMode3Dot ELSE Mode3Dot)
        THEN [q EXCEPT !.mode = Frame!PixelTransfer, !.stat = Frame!PixelTransfer]
        ELSE IF d = (IF first THEN StartupRendererDot ELSE RendererDot)
        THEN [q EXCEPT !.lcdStartupLine = FALSE, !.calls = 0]
        ELSE q
  BY DEF Frame!NextDot
<1> HIDE DEF q
<1>4. CASE Frame!Visible(p) /\ ~first /\ d = OamStatDot
  BY <1>2, <1>3, <1>4 DEF Frame!Ppu, Frame!Modes, Milestone
<1>5. CASE ~(Frame!Visible(p) /\ ~first /\ d = OamStatDot)
  <2>1. CASE Frame!Visible(p) /\ d = (IF first THEN StartupMode3Dot ELSE Mode3Dot)
    <3>1. Frame!NextDot(p) = [q EXCEPT !.mode = Frame!PixelTransfer, !.stat = Frame!PixelTransfer]
      BY <1>3, <1>5, <2>1
    <3>2. QED
      BY <1>2, <1>5, <2>1, <3>1 DEF Frame!Ppu, Frame!Modes, Milestone
  <2>2. CASE ~(Frame!Visible(p) /\ d = (IF first THEN StartupMode3Dot ELSE Mode3Dot))
    <3>1. CASE Frame!Visible(p) /\ d = (IF first THEN StartupRendererDot ELSE RendererDot)
      <4>1. Frame!NextDot(p) = [q EXCEPT !.lcdStartupLine = FALSE, !.calls = 0]
        BY <1>3, <1>5, <2>2, <3>1
      <4>2. QED
        BY <1>1, <1>2, <1>5, <2>2, <3>1, <4>1 DEF Frame!Ppu, Milestone
    <3>2. CASE ~(Frame!Visible(p) /\ d = (IF first THEN StartupRendererDot ELSE RendererDot))
      <4>1. Frame!NextDot(p) = q
        BY <1>3, <1>5, <2>2, <3>2
      <4>2. QED
        BY <1>2, <1>5, <2>2, <3>2, <4>1 DEF Milestone
    <3>3. QED
      BY <3>1, <3>2
  <2>3. QED
    BY <2>1, <2>2
<1>6. QED
  BY <1>4, <1>5

\* What a T-cycle tells, of what the histories are about.
LEMMA Tells ==
  ASSUME Frame!PpuTimingAssumption, NEW ends \in BOOLEAN, Frame!RunNextTCycle(ends), On \in Frame!Ppu,
         Frame!HandleMode(On, ends).dot = On.dot,
         Frame!HandleMode(On, ends).scanline = On.scanline
  PROVE  /\ told' \subseteq Frame!Notices
         /\ "hblankStart" \in told' <=> ends /\ Frame!Visible(On)
         /\ "vblankInterrupt" \in told' <=>
              /\ Frame!LastDot(On)
              /\ (On.scanline + 1) % TotalScanlines = FirstVBlankScanline
         /\ "lycInterrupt" \in told' <=>
              /\ "lyc" \in Sources
              /\ \/ ~ppu.lcdEnabled /\ lyc = 0
                 \/ Frame!LastDot(On) /\ (On.scanline + 1) % TotalScanlines = lyc
<1> DEFINE done == Frame!HandleMode(On, ends)
           y == (On.scanline + 1) % TotalScanlines
           switched == (IF ~ppu.lcdEnabled \/ ends THEN Frame!StatInterrupt(Frame!HBlank) ELSE {})
                       \union (IF ppu.lcdEnabled THEN {} ELSE Frame!CoincidenceInterrupt(0))
<1>1. told' = switched \union (IF Frame!HBlankStarts(On, ends) THEN {"hblankStart"} ELSE {})
                \union Frame!IncrementDotTells(done)
  BY DEF Frame!RunNextTCycle, On
<1>2. /\ switched \subseteq {"statInterrupt", "lycInterrupt"}
      /\ "lycInterrupt" \in switched <=>
           "lyc" \in Sources /\ ~ppu.lcdEnabled /\ lyc = 0
  BY DEF Frame!StatInterrupt, Frame!CoincidenceInterrupt
<1>3. Frame!HBlankStarts(On, ends) <=> ends /\ Frame!Visible(On)
  BY DEF Frame!HBlankStarts, Frame!Visible, Frame!Ppu, Frame!PpuTimingAssumption
<1>4. Frame!LastDot(done) <=> Frame!LastDot(On)
  BY DEF Frame!LastDot
<1>5. ASSUME Frame!LastDot(On)
      PROVE  /\ Frame!IncrementDotTells(done) \subseteq
                  {"statInterrupt", "lycInterrupt", "vblankInterrupt", "frame", "white"}
             /\ "vblankInterrupt" \in Frame!IncrementDotTells(done) <=> y = FirstVBlankScanline
             /\ "lycInterrupt" \in Frame!IncrementDotTells(done) <=>
                  "lyc" \in Sources /\ y = lyc
  <2>1. Frame!IncrementDotTells(done) =
          Frame!CoincidenceInterrupt(y) \union
          IF y >= FirstVBlankScanline
          THEN Frame!StatInterrupt(Frame!VBlank) \union
                 (IF y # FirstVBlankScanline THEN {}
                  ELSE {"vblankInterrupt", IF done.blankFirstFrame THEN "white" ELSE "frame"})
          ELSE IF y > 0 THEN Frame!StatInterrupt(Frame!OAMSearch) ELSE {}
    BY <1>4, <1>5 DEF Frame!IncrementDotTells, Frame!NextLineTells
  <2> HIDE DEF y, done
  <2>2. /\ Frame!CoincidenceInterrupt(y) \subseteq {"lycInterrupt"}
        /\ "lycInterrupt" \in Frame!CoincidenceInterrupt(y) <=> "lyc" \in Sources /\ y = lyc
    BY DEF Frame!CoincidenceInterrupt
  <2>3. Frame!StatInterrupt(Frame!VBlank) \subseteq {"statInterrupt"}
        /\ Frame!StatInterrupt(Frame!OAMSearch) \subseteq {"statInterrupt"}
    BY DEF Frame!StatInterrupt
  <2>4. CASE y = FirstVBlankScanline
    BY <2>1, <2>2, <2>3, <2>4 DEF Frame!PpuTimingAssumption
  <2>5. CASE y # FirstVBlankScanline
    BY <2>1, <2>2, <2>3, <2>5
  <2>6. QED
    BY <2>4, <2>5
<1>6. ASSUME ~Frame!LastDot(On)
      PROVE  Frame!IncrementDotTells(done) \subseteq {"statInterrupt"}
  BY <1>4, <1>6 DEF Frame!IncrementDotTells, Frame!NextDotTells, Frame!StatInterrupt
<1> HIDE DEF y, done, switched
<1>7. QED
  BY <1>1, <1>2, <1>3, <1>5, <1>6 DEF Frame!Notices, y

-----------------------------------------------------------------------------
(* A T-cycle with the LCD on.                                              *)

\* A PPU that is off satisfies the invariant of one just switched on.
LEMMA OnKeeps ==
  ASSUME Frame!PpuTimingAssumption, IInv
  PROVE  OnInv(On)
<1>1. CASE ppu.lcdEnabled
  BY <1>1 DEF IInv, On
<1>2. CASE ~ppu.lcdEnabled
  <2>1. OffInv /\ lyc \in LycValues
    BY <1>2 DEF IInv
  <2>2. /\ On \in Frame!Ppu /\ On.lcdEnabled /\ On.lcdStartupLine
        /\ On.dot = StartupDot /\ On.scanline = 0 /\ On.mode = Frame!HBlank
    BY <1>2, <2>1, SwitchOnFields DEF On, OffInv
  <2>3. Frame!Visible(On)
    BY <2>2 DEF Frame!Visible, Frame!PpuTimingAssumption
  <2>4. FirstLine(On)
    BY <2>2 DEF FirstLine, Frame!PpuTimingAssumption
  <2>5. Phase(On)
    BY <2>2, <2>3, <2>4 DEF Phase
  <2>6. Counted(On) /\ Aged(On)
    BY <2>1, <2>2, <2>3 DEF OffInv, Counted, HBlankSeen, Aged
  <2>7. QED
    BY <2>2, <2>5, <2>6 DEF OnInv
<1>3. QED
  BY <1>1, <1>2

\* The renderer runs on a visible line that has had no H-Blank yet, and it is
\* done before the line is.
LEMMA RendersWithinLine ==
  ASSUME Frame!PpuTimingAssumption, IInv, Frame!Renders(On)
  PROVE  /\ Frame!Visible(On) /\ ~On.lcdStartupLine /\ hblanks = 0
         /\ On.mode = Frame!PixelTransfer /\ On.stat = Frame!PixelTransfer
         /\ RendererDot <= On.dot /\ On.dot <= On.calls + StartupRendererDot
         /\ On.calls < MaxTransfer /\ ~Frame!LastDot(On)
         /\ Frame!Mode3IsLong => NoMode0For(On.calls + 1 + Mode3Min - MinTransfer)
<1>1. /\ On \in Frame!Ppu /\ Phase(On) /\ Counted(On) /\ On.mode = Frame!PixelTransfer
      /\ On.dot >= IF On.lcdStartupLine THEN StartupRendererDot ELSE RendererDot
  BY OnKeeps DEF OnInv, Frame!Renders
<1>2. Frame!Visible(On)
  BY <1>1 DEF Phase, Frame!PixelTransfer, Frame!VBlank
<1>3. ~On.lcdStartupLine
  BY <1>1, <1>2 DEF Phase, FirstLine, Frame!Ppu, Frame!PpuTimingAssumption
<1>4. VisibleLine(On)
  BY <1>1, <1>2, <1>3 DEF Phase
<1>5. /\ On.stat = Frame!PixelTransfer
      /\ RendererDot <= On.dot /\ On.dot <= On.calls + StartupRendererDot
      /\ On.calls < MaxTransfer
      /\ Frame!Mode3IsLong => NoMode0For(On.calls + 1 + Mode3Min - MinTransfer)
  BY <1>1, <1>3, <1>4
     DEF VisibleLine, Frame!PixelTransfer, Frame!OAMSearch, Frame!HBlank, Frame!Ppu, Frame!PpuTimingAssumption
<1>6. ~Frame!LastDot(On)
  BY <1>1, <1>5 DEF Frame!LastDot, Frame!Ppu, Frame!PpuTimingAssumption
<1>7. hblanks = 0
  BY <1>1 DEF Counted, HBlankSeen, Frame!PixelTransfer, Frame!HBlank
<1>8. QED
  BY <1>1, <1>2, <1>3, <1>5, <1>6, <1>7

\* What a T-cycle with the LCD on makes of the PPU and of the histories.
LEMMA TickParts ==
  ASSUME Frame!PpuTimingAssumption, IInv, NEW ends \in BOOLEAN, Frame!RunNextTCycle(ends)
  PROVE  /\ Frame!HandleMode(On, ends) \in Frame!Ppu
         /\ Frame!CanEnd(On, ends)
         /\ ppu' = Frame!IncrementDot(Frame!HandleMode(On, ends))
         /\ since' = IF ppu'.stat = Frame!HBlank THEN 0
                     ELSE IF since < Mode3Min THEN since + 1 ELSE since
         /\ hblanks' = IF ppu'.dot <= StartupDot /\ ppu'.scanline # On.scanline
                       THEN 0 ELSE IF ends THEN 1 ELSE hblanks
         /\ lines' = IF "vblankInterrupt" \in told THEN 0
                     ELSE IF ends THEN lines + 1 ELSE lines
         /\ UNCHANGED <<lcdc, lyc>>
<1>1. On \in Frame!Ppu /\ Counted(On)
  BY OnKeeps DEF OnInv
<1>2. /\ Frame!CanEnd(On, ends)
      /\ ppu' = Frame!IncrementDot(Frame!HandleMode(On, ends))
      /\ Frame!Record(On) /\ UNCHANGED <<lcdc, lyc>>
  BY DEF Frame!RunNextTCycle, On
<1>3. /\ Frame!HandleMode(On, ends) \in Frame!Ppu
      /\ Frame!HandleMode(On, ends).dot = On.dot
      /\ Frame!HandleMode(On, ends).scanline = On.scanline
  BY <1>1, <1>2, HandleModeFields
<1>4. ends => Frame!Visible(On) /\ hblanks = 0
  BY <1>2, RendersWithinLine DEF Frame!CanEnd
<1>5. "hblankStart" \in told' <=> ends
  BY <1>1, <1>3, <1>4, Tells
<1>6. hblanks \in Int /\ lines \in Int
  BY <1>1 DEF Counted, Frame!Ppu, Frame!PpuTimingAssumption
<1>7. QED
  BY <1>2, <1>3, <1>4, <1>5, <1>6 DEF Frame!Record

\* Nothing else than the renderer's end changes the mode before the next dot.
LEMMA HandledFields ==
  ASSUME Frame!PpuTimingAssumption, IInv, NEW ends \in BOOLEAN, Frame!RunNextTCycle(ends)
  PROVE  LET p == Frame!HandleMode(On, ends)
         IN  /\ p \in Frame!Ppu /\ p.lcdEnabled
             /\ p.lcdStartupLine = On.lcdStartupLine
             /\ p.dot = On.dot /\ p.scanline = On.scanline
             /\ ends => /\ Frame!Renders(On) /\ p.mode = Frame!HBlank
                        /\ On.calls + 1 >= MinTransfer
             /\ ~ends => /\ p.mode = On.mode /\ p.stat = On.stat
                         /\ p.calls = IF Frame!Renders(On) THEN On.calls + 1 ELSE On.calls
                         /\ Frame!Renders(On) => On.calls + 1 < MaxTransfer
BY OnKeeps, TickParts, HandleModeFields DEF OnInv, Frame!CanEnd

-----------------------------------------------------------------------------
(* A T-cycle within a line.                                                *)

DotTick(ends) == Frame!RunNextTCycle(ends) /\ ~Frame!LastDot(On)

LEMMA DotTickFields ==
  ASSUME Frame!PpuTimingAssumption, IInv, NEW ends \in BOOLEAN, DotTick(ends)
  PROVE  /\ ppu' \in Frame!Ppu /\ ppu'.lcdEnabled
         /\ ppu'.dot = On.dot + 1 /\ ppu'.scanline = On.scanline
         /\ Milestone(Frame!HandleMode(On, ends), ppu')
         /\ since \in 0 .. Mode3Min /\ Mode3Min \in Nat
<1> DEFINE p == Frame!HandleMode(On, ends)
<1>1. /\ p \in Frame!Ppu /\ p.lcdEnabled /\ p.dot = On.dot /\ p.scanline = On.scanline
      /\ ppu' = Frame!IncrementDot(p)
  BY HandledFields, TickParts DEF DotTick
<1>2. ~Frame!LastDot(p)
  BY <1>1 DEF DotTick, Frame!LastDot
<1>3. ppu' = Frame!NextDot(p)
  BY <1>1, <1>2 DEF Frame!IncrementDot
<1>4. QED
  BY <1>1, <1>2, <1>3, NextDotFields DEF IInv, Frame!PpuTimingAssumption

\* On the first line.
LEMMA FirstLineDot ==
  ASSUME Frame!PpuTimingAssumption, IInv, NEW ends \in BOOLEAN, DotTick(ends),
         Frame!Visible(On), On.lcdStartupLine
  PROVE  /\ ~ends /\ Phase(ppu)'
         /\ ppu'.lcdStartupLine \/ ppu'.mode = Frame!PixelTransfer
<1> DEFINE p == Frame!HandleMode(On, ends)
           d == On.dot
<1>1. ~ends
  BY HandledFields, RendersWithinLine DEF DotTick
<1>2. On \in Frame!Ppu /\ FirstLine(On)
  BY OnKeeps DEF OnInv, Phase
<1>3. ~Frame!Renders(On)
  BY <1>2 DEF Frame!Renders, FirstLine, Frame!Ppu, Frame!PpuTimingAssumption
<1>4. /\ p.lcdStartupLine /\ p.dot = d /\ p.scanline = On.scanline
      /\ p.mode = On.mode /\ p.stat = On.stat /\ p.calls = On.calls
  BY <1>1, <1>3, HandledFields DEF DotTick
<1>5. /\ Milestone(p, ppu')
      /\ ppu' \in Frame!Ppu /\ ppu'.dot = d + 1 /\ ppu'.scanline = On.scanline
      /\ since \in 0 .. Mode3Min /\ Mode3Min \in Nat
  BY DotTickFields
<1>6. Frame!Visible(p) /\ Frame!Visible(ppu)'
  BY <1>4, <1>5 DEF Frame!Visible
<1>7. /\ d \in Nat
      /\ ppu'.stat = Frame!PixelTransfer =>
           since' = IF since < Mode3Min THEN since + 1 ELSE since
  BY <1>2, TickParts DEF DotTick, Frame!PixelTransfer, Frame!HBlank, Frame!Ppu, Frame!PpuTimingAssumption
<1> HIDE DEF p, d
<1>8. IF d + 1 = StartupMode3Dot
      THEN ppu'.mode = Frame!PixelTransfer /\ ppu'.stat = Frame!PixelTransfer /\ ppu'.lcdStartupLine
      ELSE /\ ppu'.mode = On.mode /\ ppu'.stat = On.stat
           /\ ppu'.lcdStartupLine <=> d + 1 # StartupRendererDot
           /\ d + 1 = StartupRendererDot => ppu'.calls = 0
  BY <1>4, <1>5, <1>6 DEF Milestone, Frame!PpuTimingAssumption
<1>9. CASE d + 1 = StartupMode3Dot
  <2>1. FirstLine(ppu)'
    BY <1>2, <1>5, <1>7, <1>8, <1>9
       DEF FirstLine, NoMode0For, Frame!PpuTimingAssumption, d
  <2>2. QED
    BY <1>1, <1>6, <1>8, <1>9, <2>1 DEF Phase
<1>10. CASE d + 1 < StartupMode3Dot
  <2>1. On.mode = Frame!HBlank /\ ppu'.mode = Frame!HBlank /\ ppu'.lcdStartupLine
    BY <1>2, <1>7, <1>8, <1>10 DEF FirstLine, Frame!PpuTimingAssumption, d
  <2>2. FirstLine(ppu)'
    BY <1>2, <1>5, <1>7, <1>10, <2>1 DEF FirstLine, Frame!PpuTimingAssumption, d
  <2>3. QED
    BY <1>1, <1>6, <2>1, <2>2 DEF Phase
<1>11. CASE d + 1 > StartupMode3Dot
  <2>1. /\ ppu'.mode = Frame!PixelTransfer /\ ppu'.stat = Frame!PixelTransfer
        /\ NoMode0For(d - StartupMode3Dot + 1)
    BY <1>2, <1>7, <1>8, <1>11 DEF FirstLine, Frame!PpuTimingAssumption, d
  <2>2. since' = Mode3Min \/ since' >= d + 1 - StartupMode3Dot + 1
    BY <1>5, <1>7, <2>1 DEF NoMode0For, Frame!PpuTimingAssumption
  <2>3. CASE d + 1 = StartupRendererDot
    <3>1. Frame!Mode3IsLong => since' = Mode3Min \/ since' >= 0 + 1 + Mode3Min - MinTransfer
      BY <1>5, <1>7, <2>1, <2>2, <2>3 DEF Frame!Mode3IsLong, Frame!PpuTimingAssumption
    <3>2. VisibleLine(ppu)'
      BY <1>5, <1>7, <1>8, <1>11, <2>1, <2>3, <3>1
         DEF VisibleLine, NoMode0For, Frame!PpuTimingAssumption
    <3>3. ~ppu'.lcdStartupLine
      BY <1>7, <1>8, <1>11, <2>3 DEF Frame!PpuTimingAssumption
    <3>4. QED
      BY <1>1, <1>6, <2>1, <3>2, <3>3 DEF Phase
  <2>4. CASE d + 1 # StartupRendererDot
    <3>1. FirstLine(ppu)'
      BY <1>2, <1>5, <1>7, <1>11, <2>1, <2>2, <2>4
         DEF FirstLine, NoMode0For, Frame!PpuTimingAssumption, d
    <3>2. QED
      BY <1>1, <1>6, <1>8, <1>11, <2>4, <3>1 DEF Phase
  <2>5. QED
    BY <2>3, <2>4
<1>12. QED
  BY <1>7, <1>9, <1>10, <1>11 DEF Frame!PpuTimingAssumption

\* On another visible line.
LEMMA VisibleLineDot ==
  ASSUME Frame!PpuTimingAssumption, IInv, NEW ends \in BOOLEAN, DotTick(ends),
         Frame!Visible(On), ~On.lcdStartupLine
  PROVE  /\ Phase(ppu)' /\ ~ppu'.lcdStartupLine
         /\ IF ends THEN ppu'.mode = Frame!HBlank
            ELSE (ppu'.mode = Frame!HBlank) = (On.mode = Frame!HBlank)
<1> DEFINE p == Frame!HandleMode(On, ends)
           d == On.dot
<1>1. On \in Frame!Ppu /\ VisibleLine(On)
  BY OnKeeps DEF OnInv, Phase
<1>2. /\ ~p.lcdStartupLine /\ p.dot = d /\ p.scanline = On.scanline
      /\ ends => Frame!Renders(On) /\ p.mode = Frame!HBlank
      /\ ~ends => /\ p.mode = On.mode /\ p.stat = On.stat
                  /\ p.calls = IF Frame!Renders(On) THEN On.calls + 1 ELSE On.calls
                  /\ Frame!Renders(On) => On.calls + 1 < MaxTransfer
  BY HandledFields DEF DotTick
<1>3. /\ Milestone(p, ppu')
      /\ ppu' \in Frame!Ppu /\ ppu'.dot = d + 1 /\ ppu'.scanline = On.scanline
      /\ since \in 0 .. Mode3Min /\ Mode3Min \in Nat
  BY DotTickFields
<1>4. Frame!Visible(p) /\ Frame!Visible(ppu)'
  BY <1>2, <1>3 DEF Frame!Visible
<1>5. /\ d \in Nat /\ On.calls \in Nat
      /\ ppu'.stat \in {Frame!OAMSearch, Frame!PixelTransfer} =>
           since' = IF since < Mode3Min THEN since + 1 ELSE since
      /\ Frame!Renders(On) <=> On.mode = Frame!PixelTransfer /\ RendererDot <= d
  BY <1>1, TickParts
     DEF DotTick, Frame!OAMSearch, Frame!PixelTransfer, Frame!HBlank, Frame!Ppu, Frame!PpuTimingAssumption, Frame!Renders
<1> HIDE DEF p, d
<1>6. ~ppu'.lcdStartupLine
  BY <1>2, <1>3, <1>4 DEF Milestone
<1>7. SUFFICES /\ VisibleLine(ppu)'
               /\ IF ends THEN ppu'.mode = Frame!HBlank
                  ELSE (ppu'.mode = Frame!HBlank) = (On.mode = Frame!HBlank)
  BY <1>4, <1>6 DEF Phase
<1>8. CASE ends
  <2>1. RendererDot <= d
    BY <1>2, <1>5, <1>8
  <2>2. ppu'.mode = Frame!HBlank
    BY <1>2, <1>3, <1>4, <1>5, <1>8, <2>1 DEF Milestone, Frame!PpuTimingAssumption
  <2>3. QED
    BY <1>3, <1>5, <1>8, <2>1, <2>2 DEF VisibleLine, Frame!PpuTimingAssumption
<1>9. CASE ~ends /\ On.mode = Frame!OAMSearch
  <2>1. d < Mode3Dot /\ ~Frame!Renders(On)
        /\ (d >= OamStatDot => On.stat = Frame!OAMSearch /\ NoMode0For(d - OamStatDot + 1))
    BY <1>1, <1>5, <1>9 DEF VisibleLine, Frame!OAMSearch, Frame!PixelTransfer, Frame!HBlank, d
  <2>2. CASE d + 1 = Mode3Dot
    <3>1. ppu'.mode = Frame!PixelTransfer /\ ppu'.stat = Frame!PixelTransfer
      BY <1>2, <1>3, <1>4, <1>5, <2>2 DEF Milestone, Frame!PpuTimingAssumption
    <3>2. since' = Mode3Min \/ since' >= d + 1 - OamStatDot + 1
      BY <1>3, <1>5, <2>1, <2>2, <3>1 DEF NoMode0For, Frame!PpuTimingAssumption
    <3>3. VisibleLine(ppu)'
      BY <1>3, <1>5, <2>2, <3>1, <3>2 DEF VisibleLine, NoMode0For, Frame!PpuTimingAssumption
    <3>4. QED
      BY <1>9, <3>1, <3>3 DEF Frame!HBlank, Frame!PixelTransfer, Frame!OAMSearch
  <2>3. CASE d + 1 # Mode3Dot
    <3>1. d + 1 < Mode3Dot
      BY <1>5, <2>1, <2>3 DEF Frame!PpuTimingAssumption
    <3>2. /\ ppu'.mode = Frame!OAMSearch
          /\ ppu'.stat = IF d + 1 = OamStatDot THEN Frame!OAMSearch ELSE On.stat
      BY <1>2, <1>3, <1>4, <1>5, <1>9, <3>1 DEF Milestone, Frame!PpuTimingAssumption
    <3>3. ASSUME d + 1 >= OamStatDot
          PROVE  /\ ppu'.stat = Frame!OAMSearch
                 /\ since' = Mode3Min \/ since' >= d + 1 - OamStatDot + 1
      BY <1>3, <1>5, <2>1, <3>2, <3>3 DEF NoMode0For, Frame!PpuTimingAssumption
    <3>4. ppu'.dot < Mode3Dot
          /\ (ppu'.dot >= OamStatDot =>
                /\ ppu'.stat = Frame!OAMSearch
                /\ since' = Mode3Min \/ since' >= ppu'.dot - OamStatDot + 1)
      BY <1>3, <1>5, <3>1, <3>3 DEF Frame!PpuTimingAssumption
    <3>5. VisibleLine(ppu)'
      BY <3>2, <3>4 DEF VisibleLine, NoMode0For
    <3>6. QED
      BY <1>9, <3>2, <3>5 DEF Frame!HBlank, Frame!OAMSearch
  <2>4. QED
    BY <2>2, <2>3
<1>10. CASE ~ends /\ On.mode = Frame!PixelTransfer /\ d < RendererDot
  <2>1. /\ Mode3Dot <= d /\ On.stat = Frame!PixelTransfer /\ ~Frame!Renders(On)
        /\ NoMode0For(d - OamStatDot + 1)
    BY <1>1, <1>5, <1>10
       DEF VisibleLine, Frame!OAMSearch, Frame!PixelTransfer, Frame!HBlank, d, Frame!PpuTimingAssumption
  <2>2. /\ ppu'.mode = Frame!PixelTransfer /\ ppu'.stat = Frame!PixelTransfer
        /\ d + 1 = RendererDot => ppu'.calls = 0
    BY <1>2, <1>3, <1>4, <1>5, <1>10, <2>1 DEF Milestone, Frame!PpuTimingAssumption
  <2>3. since' = Mode3Min \/ since' >= d + 1 - OamStatDot + 1
    BY <1>3, <1>5, <2>1, <2>2 DEF NoMode0For, Frame!PpuTimingAssumption
  <2>4. CASE d + 1 < RendererDot
    BY <1>3, <1>5, <1>10, <2>1, <2>2, <2>3, <2>4
       DEF VisibleLine, NoMode0For, Frame!PpuTimingAssumption
  <2>5. CASE ~(d + 1 < RendererDot)
    <3>1. d + 1 = RendererDot
      BY <1>5, <1>10, <2>5 DEF Frame!PpuTimingAssumption
    <3>2. Frame!Mode3IsLong => since' = Mode3Min \/ since' >= 0 + 1 + Mode3Min - MinTransfer
      BY <1>3, <1>5, <2>2, <2>3, <3>1 DEF Frame!Mode3IsLong, Frame!PpuTimingAssumption
    <3>3. QED
      BY <1>3, <1>5, <1>10, <2>2, <3>1, <3>2
         DEF VisibleLine, NoMode0For, Frame!PpuTimingAssumption
  <2>6. QED
    BY <2>4, <2>5
<1>11. CASE ~ends /\ On.mode = Frame!PixelTransfer /\ ~(d < RendererDot)
  <2>1. /\ Frame!Renders(On) /\ RendererDot <= d
    BY <1>5, <1>11 DEF Frame!PpuTimingAssumption
  <2>2. /\ On.stat = Frame!PixelTransfer /\ d <= On.calls + StartupRendererDot
        /\ Frame!Mode3IsLong => NoMode0For(On.calls + 1 + Mode3Min - MinTransfer)
        /\ p.mode = Frame!PixelTransfer /\ p.stat = Frame!PixelTransfer
        /\ p.calls = On.calls + 1 /\ On.calls + 1 < MaxTransfer
    BY <1>2, <1>11, <2>1, RendersWithinLine DEF d
  <2>3. /\ ppu'.mode = Frame!PixelTransfer /\ ppu'.stat = Frame!PixelTransfer
        /\ ppu'.calls = On.calls + 1
    BY <1>2, <1>3, <1>4, <1>5, <2>1, <2>2 DEF Milestone, Frame!PpuTimingAssumption
  <2>4. Frame!Mode3IsLong =>
          since' = Mode3Min \/ since' >= On.calls + 1 + 1 + Mode3Min - MinTransfer
    BY <1>3, <1>5, <2>2, <2>3 DEF NoMode0For, Frame!PpuTimingAssumption
  <2>5. QED
    BY <1>3, <1>5, <1>11, <2>1, <2>2, <2>3, <2>4
       DEF VisibleLine, NoMode0For, Frame!PpuTimingAssumption
<1>12. CASE ~ends /\ On.mode = Frame!HBlank
  <2>1. RendererDot < d
    BY <1>1, <1>12 DEF VisibleLine, Frame!OAMSearch, Frame!PixelTransfer, Frame!HBlank, d
  <2>2. ~Frame!Renders(On)
    BY <1>5, <1>12 DEF Frame!PixelTransfer, Frame!HBlank
  <2>3. ppu'.mode = Frame!HBlank
    BY <1>2, <1>3, <1>4, <1>5, <1>12, <2>1, <2>2 DEF Milestone, Frame!PpuTimingAssumption
  <2>4. QED
    BY <1>3, <1>5, <1>12, <2>1, <2>3 DEF VisibleLine, Frame!PpuTimingAssumption
<1>13. QED
  BY <1>1, <1>8, <1>9, <1>10, <1>11, <1>12 DEF VisibleLine

\* In VBlank only the dot changes.
LEMMA VBlankDot ==
  ASSUME Frame!PpuTimingAssumption, IInv, NEW ends \in BOOLEAN, DotTick(ends), ~Frame!Visible(On)
  PROVE  ~ends /\ Phase(ppu)'
<1> DEFINE p == Frame!HandleMode(On, ends)
<1>1. ~ends
  BY HandledFields, RendersWithinLine DEF DotTick
<1>2. On.mode = Frame!VBlank /\ ~On.lcdStartupLine
  BY OnKeeps DEF OnInv, Phase
<1>3. /\ p.mode = Frame!VBlank /\ ~p.lcdStartupLine /\ p.scanline = On.scanline
  BY <1>1, <1>2, HandledFields DEF DotTick
<1>4. Milestone(p, ppu') /\ ppu'.scanline = On.scanline
  BY DotTickFields
<1>5. ~Frame!Visible(p) /\ ~Frame!Visible(ppu)'
  BY <1>3, <1>4 DEF Frame!Visible
<1> HIDE DEF p
<1>6. QED
  BY <1>1, <1>3, <1>4, <1>5 DEF Milestone, Phase

\* Nothing is requested within a line but by the switch-on.
LEMMA DotTickKeeps ==
  ASSUME Frame!PpuTimingAssumption, IInv, NEW ends \in BOOLEAN, DotTick(ends)
  PROVE  OnInv(ppu)' /\ told' \subseteq Frame!Notices
<1>1. /\ OnInv(On) /\ On \in Frame!Ppu
      /\ Frame!RunNextTCycle(ends) /\ ~Frame!LastDot(On)
      /\ lyc \in LycValues /\ (~ppu.lcdEnabled => age = Frame!NoRequest)
  BY OnKeeps DEF OnInv, DotTick, IInv, OffInv
<1>2. /\ ppu' \in Frame!Ppu /\ ppu'.lcdEnabled
      /\ ppu'.scanline = On.scanline
      /\ Frame!Visible(ppu)' <=> Frame!Visible(On)
  BY DotTickFields DEF Frame!Visible
<1>3. /\ told' \subseteq Frame!Notices
      /\ "vblankInterrupt" \notin told'
      /\ "lycInterrupt" \in told' <=> "lyc" \in Sources /\ ~ppu.lcdEnabled /\ lyc = 0
  BY <1>1, HandledFields, Tells
<1>4. /\ hblanks' = IF ends THEN 1 ELSE hblanks
      /\ lines' = IF "vblankInterrupt" \in told THEN 0
                  ELSE IF ends THEN lines + 1 ELSE lines
      /\ lyc' = lyc
  BY <1>1, <1>2, TickParts
<1>5. Phase(ppu)'
  BY FirstLineDot, VisibleLineDot, VBlankDot
<1>6. Counted(ppu)'
  <2>1. CASE Frame!Visible(On)
    <3>1. HBlankSeen(ppu)' <=> ends \/ HBlankSeen(On)
      BY <1>2, <2>1, FirstLineDot, VisibleLineDot DEF HBlankSeen, Frame!PixelTransfer, Frame!HBlank
    <3>2. ends => hblanks = 0
      BY <1>1, RendersWithinLine, HandledFields
    <3>3. /\ hblanks = IF HBlankSeen(On) THEN 1 ELSE 0
          /\ lines = On.scanline + hblanks /\ "vblankInterrupt" \notin told
          /\ On.scanline \in Nat
      BY <1>1, <2>1 DEF OnInv, Counted, Frame!Ppu, Frame!PpuTimingAssumption
    <3>4. /\ hblanks' = IF HBlankSeen(ppu)' THEN 1 ELSE 0
          /\ lines' = ppu'.scanline + hblanks'
      BY <1>2, <1>4, <3>1, <3>2, <3>3
    <3>5. QED
      BY <1>2, <1>3, <2>1, <3>4 DEF Counted
  <2>2. CASE ~Frame!Visible(On)
    <3>1. hblanks = 0 /\ lines = IF "vblankInterrupt" \in told THEN FirstVBlankScanline ELSE 0
      BY <1>1, <2>2 DEF OnInv, Counted, HBlankSeen
    <3>2. hblanks' = 0 /\ lines' = 0
      BY <1>4, <2>2, <3>1, VBlankDot
    <3>3. QED
      BY <1>2, <1>3, <2>2, <3>2 DEF Counted, HBlankSeen
  <2>3. QED
    BY <2>1, <2>2
<1>7. Aged(ppu)'
  <2>1. age' = IF "lycInterrupt" \in told' THEN 0
               ELSE IF age = Frame!NoRequest \/ age = TotalScanlines THEN age ELSE age + 0
    BY <1>1, <1>2 DEF Frame!RunNextTCycle, Frame!Record, On
  <2>2. Aged(On)
    BY <1>1 DEF OnInv
  <2>3. CASE "lycInterrupt" \in told'
    <3>1. age' = 0 /\ lyc = 0 /\ "lyc" \in Sources /\ ppu'.scanline = 0
      BY <1>2, <1>3, <2>1, <2>3, SwitchOnFields, <1>1 DEF On, IInv, OffInv
    <3>2. QED
      BY <1>4, <3>1 DEF Aged, Frame!PpuTimingAssumption
  <2>4. CASE "lycInterrupt" \notin told'
    <3>1. age' = age
      BY <2>1, <2>2, <2>4 DEF Aged, Frame!PpuTimingAssumption
    <3>2. QED
      BY <1>2, <1>4, <2>2, <3>1 DEF Aged
  <2>5. QED
    BY <2>3, <2>4
<1>8. QED
  BY <1>2, <1>3, <1>5, <1>6, <1>7 DEF OnInv

-----------------------------------------------------------------------------
(* The last T-cycle of a line.                                             *)

LineTick(ends) == Frame!RunNextTCycle(ends) /\ Frame!LastDot(On)

\* The line is over, with its H-Blank behind it if it is a visible one.
LEMMA LineIsDone ==
  ASSUME Frame!PpuTimingAssumption, NEW p, OnInv(p), Frame!LastDot(p)
  PROVE  ~p.lcdStartupLine /\ hblanks = IF Frame!Visible(p) THEN 1 ELSE 0
<1>1. p \in Frame!Ppu /\ Phase(p) /\ Counted(p)
  BY DEF OnInv
<1>2. p.dot + 1 >= DotsPerScanline /\ p.dot \in Nat /\ p.calls \in 0 .. MaxTransfer
  BY <1>1 DEF Frame!LastDot, Frame!Ppu, Frame!PpuTimingAssumption
<1>3. ~(Frame!Visible(p) /\ p.lcdStartupLine)
  BY <1>1, <1>2 DEF Phase, FirstLine, Frame!PpuTimingAssumption
<1>4. Frame!Visible(p) => p.mode = Frame!HBlank
  <2>1. ASSUME Frame!Visible(p) PROVE VisibleLine(p)
    BY <1>1, <1>3, <2>1 DEF Phase
  <2>2. QED
    BY <1>2, <2>1 DEF VisibleLine, Frame!PpuTimingAssumption
<1>5. QED
  BY <1>1, <1>3, <1>4 DEF Phase, Counted, HBlankSeen

LEMMA LineTickFields ==
  ASSUME Frame!PpuTimingAssumption, IInv, NEW ends \in BOOLEAN, LineTick(ends)
  PROVE  /\ ~ends /\ ppu' \in Frame!Ppu /\ ppu'.lcdEnabled /\ ~ppu'.lcdStartupLine
         /\ ppu'.dot = 0
         /\ ppu'.scanline = IF On.scanline + 1 = TotalScanlines THEN 0
                             ELSE On.scanline + 1
         /\ ppu'.mode = IF Frame!Visible(ppu') THEN Frame!OAMSearch ELSE Frame!VBlank
         /\ On.scanline \in 0 .. TotalScanlines - 1
         /\ OnInv(On) /\ ppu.lcdEnabled
<1> DEFINE p == Frame!HandleMode(On, ends)
<1>1. OnInv(On)
  BY OnKeeps
<1>2. ~ends
  BY HandledFields, RendersWithinLine DEF LineTick
<1>3. ~On.lcdStartupLine
  BY <1>1, LineIsDone DEF LineTick
<1>4. ppu.lcdEnabled
  BY <1>3, SwitchOnFields DEF IInv, OffInv, On
<1>5. /\ p \in Frame!Ppu /\ p.lcdEnabled /\ ~p.lcdStartupLine
      /\ p.dot = On.dot /\ p.scanline = On.scanline /\ ppu' = Frame!IncrementDot(p)
  BY <1>3, HandledFields, TickParts DEF LineTick
<1>6. ppu' = Frame!NextLine(p)
  BY <1>5 DEF Frame!IncrementDot, Frame!LastDot, LineTick
<1>7. p.scanline \in 0 .. TotalScanlines - 1
  BY <1>5 DEF Frame!Ppu
<1> HIDE DEF p
<1>8. /\ ppu' \in Frame!Ppu /\ ppu'.lcdEnabled /\ ~ppu'.lcdStartupLine
      /\ ppu'.dot = 0 /\ ppu'.scanline = (On.scanline + 1) % TotalScanlines
      /\ ppu'.mode = IF Frame!Visible(ppu') THEN Frame!OAMSearch ELSE Frame!VBlank
  BY <1>5, <1>6, NextLineFields
<1>9. (On.scanline + 1) % TotalScanlines =
        IF On.scanline + 1 = TotalScanlines THEN 0 ELSE On.scanline + 1
  BY <1>5, <1>7, NextScanline
<1>10. QED
  BY <1>1, <1>2, <1>4, <1>5, <1>7, <1>8, <1>9

\* What it requests, and when LY=LYC was requested last.
LEMMA LineTickTells ==
  ASSUME Frame!PpuTimingAssumption, IInv, NEW ends \in BOOLEAN, LineTick(ends)
  PROVE  /\ told' \subseteq Frame!Notices
         /\ "vblankInterrupt" \in told' <=> ppu'.scanline = FirstVBlankScanline
         /\ "lycInterrupt" \in told' <=> "lyc" \in Sources /\ ppu'.scanline = lyc
<1>1. /\ Frame!RunNextTCycle(ends) /\ Frame!LastDot(On) /\ On \in Frame!Ppu /\ ppu.lcdEnabled
      /\ On.scanline \in 0 .. TotalScanlines - 1
      /\ ppu'.scanline = IF On.scanline + 1 = TotalScanlines THEN 0
                          ELSE On.scanline + 1
  BY LineTickFields DEF LineTick, OnInv
<1>2. (On.scanline + 1) % TotalScanlines = ppu'.scanline
  BY <1>1, NextScanline
<1>3. QED
  BY <1>1, <1>2, HandledFields, Tells

LEMMA LineTickAge ==
  ASSUME Frame!PpuTimingAssumption, IInv, NEW ends \in BOOLEAN, LineTick(ends)
  PROVE  /\ Aged(ppu)' /\ age' < TotalScanlines
         /\ "lycInterrupt" \in told' => age \in {Frame!NoRequest, TotalScanlines - 1}
<1> DEFINE y == On.scanline
<1>1. /\ y \in 0 .. TotalScanlines - 1
      /\ ppu'.scanline = IF y + 1 = TotalScanlines THEN 0 ELSE y + 1
      /\ ppu'.scanline # y
  BY LineTickFields DEF Frame!PpuTimingAssumption
<1>2. age' = IF "lycInterrupt" \in told' THEN 0
             ELSE IF age = Frame!NoRequest \/ age = TotalScanlines THEN age ELSE age + 1
  BY <1>1, LineTickFields DEF LineTick, Frame!RunNextTCycle, Frame!Record, On
<1>3. "lycInterrupt" \in told' <=> "lyc" \in Sources /\ ppu'.scanline = lyc
  BY LineTickTells
<1>4. lyc' = lyc /\ lyc \in Nat
  BY TickParts DEF LineTick, IInv, Frame!PpuTimingAssumption
<1>5. age # Frame!NoRequest =>
        /\ "lyc" \in Sources
        /\ age \in 0 .. TotalScanlines - 1 /\ lyc < TotalScanlines
        /\ y \in {lyc + age, lyc + age - TotalScanlines}
  BY LineTickFields DEF OnInv, Aged
<1> HIDE DEF y
<1>6. CASE "lycInterrupt" \in told'
  <2>1. /\ age' = 0 /\ "lyc" \in Sources /\ ppu'.scanline = lyc /\ lyc < TotalScanlines
    BY <1>1, <1>2, <1>3, <1>6 DEF Frame!PpuTimingAssumption
  <2>2. age # Frame!NoRequest => age = TotalScanlines - 1
    BY <1>1, <1>4, <1>5, <2>1 DEF Frame!PpuTimingAssumption
  <2>3. QED
    BY <1>4, <2>1, <2>2 DEF Aged, Frame!PpuTimingAssumption
<1>7. CASE "lycInterrupt" \notin told' /\ age = Frame!NoRequest
  BY <1>2, <1>7 DEF Aged, Frame!NoRequest, Frame!PpuTimingAssumption
<1>8. CASE "lycInterrupt" \notin told' /\ age # Frame!NoRequest
  <2>1. /\ age' = age + 1 /\ age + 1 \in 0 .. TotalScanlines - 1
        /\ ppu'.scanline \in {lyc + age + 1, lyc + age + 1 - TotalScanlines}
    BY <1>1, <1>2, <1>3, <1>4, <1>5, <1>8 DEF Frame!PpuTimingAssumption
  <2>2. QED
    BY <1>4, <1>5, <1>8, <2>1 DEF Aged, Frame!PpuTimingAssumption
<1>9. QED
  BY <1>6, <1>7, <1>8

LEMMA LineTickKeeps ==
  ASSUME Frame!PpuTimingAssumption, IInv, NEW ends \in BOOLEAN, LineTick(ends)
  PROVE  OnInv(ppu)' /\ told' \subseteq Frame!Notices
<1> DEFINE y == On.scanline
<1>1. /\ ~ends /\ ppu' \in Frame!Ppu /\ ppu'.lcdEnabled /\ ~ppu'.lcdStartupLine
      /\ ppu'.dot = 0
      /\ ppu'.scanline = IF y + 1 = TotalScanlines THEN 0 ELSE y + 1
      /\ ppu'.mode = IF Frame!Visible(ppu') THEN Frame!OAMSearch ELSE Frame!VBlank
      /\ y \in 0 .. TotalScanlines - 1 /\ OnInv(On) /\ Frame!LastDot(On)
  BY LineTickFields DEF LineTick
<1>2. Phase(ppu)'
  BY <1>1 DEF Phase, VisibleLine, Frame!PpuTimingAssumption
<1>3. Counted(ppu)'
  <2>1. /\ hblanks = IF Frame!Visible(On) THEN 1 ELSE 0
        /\ lines = IF Frame!Visible(On) THEN y + 1
                   ELSE IF "vblankInterrupt" \in told THEN FirstVBlankScanline ELSE 0
        /\ Frame!Visible(On) => "vblankInterrupt" \notin told
    BY <1>1, LineIsDone DEF OnInv, Counted
  <2>2. /\ hblanks' = 0
        /\ lines' = IF "vblankInterrupt" \in told THEN 0 ELSE lines
    BY <1>1, TickParts DEF LineTick, Frame!PpuTimingAssumption
  <2>3. "vblankInterrupt" \in told' <=> ppu'.scanline = FirstVBlankScanline
    BY LineTickTells
  <2>4. ~HBlankSeen(ppu')
    BY <1>1 DEF HBlankSeen, Frame!OAMSearch, Frame!VBlank, Frame!HBlank
  <2>5. /\ lines' = IF Frame!Visible(ppu') THEN ppu'.scanline
                    ELSE IF "vblankInterrupt" \in told' THEN FirstVBlankScanline ELSE 0
        /\ Frame!Visible(ppu') => "vblankInterrupt" \notin told'
    BY <1>1, <2>1, <2>2, <2>3 DEF Frame!Visible, Frame!PpuTimingAssumption
  <2>6. QED
    BY <1>1, <2>2, <2>4, <2>5 DEF Counted, HBlankSeen, Frame!Visible, Frame!Ppu, Frame!PpuTimingAssumption
<1>4. QED
  BY <1>1, <1>2, <1>3, LineTickTells, LineTickAge DEF OnInv

-----------------------------------------------------------------------------
(* The inductive invariant.                                                *)

LEMMA InitInv ==
  ASSUME Frame!PpuTimingAssumption, Frame!Init
  PROVE  IInv
<1>1. ppu \in Frame!Ppu /\ ~ppu.lcdEnabled
  <2>1. /\ 0 \in 0 .. DotsPerScanline - 1 /\ 0 \in 0 .. TotalScanlines - 1
        /\ 0 \in 0 .. MaxTransfer
    BY DEF Frame!PpuTimingAssumption
  <2>2. QED
    BY <2>1 DEF Frame!Init, Frame!Ppu, Frame!Modes
<1>2. since \in 0 .. Mode3Min /\ lyc \in LycValues
  BY DEF Frame!Init, Frame!PpuTimingAssumption
<1>3. QED
  BY <1>1, <1>2 DEF Frame!Init, IInv, OffInv

LEMMA StepKeeps ==
  ASSUME Frame!PpuTimingAssumption, IInv, [Frame!Next]_Frame!vars
  PROVE  IInv'
<1> USE DEF IInv
<1>1. ASSUME NEW ends \in BOOLEAN, Frame!RunNextTCycle(ends)
      PROVE  IInv'
  <2>1. OnInv(ppu)' /\ told' \subseteq Frame!Notices
    BY <1>1, DotTickKeeps, LineTickKeeps DEF DotTick, LineTick
  <2>2. /\ lcdc' \in BOOLEAN /\ lyc' \in LycValues
        /\ since' = IF ppu'.stat = Frame!HBlank THEN 0
                    ELSE IF since < Mode3Min THEN since + 1 ELSE since
    BY <1>1, TickParts
  <2>3. since' \in 0 .. Mode3Min
    BY <2>2 DEF Frame!PpuTimingAssumption
  <2>4. QED
    BY <2>1, <2>2, <2>3 DEF OnInv
<1>2. CASE Frame!RunNextTCycleOff
  <2>1. /\ lcdc' \in BOOLEAN /\ lyc' \in LycValues /\ since' \in 0 .. Mode3Min
        /\ lines' = 0 /\ hblanks' = 0 /\ age' = Frame!NoRequest
    BY <1>2 DEF Frame!RunNextTCycleOff, Frame!PpuTimingAssumption
  <2>2. ppu' \in Frame!Ppu /\ ~ppu'.lcdEnabled
    BY <1>2, SwitchOffFields DEF Frame!RunNextTCycleOff, OnInv, OffInv
  <2>3. told' \subseteq Frame!Notices /\ "vblankInterrupt" \notin told'
    BY <1>2 DEF Frame!RunNextTCycleOff, Frame!StatInterrupt, Frame!CoincidenceInterrupt, Frame!Notices
  <2>4. QED
    BY <2>1, <2>2, <2>3 DEF OffInv
<1>3. CASE Frame!WriteLcdc
  BY <1>3 DEF Frame!WriteLcdc, OnInv, OffInv, Phase, Counted, Aged, HBlankSeen, Frame!Visible, FirstLine,
              VisibleLine, NoMode0For
<1>4. ASSUME NEW value \in LycValues, Frame!WriteLyc(value)
      PROVE  IInv'
  BY <1>4 DEF Frame!WriteLyc, OnInv, OffInv, Phase, Counted, Aged, HBlankSeen, Frame!Visible, FirstLine,
              VisibleLine, NoMode0For
<1>5. CASE UNCHANGED Frame!vars
  BY <1>5 DEF Frame!vars, OnInv, OffInv, Phase, Counted, Aged, HBlankSeen, Frame!Visible, FirstLine,
              VisibleLine, NoMode0For
<1>6. QED
  BY <1>1, <1>2, <1>3, <1>4, <1>5 DEF Frame!Next, Frame!Tick

FrameInv == kind = "frame" => IInv

LEMMA FrameSteps ==
  ASSUME [Next]_vars, kind = "frame"
  PROVE  [Frame!Next]_Frame!vars
BY DEF Next, vars, frameVars, Frame!vars

LEMMA FrameInductive ==
  /\ Init => FrameInv
  /\ FrameInv /\ [Next]_vars => FrameInv'
<1>1. Init => FrameInv
  BY InitInv, HardwareAssumption DEF Init, FrameInv
<1>2. ASSUME FrameInv, [Next]_vars, kind = "frame"
      PROVE  IInv'
  BY <1>2, StepKeeps, FrameSteps, HardwareAssumption DEF FrameInv
<1>3. QED
  BY <1>1, <1>2, KindStays DEF FrameInv

-----------------------------------------------------------------------------
(* The theorems.                                                           *)

\* Type correctness: the dot and the scanline stay on the screen, the calls of
\* the renderer within what it may take, and no line has two H-Blanks.
LEMMA FrameTypes ==
  ASSUME Frame!PpuTimingAssumption, IInv
  PROVE  Frame!TypeOK
<1>1. CASE ppu.lcdEnabled
  <2>1. OnInv(ppu)
    BY <1>1 DEF IInv
  <2>2. /\ lines \in 0 .. FirstVBlankScanline /\ hblanks \in 0 .. 1
        /\ age \in Frame!NoRequest .. TotalScanlines
    BY <2>1 DEF OnInv, Counted, HBlankSeen, Aged, Frame!Visible, Frame!Ppu, Frame!NoRequest,
                Frame!PpuTimingAssumption
  <2>3. QED
    BY <2>1, <2>2 DEF IInv, OnInv, Frame!TypeOK
<1>2. CASE ~ppu.lcdEnabled
  BY <1>2 DEF IInv, OffInv, Frame!TypeOK, Frame!NoRequest, Frame!PpuTimingAssumption
<1>3. QED
  BY <1>1, <1>2

\* What VRAM DMA takes for granted of the PPU: on every visible line one H-Blank
\* is told, none on the others, and when it is STAT has not shown mode 0 for
\* Mode3Min T-cycles, whenever the program switches the LCD.
THEOREM HBlankTheorem == Spec => HBlanksPaceDma
<1> Frame!PpuTimingAssumption /\ Frame!Mode3IsLong
  BY HardwareAssumption
<1>1. IInv => Frame!OneHBlankPerLine
  BY LineIsDone DEF IInv, Frame!OneHBlankPerLine
<1>2. IInv => Frame!HBlankIsLate
  <2> SUFFICES ASSUME IInv, NEW ends \in BOOLEAN, Frame!RunNextTCycle(ends),
                      "hblankStart" \in told'
               PROVE  since = Mode3Min
    BY DEF Frame!HBlankIsLate
  <2>1. ends
    BY HandledFields, OnKeeps, Tells DEF OnInv
  <2>2. Frame!Renders(On) /\ On.calls + 1 >= MinTransfer
    BY <2>1, HandledFields
  <2>3. NoMode0For(On.calls + 1 + Mode3Min - MinTransfer)
    BY <2>2, RendersWithinLine
  <2>4. On.calls \in Nat
    BY OnKeeps DEF OnInv, Frame!Ppu, Frame!PpuTimingAssumption
  <2>5. QED
    BY <2>2, <2>3, <2>4 DEF NoMode0For, IInv, Frame!PpuTimingAssumption
<1>3. FrameInv => [kind = "frame" => Frame!OneHBlankPerLine /\ Frame!HBlankIsLate]_vars
  BY <1>1, <1>2 DEF FrameInv
<1>4. QED
  BY <1>3, FrameInductive, PTL DEF Spec, HBlanksPaceDma

\* VBlank is requested after exactly as many lines as a frame has, and LY=LYC,
\* with LYC and the LCD left alone, once in as many lines as there are.
THEOREM InterruptTheorem == Spec => InterruptsFollowFrames
<1> Frame!PpuTimingAssumption
  BY HardwareAssumption
<1>1. IInv => Frame!VBlankFollowsFrame
  BY DEF IInv, OnInv, OffInv, Counted, Frame!VBlankFollowsFrame
<1>2. IInv /\ [Frame!Next]_Frame!vars => age' < TotalScanlines
  BY StepKeeps DEF IInv, OnInv, OffInv, Aged, Frame!NoRequest, Frame!PpuTimingAssumption
<1>3. ASSUME IInv, NEW ends \in BOOLEAN, Frame!RunNextTCycle(ends), "lycInterrupt" \in told'
      PROVE  age \in {Frame!NoRequest, TotalScanlines - 1}
  <2>1. CASE Frame!LastDot(On)
    BY <1>3, <2>1, LineTickAge DEF LineTick
  <2>2. CASE ~Frame!LastDot(On)
    BY <1>3, <2>2, HandledFields, OnKeeps, Tells DEF OnInv, IInv, OffInv
  <2>3. QED
    BY <2>1, <2>2
<1>4. IInv /\ [Frame!Next]_Frame!vars => Frame!VBlankFollowsFrame /\ Frame!LycIsDue
  BY <1>1, <1>2, <1>3 DEF Frame!LycIsDue
<1>5. FrameInv /\ [Next]_vars =>
        [kind = "frame" => Frame!VBlankFollowsFrame /\ Frame!LycIsDue]_vars
  BY <1>4, FrameSteps DEF FrameInv
<1>6. QED
  BY <1>5, FrameInductive, PTL DEF Spec, InterruptsFollowFrames

-----------------------------------------------------------------------------
(* OAM DMA, for every size of OAM and every T-cycle at which the program   *)
(* starts it anew.                                                         *)

\* The transfer copies from the page that was asked for last, and everything
\* below its offset has been copied from there.
TransferInv ==
  /\ Transfer!TypeOK
  /\ dma # Unset => dma.source = page
  /\ Transfer!OamIsOnePage

LEMMA TransferStep ==
  ASSUME Transfer!TransfersAssumption, TransferInv, [Transfer!Next]_Transfer!vars
  PROVE  TransferInv'
<1> USE DEF TransferInv, Transfer!TypeOK, Transfer!TransfersAssumption
<1>1. CASE Transfer!RunNextTCycle
  <2>1. /\ countdown' \in 1 .. SerialTCycles \union {Unset}
        /\ sc' \in [start : BOOLEAN, internal : BOOLEAN] /\ requested' \in BOOLEAN
    <3>1. Transfer!ClockSerial
      BY <1>1 DEF Transfer!RunNextTCycle
    <3>2. CASE countdown = Unset
      BY <3>1, <3>2 DEF Transfer!ClockSerial
    <3>3. CASE countdown \in 1 .. SerialTCycles /\ countdown > 1
      <4>1. /\ countdown' = countdown - 1 /\ sc' = sc /\ requested' = requested
        BY <3>1, <3>3 DEF Transfer!ClockSerial
      <4>2. QED
        BY <3>3, <4>1
    <3>4. CASE countdown \in 1 .. SerialTCycles /\ ~(countdown > 1)
      <4>1. countdown' = Unset /\ sc' = [sc EXCEPT !.start = FALSE] /\ requested' = TRUE
        BY <3>1, <3>4 DEF Transfer!ClockSerial
      <4>2. QED
        BY <4>1
    <3>5. QED
      BY <3>2, <3>3, <3>4
  <2>2. page' = page
    BY <1>1 DEF Transfer!RunNextTCycle
  <2>3. CASE dma = Unset
    <3>1. dma' = Unset /\ oam' = oam
      BY <1>1, <2>3 DEF Transfer!RunNextTCycle, Transfer!ClockDma, Transfer!Copies
    <3>2. QED
      BY <2>1, <2>2, <2>3, <3>1 DEF Transfer!OamIsOnePage
  <2>4. CASE dma # Unset /\ ~Transfer!Copies
    <3>1. dma' = [dma EXCEPT !.cycles = @ + 1] /\ oam' = oam
      BY <1>1, <2>4 DEF Transfer!RunNextTCycle, Transfer!ClockDma
    <3>2. dma \in Transfer!DmaState /\ dma.cycles + 1 < TCyclesPerByte
      BY <2>4 DEF Transfer!DmaState, Transfer!Copies
    <3>3. /\ dma' \in Transfer!DmaState /\ dma'.source = dma.source
          /\ dma'.offset = dma.offset
      BY <3>1, <3>2 DEF Transfer!DmaState
    <3>4. QED
      BY <2>1, <2>2, <2>4, <3>1, <3>3 DEF Transfer!OamIsOnePage
  <2>5. CASE dma # Unset /\ Transfer!Copies
    <3>1. /\ dma' = Transfer!DmaAfterByte
          /\ oam' = [oam EXCEPT ![dma.offset] = dma.source]
      BY <1>1, <2>5 DEF Transfer!RunNextTCycle, Transfer!ClockDma
    <3>2. /\ dma \in Transfer!DmaState /\ dma.offset \in Transfer!Offsets
          /\ dma.source \in Pages /\ dma.source = page
      BY <2>5 DEF Transfer!DmaState
    <3>3. /\ oam' \in [Transfer!Offsets -> Pages \union {Unset}]
          /\ \A i \in Transfer!Offsets :
               (i < dma.offset \/ i = dma.offset) => oam'[i] = page
      BY <2>5, <3>1, <3>2 DEF Transfer!OamIsOnePage
    <3>4. CASE dma.offset + 1 >= TotalBytes
      <4>1. dma' = Unset
        BY <3>1, <3>4 DEF Transfer!DmaAfterByte
      <4>2. \A i \in Transfer!Offsets : i < dma.offset \/ i = dma.offset
        BY <3>2, <3>4 DEF Transfer!Offsets
      <4>3. QED
        BY <2>1, <2>2, <3>3, <4>1, <4>2 DEF Transfer!OamIsOnePage
    <3>5. CASE ~(dma.offset + 1 >= TotalBytes)
      <4>1. dma' = [dma EXCEPT !.cycles = 0, !.offset = @ + 1]
        BY <3>1, <3>5 DEF Transfer!DmaAfterByte
      <4>2. dma.offset + 1 \in Transfer!Offsets /\ 0 \in 0 .. TCyclesPerByte - 1
        BY <3>2, <3>5 DEF Transfer!Offsets
      <4>3. /\ dma' \in Transfer!DmaState /\ dma'.source = dma.source
            /\ dma'.offset = dma.offset + 1
        BY <3>2, <4>1, <4>2 DEF Transfer!DmaState
      <4>4. dma' # Unset
        BY <4>3
      <4>5. \A i \in Transfer!Offsets : i < dma.offset + 1 => i < dma.offset \/ i = dma.offset
        BY <3>2 DEF Transfer!Offsets
      <4>6. QED
        BY <2>1, <2>2, <3>2, <3>3, <4>3, <4>4, <4>5 DEF Transfer!OamIsOnePage
    <3>6. QED
      BY <3>4, <3>5
  <2>6. QED
    BY <2>3, <2>4, <2>5
<1>2. ASSUME NEW source \in Pages, Transfer!WriteOamDma(source)
      PROVE  TransferInv'
  <2>1. 0 \in Transfer!Offsets /\ 0 \in 0 .. TCyclesPerByte - 1
    BY DEF Transfer!Offsets
  <2>2. dma' = [source |-> source, offset |-> 0, cycles |-> 0] /\ page' = source
    BY <1>2 DEF Transfer!WriteOamDma, Transfer!DmaStarted
  <2>3. dma' \in Transfer!DmaState /\ dma'.source = source /\ dma'.offset = 0
    BY <2>1, <2>2 DEF Transfer!DmaState
  <2>4. \A i \in Transfer!Offsets : ~(i < 0)
    BY DEF Transfer!Offsets
  <2>5. dma' # Unset
    BY <2>3
  <2>6. QED
    BY <1>2, <2>2, <2>3, <2>4, <2>5 DEF Transfer!WriteOamDma, Transfer!OamIsOnePage
<1>3. ASSUME NEW start \in BOOLEAN, NEW internal \in BOOLEAN,
             Transfer!WriteSc(start, internal)
      PROVE  TransferInv'
  BY <1>3 DEF Transfer!WriteSc, Transfer!OamIsOnePage
<1>4. CASE Transfer!ClearRequest
  BY <1>4 DEF Transfer!ClearRequest, Transfer!OamIsOnePage
<1>5. CASE UNCHANGED Transfer!vars
  BY <1>5 DEF Transfer!vars, Transfer!OamIsOnePage
<1>6. QED
  BY <1>1, <1>2, <1>3, <1>4, <1>5 DEF Transfer!Next, Transfer!Write

LEMMA TransferInit ==
  ASSUME Transfer!TransfersAssumption, Transfer!Init
  PROVE  TransferInv
<1>1. oam \in [Transfer!Offsets -> Pages \union {Unset}] /\ dma = Unset /\ page = Unset
  BY DEF Transfer!Init
<1>2. sc \in [start : BOOLEAN, internal : BOOLEAN]
  BY DEF Transfer!Init
<1>3. Transfer!TypeOK
  BY <1>1, <1>2 DEF Transfer!TypeOK, Transfer!Init
<1>4. QED
  BY <1>1, <1>3 DEF TransferInv, Transfer!OamIsOnePage

OamInv == kind = "transfers" => TransferInv

LEMMA OamInductive ==
  /\ Init => OamInv
  /\ OamInv /\ [Next]_vars => OamInv'
<1>1. Init => OamInv
  BY TransferInit, HardwareAssumption DEF Init, OamInv
<1>2. ASSUME OamInv, [Next]_vars, kind = "transfers"
      PROVE  TransferInv'
  <2>1. [Transfer!Next]_Transfer!vars
    BY <1>2 DEF Next, vars, transferVars, Transfer!vars
  <2>2. QED
    BY <1>2, <2>1, TransferStep, HardwareAssumption DEF OamInv
<1>3. QED
  BY <1>1, <1>2, KindStays DEF OamInv

\* OAM holds the page that was asked for last, whenever no transfer is running,
\* and as far as it has come when one is.
THEOREM OamTheorem == Spec => []OamIsOnePage
<1>1. OamInv => OamIsOnePage
  BY DEF OamInv, TransferInv, OamIsOnePage
<1>2. QED
  BY <1>1, OamInductive, PTL DEF Spec

-----------------------------------------------------------------------------
(* The accumulator: an instruction gives what its operands and flags say,  *)
(* DAA adds two decimal digits at a time, and words are the sum of bytes.  *)

Byte == 0 .. 255

LEMMA ResultType ==
  ASSUME NEW value \in Int, NEW flags \in SUBSET Arithmetic!Flags
  PROVE  LET r == Arithmetic!Result(value, flags)
         IN  r.a \in Byte /\ r.a = value % 256 /\ r.f \subseteq Arithmetic!Flags
             /\ r.f = flags \union Arithmetic!On("Z", value % 256 = 0)
BY DEF Arithmetic!Result, Arithmetic!On, Arithmetic!Flags, Byte

LEMMA CarryRange == \A flags : Arithmetic!Carry(flags) \in {0, 1}
BY DEF Arithmetic!Carry

\* applyAluOp() of additions and subtractions.
LEMMA AddResult ==
  ASSUME NEW x \in Byte, NEW y \in Byte, NEW c \in {0, 1}
  PROVE  LET r == Arithmetic!Add(x, y, c)
         IN  /\ r.a \in Byte /\ r.f \subseteq Arithmetic!Flags
             /\ r.a = (x + y + c) % 256
             /\ "C" \in r.f <=> x + y + c >= 256
             /\ "H" \in r.f <=> (x % 16) + (y % 16) + c > 15
             /\ "N" \notin r.f
<1> DEFINE flags == Arithmetic!On("H", (x % 16) + (y % 16) + c > 15)
                    \union Arithmetic!On("C", x + y + c >= 256)
<1>1. x + y + c \in Int /\ flags \in SUBSET Arithmetic!Flags
  BY DEF Byte, Arithmetic!On, Arithmetic!Flags
<1>2. /\ "C" \in flags <=> x + y + c >= 256
      /\ "H" \in flags <=> (x % 16) + (y % 16) + c > 15
      /\ "N" \notin flags
  BY DEF Arithmetic!On
<1>3. Arithmetic!Add(x, y, c) = Arithmetic!Result(x + y + c, flags)
  BY DEF Arithmetic!Add
<1> HIDE DEF flags
<1>4. QED
  BY <1>1, <1>2, <1>3, ResultType DEF Arithmetic!On

LEMMA SubtractResult ==
  ASSUME NEW x \in Byte, NEW y \in Byte, NEW c \in {0, 1}
  PROVE  LET r == Arithmetic!Subtract(x, y, c)
         IN  /\ r.a \in Byte /\ r.f \subseteq Arithmetic!Flags
             /\ r.a = (x - (y + c)) % 256
             /\ "C" \in r.f <=> x < y + c
             /\ "H" \in r.f <=> x % 16 < (y % 16) + c
             /\ "N" \in r.f
<1> DEFINE flags == {"N"} \union Arithmetic!On("H", x % 16 < (y % 16) + c)
                    \union Arithmetic!On("C", x < y + c)
<1>1. x - (y + c) \in Int /\ flags \in SUBSET Arithmetic!Flags
  BY DEF Byte, Arithmetic!On, Arithmetic!Flags
<1>2. /\ "C" \in flags <=> x < y + c
      /\ "H" \in flags <=> x % 16 < (y % 16) + c
      /\ "N" \in flags
  BY DEF Arithmetic!On
<1>3. Arithmetic!Subtract(x, y, c) = Arithmetic!Result(x - (y + c), flags)
  BY DEF Arithmetic!Subtract
<1> HIDE DEF flags
<1>4. QED
  BY <1>1, <1>2, <1>3, ResultType DEF Arithmetic!On

\* DAA, by the flags it looks at.
LEMMA DaaResult ==
  ASSUME NEW x \in Byte, NEW flags \in SUBSET Arithmetic!Flags
  PROVE  LET r    == Arithmetic!Daa(x, flags)
             full == "C" \in flags \/ x > 153
             half == "H" \in flags \/ x % 16 > 9
         IN  /\ r.a \in Byte /\ r.f \subseteq Arithmetic!Flags
             /\ "N" \in flags =>
                  /\ r.a = (x - ((96 * Arithmetic!Carry(flags))
                                 + (IF "H" \in flags THEN 6 ELSE 0))) % 256
                  /\ "C" \in r.f <=> "C" \in flags
             /\ "N" \notin flags =>
                  /\ r.a = (x + ((IF full THEN 96 ELSE 0) + (IF half THEN 6 ELSE 0))) % 256
                  /\ "C" \in r.f <=> full
<1> DEFINE full == "C" \in flags \/ x > 153
           half == "H" \in flags \/ x % 16 > 9
           low == IF "H" \in flags THEN 6 ELSE 0
           adjust == (IF full THEN 96 ELSE 0) + (IF half THEN 6 ELSE 0)
           less == x - ((96 * Arithmetic!Carry(flags)) + low)
           more == x + adjust
           kept == flags \intersect {"N", "C"}
           made == Arithmetic!On("C", full)
<1>1. less \in Int /\ more \in Int
  BY CarryRange DEF Byte
<1>2. /\ kept \in SUBSET Arithmetic!Flags /\ made \in SUBSET Arithmetic!Flags
      /\ "C" \in kept <=> "C" \in flags
      /\ "C" \in made <=> full
  BY DEF Arithmetic!On, Arithmetic!Flags
<1>3. Arithmetic!Daa(x, flags) = IF "N" \in flags THEN Arithmetic!Result(less, kept)
                                 ELSE Arithmetic!Result(more, made)
  BY DEF Arithmetic!Daa
<1> HIDE DEF less, more, kept, made
<1>4. CASE "N" \in flags
  BY <1>1, <1>2, <1>3, <1>4, ResultType DEF Arithmetic!On, less
<1>5. CASE "N" \notin flags
  BY <1>1, <1>2, <1>3, <1>5, ResultType DEF Arithmetic!On, more
<1>6. QED
  BY <1>4, <1>5

-----------------------------------------------------------------------------
(* Decimal numbers, by their digits.                                       *)

Digit == 0 .. 9

LEMMA Digits ==
  ASSUME NEW x \in Byte, Arithmetic!IsDecimal(x)
  PROVE  \E t \in Digit, u \in Digit :
           x = (16 * t) + u /\ x % 16 = u /\ Arithmetic!Decimal(x) = (10 * t) + u
<1> DEFINE t == x \div 16
           u == x % 16
<1>1. t \in Digit /\ u \in Digit /\ x = (16 * t) + u
  BY DEF Byte, Digit, Arithmetic!IsDecimal
<1>2. Arithmetic!Decimal(x) = (10 * t) + u
  BY DEF Arithmetic!Decimal
<1>3. QED
  BY <1>1, <1>2

\* t tens and u units, of a sum of two digits each.
LEMMA AdjustedSum ==
  ASSUME NEW t \in 0 .. 18, NEW u \in 0 .. 19
  PROVE  LET s    == (16 * t) + u
             r    == s % 256
             n    == (10 * t) + u
             full == s >= 256 \/ r > 153
             half == u > 15 \/ r % 16 > 9
         IN  /\ full <=> n > 99
             /\ (r + ((IF full THEN 96 ELSE 0) + (IF half THEN 6 ELSE 0))) % 256
                = Arithmetic!ToDecimal(n)
<1> DEFINE s == (16 * t) + u
           r == s % 256
           n == (10 * t) + u
           tens == IF u > 9 THEN t + 1 ELSE t
           units == IF u > 9 THEN u - 10 ELSE u
           full == s >= 256 \/ r > 153
           half == u > 15 \/ r % 16 > 9
<1>1. half <=> u > 9
  OBVIOUS
<1>2. full <=> tens > 9
  OBVIOUS
<1>3. n = (10 * tens) + units /\ tens \in 0 .. 19 /\ units \in 0 .. 9
  OBVIOUS
<1>4. n % 10 = units /\ (n % 100) \div 10 = IF tens > 9 THEN tens - 10 ELSE tens
  BY <1>3
<1>5. s + (IF half THEN 6 ELSE 0) = (16 * tens) + units
  BY <1>1
<1>6. (r + ((IF full THEN 96 ELSE 0) + (IF half THEN 6 ELSE 0))) % 256
      = (16 * (IF tens > 9 THEN tens - 10 ELSE tens)) + units
  <2>1. CASE full
    <3>1. (r + ((IF full THEN 96 ELSE 0) + (IF half THEN 6 ELSE 0))) % 256
          = (s + (IF half THEN 6 ELSE 0) + 96) % 256
      BY <2>1
    <3>2. QED
      BY <1>2, <1>3, <1>5, <2>1, <3>1
  <2>2. CASE ~full
    <3>1. r = s
      BY <2>2
    <3>2. QED
      BY <1>2, <1>3, <1>5, <2>2, <3>1
  <2>3. QED
    BY <2>1, <2>2
<1>7. full <=> n > 99
  BY <1>2, <1>3
<1>8. QED
  BY <1>4, <1>6, <1>7 DEF Arithmetic!ToDecimal

LEMMA AdjustedDifference ==
  ASSUME NEW t \in -9 .. 9, NEW u \in -10 .. 9
  PROVE  LET d    == (16 * t) + u
             r    == d % 256
             n    == (10 * t) + u
         IN  /\ d < 0 <=> n < 0
             /\ (r - ((96 * (IF d < 0 THEN 1 ELSE 0)) + (IF u < 0 THEN 6 ELSE 0))) % 256
                = Arithmetic!ToDecimal(n)
<1> DEFINE d == (16 * t) + u
           r == d % 256
           n == (10 * t) + u
           tens == IF u < 0 THEN t - 1 ELSE t
           units == IF u < 0 THEN u + 10 ELSE u
           round == IF tens < 0 THEN tens + 10 ELSE tens
<1>1. n = (10 * tens) + units /\ tens \in -10 .. 9 /\ units \in 0 .. 9
  OBVIOUS
<1>2. (d < 0 <=> tens < 0) /\ (n < 0 <=> tens < 0)
  OBVIOUS
<1>3. n % 10 = units /\ (n % 100) \div 10 = round
  BY <1>1
<1>4. d - (IF u < 0 THEN 6 ELSE 0) = (16 * tens) + units
  OBVIOUS
<1>5. r = IF d < 0 THEN d + 256 ELSE d
  OBVIOUS
<1>6. r - ((96 * (IF d < 0 THEN 1 ELSE 0)) + (IF u < 0 THEN 6 ELSE 0)) = (16 * round) + units
  BY <1>2, <1>4, <1>5
<1>7. (16 * round) + units \in 0 .. 255
  BY <1>1
<1>8. (r - ((96 * (IF d < 0 THEN 1 ELSE 0)) + (IF u < 0 THEN 6 ELSE 0))) % 256
      = (16 * round) + units
  <2> HIDE DEF r, d, round, units
  <2>1. QED
    BY <1>6, <1>7
<1>9. QED
  BY <1>2, <1>3, <1>8 DEF Arithmetic!ToDecimal

\* What DAA makes of a sum, or of a difference, of two decimal bytes and a carry.
DaaGives(x, flags, n) ==
  LET r == Arithmetic!Daa(x, flags)
  IN  /\ r.a = Arithmetic!ToDecimal(n)
      /\ Arithmetic!Carry(r.f) = IF n \in 0 .. 99 THEN 0 ELSE 1

LEMMA DaaOfSum ==
  ASSUME NEW x \in Byte, NEW y \in Byte, NEW c \in {0, 1},
         Arithmetic!IsDecimal(x), Arithmetic!IsDecimal(y)
  PROVE  LET r == Arithmetic!Add(x, y, c)
             n == Arithmetic!Decimal(x) + Arithmetic!Decimal(y) + c
         IN  DaaGives(r.a, r.f, n) /\ n \in -100 .. 199
<1> DEFINE r == Arithmetic!Add(x, y, c)
           n == Arithmetic!Decimal(x) + Arithmetic!Decimal(y) + c
<1>1. PICK tx \in Digit, ux \in Digit :
        x = (16 * tx) + ux /\ x % 16 = ux /\ Arithmetic!Decimal(x) = (10 * tx) + ux
  BY Digits
<1>2. PICK ty \in Digit, uy \in Digit :
        y = (16 * ty) + uy /\ y % 16 = uy /\ Arithmetic!Decimal(y) = (10 * ty) + uy
  BY Digits
<1> DEFINE t == tx + ty
           u == ux + uy + c
           s == (16 * t) + u
<1>3. t \in 0 .. 18 /\ u \in 0 .. 19 /\ x + y + c = s /\ n = (10 * t) + u
  BY <1>1, <1>2 DEF Digit
<1>4. /\ r.a \in Byte /\ r.f \in SUBSET Arithmetic!Flags /\ "N" \notin r.f
      /\ r.a = s % 256 /\ ("C" \in r.f <=> s >= 256) /\ ("H" \in r.f <=> u > 15)
  <2>1. /\ r.a \in Byte /\ r.f \subseteq Arithmetic!Flags /\ "N" \notin r.f
        /\ r.a = (x + y + c) % 256 /\ ("C" \in r.f <=> x + y + c >= 256)
        /\ "H" \in r.f <=> (x % 16) + (y % 16) + c > 15
    BY AddResult
  <2> HIDE DEF r
  <2>2. QED
    BY <1>1, <1>2, <1>3, <2>1
<1> HIDE DEF t, u, r, n
<1> DEFINE d == Arithmetic!Daa(r.a, r.f)
           full == s >= 256 \/ s % 256 > 153
           half == u > 15 \/ (s % 256) % 16 > 9
<1>5. /\ d.a = ((s % 256) + ((IF full THEN 96 ELSE 0) + (IF half THEN 6 ELSE 0))) % 256
      /\ "C" \in d.f <=> full
  BY <1>4, DaaResult
<1>6. (full <=> n > 99) /\ d.a = Arithmetic!ToDecimal(n)
  BY <1>3, <1>5, AdjustedSum
<1>7. n \in 0 .. 199
  BY <1>3
<1> HIDE DEF d, full
<1>8. Arithmetic!Carry(d.f) = IF n \in 0 .. 99 THEN 0 ELSE 1
  BY <1>5, <1>6, <1>7 DEF Arithmetic!Carry
<1>9. QED
  BY <1>6, <1>7, <1>8 DEF DaaGives, d, r, n

LEMMA DaaOfDifference ==
  ASSUME NEW x \in Byte, NEW y \in Byte, NEW c \in {0, 1},
         Arithmetic!IsDecimal(x), Arithmetic!IsDecimal(y)
  PROVE  LET r == Arithmetic!Subtract(x, y, c)
             n == Arithmetic!Decimal(x) - Arithmetic!Decimal(y) - c
         IN  DaaGives(r.a, r.f, n) /\ n \in -100 .. 199
<1> DEFINE r == Arithmetic!Subtract(x, y, c)
           n == Arithmetic!Decimal(x) - Arithmetic!Decimal(y) - c
<1>1. PICK tx \in Digit, ux \in Digit :
        x = (16 * tx) + ux /\ x % 16 = ux /\ Arithmetic!Decimal(x) = (10 * tx) + ux
  BY Digits
<1>2. PICK ty \in Digit, uy \in Digit :
        y = (16 * ty) + uy /\ y % 16 = uy /\ Arithmetic!Decimal(y) = (10 * ty) + uy
  BY Digits
<1> DEFINE t == tx - ty
           u == ux - (uy + c)
           s == (16 * t) + u
<1>3. t \in -9 .. 9 /\ u \in -10 .. 9 /\ x - (y + c) = s /\ n = (10 * t) + u
  BY <1>1, <1>2 DEF Digit
<1>4. /\ r.a \in Byte /\ r.f \in SUBSET Arithmetic!Flags /\ "N" \in r.f
      /\ r.a = s % 256 /\ ("C" \in r.f <=> s < 0) /\ ("H" \in r.f <=> u < 0)
  <2>1. /\ r.a \in Byte /\ r.f \subseteq Arithmetic!Flags /\ "N" \in r.f
        /\ r.a = (x - (y + c)) % 256 /\ ("C" \in r.f <=> x < y + c)
        /\ "H" \in r.f <=> x % 16 < (y % 16) + c
    BY SubtractResult
  <2> HIDE DEF r
  <2>2. x < y + c <=> s < 0
    BY <1>3 DEF Byte
  <2>3. x % 16 < (y % 16) + c <=> u < 0
    BY <1>1, <1>2 DEF Digit
  <2>4. QED
    BY <1>3, <2>1, <2>2, <2>3
<1> HIDE DEF t, u, r, n
<1> DEFINE d == Arithmetic!Daa(r.a, r.f)
           less == (96 * (IF s < 0 THEN 1 ELSE 0)) + (IF u < 0 THEN 6 ELSE 0)
<1>5. d.a = ((s % 256) - less) % 256 /\ ("C" \in d.f <=> s < 0)
  BY <1>4, DaaResult DEF Arithmetic!Carry
<1>6. (s < 0 <=> n < 0) /\ d.a = Arithmetic!ToDecimal(n)
  <2>1. /\ s < 0 <=> (10 * t) + u < 0
        /\ ((s % 256) - less) % 256 = Arithmetic!ToDecimal((10 * t) + u)
    BY <1>3, AdjustedDifference
  <2> HIDE DEF s, less, d
  <2>2. QED
    BY <1>3, <1>5, <2>1
<1>7. n \in -100 .. 99
  BY <1>3
<1> HIDE DEF d
<1>8. Arithmetic!Carry(d.f) = IF n \in 0 .. 99 THEN 0 ELSE 1
  BY <1>5, <1>6, <1>7 DEF Arithmetic!Carry
<1>9. QED
  BY <1>6, <1>7, <1>8 DEF DaaGives, d, r, n

-----------------------------------------------------------------------------
(* The accumulator, the flags, and the sum the program is at.              *)

\* Behind an addition or subtraction of decimal bytes, DAA is all that is missing.
ArithmeticInv ==
  /\ Arithmetic!TypeOK /\ Arithmetic!DecimalsAddUp
  /\ sum.stage = "binary" => DaaGives(a, f, sum.value)

\* The three ways in which an instruction leaves the history.
Keeps ==
  /\ sum' \in Arithmetic!Sum
  /\ \/ sum'.stage = "none"
     \/ sum'.stage = "carry" /\ Arithmetic!Carry(f)' = sum'.carried
     \/ sum'.stage = "binary" /\ DaaGives(a', f', sum'.value)
     \/ sum'.stage = "decimal" /\ a' = Arithmetic!ToDecimal(sum'.value)
          /\ Arithmetic!Carry(f)' = sum'.carried

LEMMA KeepsIsEnough ==
  ASSUME a' \in Byte, f' \subseteq Arithmetic!Flags, Keeps
  PROVE  ArithmeticInv'
BY DEF Keeps, ArithmeticInv, Arithmetic!TypeOK, Arithmetic!DecimalsAddUp, Arithmetic!KnowsCarry, Byte,
       DaaGives

LEMMA Histories ==
  ASSUME NEW c \in {0, 1}
  PROVE  /\ Arithmetic!NoSum \in Arithmetic!Sum /\ Arithmetic!NoSum.stage = "none"
         /\ Arithmetic!OnlyCarry(c) \in Arithmetic!Sum
         /\ Arithmetic!OnlyCarry(c).stage = "carry" /\ Arithmetic!OnlyCarry(c).carried = c
BY DEF Arithmetic!NoSum, Arithmetic!OnlyCarry, Arithmetic!Sum

\* What an instruction that leaves the carry as it is makes of the history.
LEMMA CarryKept ==
  ASSUME ArithmeticInv, "C" \in f' <=> "C" \in f,
         \/ sum' = IF Arithmetic!KnowsCarry THEN Arithmetic!OnlyCarry(sum.carried)
                   ELSE Arithmetic!NoSum
         \/ a' = a /\ sum' = IF Arithmetic!KnowsCarry THEN sum ELSE Arithmetic!NoSum
  PROVE  Keeps
<1>1. Arithmetic!Carry(f)' = Arithmetic!Carry(f)
  BY DEF Arithmetic!Carry
<1>2. sum \in Arithmetic!Sum /\ sum.carried \in {0, 1}
  BY DEF ArithmeticInv, Arithmetic!TypeOK, Arithmetic!Sum
<1>3. CASE ~Arithmetic!KnowsCarry
  BY <1>3, Histories DEF Keeps
<1>4. CASE Arithmetic!KnowsCarry
  <2>1. /\ Arithmetic!Carry(f) = sum.carried
        /\ sum.stage \in {"decimal", "carry"}
        /\ sum.stage = "decimal" => a = Arithmetic!ToDecimal(sum.value)
    BY <1>4 DEF ArithmeticInv, Arithmetic!DecimalsAddUp, Arithmetic!KnowsCarry
  <2>2. QED
    BY <1>1, <1>2, <1>4, <2>1, Histories DEF Keeps
<1>5. QED
  BY <1>3, <1>4

LEMMA BitsInt ==
  ASSUME NEW bits
  PROVE  Arithmetic!Byte(bits) \in Int
<1>1. \A n \in 0 .. 7 : Arithmetic!Bit(n, bits) \in Int
  <2> TAKE n \in 0 .. 7
  <2>1. 2 ^ n \in Int
    BY PowerNat
  <2>2. QED
    BY <2>1 DEF Arithmetic!Bit
<1>2. QED
  BY <1>1 DEF Arithmetic!Byte

LEMMA LogicResult ==
  ASSUME NEW op \in {"and", "xor", "or"}, NEW x, NEW y, NEW flags
  PROVE  LET r == Arithmetic!ApplyAluOp(op, x, y, flags)
         IN  r.a \in Byte /\ r.f \subseteq Arithmetic!Flags /\ "C" \notin r.f
<1> DEFINE bits == CASE op = "and" -> Arithmetic!Bits(x) \intersect Arithmetic!Bits(y)
                     [] op = "xor" -> (Arithmetic!Bits(x) \union Arithmetic!Bits(y))
                                      \ (Arithmetic!Bits(x) \intersect Arithmetic!Bits(y))
                     [] op = "or" -> Arithmetic!Bits(x) \union Arithmetic!Bits(y)
           set == IF op = "and" THEN {"H"} ELSE {}
<1>1. Arithmetic!ApplyAluOp(op, x, y, flags) = Arithmetic!Result(Arithmetic!Byte(bits), set)
  BY DEF Arithmetic!ApplyAluOp
<1>2. Arithmetic!Byte(bits) \in Int
  BY BitsInt
<1>3. set \in SUBSET Arithmetic!Flags /\ "C" \notin set
  BY DEF Arithmetic!Flags
<1> HIDE DEF bits, set
<1>4. QED
  BY <1>1, <1>2, <1>3, ResultType DEF Arithmetic!On

\* The carry that ADC and SBC take in.
TakenIn(op, flags) == IF op \in {"adc", "sbc"} THEN Arithmetic!Carry(flags) ELSE 0

LEMMA AluResult ==
  ASSUME NEW x \in Byte, NEW y \in Byte, NEW flags
  PROVE  /\ \A op \in {"add", "adc"} :
              Arithmetic!ApplyAluOp(op, x, y, flags) = Arithmetic!Add(x, y, TakenIn(op, flags))
         /\ \A op \in {"sub", "sbc"} :
              Arithmetic!ApplyAluOp(op, x, y, flags) = Arithmetic!Subtract(x, y, TakenIn(op, flags))
         /\ Arithmetic!ApplyAluOp("cp", x, y, flags) = [Arithmetic!Subtract(x, y, 0) EXCEPT !.a = x]
BY DEF Arithmetic!ApplyAluOp, TakenIn

LEMMA AluType ==
  ASSUME NEW op \in Arithmetic!AluOps, NEW x \in Byte, NEW y \in Byte, NEW flags
  PROVE  LET r == Arithmetic!ApplyAluOp(op, x, y, flags)
         IN  r.a \in Byte /\ r.f \subseteq Arithmetic!Flags
<1>1. TakenIn(op, flags) \in {0, 1}
  BY CarryRange DEF TakenIn
<1>2. CASE op \in {"add", "adc"}
  BY <1>1, <1>2, AluResult, AddResult
<1>3. CASE op \in {"sub", "sbc"}
  BY <1>1, <1>3, AluResult, SubtractResult
<1>4. CASE op = "cp"
  <2>1. Arithmetic!Subtract(x, y, 0).f \subseteq Arithmetic!Flags
    BY SubtractResult
  <2>2. [Arithmetic!Subtract(x, y, 0) EXCEPT !.a = x].f = Arithmetic!Subtract(x, y, 0).f
    BY DEF Arithmetic!Subtract, Arithmetic!Result
  <2>3. [Arithmetic!Subtract(x, y, 0) EXCEPT !.a = x].a = x
    BY DEF Arithmetic!Subtract, Arithmetic!Result
  <2>4. QED
    BY <1>4, <2>1, <2>2, <2>3, AluResult
<1>5. CASE op \in {"and", "xor", "or"}
  BY <1>5, LogicResult
<1>6. QED
  BY <1>2, <1>3, <1>4, <1>5 DEF Arithmetic!AluOps

LEMMA AluKeeps ==
  ASSUME ArithmeticInv, NEW op \in Arithmetic!AluOps, NEW y \in Byte, Arithmetic!Alu(op, y)
  PROVE  ArithmeticInv'
<1> DEFINE r == Arithmetic!ApplyAluOp(op, a, y, f)
<1>1. a \in Byte /\ f \subseteq Arithmetic!Flags /\ sum \in Arithmetic!Sum
  BY DEF ArithmeticInv, Arithmetic!TypeOK, Byte
<1>2. a' = r.a /\ f' = r.f /\ sum' = Arithmetic!Counted(op, y)
  BY DEF Arithmetic!Alu
<1>3. r.a \in Byte /\ r.f \subseteq Arithmetic!Flags
  BY <1>1, AluType
<1> DEFINE decimal == /\ op \in {"add", "adc", "sub", "sbc"}
                      /\ Arithmetic!IsDecimal(a) /\ Arithmetic!IsDecimal(y)
                      /\ op \in {"adc", "sbc"} => Arithmetic!KnowsCarry
<1>4. CASE op \in {"and", "xor", "or"}
  <2>1. sum' = Arithmetic!OnlyCarry(0)
    BY <1>2, <1>4 DEF Arithmetic!Counted
  <2>2. Arithmetic!Carry(f)' = 0
    BY <1>2, <1>4, LogicResult DEF Arithmetic!Carry
  <2>3. QED
    BY <1>2, <1>3, <2>1, <2>2, Histories, KeepsIsEnough DEF Keeps
<1>5. CASE decimal
  <2> DEFINE c == TakenIn(op, f)
             n == IF op \in {"add", "adc"}
                  THEN Arithmetic!Decimal(a) + Arithmetic!Decimal(y) + c
                  ELSE Arithmetic!Decimal(a) - Arithmetic!Decimal(y) - c
  <2>1. c \in {0, 1} /\ (op \in {"adc", "sbc"} => c = sum.carried)
    BY <1>5, CarryRange DEF TakenIn, ArithmeticInv, Arithmetic!DecimalsAddUp
  <2>2. DaaGives(r.a, r.f, n) /\ n \in -100 .. 199
    <3>1. CASE op \in {"add", "adc"}
      BY <1>1, <1>5, <2>1, <3>1, AluResult, DaaOfSum
    <3>2. CASE op \in {"sub", "sbc"}
      BY <1>1, <1>5, <2>1, <3>2, AluResult, DaaOfDifference
    <3>3. QED
      BY <1>5, <3>1, <3>2
  <2>3. sum' = [stage |-> "binary", value |-> n, carried |-> 0]
    <3>1. Arithmetic!Decimal(a) \in Int /\ Arithmetic!Decimal(y) \in Int
      BY <1>1 DEF Arithmetic!Decimal, Byte
    <3>2. op \in {"add", "sub"} => c = 0
      BY DEF TakenIn
    <3> HIDE DEF c
    <3>3. QED
      BY <1>2, <1>5, <2>1, <3>1, <3>2 DEF Arithmetic!Counted
  <2> HIDE DEF n, r
  <2>4. Keeps
    BY <1>2, <2>2, <2>3 DEF Keeps, Arithmetic!Sum
  <2>5. QED
    BY <1>2, <1>3, <2>4, KeepsIsEnough
<1>6. CASE op \notin {"and", "xor", "or"} /\ ~decimal
  <2>1. sum' = Arithmetic!NoSum
    BY <1>2, <1>6 DEF Arithmetic!Counted
  <2>2. QED
    BY <1>2, <1>3, <2>1, Histories, KeepsIsEnough DEF Keeps
<1>7. QED
  BY <1>4, <1>5, <1>6

\* Shifts, of which the result may be kept without Result().
LEMMA ShiftedType ==
  ASSUME NEW op \in Arithmetic!ShiftOps, NEW x \in Byte, NEW c \in {0, 1}
  PROVE  Arithmetic!Shifted(op, x, c) \in Byte
<1>1. /\ ((2 * x) % 256) + (x \div 128) \in Byte
      /\ (x \div 2) + (128 * (x % 2)) \in Byte
      /\ ((2 * x) % 256) + c \in Byte
      /\ (x \div 2) + (128 * c) \in Byte
      /\ (2 * x) % 256 \in Byte
      /\ (x \div 2) + (128 * (x \div 128)) \in Byte
      /\ (16 * (x % 16)) + (x \div 16) \in Byte
      /\ x \div 2 \in Byte
  BY DEF Byte
<1>2. QED
  BY <1>1 DEF Arithmetic!Shifted, Arithmetic!ShiftOps

LEMMA CountedType ==
  ASSUME NEW x \in Byte, NEW flags \in SUBSET Arithmetic!Flags
  PROVE  \A r \in {Arithmetic!Inc8(x, flags), Arithmetic!Dec8(x, flags)} :
           r.a \in Byte /\ r.f \subseteq Arithmetic!Flags /\ ("C" \in r.f <=> "C" \in flags)
<1> DEFINE up == (flags \intersect {"C"}) \union Arithmetic!On("H", x % 16 = 15)
           down == (flags \intersect {"C"}) \union {"N"} \union Arithmetic!On("H", x % 16 = 0)
<1>1. /\ up \in SUBSET Arithmetic!Flags /\ down \in SUBSET Arithmetic!Flags
      /\ ("C" \in up <=> "C" \in flags) /\ ("C" \in down <=> "C" \in flags)
  BY DEF Arithmetic!On, Arithmetic!Flags
<1>2. Arithmetic!Inc8(x, flags) = Arithmetic!Result(x + 1, up)
      /\ Arithmetic!Dec8(x, flags) = Arithmetic!Result(x - 1, down)
  BY DEF Arithmetic!Inc8, Arithmetic!Dec8
<1>3. x + 1 \in Int /\ x - 1 \in Int
  BY DEF Byte
<1> HIDE DEF up, down
<1>4. QED
  BY <1>1, <1>2, <1>3, ResultType DEF Arithmetic!On

LEMMA ArithmeticStep ==
  ASSUME Arithmetic!CpuArithmeticAssumption, ArithmeticInv, [Arithmetic!Next]_(Arithmetic!vars)
  PROVE  ArithmeticInv'
<1> a \in Byte /\ f \in SUBSET Arithmetic!Flags /\ sum \in Arithmetic!Sum /\ sum.carried \in {0, 1}
  BY DEF ArithmeticInv, Arithmetic!TypeOK, Arithmetic!Sum, Byte
<1> Operands \subseteq Byte /\ HighBytes \subseteq Byte
  BY DEF Arithmetic!CpuArithmeticAssumption, Byte
<1>1. ASSUME NEW op \in Arithmetic!AluOps, NEW y \in Operands, Arithmetic!Alu(op, y)
      PROVE  ArithmeticInv'
  BY <1>1, AluKeeps
<1>2. ASSUME NEW value \in Operands, Arithmetic!LdA(value)
      PROVE  ArithmeticInv'
  BY <1>2, CarryKept, KeepsIsEnough DEF Arithmetic!LdA
<1>3. ASSUME NEW value \in Operands, Arithmetic!IncDecOther(value)
      PROVE  ArithmeticInv'
  BY <1>3, CountedType, CarryKept, KeepsIsEnough DEF Arithmetic!IncDecOther
<1>4. ASSUME NEW value \in Operands, NEW flags \in {{}, {"C"}, Arithmetic!Flags},
             Arithmetic!PopAf(value, flags)
      PROVE  ArithmeticInv'
  <2>1. flags \subseteq Arithmetic!Flags
    BY DEF Arithmetic!Flags
  <2>2. sum' = Arithmetic!OnlyCarry(Arithmetic!Carry(f)') /\ Arithmetic!Carry(f)' \in {0, 1}
    BY <1>4, CarryRange DEF Arithmetic!PopAf, Arithmetic!Carry
  <2>3. Keeps
    BY <2>2, Histories DEF Keeps
  <2>4. QED
    BY <1>4, <2>1, <2>3, KeepsIsEnough DEF Arithmetic!PopAf
<1>5. CASE Arithmetic!IncDecA
  BY <1>5, CountedType, CarryKept, KeepsIsEnough DEF Arithmetic!IncDecA
<1>6. CASE Arithmetic!DaaA
  <2> DEFINE r == Arithmetic!Daa(a, f)
  <2>1. r.a \in Byte /\ r.f \subseteq Arithmetic!Flags
    BY DaaResult
  <2>2. a' = r.a /\ f' = r.f
    BY <1>6 DEF Arithmetic!DaaA
  <2>3. CASE sum.stage # "binary"
    BY <1>6, <2>1, <2>2, <2>3, Histories, KeepsIsEnough DEF Arithmetic!DaaA, Keeps
  <2>4. CASE sum.stage = "binary"
    <3> DEFINE c == IF sum.value \in 0 .. 99 THEN 0 ELSE 1
    <3>1. sum' = [sum EXCEPT !.stage = "decimal", !.carried = c]
      BY <1>6, <2>4 DEF Arithmetic!DaaA
    <3>2. r.a = Arithmetic!ToDecimal(sum.value) /\ Arithmetic!Carry(r.f) = c
      BY <2>4 DEF ArithmeticInv, DaaGives
    <3> HIDE DEF r
    <3>3. Arithmetic!Carry(f)' = c
      BY <2>2, <3>2 DEF Arithmetic!Carry
    <3>4. c \in 0 .. 1
      OBVIOUS
    <3> HIDE DEF c
    <3>5. sum' \in Arithmetic!Sum /\ sum'.stage = "decimal"
          /\ sum'.carried = c /\ sum'.value = sum.value
      BY <3>1, <3>4 DEF Arithmetic!Sum
    <3>6. Keeps
      BY <2>2, <3>2, <3>3, <3>5 DEF Keeps
    <3>7. QED
      BY <2>1, <2>2, <3>6, KeepsIsEnough
  <2>5. QED
    BY <2>3, <2>4
<1>7. CASE Arithmetic!CplA
  <2>1. /\ a' \in Byte /\ f' \subseteq Arithmetic!Flags /\ ("C" \in f' <=> "C" \in f)
    BY <1>7 DEF Arithmetic!CplA, Arithmetic!Cpl, Arithmetic!Flags, Byte
  <2>2. QED
    BY <1>7, <2>1, CarryKept, KeepsIsEnough DEF Arithmetic!CplA
<1>8. CASE Arithmetic!ScfCcf
  <2>1. a' = a
    BY <1>8 DEF Arithmetic!ScfCcf
  <2>2. CASE f' = Arithmetic!Scf(f) /\ sum' = Arithmetic!OnlyCarry(1)
    <3>1. Arithmetic!Carry(f)' = 1 /\ f' \subseteq Arithmetic!Flags
      BY <2>2 DEF Arithmetic!Scf, Arithmetic!Carry, Arithmetic!Flags
    <3>2. QED
      BY <2>1, <2>2, <3>1, Histories, KeepsIsEnough DEF Keeps
  <2>3. CASE /\ f' = Arithmetic!Ccf(f)
             /\ sum' = IF Arithmetic!KnowsCarry THEN Arithmetic!OnlyCarry(1 - sum.carried)
                       ELSE Arithmetic!NoSum
    <3>1. /\ Arithmetic!Carry(f)' = 1 - Arithmetic!Carry(f)
          /\ f' \subseteq Arithmetic!Flags
      BY <2>3 DEF Arithmetic!Ccf, Arithmetic!Carry, Arithmetic!Flags, Arithmetic!On
    <3>2. 1 - sum.carried \in {0, 1}
      OBVIOUS
    <3>3. Keeps
      BY <2>3, <3>1, <3>2, Histories DEF Keeps, ArithmeticInv, Arithmetic!DecimalsAddUp
    <3>4. QED
      BY <2>1, <3>1, <3>3, KeepsIsEnough
  <2>4. QED
    BY <1>8, <2>2, <2>3 DEF Arithmetic!ScfCcf
<1>9. CASE Arithmetic!RotateOrShiftA
  <2>1. Arithmetic!Carry(f) \in {0, 1}
    BY CarryRange
  <2>2. ASSUME NEW op \in Arithmetic!ShiftOps
        PROVE  /\ Arithmetic!RotateA(op, a, f).a \in Byte
               /\ Arithmetic!RotateA(op, a, f).f \subseteq Arithmetic!Flags
               /\ Arithmetic!CbShift(op, a, f).a \in Byte
               /\ Arithmetic!CbShift(op, a, f).f \subseteq Arithmetic!Flags
    <3> DEFINE value == Arithmetic!Shifted(op, a, Arithmetic!Carry(f))
               flags == Arithmetic!On("C", Arithmetic!ShiftedOut(op, a) = 1)
    <3>1. value \in Byte /\ value \in Int
      <4>1. value \in Byte
        BY <2>1, ShiftedType, Zenon
      <4> HIDE DEF value
      <4>2. QED
        BY <4>1 DEF Byte
    <3>2. flags \in SUBSET Arithmetic!Flags
      BY DEF Arithmetic!On, Arithmetic!Flags
    <3>3. /\ Arithmetic!RotateA(op, a, f) = [a |-> value, f |-> flags]
          /\ Arithmetic!CbShift(op, a, f) = Arithmetic!Result(value, flags)
      BY DEF Arithmetic!RotateA, Arithmetic!CbShift
    <3> HIDE DEF value, flags
    <3>4. QED
      BY <3>1, <3>2, <3>3, ResultType
  <2>3. {"rlc", "rrc", "rl", "rr"} \subseteq Arithmetic!ShiftOps
    BY DEF Arithmetic!ShiftOps
  <2>4. a' \in Byte /\ f' \subseteq Arithmetic!Flags
    BY <1>9, <2>2, <2>3 DEF Arithmetic!RotateOrShiftA
  <2>5. QED
    BY <1>9, <2>4, Histories, KeepsIsEnough DEF Arithmetic!RotateOrShiftA, Keeps
<1>10. CASE Arithmetic!CbBitA
  <2>1. f' \subseteq Arithmetic!Flags /\ ("C" \in f' <=> "C" \in f)
    BY <1>10 DEF Arithmetic!CbBitA, Arithmetic!CbBit, Arithmetic!On, Arithmetic!Flags
  <2>2. QED
    BY <1>10, <2>1, CarryKept, KeepsIsEnough DEF Arithmetic!CbBitA
<1>11. CASE Arithmetic!AddWords
  <2>1. f' \subseteq Arithmetic!Flags
    BY <1>11 DEF Arithmetic!AddWords, Arithmetic!AddHl, Arithmetic!AddSp, Arithmetic!On, Arithmetic!Flags
  <2>2. QED
    BY <1>11, <2>1, Histories, KeepsIsEnough DEF Arithmetic!AddWords, Keeps
<1>12. CASE UNCHANGED Arithmetic!vars
  BY <1>12 DEF Arithmetic!vars, ArithmeticInv, Arithmetic!TypeOK, Arithmetic!DecimalsAddUp,
               Arithmetic!KnowsCarry, DaaGives, Arithmetic!Carry
<1>13. QED
  BY <1>1, <1>2, <1>3, <1>4, <1>5, <1>6, <1>7, <1>8, <1>9, <1>10, <1>11, <1>12
     DEF Arithmetic!Next

LEMMA ArithmeticInit ==
  ASSUME Arithmetic!Init
  PROVE  ArithmeticInv
BY Histories DEF Arithmetic!Init, ArithmeticInv, Arithmetic!TypeOK, Arithmetic!DecimalsAddUp,
                 Arithmetic!KnowsCarry

-----------------------------------------------------------------------------
(* The wide instructions against their bytes, for all bytes.               *)

\* ADD HL against ADD and ADC.
LEMMA WideAdd ==
  ASSUME NEW h \in Byte, NEW yh \in Byte, NEW l \in Byte, NEW yl \in Byte,
         NEW flags \in SUBSET Arithmetic!Flags
  PROVE  LET wide == Arithmetic!AddHl((256 * h) + l, (256 * yh) + yl, flags)
             low  == Arithmetic!ApplyAluOp("add", l, yl, flags)
             high == Arithmetic!ApplyAluOp("adc", h, yh, low.f)
         IN  /\ wide.hl = (256 * high.a) + low.a
             /\ wide.f = (flags \intersect {"Z"}) \union (high.f \intersect {"H", "C"})
             /\ "C" \in wide.f <=> "C" \in high.f
<1> DEFINE low == Arithmetic!ApplyAluOp("add", l, yl, flags)
           c == Arithmetic!Carry(low.f)
           high == Arithmetic!ApplyAluOp("adc", h, yh, low.f)
           word == (256 * h) + l
           other == (256 * yh) + yl
           wide == Arithmetic!AddHl(word, other, flags)
<1>1. low.a = (l + yl) % 256 /\ ("C" \in low.f <=> l + yl >= 256)
  <2>1. low = Arithmetic!Add(l, yl, 0)
    BY AluResult DEF TakenIn
  <2>2. /\ Arithmetic!Add(l, yl, 0).a = (l + yl + 0) % 256
        /\ "C" \in Arithmetic!Add(l, yl, 0).f <=> l + yl + 0 >= 256
    BY AddResult
  <2>3. l + yl + 0 = l + yl
    BY DEF Byte
  <2>4. QED
    BY <2>1, <2>2, <2>3
<1> HIDE DEF low
<1>2. c = IF l + yl >= 256 THEN 1 ELSE 0
  BY <1>1 DEF Arithmetic!Carry
<1> HIDE DEF c
<1>3. c \in {0, 1} /\ l + yl = low.a + (256 * c) /\ low.a \in Byte
  <2>1. l + yl \in 0 .. 510
    BY DEF Byte
  <2>2. (l + yl) % 256 = IF l + yl >= 256 THEN (l + yl) - 256 ELSE l + yl
    BY <2>1
  <2>3. c \in {0, 1}
    BY <1>2
  <2>4. QED
    BY <1>1, <1>2, <2>1, <2>2, <2>3 DEF Byte
<1>4. /\ high.a = (h + yh + c) % 256
      /\ "C" \in high.f <=> h + yh + c >= 256
      /\ "H" \in high.f <=> (h % 16) + (yh % 16) + c > 15
  <2>1. high = Arithmetic!Add(h, yh, c)
    BY AluResult DEF TakenIn, c
  <2>2. QED
    BY <1>3, <2>1, AddResult
<1> HIDE DEF high
<1> DEFINE s == h + yh + c
           la == low.a
<1> HIDE DEF la
<1>5. word + other = (256 * s) + low.a /\ s \in 0 .. 511
  <2>1. l + yl = la + (256 * c) /\ la \in Byte /\ c \in {0, 1}
    BY <1>3 DEF la
  <2>2. word + other = (256 * s) + la /\ s \in 0 .. 511
    BY <2>1 DEF Byte
  <2> HIDE DEF word, other, s
  <2>3. QED
    BY <2>2 DEF la
<1>6. word % 4096 = (256 * (h % 16)) + l /\ other % 4096 = (256 * (yh % 16)) + yl
  BY DEF Byte
<1>7. (word % 4096) + (other % 4096) = (256 * ((h % 16) + (yh % 16) + c)) + low.a
  <2>1. h % 16 \in 0 .. 15 /\ yh % 16 \in 0 .. 15
    BY DEF Byte
  <2>2. l + yl = la + (256 * c) /\ la \in Byte
    BY <1>3 DEF la
  <2> HIDE DEF word, other
  <2>3. (word % 4096) + (other % 4096) = (256 * ((h % 16) + (yh % 16) + c)) + la
    BY <1>3, <1>6, <2>1, <2>2 DEF Byte
  <2>4. QED
    BY <2>3 DEF la
<1> HIDE DEF word, other
<1>8. /\ word + other >= 65536 <=> s >= 256
      /\ (word % 4096) + (other % 4096) > 4095 <=> (h % 16) + (yh % 16) + c > 15
  BY <1>3, <1>5, <1>7 DEF Byte
<1>9. (word + other) % 65536 = (256 * (s % 256)) + low.a
  <2>1. la \in Byte /\ word + other = (256 * s) + la /\ s \in 0 .. 511
    BY <1>3, <1>5 DEF la
  <2> HIDE DEF s
  <2>2. ((256 * s) + la) % 65536 = (256 * (s % 256)) + la
    BY <2>1 DEF Byte
  <2>3. QED
    BY <2>1, <2>2 DEF la
<1>10. wide.hl = (256 * high.a) + low.a
  BY <1>4, <1>9 DEF Arithmetic!AddHl
<1>11. wide.f = (flags \intersect {"Z"}) \union (high.f \intersect {"H", "C"})
  BY <1>4, <1>8 DEF Arithmetic!AddHl, Arithmetic!On
<1>12. QED
  BY <1>10, <1>11 DEF word, other, high, low

\* Doubling is SLA and RL, halving SRL and RR.
LEMMA CbResult ==
  ASSUME NEW op \in Arithmetic!ShiftOps, NEW x \in Byte, NEW flags
  PROVE  LET r == Arithmetic!CbShift(op, x, flags)
         IN  /\ r.a = Arithmetic!Shifted(op, x, Arithmetic!Carry(flags))
             /\ Arithmetic!Carry(r.f) = IF Arithmetic!ShiftedOut(op, x) = 1 THEN 1 ELSE 0
             /\ "C" \in r.f <=> Arithmetic!ShiftedOut(op, x) = 1
<1> DEFINE value == Arithmetic!Shifted(op, x, Arithmetic!Carry(flags))
           out == Arithmetic!On("C", Arithmetic!ShiftedOut(op, x) = 1)
<1>1. value \in Byte
  BY CarryRange, ShiftedType, Zenon
<1>2. out \in SUBSET Arithmetic!Flags /\ ("C" \in out <=> Arithmetic!ShiftedOut(op, x) = 1)
  BY DEF Arithmetic!On, Arithmetic!Flags
<1>3. Arithmetic!CbShift(op, x, flags) = Arithmetic!Result(value, out)
  BY DEF Arithmetic!CbShift
<1> HIDE DEF value, out
<1>4. value \in Int /\ value % 256 = value
  BY <1>1 DEF Byte
<1>5. QED
  BY <1>2, <1>3, <1>4, ResultType DEF Arithmetic!On, Arithmetic!Carry, value

LEMMA ShiftResults ==
  ASSUME NEW x \in Byte, NEW flags
  PROVE  LET c    == Arithmetic!Carry(flags)
             sla  == Arithmetic!CbShift("sla", x, flags)
             rl   == Arithmetic!CbShift("rl", x, flags)
             srl  == Arithmetic!CbShift("srl", x, flags)
             rr   == Arithmetic!CbShift("rr", x, flags)
         IN  /\ sla.a = (2 * x) % 256 /\ Arithmetic!Carry(sla.f) = x \div 128
             /\ rl.a = ((2 * x) % 256) + c /\ ("C" \in rl.f <=> x \div 128 = 1)
             /\ srl.a = x \div 2 /\ Arithmetic!Carry(srl.f) = x % 2
             /\ rr.a = (x \div 2) + (128 * c) /\ Arithmetic!Carry(rr.f) = x % 2
<1> DEFINE c == Arithmetic!Carry(flags)
           Out(op) == Arithmetic!ShiftedOut(op, x)
<1>1. \A op \in Arithmetic!ShiftOps :
        LET r == Arithmetic!CbShift(op, x, flags)
        IN  /\ r.a = Arithmetic!Shifted(op, x, c)
            /\ Arithmetic!Carry(r.f) = IF Out(op) = 1 THEN 1 ELSE 0
            /\ "C" \in r.f <=> Out(op) = 1
  BY CbResult, Zenon
<1>2. /\ "sla" \in Arithmetic!ShiftOps /\ "rl" \in Arithmetic!ShiftOps
      /\ "srl" \in Arithmetic!ShiftOps /\ "rr" \in Arithmetic!ShiftOps
  BY DEF Arithmetic!ShiftOps
<1>3. /\ Out("sla") = x \div 128 /\ Out("rl") = x \div 128
      /\ Out("srl") = x % 2 /\ Out("rr") = x % 2
  BY DEF Arithmetic!ShiftedOut
<1>4. /\ Arithmetic!Shifted("sla", x, c) = (2 * x) % 256
      /\ Arithmetic!Shifted("rl", x, c) = ((2 * x) % 256) + c
      /\ Arithmetic!Shifted("srl", x, c) = x \div 2
      /\ Arithmetic!Shifted("rr", x, c) = (x \div 2) + (128 * c)
  BY DEF Arithmetic!Shifted
<1>5. /\ x \div 128 = IF x \div 128 = 1 THEN 1 ELSE 0
      /\ x % 2 = IF x % 2 = 1 THEN 1 ELSE 0
  BY DEF Byte
<1> HIDE DEF c, Out
<1>6. /\ Arithmetic!CbShift("sla", x, flags).a = (2 * x) % 256
      /\ Arithmetic!Carry(Arithmetic!CbShift("sla", x, flags).f) = x \div 128
  BY <1>1, <1>2, <1>3, <1>4, <1>5
<1>7. /\ Arithmetic!CbShift("rl", x, flags).a = ((2 * x) % 256) + c
      /\ "C" \in Arithmetic!CbShift("rl", x, flags).f <=> x \div 128 = 1
  BY <1>1, <1>2, <1>3, <1>4
<1>8. /\ Arithmetic!CbShift("srl", x, flags).a = x \div 2
      /\ Arithmetic!Carry(Arithmetic!CbShift("srl", x, flags).f) = x % 2
  BY <1>1, <1>2, <1>3, <1>4, <1>5
<1>9. /\ Arithmetic!CbShift("rr", x, flags).a = (x \div 2) + (128 * c)
      /\ Arithmetic!Carry(Arithmetic!CbShift("rr", x, flags).f) = x % 2
  BY <1>1, <1>2, <1>3, <1>4, <1>5
<1>10. QED
  BY <1>6, <1>7, <1>8, <1>9, Zenon DEF c

LEMMA Doubling ==
  ASSUME NEW h \in Byte, NEW l \in Byte, NEW flags \in SUBSET Arithmetic!Flags
  PROVE  LET hl   == (256 * h) + l
             low  == Arithmetic!CbShift("sla", l, flags)
             high == Arithmetic!CbShift("rl", h, low.f)
         IN  /\ Arithmetic!AddHl(hl, hl, flags).hl = (256 * high.a) + low.a
             /\ "C" \in Arithmetic!AddHl(hl, hl, flags).f <=> "C" \in high.f
<1> DEFINE hl == (256 * h) + l
           low == Arithmetic!CbShift("sla", l, flags)
           high == Arithmetic!CbShift("rl", h, low.f)
           c == l \div 128
           top == h \div 128
<1>1. low.a = (2 * l) % 256 /\ Arithmetic!Carry(low.f) = c
  BY ShiftResults
<1> HIDE DEF low
<1>2. high.a = ((2 * h) % 256) + c /\ ("C" \in high.f <=> top = 1)
  BY <1>1, ShiftResults
<1> HIDE DEF high
<1>3. /\ c \in {0, 1} /\ top \in {0, 1}
      /\ (2 * l) % 256 = (2 * l) - (256 * c) /\ (2 * l) % 256 \in 0 .. 254
      /\ (2 * h) % 256 = (2 * h) - (256 * top) /\ (2 * h) % 256 \in 0 .. 254
  BY DEF Byte
<1> DEFINE lows == (2 * l) % 256
           highs == (2 * h) % 256
<1> HIDE DEF c, top, lows, highs
<1>4. hl + hl = (65536 * top) + (256 * (highs + c)) + lows /\ highs + c \in 0 .. 255
      /\ lows \in 0 .. 255
  BY <1>3 DEF Byte, lows, highs
<1> HIDE DEF hl
<1>5. (hl + hl) % 65536 = (256 * (highs + c)) + lows /\ (hl + hl >= 65536 <=> top = 1)
  <2> DEFINE m == highs + c
             r == (256 * m) + lows
  <2>1. m \in 0 .. 255 /\ lows \in 0 .. 255 /\ hl + hl = (65536 * top) + (256 * m) + lows
    BY <1>4
  <2> HIDE DEF m
  <2>2. r \in Nat /\ r < 65536 /\ hl + hl = (65536 * top) + r
    <3>1. r \in Nat /\ r < 65536
      BY <2>1
    <3>2. 65536 * top \in Int
      BY <1>3
    <3>3. QED
      BY <2>1, <3>1, <3>2
  <2> HIDE DEF r
  <2>3. CASE top = 0
    BY <2>2, <2>3 DEF r, m
  <2>4. CASE top = 1
    <3>1. hl + hl = 65536 + r
      BY <2>2, <2>4
    <3>2. (hl + hl) % 65536 = r /\ hl + hl >= 65536
      BY <2>2, <3>1
    <3>3. QED
      BY <2>4, <3>2 DEF r, m
  <2>5. QED
    BY <1>3, <2>3, <2>4
<1>6. /\ Arithmetic!AddHl(hl, hl, flags).hl = (256 * high.a) + low.a
      /\ "C" \in Arithmetic!AddHl(hl, hl, flags).f <=> "C" \in high.f
  BY <1>1, <1>2, <1>5 DEF Arithmetic!AddHl, Arithmetic!On, lows, highs
<1>7. QED
  BY <1>6 DEF hl, low, high

LEMMA Halving ==
  ASSUME NEW h \in Byte, NEW l \in Byte, NEW flags
  PROVE  LET top  == Arithmetic!CbShift("srl", h, flags)
             rest == Arithmetic!CbShift("rr", l, top.f)
         IN  /\ ((256 * h) + l) \div 2 = (256 * top.a) + rest.a
             /\ Arithmetic!Carry(rest.f) = l % 2
<1> DEFINE top == Arithmetic!CbShift("srl", h, flags)
           rest == Arithmetic!CbShift("rr", l, top.f)
<1>1. top.a = h \div 2 /\ Arithmetic!Carry(top.f) = h % 2
  BY ShiftResults
<1> HIDE DEF top
<1>2. rest.a = (l \div 2) + (128 * (h % 2)) /\ Arithmetic!Carry(rest.f) = l % 2
  BY <1>1, ShiftResults
<1> HIDE DEF rest
<1>3. ((256 * h) + l) \div 2 = (256 * (h \div 2)) + ((l \div 2) + (128 * (h % 2)))
  BY DEF Byte
<1>4. QED
  BY <1>1, <1>2, <1>3 DEF top, rest

\* ADD SP against ADD and ADC of the sign.
LEMMA WideOffset ==
  ASSUME NEW h \in Byte, NEW l \in Byte, NEW y \in Byte, NEW flags \in SUBSET Arithmetic!Flags
  PROVE  LET wide == Arithmetic!AddSp((256 * h) + l, y)
             low  == Arithmetic!ApplyAluOp("add", l, y, flags)
             high == Arithmetic!ApplyAluOp("adc", h, IF y >= 128 THEN 255 ELSE 0, low.f)
         IN  /\ wide.sp = (256 * high.a) + low.a
             /\ wide.f = low.f \intersect {"H", "C"}
<1> DEFINE low == Arithmetic!ApplyAluOp("add", l, y, flags)
           c == Arithmetic!Carry(low.f)
           sign == IF y >= 128 THEN 255 ELSE 0
           high == Arithmetic!ApplyAluOp("adc", h, sign, low.f)
           sp == (256 * h) + l
           offset == IF y >= 128 THEN y - 256 ELSE y
           wide == Arithmetic!AddSp(sp, y)
<1>1. /\ low.a = (l + y) % 256
      /\ "C" \in low.f <=> l + y >= 256
      /\ "H" \in low.f <=> (l % 16) + (y % 16) > 15
  <2>1. low = Arithmetic!Add(l, y, 0)
    BY AluResult DEF TakenIn
  <2>2. /\ Arithmetic!Add(l, y, 0).a = (l + y + 0) % 256
        /\ "C" \in Arithmetic!Add(l, y, 0).f <=> l + y + 0 >= 256
        /\ "H" \in Arithmetic!Add(l, y, 0).f <=> (l % 16) + (y % 16) + 0 > 15
    BY AddResult
  <2>3. l + y + 0 = l + y /\ (l % 16) + (y % 16) + 0 = (l % 16) + (y % 16)
    BY DEF Byte
  <2>4. QED
    BY <2>1, <2>2, <2>3
<1> HIDE DEF low
<1>2. c = IF l + y >= 256 THEN 1 ELSE 0
  BY <1>1 DEF Arithmetic!Carry
<1>3. c \in {0, 1} /\ sign \in Byte
  BY <1>2 DEF Byte
<1>4. high.a = (h + sign + c) % 256
  <2>1. high = Arithmetic!Add(h, sign, c)
    BY <1>3, AluResult DEF TakenIn
  <2> HIDE DEF c, sign
  <2>2. QED
    BY <1>3, <2>1, AddResult
<1> HIDE DEF high
<1> HIDE DEF c
<1>5. (sp + offset) % 65536 = (256 * ((h + sign + c) % 256)) + low.a
  <2> DEFINE la == low.a
             s == h + sign + c
  <2>1. l + y = la + (256 * c) /\ la \in Byte
    <3>1. l + y \in 0 .. 510
      BY DEF Byte
    <3>2. (l + y) % 256 = IF l + y >= 256 THEN (l + y) - 256 ELSE l + y
      BY <3>1
    <3>3. QED
      BY <1>1, <1>2, <3>1, <3>2 DEF Byte
  <2> HIDE DEF la
  <2>2. s \in 0 .. 511 /\ sp + offset = (256 * (IF y >= 128 THEN s - 256 ELSE s)) + la
    BY <1>3, <2>1 DEF Byte
  <2> HIDE DEF s, sp, offset
  <2>3. ((256 * (IF y >= 128 THEN s - 256 ELSE s)) + la) % 65536 = (256 * (s % 256)) + la
    BY <2>1, <2>2 DEF Byte
  <2>4. QED
    BY <2>2, <2>3 DEF s, la
<1>6. sp % 16 = l % 16 /\ sp % 256 = l
  BY DEF Byte
<1> HIDE DEF sp, offset, sign, c
<1>7. wide.sp = (sp + offset) % 65536
  BY DEF Arithmetic!AddSp, offset
<1>8. wide.f = low.f \intersect {"H", "C"}
  BY <1>1, <1>6 DEF Arithmetic!AddSp, Arithmetic!On
<1>9. QED
  BY <1>4, <1>5, <1>7, <1>8 DEF low, high, sp, sign

LEMMA BytesAgree ==
  ASSUME NEW x \in Byte, NEW y \in Byte, NEW flags \in SUBSET Arithmetic!Flags
  PROVE  /\ Arithmetic!ApplyAluOp("cp", x, y, flags)
              = [Arithmetic!ApplyAluOp("sub", x, y, flags) EXCEPT !.a = x]
         /\ Arithmetic!ApplyAluOp("add", Arithmetic!ApplyAluOp("sub", x, y, flags).a, y, flags).a = x
         /\ Arithmetic!Shifted("rl", x, Arithmetic!Carry(flags))
              = Arithmetic!ApplyAluOp("adc", x, x, flags).a
         /\ Arithmetic!Shifted("swap", x, 0) =
              Arithmetic!Shifted("rlc", Arithmetic!Shifted("rlc",
                Arithmetic!Shifted("rlc", Arithmetic!Shifted("rlc", x, 0), 0), 0), 0)
<1>1. Arithmetic!ApplyAluOp("cp", x, y, flags)
        = [Arithmetic!ApplyAluOp("sub", x, y, flags) EXCEPT !.a = x]
  BY AluResult DEF TakenIn
<1>2. Arithmetic!ApplyAluOp("add", Arithmetic!ApplyAluOp("sub", x, y, flags).a, y, flags).a = x
  <2> DEFINE d == Arithmetic!ApplyAluOp("sub", x, y, flags).a
  <2>1. d \in Byte /\ d = (x - (y + 0)) % 256
    BY AluResult, SubtractResult DEF TakenIn
  <2> HIDE DEF d
  <2>2. Arithmetic!ApplyAluOp("add", d, y, flags).a = (d + y + 0) % 256
    BY <2>1, AluResult, AddResult DEF TakenIn
  <2>3. (d + y + 0) % 256 = x
    <3>1. x - (y + 0) \in -255 .. 255
      BY DEF Byte
    <3>2. d = IF x - (y + 0) < 0 THEN (x - (y + 0)) + 256 ELSE x - (y + 0)
      BY <2>1, <3>1
    <3>3. QED
      BY <3>2 DEF Byte
  <2>4. QED
    BY <2>2, <2>3 DEF d
<1>3. Arithmetic!Shifted("rl", x, Arithmetic!Carry(flags))
        = Arithmetic!ApplyAluOp("adc", x, x, flags).a
  <2> DEFINE c == Arithmetic!Carry(flags)
  <2>1. c \in {0, 1}
    BY CarryRange
  <2>2. Arithmetic!ApplyAluOp("adc", x, x, flags) = Arithmetic!Add(x, x, c)
    BY AluResult DEF TakenIn
  <2> HIDE DEF c
  <2>3. Arithmetic!Add(x, x, c).a = (x + x + c) % 256
    BY <2>1, AddResult
  <2>4. ((2 * x) % 256) + c = (x + x + c) % 256
    BY <2>1 DEF Byte
  <2>5. Arithmetic!Shifted("rl", x, c) = ((2 * x) % 256) + c
    BY DEF Arithmetic!Shifted
  <2>6. QED
    BY <2>2, <2>3, <2>4, <2>5 DEF c
<1>4. Arithmetic!Shifted("swap", x, 0) =
        Arithmetic!Shifted("rlc", Arithmetic!Shifted("rlc",
          Arithmetic!Shifted("rlc", Arithmetic!Shifted("rlc", x, 0), 0), 0), 0)
  <2> DEFINE rlc(z) == ((2 * z) % 256) + (z \div 128)
  <2>1. \A z : Arithmetic!Shifted("rlc", z, 0) = rlc(z)
    BY DEF Arithmetic!Shifted
  <2>2. Arithmetic!Shifted("swap", x, 0) = (16 * (x % 16)) + (x \div 16)
    BY DEF Arithmetic!Shifted
  <2>3. rlc(rlc(x)) = (4 * (x % 64)) + (x \div 64) /\ rlc(rlc(x)) \in Byte
    BY DEF Byte
  <2>4. \A z \in Byte : rlc(rlc(z)) = (4 * (z % 64)) + (z \div 64)
    BY DEF Byte
  <2>5. rlc(rlc(rlc(rlc(x)))) = (16 * (x % 16)) + (x \div 16)
    <3> DEFINE z == rlc(rlc(x))
    <3>1. z \in Byte /\ z = (4 * (x % 64)) + (x \div 64)
      BY <2>3
    <3>2. rlc(rlc(z)) = (4 * (z % 64)) + (z \div 64)
      BY <2>4, <3>1
    <3> HIDE DEF z
    <3>3. (4 * (z % 64)) + (z \div 64) = (16 * (x % 16)) + (x \div 16)
      BY <3>1 DEF Byte
    <3>4. QED
      BY <3>2, <3>3 DEF z
  <2>6. QED
    BY <2>1, <2>2, <2>5
<1>5. QED
  BY <1>1, <1>2, <1>3, <1>4

AccumulatorInv == kind = "arithmetic" => ArithmeticInv

LEMMA AccumulatorInductive ==
  /\ Init => AccumulatorInv
  /\ AccumulatorInv /\ [Next]_vars => AccumulatorInv'
<1>1. Init => AccumulatorInv
  BY ArithmeticInit DEF Init, AccumulatorInv
<1>2. ASSUME AccumulatorInv, [Next]_vars, kind = "arithmetic"
      PROVE  ArithmeticInv'
  <2>1. [Arithmetic!Next]_(Arithmetic!vars)
    BY <1>2 DEF Next, vars, arithmeticVars, Arithmetic!vars
  <2>2. QED
    BY <1>2, <2>1, ArithmeticStep, HardwareAssumption DEF AccumulatorInv
<1>3. QED
  BY <1>1, <1>2, KindStays DEF AccumulatorInv

\* For all bytes: a program that adds or subtracts decimal numbers of several
\* bytes, DAA behind each byte, gets their digits and their carry.
THEOREM DecimalTheorem == Spec => []DecimalsAddUp
<1>1. AccumulatorInv => DecimalsAddUp
  BY DEF AccumulatorInv, ArithmeticInv, DecimalsAddUp
<1>2. QED
  BY <1>1, AccumulatorInductive, PTL DEF Spec

\* For all bytes: the wide additions, the shifts through two bytes, CP and SWAP
\* do what the instructions on single bytes add up to.
THEOREM SumsTheorem == Spec => []SumsAgree
<1>1. ASSUME ArithmeticInv
      PROVE  Arithmetic!SumsAgree
  <2>1. a \in Byte /\ f \in SUBSET Arithmetic!Flags
    BY <1>1 DEF ArithmeticInv, Arithmetic!TypeOK, Byte
  <2>2. Operands \subseteq Byte /\ HighBytes \subseteq Byte
    BY HardwareAssumption DEF Arithmetic!CpuArithmeticAssumption, Byte
  <2>3. \A h, yh \in HighBytes, yl \in Operands :
          LET wide == Arithmetic!AddHl((256 * h) + a, (256 * yh) + yl, f)
              low  == Arithmetic!ApplyAluOp("add", a, yl, f)
              high == Arithmetic!ApplyAluOp("adc", h, yh, low.f)
          IN  /\ wide.hl = (256 * high.a) + low.a
              /\ wide.f = (f \intersect {"Z"}) \union (high.f \intersect {"H", "C"})
    BY <2>1, <2>2, WideAdd
  <2>4. \A h \in HighBytes :
          LET hl   == (256 * h) + a
              low  == Arithmetic!CbShift("sla", a, f)
              high == Arithmetic!CbShift("rl", h, low.f)
              top  == Arithmetic!CbShift("srl", h, f)
              rest == Arithmetic!CbShift("rr", a, top.f)
          IN  /\ Arithmetic!AddHl(hl, hl, f).hl = (256 * high.a) + low.a
              /\ ("C" \in Arithmetic!AddHl(hl, hl, f).f) = ("C" \in high.f)
              /\ hl \div 2 = (256 * top.a) + rest.a /\ Arithmetic!Carry(rest.f) = a % 2
    BY <2>1, <2>2, Doubling, Halving
  <2>5. \A h \in HighBytes, y \in Operands :
          LET wide == Arithmetic!AddSp((256 * h) + a, y)
              low  == Arithmetic!ApplyAluOp("add", a, y, f)
              high == Arithmetic!ApplyAluOp("adc", h, IF y >= 128 THEN 255 ELSE 0, low.f)
          IN  /\ wide.sp = (256 * high.a) + low.a
              /\ wide.f = low.f \intersect {"H", "C"}
    BY <2>1, <2>2, WideOffset
  <2>6. \A y \in Operands :
          /\ Arithmetic!ApplyAluOp("cp", a, y, f)
               = [Arithmetic!ApplyAluOp("sub", a, y, f) EXCEPT !.a = a]
          /\ Arithmetic!ApplyAluOp("add", Arithmetic!ApplyAluOp("sub", a, y, f).a, y, f).a = a
    BY <2>1, <2>2, BytesAgree
  <2>7. /\ Arithmetic!Shifted("rl", a, Arithmetic!Carry(f))
             = Arithmetic!ApplyAluOp("adc", a, a, f).a
        /\ Arithmetic!Shifted("swap", a, 0) =
             Arithmetic!Shifted("rlc", Arithmetic!Shifted("rlc",
               Arithmetic!Shifted("rlc", Arithmetic!Shifted("rlc", a, 0), 0), 0), 0)
    BY <2>1, BytesAgree
  <2>8. QED
    BY <2>3, <2>4, <2>5, <2>6, <2>7, Zenon DEF Arithmetic!SumsAgree
<1>2. AccumulatorInv => SumsAgree
  BY <1>1 DEF AccumulatorInv, SumsAgree
<1>3. QED
  BY <1>2, AccumulatorInductive, PTL DEF Spec

-----------------------------------------------------------------------------
(* All parts.                                                              *)

KindInv == kind \in Kinds

LEMMA KindInductive ==
  /\ Init => KindInv
  /\ KindInv /\ [Next]_vars => KindInv'
BY KindStays DEF Init, KindInv

\* Type correctness of all parts: among it, that neither FIFO of the renderer is
\* filled beyond its places, that no object is fetched that the OAM search has
\* not found, that dots and scanlines stay on the screen, and that a length
\* counter, a period and an index of wave RAM stay within their registers.
THEOREM TypeCorrect ==
  ASSUME LfsrBits = 15, NarrowBits = 7
  PROVE  Spec => []TypeOK
<1>1. ASSUME KindInv, FrameInv, PictureInv, SweepInv, FetchInv, FreezeInv, OamInv,
             AccumulatorInv
      PROVE  TypeOK
  <2>1. kind = "frame" => Frame!TypeOK
    BY <1>1, FrameTypes, HardwareAssumption DEF FrameInv
  <2>2. kind = "line" => Line!TypeOK
    BY <1>1, LineType DEF PictureInv
  <2>3. kind = "pulse" => Pulse!TypeOK
    BY <1>1, PulseGood, ChannelAssumptions DEF SweepInv
  <2>4. kind = "wave" => Wave!TypeOK
    BY <1>1, WaveGood, ChannelAssumptions DEF FetchInv
  <2>5. kind = "noise" => Noise!TypeOK
    BY <1>1, NoiseGood, ChannelAssumptions DEF FreezeInv
  <2>6. kind = "transfers" => Transfer!TypeOK
    BY <1>1 DEF OamInv, TransferInv
  <2>7. kind = "arithmetic" => Arithmetic!TypeOK
    BY <1>1 DEF AccumulatorInv, ArithmeticInv
  <2>8. kind \in {"frame", "line", "pulse", "wave", "noise", "transfers", "arithmetic"}
    BY <1>1, HardwareAssumption DEF KindInv
  <2>9. QED
    BY <2>1, <2>2, <2>3, <2>4, <2>5, <2>6, <2>7, <2>8 DEF TypeOK
<1>2. QED
  BY <1>1, KindInductive, FrameInductive, PictureInductive, SweepInductive, FetchInductive,
     FreezeInductive, OamInductive, AccumulatorInductive, PTL DEF Spec
=============================================================================
