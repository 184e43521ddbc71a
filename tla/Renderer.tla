------------------------------ MODULE Renderer ------------------------------
(***************************************************************************)
(* The renderer of the PPU, one T-cycle of mode 3 a step: the fetcher      *)
(* (Ppu::Fetcher), which reads rows of the background, of the window and   *)
(* of objects, the two FIFOs between it and the screen, and                *)
(* handlePixelTransfer(), which discards and draws their pixels; with the  *)
(* program moving the window and switching the LCD off in between.         *)
(*                                                                         *)
(* A pixel is named by the strip and the column it comes from, an object   *)
(* by its place in m_objects; colours, palettes and rows are left out.     *)
(***************************************************************************)
EXTENDS Integers, Sequences

CONSTANTS
  Width,         \* pixels of a line (160)
  MaxObjects,    \* size of m_objects (10)
  Lines,         \* the lines that are drawn: SCX, WX, order, objects found
  StartupLines,  \* those on which the LCD is switched on
  Disturbed,     \* those during which the program acts (a bound)
  RewriteUntil,  \* pixels drawn when it acts last (a bound)
  WindowValues,  \* values it writes to WX
  MinTransfer, MaxTransfer  \* what PpuTiming takes for granted of a line

\* A line has its SCX within a tile, its WX, and the objects that the OAM
\* search finds, in OAM order: their X, and whether their rows are opaque.
IsLine(l) ==
  /\ l.scx \in 0 .. 7 /\ l.wx \in 0 .. 255 /\ l.byIndex \in BOOLEAN
  /\ l.objects \in Seq([x : 0 .. 255, oamIndex : 0 .. 39, opaque : BOOLEAN])
  /\ \A i \in DOMAIN l.objects :
       i > 1 => l.objects[i].oamIndex > l.objects[i - 1].oamIndex

RendererAssumption ==
  /\ Width \in Nat \ {0} /\ MaxObjects \in Nat
  /\ \A l \in Lines \union StartupLines : IsLine(l)
  /\ Disturbed \subseteq Lines /\ WindowValues \subseteq 0 .. 255
  /\ RewriteUntil \in Nat /\ MinTransfer \in Nat /\ MaxTransfer \in Nat

VARIABLES
  phase,    \* "idle", "found" (the OAM search is over) or "transfer" (mode 3)
  startup,  \* the LCD has been switched on: m_lcdStartupLine
  line,     \* SCX and object order of this line, and (history) the line of
            \* Lines and the objects that had been fetched when it began
  wx,       \* the register WX; 255 stands for a window that is switched off
  objects,  \* m_objects, up to m_objectCount
  pipe,     \* fetcher, FIFOs and counters
  shown,    \* the pixel drawn last
  calls,    \* history: calls of handlePixelTransfer() for this line
  moved     \* history: the program has written WX during this line

vars == <<phase, startup, line, wx, objects, pipe, shown, calls, moved>>

NoObject == [object |-> 0, column |-> 0]
NoPixel == [strip |-> "blank", column |-> 0, object |-> NoObject, blanked |-> FALSE]
NotBegun == -1

\* m_mState, and so on; age is the number of dots since m_lastDotStateChange.
Idle == [mode |-> "background", state |-> "tile", rowPushed |-> FALSE,
         objectPending |-> FALSE, tileX |-> 0, object |-> 0, age |-> 0]

Blanks == [i \in 1 .. 8 |-> [strip |-> "blank", column |-> 0]]

EmptyPipe == [x |-> 0, initial |-> 0, scx |-> 0, clip |-> 0, blankNext |-> FALSE,
              fetcher |-> Idle, saved |-> Idle, bg |-> <<>>, obj |-> <<>>,
              fetched |-> {}, begun |-> NotBegun]

Init ==
  /\ phase = "idle" /\ startup = TRUE
  /\ line = [scx |-> 0, byIndex |-> FALSE, disturbed |-> FALSE, gone |-> {}]
  /\ wx = 255 /\ objects = <<>> /\ pipe = EmptyPipe /\ shown = NoPixel
  /\ calls = 0 /\ moved = FALSE

-----------------------------------------------------------------------------
(* Pieces of a T-cycle, as functions of the pipe.                          *)

WindowStart == IF wx >= 7 THEN wx - 7 ELSE 0

\* Mutant: the window leaves SCX to be discarded.
ResetKeepsScroll(p, mode) ==
  [p EXCEPT
     !.fetcher = [Idle EXCEPT !.mode = mode, !.object = p.fetcher.object,
                              !.state = IF mode = "object" THEN "low" ELSE "tile"],
     !.bg = IF mode = "object" THEN @ ELSE <<>>,
     !.clip = IF mode = "window" /\ wx < 7 THEN 7 - wx ELSE @,
     !.begun = IF mode = "window" THEN wx ELSE @]

\* Fetcher::reset(); the background is reset by StartLine.
Reset(p, mode) ==
  [p EXCEPT
     !.fetcher = [Idle EXCEPT !.mode = mode, !.object = p.fetcher.object,
                              !.state = IF mode = "object" THEN "low" ELSE "tile"],
     !.bg = IF mode = "object" THEN @ ELSE <<>>,
     !.scx = IF mode = "window" THEN line.scx ELSE @,
     !.clip = IF mode # "window" THEN @ ELSE IF wx < 7 THEN 7 - wx ELSE 0,
     !.begun = IF mode = "window" THEN wx ELSE @]

CheckForWindow(p) ==
  IF p.fetcher.mode = "background" /\ p.x - p.initial = WindowStart
  THEN Reset(p, "window") ELSE p

\* The objects whose turn it is.
Due(p) ==
  LET fetchX == p.x - p.initial - (line.scx - p.scx)
  IN  {i \in DOMAIN objects \ p.fetched : fetchX + 8 >= objects[i].x}

\* The quirk of an object found on the dot on which a tile has been read,
\* while the line has not begun: the first pixel loses its colour.
BlanksNext(p) == p.fetcher.state = "tile" /\ p.fetcher.age >= 2 /\ p.initial > 0

\* Mutant: the object is not marked as fetched.
FindObjectAgain(p) ==
  IF p.fetcher.mode = "object" \/ p.fetcher.objectPending \/ Due(p) = {} THEN p
  ELSE LET i == CHOOSE i \in Due(p) : \A j \in Due(p) : i <= j
       IN  [p EXCEPT !.fetcher.object = i, !.fetcher.objectPending = TRUE,
                     !.blankNext = @ \/ BlanksNext(p)]

FindObject(p) ==
  IF p.fetcher.mode = "object" \/ p.fetcher.objectPending \/ Due(p) = {} THEN p
  ELSE LET i == CHOOSE i \in Due(p) : \A j \in Due(p) : i <= j
       IN  [p EXCEPT !.fetched = @ \union {i},
                     !.fetcher.object = i, !.fetcher.objectPending = TRUE,
                     !.blankNext = @ \/ BlanksNext(p)]

ReachedStep5(f) ==
  \/ f.state \in {"sleep", "push"}
  \/ f.state = "high" /\ f.age >= 1

\* saveFetcherState(): what it saves of the age has no meaning any more when
\* it is restored, except that it is long.
FetchObject(p) ==
  IF p.fetcher.objectPending /\ ReachedStep5(p.fetcher) /\ p.bg # <<>>
  THEN Reset([p EXCEPT !.saved = [p.fetcher EXCEPT !.objectPending = FALSE,
                                                   !.object = 0, !.age = 3]], "object")
  ELSE p

\* checkForObject()
CheckForObject(p) == FetchObject(FindObject(p))

\* pushTileRowToFifo()
PushRow(p) ==
  LET f == p.fetcher
  IN  IF f.rowPushed \/ p.bg # <<>> THEN p
      ELSE [p EXCEPT !.bg = [i \in 1 .. 8 |-> [strip |-> f.mode,
                                               column |-> 8 * f.tileX + i - 1]],
                     !.fetcher.rowPushed = TRUE]

Precedes(i, j) ==
  LET o == objects[i]  other == objects[j]
  IN  IF line.byIndex \/ o.x = other.x THEN o.oamIndex < other.oamIndex
      ELSE o.x < other.x

\* Mutant: the object that is fetched last is in front.
MergeRowOver(p) ==
  LET row == [i \in 1 .. 8 |-> IF i <= Len(p.obj) THEN p.obj[i] ELSE NoObject]
      j   == p.fetcher.object
  IN  [p EXCEPT !.obj = [i \in 1 .. 8 |-> IF objects[j].opaque
                                          THEN [object |-> j, column |-> i - 1]
                                          ELSE row[i]]]

\* mergeObjectRowIntoFifo(): the FIFO is filled up to eight pixels, and those
\* of the object replace the transparent ones and those it is in front of.
MergeRow(p) ==
  LET row == [i \in 1 .. 8 |-> IF i <= Len(p.obj) THEN p.obj[i] ELSE NoObject]
      j   == p.fetcher.object
      Replaces(old) == objects[j].opaque
                       /\ (old = NoObject \/ Precedes(j, old.object))
  IN  [p EXCEPT !.obj = [i \in 1 .. 8 |-> IF Replaces(row[i])
                                          THEN [object |-> j, column |-> i - 1]
                                          ELSE row[i]]]

\* restoreFetcherState()
Restore(p) == [p EXCEPT !.fetcher = p.saved, !.saved = Idle]

Enter(p, state) == [p EXCEPT !.fetcher.state = state]

NextTile(p) ==
  [p EXCEPT !.fetcher.state = "tile", !.fetcher.rowPushed = FALSE,
            !.fetcher.tileX = @ + 1]

\* The switch over the state: what is due once the state is age dots old.
Advance(p) ==
  LET f == p.fetcher
      pushed == PushRow(p)
  IN  CASE f.state = "tile" -> IF f.age >= 2 THEN Enter(p, "low") ELSE p
        [] f.state = "low" -> IF f.age >= 2 THEN Enter(p, "high") ELSE p
        [] f.state = "high" /\ f.mode = "object" ->
             IF f.age >= 3 THEN Restore(MergeRow(p)) ELSE p
        [] f.state = "high" /\ f.mode # "object" ->
             IF f.age >= 2 THEN PushRow(Enter(p, "sleep")) ELSE p
        [] f.state = "sleep" ->
             IF f.age < 2 THEN pushed
             ELSE IF pushed.fetcher.rowPushed THEN NextTile(pushed)
             ELSE Enter(pushed, "push")
        [] f.state = "push" ->
             IF pushed.fetcher.rowPushed THEN NextTile(pushed) ELSE pushed

\* Fetcher::runNextTCycle()
RunFetcher(p) ==
  LET q    == CheckForObject(CheckForWindow(p))
      next == Advance(q)
      age  == next.fetcher.age
  IN  [next EXCEPT !.fetcher.age =
         IF next.fetcher.state # q.fetcher.state THEN 1
         ELSE IF age < 3 THEN age + 1 ELSE age]

\* isFetchingObject()
IsFetchingObject(f) == f.mode = "object" \/ f.objectPending

PopBackground(p) == [p EXCEPT !.bg = Tail(@)]
PopObject(p) == [p EXCEPT !.obj = IF @ = <<>> THEN @ ELSE Tail(@)]

Draws(p) == p.initial = 0 /\ p.scx >= line.scx /\ p.clip = 0

\* One pixel leaves the FIFO: discarded as part of the initial eight, for SCX,
\* or for the window's left edge, or drawn.
Pop(p) ==
  IF p.initial > 0 THEN [PopObject(PopBackground(p)) EXCEPT !.initial = @ - 1]
  ELSE IF p.scx < line.scx THEN [PopBackground(p) EXCEPT !.scx = @ + 1]
  ELSE IF p.clip > 0 THEN [PopBackground(p) EXCEPT !.clip = @ - 1]
  ELSE [PopObject(PopBackground(p)) EXCEPT !.x = @ + 1, !.blankNext = FALSE]

-----------------------------------------------------------------------------
(* Actions.                                                                *)

\* The OAM search of line l; on the line on which the LCD is switched on it
\* adds to the objects of whichever line was drawn last.
OamSearch(l) ==
  /\ phase = "idle"
  /\ LET old   == IF startup THEN objects ELSE <<>>
         room  == MaxObjects - Len(old)
         found == IF Len(l.objects) <= room THEN l.objects
                  ELSE SubSeq(l.objects, 1, room)
     IN  objects' = old \o found
  /\ pipe' = [EmptyPipe EXCEPT !.fetched = IF startup THEN pipe.fetched ELSE {}]
  /\ line' = [scx |-> l.scx, byIndex |-> l.byIndex, disturbed |-> l \in Disturbed,
              gone |-> IF startup THEN pipe.fetched ELSE {}]
  /\ wx' = l.wx
  /\ phase' = "found" /\ calls' = 0 /\ moved' = FALSE /\ shown' = NoPixel
  /\ UNCHANGED startup

\* incrementDot() reaches the dot on which the renderer starts.
StartLine ==
  /\ phase = "found"
  /\ pipe' = [pipe EXCEPT !.initial = 8, !.bg = Blanks]
  /\ phase' = "transfer" /\ startup' = FALSE
  /\ UNCHANGED <<line, wx, objects, shown, calls, moved>>

\* handlePixelTransfer()
HandlePixelTransfer ==
  /\ phase = "transfer"
  /\ LET p       == RunFetcher(pipe)
         stalls  == \/ IsFetchingObject(pipe.fetcher) \/ IsFetchingObject(p.fetcher)
                    \/ p.bg = <<>>
         draws   == ~stalls /\ Draws(p)
     IN  /\ pipe' = IF stalls THEN p ELSE Pop(p)
         /\ shown' = IF ~draws THEN shown
                     ELSE [strip |-> Head(p.bg).strip, column |-> Head(p.bg).column,
                           object |-> IF p.obj = <<>> THEN NoObject ELSE Head(p.obj),
                           blanked |-> p.blankNext]
         /\ phase' = IF draws /\ p.x + 1 >= Width THEN "idle" ELSE phase
  /\ calls' = calls + 1
  /\ UNCHANGED <<startup, line, wx, objects, moved>>

\* The program writes WX, once a line.
WriteWindow(value) ==
  /\ phase = "transfer" /\ line.disturbed /\ ~moved /\ pipe.x < RewriteUntil
  /\ wx' = value /\ moved' = TRUE
  /\ UNCHANGED <<phase, startup, line, objects, pipe, shown, calls>>

\* The LCD is switched off.
LcdOff ==
  /\ line.disturbed /\ pipe.x < RewriteUntil /\ ~moved /\ ~startup
  /\ pipe' = [EmptyPipe EXCEPT !.fetched = pipe.fetched]
  /\ phase' = "idle" /\ startup' = TRUE /\ calls' = 0 /\ shown' = NoPixel
  /\ UNCHANGED <<line, wx, objects, moved>>

Next ==
  \/ phase = "idle" /\ \E l \in IF startup THEN StartupLines ELSE Lines : OamSearch(l)
  \/ StartLine \/ HandlePixelTransfer \/ LcdOff
  \/ \E value \in WindowValues : WriteWindow(value)

Spec == Init /\ [][Next]_vars

-----------------------------------------------------------------------------
(* Properties.                                                             *)

\* hardAssert() in Fifo: neither FIFO is filled beyond its sixteen places.
TypeOK ==
  /\ phase \in {"idle", "found", "transfer"} /\ startup \in BOOLEAN
  /\ wx \in 0 .. 255 /\ Len(objects) <= MaxObjects /\ pipe.x \in 0 .. Width
  /\ pipe.initial \in 0 .. 8 /\ pipe.scx \in 0 .. line.scx /\ pipe.clip \in 0 .. 7
  /\ Len(pipe.bg) <= 16 /\ Len(pipe.obj) <= 16
  /\ pipe.fetched \subseteq DOMAIN objects

\* However many objects stop it and wherever the window restarts it, a line is
\* full after between MinTransfer and MaxTransfer calls: the range in which
\* PpuTiming leaves the end of mode 3 open.
LineFits ==
  /\ calls <= MaxTransfer
  /\ phase = "idle" /\ calls > 0 => calls >= MinTransfer

\* The objects on the line, without those that were fetched before it began.
Promised == [i \in DOMAIN objects \ line.gone |-> objects[i]]

\* Where the window begins, or has begun.
WindowBegins == IF pipe.begun = NotBegun THEN wx ELSE pipe.begun

\* Nothing is seen of an object whose X is 0: it is off the screen
\* (ppu-debug-memory.md).
OffscreenStaysOff ==
  shown.object # NoObject => objects[shown.object.object].x > 0
=============================================================================
