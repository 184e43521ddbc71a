------------------------------ MODULE ScanLine ------------------------------
(***************************************************************************)
(* What the renderer promises of a line: Width pixels from left to right,  *)
(* the background from the column it is scrolled to, the window, once the  *)
(* line reaches it, from its left edge (or what is clipped of it) to the   *)
(* end, at each place the foremost of the objects that cover it, and an    *)
(* end to every line.                                                      *)
(***************************************************************************)
EXTENDS Integers

CONSTANTS Width, NoObject

VARIABLES
  on,       \* a line is being drawn
  scroll,   \* column of the background that the line begins with
  objects,  \* the objects on the line: a function to their X and OAM index
  byIndex,  \* objects are ordered by OAM index alone (CGB)
  wx,       \* where the window begins
  moved,    \* the program has moved the window during the line
  x,        \* pixels drawn
  shown     \* the last of them

vars == <<on, scroll, objects, byIndex, wx, moved, x, shown>>

\* An entry of OAM can be there twice, when the LCD has been switched off and on:
\* at another place, or at the same one.
Before(i, j) ==
  LET o == objects[i]  other == objects[j]
  IN  \/ ~byIndex /\ o.x < other.x
      \/ (byIndex \/ o.x = other.x) /\ o.oamIndex < other.oamIndex
      \/ o.oamIndex = other.oamIndex /\ (o.x < other.x \/ (o.x = other.x /\ i < j))

\* The foremost of the objects that cover column, and its own column there.
Foremost(column) ==
  LET covering == {i \in DOMAIN objects :
                     objects[i].opaque /\ column \in objects[i].x - 8 .. objects[i].x - 1}
  IN  IF covering = {} THEN NoObject
      ELSE LET i == CHOOSE i \in covering : \A j \in covering \ {i} : Before(i, j)
           IN  [object |-> i, column |-> column - (objects[i].x - 8)]

WindowLeft == IF wx < 7 THEN 7 - wx ELSE 0
WindowStart == IF wx < 7 THEN 0 ELSE wx - 7

Background(pixel) ==
  /\ x # WindowStart
  /\ x = 0 \/ shown.strip = "background"
  /\ pixel.strip = "background" /\ pixel.column = scroll + x

Window(pixel) ==
  /\ pixel.strip = "window"
  /\ IF x > 0 /\ shown.strip = "window"
     THEN pixel.column = shown.column + 1
     ELSE pixel.column = WindowLeft /\ x = WindowStart

\* Objects are promised where the window stays and the background is not
\* scrolled within a tile, or no object reaches over the edge of the screen.
ObjectsPromised ==
  /\ ~moved
  /\ scroll = 0 \/ \A i \in DOMAIN objects : objects[i].x >= 8

Init == ~on

Begin == ~on /\ on' /\ x' = 0

\* Only the first pixel may lose its colour.
Draw ==
  /\ on /\ x < Width /\ x' = x + 1
  /\ Background(shown') \/ Window(shown')
  /\ shown'.blanked => x = 0
  /\ ObjectsPromised => shown'.object = Foremost(x)
  /\ UNCHANGED <<scroll, objects, byIndex, wx, moved>>
  /\ on' = (x' < Width)

\* The program moves the window, or the window begins where it is.
MoveWindow == UNCHANGED <<on, scroll, objects, byIndex, x, shown>>

\* Between two lines, and with the LCD off.
Rest == ~on' /\ x' = 0

Next == Begin \/ Draw \/ MoveWindow \/ Rest

\* What no step of a line may do, and that every line comes to its end.
Safety == Init /\ [][Next]_vars
LinesEnd == on ~> ~on

Spec == Safety /\ LinesEnd
=============================================================================
