--------------------------- MODULE RendererProofs ---------------------------
(***************************************************************************)
(* Theorems about Renderer, for every line, every set of objects on it and *)
(* everything the program does while it is drawn.                          *)
(*                                                                         *)
(* A T-cycle is a composition of functions of the pipe: each lemma says    *)
(* what one of them keeps, and RunFetcher and Pop put them together.       *)
(*   - Flows: the pipe stays one of this line (its type).                  *)
(*   - StripsInOrder: the fetcher has fetched so many tiles, so many of    *)
(*     their pixels are still in the FIFO, so the next one is known; what  *)
(*     is drawn of background and window has neither gap nor repetition.   *)
(*   - ObjectsInOrder: the objects left are those further right, and the   *)
(*     object FIFO holds the foremost of those merged, place by place.     *)
(*   - CallsLeft: a count of the calls still to come, which every call     *)
(*     brings down.                                                        *)
(* From the second and the third follows that the renderer implements      *)
(* ScanLine (DrawingTheorem), from the last that a line takes between 168  *)
(* and 318 calls (LineTimeTheorem).                                        *)
(***************************************************************************)
EXTENDS ApuProofs, SequenceTheorems, FiniteSetTheorems

-----------------------------------------------------------------------------
(* The renderer: the fetcher and the FIFOs stay those of one line, piece by  *)
(* piece of a T-cycle.                                                     *)

Strips == {"blank", "background", "window", "object"}
Object == [x : 0 .. 255, oamIndex : 0 .. 39, opaque : BOOLEAN]
BgPixel == [strip : Strips, column : Int]
ObjPixel == [object : Nat, column : Int]

Fetcher ==
  [mode : {"background", "window", "object"},
   state : {"tile", "low", "high", "sleep", "push"},
   rowPushed : BOOLEAN, objectPending : BOOLEAN,
   tileX : Nat, object : Nat, age : Nat]

\* A FIFO is filled when it is empty, or up to eight.
Fifo(S) == {s \in Seq(S) : Len(s) <= 8}

Pipe ==
  [x : 0 .. 160, initial : 0 .. 8, scx : 0 .. 7, clip : 0 .. 7,
   blankNext : BOOLEAN, fetcher : Fetcher, saved : Fetcher,
   bg : Fifo(BgPixel), obj : Fifo(ObjPixel), fetched : SUBSET Nat, begun : Int]

\* A pipe of this line.
Flows(p) == p \in Pipe /\ p.scx <= line.scx /\ p.fetched \subseteq DOMAIN objects

LineInv ==
  /\ phase \in {"idle", "found", "transfer"} /\ startup \in BOOLEAN
  /\ line.scx \in 0 .. 7 /\ wx \in 0 .. 255
  /\ objects \in Seq(Object) /\ Len(objects) <= 10
  /\ Flows(pipe)
  /\ phase # "idle" => pipe.x < 160

\* A pipe of this line, as far along it as p.
FlowsFrom(p, n) == Flows(n) /\ n.x = p.x /\ n.initial = p.initial

LEMMA LeastOf ==
  ASSUME NEW T, T \subseteq 1 .. 10, T # {}
  PROVE  \E i \in T : \A j \in T : i <= j
<1>1. \E i \in 1 .. 10 : i \in T /\ \A j \in 1 .. i - 1 : j \notin T
  <2> SUFFICES ASSUME \A i \in 1 .. 10 : i \in T => \E j \in 1 .. i - 1 : j \in T
               PROVE  FALSE
    OBVIOUS
  <2>1. 1 \notin T /\ 2 \notin T /\ 3 \notin T /\ 4 \notin T /\ 5 \notin T
    OBVIOUS
  <2>2. 6 \notin T /\ 7 \notin T /\ 8 \notin T /\ 9 \notin T /\ 10 \notin T
    BY <2>1
  <2>3. PICK i \in T : i \in 1 .. 10
    OBVIOUS
  <2>4. QED
    BY <2>1, <2>2, <2>3
<1>2. QED
  BY <1>1

\* Eight pixels are a FIFO.
LEMMA EightPixels ==
  ASSUME NEW S, NEW g \in [1 .. 8 -> S]
  PROVE  g \in Fifo(S) /\ Len(g) = 8
<1>1. g \in Seq(S)
  BY SeqDef, 8 \in Nat
<1>2. Len(g) = 8
  <2>1. Len(g) \in Nat /\ DOMAIN g = 1 .. Len(g)
    BY <1>1, LenProperties
  <2>2. DOMAIN g = 1 .. 8
    OBVIOUS
  <2>3. 8 \in 1 .. Len(g) /\ Len(g) <= 8
    <3>1. Len(g) # 0
      BY <2>1, <2>2
    <3>2. Len(g) \in 1 .. Len(g)
      BY <2>1, <3>1
    <3>3. QED
      BY <2>1, <2>2, <3>2
  <2>4. QED
    BY <2>1, <2>3
<1>3. Len(g) <= 8
  BY <1>2
<1>4. QED
  BY <1>1, <1>2, <1>3, Zenon DEF Fifo

LEMMA ShorterFifo ==
  ASSUME NEW S, NEW s \in Fifo(S), s # <<>>
  PROVE  Tail(s) \in Fifo(S)
<1>1. s \in Seq(S) /\ Len(s) \in Nat /\ Len(s) <= 8
  BY LenProperties DEF Fifo
<1>2. Tail(s) \in Seq(S) /\ Len(Tail(s)) = Len(s) - 1
  BY <1>1, HeadTailProperties
<1>3. QED
  BY <1>1, <1>2 DEF Fifo

LEMMA NoPixels ==
  ASSUME NEW S
  PROVE  <<>> \in Fifo(S)
<1>1. <<>> \in Seq(S) /\ Len(<<>>) = 0
  OBVIOUS
<1>2. QED
  BY <1>1 DEF Fifo

LEMMA IdleType == Line!Idle \in Fetcher /\ Line!Idle.age = 0
BY DEF Line!Idle, Fetcher

LEMMA EmptyType ==
  ASSUME NEW found, found \subseteq Nat
  PROVE  LET n == [Line!EmptyPipe EXCEPT !.fetched = found]
         IN  /\ n \in Pipe /\ n.x = 0 /\ n.scx = 0 /\ n.fetched = found
             /\ Line!EmptyPipe \in Pipe /\ Line!EmptyPipe.scx = 0
             /\ Line!EmptyPipe.fetched = {}
<1>1. <<>> \in Fifo(BgPixel) /\ <<>> \in Fifo(ObjPixel)
  BY NoPixels
<1>2. Line!Idle \in Fetcher
  BY IdleType
<1> HIDE DEF Line!Idle
<1>3. -1 \in Int /\ 0 \in 0 .. 160 /\ 0 \in 0 .. 8 /\ 0 \in 0 .. 7 /\ {} \in SUBSET Nat
  OBVIOUS
<1>4. Line!EmptyPipe \in Pipe
  BY <1>1, <1>2, <1>3, Zenon DEF Line!EmptyPipe, Line!NotBegun, Pipe
<1>5. Line!EmptyPipe.x = 0 /\ Line!EmptyPipe.scx = 0 /\ Line!EmptyPipe.fetched = {}
  BY Zenon DEF Line!EmptyPipe
<1> HIDE DEF Line!EmptyPipe
<1>6. QED
  BY <1>4, <1>5 DEF Pipe

\* Pieces of a T-cycle that change the state of the fetcher, and the FIFOs.
LEMMA NewFetcher ==
  ASSUME NEW p, Flows(p), NEW g \in Fetcher
  PROVE  LET n == [p EXCEPT !.fetcher = g] IN FlowsFrom(p, n) /\ n.fetcher = g
BY DEF Flows, FlowsFrom, Pipe

LEMMA ResetFlows ==
  ASSUME LineInv, NEW p, Flows(p), NEW mode \in {"background", "window", "object"}
  PROVE  FlowsFrom(p, Line!Reset(p, mode))
<1> DEFINE g == [Line!Idle EXCEPT !.mode = mode, !.object = p.fetcher.object,
                                  !.state = IF mode = "object" THEN "low" ELSE "tile"]
           b == IF mode = "object" THEN p.bg ELSE <<>>
           s == IF mode = "window" THEN line.scx ELSE p.scx
           c == IF mode # "window" THEN p.clip ELSE IF wx < 7 THEN 7 - wx ELSE 0
           e == IF mode = "window" THEN wx ELSE p.begun
<1>1. g \in Fetcher
  BY DEF Line!Idle, Fetcher, Flows, Pipe
<1>2. b \in Fifo(BgPixel)
  BY NoPixels DEF Flows, Pipe
<1>3. s \in 0 .. 7 /\ s <= line.scx /\ c \in 0 .. 7 /\ e \in Int
  BY DEF Flows, Pipe, LineInv
<1>4. Line!Reset(p, mode) =
        [p EXCEPT !.fetcher = g, !.bg = b, !.scx = s, !.clip = c, !.begun = e]
  BY DEF Line!Reset
<1> HIDE DEF g, b, s, c, e
<1> DEFINE half == [p EXCEPT !.fetcher = g, !.bg = b]
<1>5. FlowsFrom(p, half)
  BY <1>1, <1>2 DEF Flows, FlowsFrom, Pipe
<1>6. Line!Reset(p, mode) = [half EXCEPT !.scx = s, !.clip = c, !.begun = e]
  BY <1>4 DEF Flows, Pipe
<1> HIDE DEF half
<1> DEFINE n == [half EXCEPT !.scx = s, !.clip = c, !.begun = e]
<1>7. half \in Pipe
  BY <1>5 DEF Flows, FlowsFrom
<1>8. n \in Pipe
  BY <1>3, <1>7 DEF Pipe
<1>9. n.scx = s /\ n.fetched = half.fetched /\ n.x = half.x /\ n.initial = half.initial
  BY <1>7 DEF Pipe
<1> HIDE DEF n
<1>10. QED
  BY <1>3, <1>5, <1>6, <1>8, <1>9 DEF Flows, FlowsFrom, n

LEMMA CheckForWindowFlows ==
  ASSUME LineInv, NEW p, Flows(p)
  PROVE  FlowsFrom(p, Line!CheckForWindow(p))
BY ResetFlows DEF Line!CheckForWindow, FlowsFrom

LEMMA FindObjectFlows ==
  ASSUME LineInv, NEW p, Flows(p)
  PROVE  FlowsFrom(p, Line!FindObject(p))
<1> DEFINE T == Line!Due(p)
           i == CHOOSE i \in T : \A j \in T : i <= j
<1>1. CASE p.fetcher.mode = "object" \/ p.fetcher.objectPending \/ T = {}
  BY <1>1 DEF Line!FindObject, FlowsFrom
<1>2. CASE ~(p.fetcher.mode = "object" \/ p.fetcher.objectPending \/ T = {})
  <2>1. T \subseteq DOMAIN objects /\ DOMAIN objects \subseteq 1 .. 10
    <3>1. Len(objects) \in Nat /\ Len(objects) <= 10 /\ DOMAIN objects = 1 .. Len(objects)
      BY LenProperties DEF LineInv
    <3>2. QED
      BY <3>1 DEF Line!Due
  <2>2. i \in T
    <3>1. \E k \in T : \A j \in T : k <= j
      BY <1>2, <2>1, LeastOf
    <3>2. QED
      BY <3>1
  <2> DEFINE g == [p.fetcher EXCEPT !.object = i, !.objectPending = TRUE]
             e == p.blankNext \/ Line!BlanksNext(p)
             d == p.fetched \union {i}
  <2>3. Line!FindObject(p) = [p EXCEPT !.fetched = d, !.fetcher = g, !.blankNext = e]
    <3>1. Line!FindObject(p) =
            [p EXCEPT !.fetched = @ \union {i}, !.fetcher.object = i,
                      !.fetcher.objectPending = TRUE,
                      !.blankNext = @ \/ Line!BlanksNext(p)]
      BY <1>2, Zenon DEF Line!FindObject
    <3> HIDE DEF i
    <3>2. QED
      BY <3>1 DEF Flows, Pipe
  <2> HIDE DEF i, T
  <2>4. g \in Fetcher /\ d \subseteq DOMAIN objects /\ d \subseteq Nat
    <3>1. i \in DOMAIN objects /\ i \in Nat /\ DOMAIN objects \subseteq Nat
      BY <2>1, <2>2
    <3>2. g \in Fetcher
      BY <3>1 DEF Flows, Pipe, Fetcher
    <3>3. QED
      BY <3>1, <3>2 DEF Flows, Pipe
  <2>5. e \in BOOLEAN
    BY DEF Flows, Pipe, Line!BlanksNext
  <2> HIDE DEF g, d, e
  <2> DEFINE half == [p EXCEPT !.fetched = d, !.blankNext = e]
  <2>6. half \in Pipe /\ half.fetched = d
    BY <2>4, <2>5 DEF Flows, Pipe
  <2>7. half.x = p.x /\ half.initial = p.initial /\ half.scx = p.scx
    BY DEF Flows, Pipe
  <2>8. Line!FindObject(p) = [half EXCEPT !.fetcher = g]
    BY <2>3 DEF Flows, Pipe
  <2> HIDE DEF half
  <2>9. FlowsFrom(p, half)
    BY <2>4, <2>6, <2>7 DEF Flows, FlowsFrom
  <2>10. QED
    BY <2>4, <2>8, <2>9, NewFetcher DEF FlowsFrom
<1>3. QED
  BY <1>1, <1>2

LEMMA FetchObjectFlows ==
  ASSUME LineInv, NEW p, Flows(p)
  PROVE  FlowsFrom(p, Line!FetchObject(p))
<1> DEFINE g == [p.fetcher EXCEPT !.objectPending = FALSE, !.object = 0, !.age = 3]
           n == [p EXCEPT !.saved = g]
<1>1. g \in Fetcher
  BY DEF Flows, Pipe, Fetcher
<1> HIDE DEF g
<1>2. FlowsFrom(p, n)
  BY <1>1 DEF Flows, FlowsFrom, Pipe
<1>3. FlowsFrom(n, Line!Reset(n, "object"))
  BY <1>2, ResetFlows DEF FlowsFrom
<1>4. Line!FetchObject(p) = p \/ Line!FetchObject(p) = Line!Reset(n, "object")
  BY DEF Line!FetchObject, g
<1> HIDE DEF n
<1>5. QED
  BY <1>2, <1>3, <1>4 DEF FlowsFrom

LEMMA PushRowFlows ==
  ASSUME NEW p, Flows(p)
  PROVE  FlowsFrom(p, Line!PushRow(p))
<1> DEFINE mode == p.fetcher.mode
           tileX == p.fetcher.tileX
           row == [i \in 1 .. 8 |-> [strip |-> mode, column |-> 8 * tileX + i - 1]]
           g == [p.fetcher EXCEPT !.rowPushed = TRUE]
<1>1. CASE p.fetcher.rowPushed \/ p.bg # <<>>
  BY <1>1 DEF Line!PushRow, FlowsFrom
<1>2. CASE ~(p.fetcher.rowPushed \/ p.bg # <<>>)
  <2>1. mode \in Strips /\ tileX \in Nat /\ g \in Fetcher
    BY DEF Flows, Pipe, Fetcher, Strips
  <2>2. Line!PushRow(p) = [p EXCEPT !.bg = row, !.fetcher = g]
    BY <1>2 DEF Line!PushRow, Flows, Pipe
  <2> HIDE DEF mode, tileX, g
  <2>3. row \in [1 .. 8 -> BgPixel]
    BY <2>1 DEF BgPixel
  <2>4. row \in Fifo(BgPixel)
    BY <2>3, EightPixels
  <2> HIDE DEF row
  <2> DEFINE half == [p EXCEPT !.bg = row]
  <2>5. FlowsFrom(p, half)
    BY <2>4 DEF Flows, FlowsFrom, Pipe
  <2>6. Line!PushRow(p) = [half EXCEPT !.fetcher = g]
    BY <2>2 DEF Flows, Pipe
  <2> HIDE DEF half
  <2>7. QED
    BY <2>1, <2>5, <2>6, NewFetcher DEF FlowsFrom
<1>3. QED
  BY <1>1, <1>2

LEMMA MergeRowFlows ==
  ASSUME NEW p, Flows(p)
  PROVE  FlowsFrom(p, Line!MergeRow(p))
<1> DEFINE row == [i \in 1 .. 8 |-> IF i <= Len(p.obj) THEN p.obj[i] ELSE Line!NoObject]
           j == p.fetcher.object
           Replaces(old) == objects[j].opaque
                            /\ (old = Line!NoObject \/ Line!Precedes(j, old.object))
           merged == [i \in 1 .. 8 |-> IF Replaces(row[i])
                                       THEN [object |-> j, column |-> i - 1] ELSE row[i]]
<1>1. p.obj \in Seq(ObjPixel) /\ j \in Nat
  BY DEF Flows, Pipe, Fetcher, Fifo
<1>2. Line!MergeRow(p) = [p EXCEPT !.obj = merged]
  BY Zenon DEF Line!MergeRow
<1> HIDE DEF j
<1>3. Line!NoObject \in ObjPixel
  BY DEF Line!NoObject, ObjPixel
<1>4. row \in [1 .. 8 -> ObjPixel]
  <2>1. ASSUME NEW i \in 1 .. 8, i <= Len(p.obj)
        PROVE  p.obj[i] \in ObjPixel
    BY <1>1, <2>1, ElementOfSeq
  <2>2. QED
    BY <1>3, <2>1
<1> HIDE DEF row
<1>5. merged \in [1 .. 8 -> ObjPixel]
  <2>1. ASSUME NEW i \in 1 .. 8
        PROVE  [object |-> j, column |-> i - 1] \in ObjPixel
    BY <1>1 DEF ObjPixel
  <2> HIDE DEF Replaces
  <2>2. QED
    BY <1>4, <2>1
<1>6. merged \in Fifo(ObjPixel)
  BY <1>5, EightPixels
<1> HIDE DEF merged
<1>7. QED
  BY <1>2, <1>6 DEF Flows, FlowsFrom, Pipe

LEMMA AdvanceFlows ==
  ASSUME NEW p, Flows(p)
  PROVE  FlowsFrom(p, Line!Advance(p))
<1> DEFINE pushed == Line!PushRow(p)
           merged == Line!MergeRow(p)
           States == {"tile", "low", "high", "sleep", "push"}
<1>1. ASSUME NEW q, Flows(q), NEW state \in States
      PROVE  FlowsFrom(q, Line!Enter(q, state))
  <2>1. [q.fetcher EXCEPT !.state = state] \in Fetcher
    BY <1>1 DEF Flows, Pipe, Fetcher
  <2>2. Line!Enter(q, state) = [q EXCEPT !.fetcher = [q.fetcher EXCEPT !.state = state]]
    BY <1>1 DEF Line!Enter, Flows, Pipe
  <2>3. QED
    BY <1>1, <2>1, <2>2, NewFetcher
<1>2. ASSUME NEW q, Flows(q)
      PROVE  FlowsFrom(q, Line!NextTile(q))
  <2> DEFINE g == [q.fetcher EXCEPT !.state = "tile", !.rowPushed = FALSE, !.tileX = @ + 1]
  <2>1. g \in Fetcher
    <3>1. q.fetcher \in Fetcher
      BY <1>2 DEF Flows, Pipe
    <3>2. q.fetcher.tileX + 1 \in Nat
      BY <3>1 DEF Fetcher
    <3>3. [q.fetcher EXCEPT !.state = "tile", !.rowPushed = FALSE] \in Fetcher
      BY <3>1 DEF Fetcher
    <3>4. g = [[q.fetcher EXCEPT !.state = "tile", !.rowPushed = FALSE]
                 EXCEPT !.tileX = q.fetcher.tileX + 1]
      BY <3>1 DEF Fetcher
    <3>5. QED
      BY <3>2, <3>3, <3>4 DEF Fetcher
  <2>2. Line!NextTile(q) = [q EXCEPT !.fetcher = g]
    BY <1>2 DEF Line!NextTile, Flows, Pipe
  <2> HIDE DEF g
  <2>3. QED
    BY <1>2, <2>1, <2>2, NewFetcher
<1>3. ASSUME NEW q, Flows(q)
      PROVE  FlowsFrom(q, Line!Restore(q))
  <2>1. Line!Idle \in Fetcher /\ q.saved \in Fetcher
    BY <1>3, IdleType DEF Flows, Pipe
  <2>2. Line!Restore(q) = [q EXCEPT !.fetcher = q.saved, !.saved = Line!Idle]
    BY DEF Line!Restore
  <2> HIDE DEF Line!Idle
  <2>3. QED
    BY <1>3, <2>1, <2>2 DEF Flows, FlowsFrom, Pipe
<1>4. FlowsFrom(p, pushed) /\ FlowsFrom(p, merged)
  BY PushRowFlows, MergeRowFlows
<1>5. FlowsFrom(p, Line!Restore(merged))
  BY <1>3, <1>4 DEF FlowsFrom
<1>6. FlowsFrom(p, Line!NextTile(pushed)) /\ FlowsFrom(p, Line!Enter(pushed, "push"))
  BY <1>1, <1>2, <1>4 DEF FlowsFrom
<1>7. FlowsFrom(p, Line!PushRow(Line!Enter(p, "sleep")))
  <2>1. FlowsFrom(p, Line!Enter(p, "sleep"))
    BY <1>1
  <2>2. QED
    BY <2>1, PushRowFlows DEF FlowsFrom
<1>8. FlowsFrom(p, Line!Enter(p, "low")) /\ FlowsFrom(p, Line!Enter(p, "high"))
      /\ FlowsFrom(p, p)
  BY <1>1 DEF FlowsFrom
<1>9. p.fetcher.state \in States
  BY DEF Flows, Pipe, Fetcher
<1> HIDE DEF pushed, merged, FlowsFrom
<1>10. Line!Advance(p) \in
         {p, pushed, Line!Restore(merged), Line!NextTile(pushed), Line!Enter(pushed, "push"),
          Line!PushRow(Line!Enter(p, "sleep")), Line!Enter(p, "low"), Line!Enter(p, "high")}
  BY <1>9 DEF Line!Advance, pushed, merged
<1>11. QED
  BY <1>4, <1>5, <1>6, <1>7, <1>8, <1>10

LEMMA RunFetcherFlows ==
  ASSUME LineInv, NEW p, Flows(p)
  PROVE  FlowsFrom(p, Line!RunFetcher(p))
<1> DEFINE w == Line!CheckForWindow(p)
           o == Line!FindObject(w)
           q == Line!FetchObject(o)
           next == Line!Advance(q)
           n == next.fetcher.age
           a1 == IF next.fetcher.state # q.fetcher.state THEN 1
                 ELSE IF n < 3 THEN n + 1 ELSE n
<1>1. FlowsFrom(p, w) /\ Flows(w)
  BY CheckForWindowFlows DEF FlowsFrom
<1>2. FlowsFrom(w, o) /\ Flows(o)
  BY <1>1, FindObjectFlows DEF FlowsFrom
<1>3. FlowsFrom(o, q) /\ Flows(q)
  BY <1>2, FetchObjectFlows DEF FlowsFrom
<1>4. FlowsFrom(q, next) /\ Flows(next)
  BY <1>3, AdvanceFlows DEF FlowsFrom
<1>5. Line!RunFetcher(p) = [next EXCEPT !.fetcher.age = a1]
  BY DEF Line!RunFetcher, Line!CheckForObject
<1> HIDE DEF w, o, q, next
<1>6. a1 \in Nat
  BY <1>4 DEF Flows, Pipe, Fetcher
<1> HIDE DEF a1
<1>7. [next.fetcher EXCEPT !.age = a1] \in Fetcher
  BY <1>4, <1>6 DEF Flows, Pipe, Fetcher
<1>8. Line!RunFetcher(p) = [next EXCEPT !.fetcher = [next.fetcher EXCEPT !.age = a1]]
  BY <1>4, <1>5 DEF Flows, Pipe
<1>9. FlowsFrom(next, Line!RunFetcher(p))
  BY <1>4, <1>7, <1>8, NewFetcher
<1>10. QED
  BY <1>1, <1>2, <1>3, <1>4, <1>9 DEF FlowsFrom

LEMMA NextPlace ==
  ASSUME NEW x0 \in 0 .. 160, x0 < 160
  PROVE  x0 + 1 \in 0 .. 160
OBVIOUS

\* A pixel leaves the FIFO of the background, which has one.
LEMMA PopFlows ==
  ASSUME LineInv, NEW p, Flows(p), p.x < 160, p.bg # <<>>
  PROVE  /\ Flows(Line!Pop(p))
         /\ Line!Pop(p).x = IF Line!Draws(p) THEN p.x + 1 ELSE p.x
<1> DEFINE b == Tail(p.bg)
           o == IF p.obj = <<>> THEN p.obj ELSE Tail(p.obj)
           m == [p EXCEPT !.bg = b]
           n == [p EXCEPT !.bg = b, !.obj = o]
<1>1. b \in Fifo(BgPixel) /\ o \in Fifo(ObjPixel)
  BY ShorterFifo DEF Flows, Pipe
<1>2. /\ Line!PopBackground(p) = m /\ Line!PopObject(Line!PopBackground(p)) = n
  BY DEF Line!PopBackground, Line!PopObject, Flows, Pipe
<1> HIDE DEF b, o
<1>3. Flows(m) /\ Flows(n)
  BY <1>1 DEF Flows, Pipe
<1>4. /\ m.x = p.x /\ m.initial = p.initial /\ m.scx = p.scx /\ m.clip = p.clip
      /\ n.x = p.x /\ n.initial = p.initial /\ n.scx = p.scx /\ n.clip = p.clip
  BY DEF Flows, Pipe
<1> HIDE DEF m, n
<1>5. /\ p.x \in 0 .. 160 /\ p.initial \in 0 .. 8 /\ p.scx \in 0 .. 7 /\ p.clip \in 0 .. 7
      /\ line.scx \in 0 .. 7 /\ p.scx <= line.scx
  BY DEF Flows, Pipe, LineInv
<1>6. CASE p.initial > 0
  <2>1. Line!Pop(p) = [n EXCEPT !.initial = p.initial - 1] /\ ~Line!Draws(p)
    BY <1>2, <1>4, <1>5, <1>6 DEF Line!Pop, Line!Draws
  <2>2. p.initial - 1 \in 0 .. 8
    BY <1>5, <1>6
  <2>3. QED
    BY <1>3, <1>4, <2>1, <2>2 DEF Flows, Pipe
<1>7. CASE ~(p.initial > 0) /\ p.scx < line.scx
  <2>1. Line!Pop(p) = [m EXCEPT !.scx = p.scx + 1] /\ ~Line!Draws(p)
    BY <1>2, <1>4, <1>5, <1>7 DEF Line!Pop, Line!Draws
  <2>2. p.scx + 1 \in 0 .. 7 /\ p.scx + 1 <= line.scx
    BY <1>5, <1>7
  <2>3. QED
    BY <1>3, <1>4, <2>1, <2>2 DEF Flows, Pipe
<1>8. CASE ~(p.initial > 0) /\ ~(p.scx < line.scx) /\ p.clip > 0
  <2>1. Line!Pop(p) = [m EXCEPT !.clip = p.clip - 1] /\ ~Line!Draws(p)
    BY <1>2, <1>4, <1>5, <1>8 DEF Line!Pop, Line!Draws
  <2>2. p.clip - 1 \in 0 .. 7
    BY <1>5, <1>8
  <2>3. QED
    BY <1>3, <1>4, <2>1, <2>2 DEF Flows, Pipe
<1>9. CASE ~(p.initial > 0) /\ ~(p.scx < line.scx) /\ ~(p.clip > 0)
  <2>1. /\ Line!Pop(p) = [n EXCEPT !.x = p.x + 1, !.blankNext = FALSE]
        /\ Line!Draws(p)
    BY <1>2, <1>4, <1>5, <1>9 DEF Line!Pop, Line!Draws
  <2>2. p.x + 1 \in 0 .. 160
    <3>1. p.x \in 0 .. 160 /\ p.x < 160
      BY <1>5
    <3>2. QED
      BY <3>1, NextPlace
  <2> DEFINE on == [n EXCEPT !.x = p.x + 1, !.blankNext = FALSE]
  <2>3. n \in Pipe /\ n.scx <= line.scx /\ n.fetched \subseteq DOMAIN objects
    BY <1>3 DEF Flows
  <2>4. on \in Pipe /\ on.x = p.x + 1 /\ on.scx = n.scx /\ on.fetched = n.fetched
    BY <2>2, <2>3 DEF Pipe
  <2> HIDE DEF on
  <2>5. QED
    BY <2>1, <2>3, <2>4 DEF Flows, on
<1>10. QED
  BY <1>6, <1>7, <1>8, <1>9

\* The OAM search finds as many objects as there is room for.
LEMMA SearchObjects ==
  ASSUME NEW old \in Seq(Object), Len(old) <= 10, NEW found \in Seq(Object)
  PROVE  LET room == 10 - Len(old)
             all == old \o (IF Len(found) <= room THEN found ELSE SubSeq(found, 1, room))
         IN  /\ all \in Seq(Object) /\ Len(all) <= 10
             /\ DOMAIN old \subseteq DOMAIN all
<1> DEFINE room == 10 - Len(old)
           some == IF Len(found) <= room THEN found ELSE SubSeq(found, 1, room)
           all == old \o some
<1>1. Len(old) \in Nat /\ Len(found) \in Nat /\ room \in 0 .. 10
  <2>1. Len(old) \in Nat /\ Len(found) \in Nat
    BY LenProperties
  <2>2. \A n \in Nat : n <= 10 => 10 - n \in 0 .. 10
    OBVIOUS
  <2>3. QED
    BY <2>1, <2>2
<1>2. some \in Seq(Object) /\ Len(some) \in Nat /\ Len(some) <= room
  <2>1. CASE Len(found) <= room
    BY <1>1, <2>1
  <2>2. CASE ~(Len(found) <= room)
    <3>1. 1 \in 1 .. Len(found) + 1 /\ room \in 0 .. Len(found)
      BY <1>1, <2>2
    <3> HIDE DEF room
    <3>2. /\ SubSeq(found, 1, room) \in Seq(Object)
          /\ Len(SubSeq(found, 1, room)) = IF 1 <= room THEN room - 1 + 1 ELSE 0
      BY <3>1, SubSeqProperties
    <3>3. Len(SubSeq(found, 1, room)) = room
      BY <1>1, <3>2
    <3>4. QED
      BY <1>1, <2>2, <3>2, <3>3
  <2>3. QED
    BY <2>1, <2>2
<1> HIDE DEF some
<1>3. all \in Seq(Object) /\ Len(all) = Len(old) + Len(some)
  BY <1>2, ConcatProperties
<1>4. DOMAIN old = 1 .. Len(old) /\ DOMAIN all = 1 .. Len(all)
  BY <1>3, LenProperties
<1>5. Len(all) <= 10 /\ DOMAIN old \subseteq DOMAIN all
  BY <1>1, <1>2, <1>3, <1>4
<1>6. QED
  BY <1>3, <1>5 DEF some

LEMMA LineSearch ==
  ASSUME LineInv, NEW l, Line!IsLine(l), Line!OamSearch(l)
  PROVE  LineInv'
<1> DEFINE old == IF startup THEN objects ELSE <<>>
           kept == IF startup THEN pipe.fetched ELSE {}
<1>1. /\ l.scx \in 0 .. 7 /\ l.wx \in 0 .. 255 /\ l.objects \in Seq(Object)
  BY DEF Line!IsLine, Object
<1>2. old \in Seq(Object) /\ Len(old) <= 10 /\ kept \subseteq DOMAIN old
  <2>1. <<>> \in Seq(Object) /\ Len(<<>>) = 0
    BY EmptySeq
  <2>2. QED
    BY <2>1 DEF LineInv, Flows
<1>3. /\ objects' = old \o (IF Len(l.objects) <= 10 - Len(old) THEN l.objects
                            ELSE SubSeq(l.objects, 1, 10 - Len(old)))
      /\ pipe' = [Line!EmptyPipe EXCEPT !.fetched = kept]
      /\ line'.scx = l.scx /\ wx' = l.wx /\ phase' = "found" /\ startup' = startup
  BY DEF Line!OamSearch
<1> HIDE DEF old, kept
<1>4. objects' \in Seq(Object) /\ Len(objects') <= 10 /\ DOMAIN old \subseteq DOMAIN objects'
  BY <1>1, <1>2, <1>3, SearchObjects
<1>5. kept \subseteq Nat
  <2>1. DOMAIN old = 1 .. Len(old) /\ Len(old) \in Nat
    BY <1>2, LenProperties
  <2>2. QED
    BY <1>2, <2>1
<1>6. pipe' \in Pipe /\ pipe'.x = 0 /\ pipe'.scx = 0 /\ pipe'.fetched = kept
  BY <1>3, <1>5, EmptyType
<1>7. QED
  BY <1>1, <1>2, <1>3, <1>4, <1>6 DEF LineInv, Flows

LEMMA LineTransfer ==
  ASSUME LineInv, Line!HandlePixelTransfer
  PROVE  LineInv'
<1> DEFINE p == Line!RunFetcher(pipe)
           stalls == \/ Line!IsFetchingObject(pipe.fetcher) \/ Line!IsFetchingObject(p.fetcher)
                     \/ p.bg = <<>>
           draws == ~stalls /\ Line!Draws(p)
<1>1. /\ pipe' = IF stalls THEN p ELSE Line!Pop(p)
      /\ phase' = IF draws /\ p.x + 1 >= 160 THEN "idle" ELSE phase
      /\ phase = "transfer" /\ UNCHANGED <<startup, line, wx, objects>>
  BY DEF Line!HandlePixelTransfer
<1>2. Flows(p) /\ p.x = pipe.x /\ p.x < 160 /\ p.x \in 0 .. 160
  <2>1. Flows(pipe) /\ pipe.x < 160
    BY <1>1 DEF LineInv
  <2>2. FlowsFrom(pipe, p)
    BY <2>1, RunFetcherFlows
  <2> HIDE DEF p
  <2>3. QED
    BY <2>1, <2>2 DEF FlowsFrom, Flows, Pipe
<1> HIDE DEF p
<1>3. ~stalls => p.bg # <<>>
  OBVIOUS
<1> HIDE DEF stalls
<1>4. Flows(pipe') /\ phase' \in {"idle", "transfer"} /\ (phase' # "idle" => pipe'.x < 160)
  <2>1. CASE stalls
    BY <1>1, <1>2, <2>1
  <2>2. CASE ~stalls
    <3>1. /\ Flows(Line!Pop(p))
          /\ Line!Pop(p).x = IF Line!Draws(p) THEN p.x + 1 ELSE p.x
      BY <1>2, <1>3, <2>2, PopFlows
    <3>2. QED
      BY <1>1, <1>2, <2>2, <3>1
  <2>3. QED
    BY <2>1, <2>2
<1>5. QED
  BY <1>1, <1>4 DEF LineInv, Flows

LEMMA LineStep ==
  ASSUME Line!RendererAssumption, LineInv, [Line!Next]_Line!vars
  PROVE  LineInv'
<1>1. ASSUME NEW l \in IF startup THEN StartupLines ELSE Lines, Line!OamSearch(l)
      PROVE  LineInv'
  <2>1. Line!IsLine(l)
    BY DEF Line!RendererAssumption
  <2>2. QED
    BY <1>1, <2>1, LineSearch
<1>2. CASE Line!StartLine
  <2>1. Line!Blanks \in Fifo(BgPixel)
    <3>1. Line!Blanks \in [1 .. 8 -> BgPixel]
      BY DEF Line!Blanks, BgPixel, Strips
    <3>2. QED
      BY <3>1, EightPixels
  <2>2. /\ pipe' = [pipe EXCEPT !.initial = 8, !.bg = Line!Blanks]
        /\ phase = "found" /\ phase' = "transfer" /\ startup' = FALSE
        /\ UNCHANGED <<line, wx, objects>>
    BY <1>2 DEF Line!StartLine
  <2> HIDE DEF Line!Blanks
  <2>3. Flows(pipe') /\ pipe'.x = pipe.x
    <3> DEFINE n == [pipe EXCEPT !.initial = 8, !.bg = Line!Blanks]
    <3>1. pipe \in Pipe /\ pipe.scx <= line.scx /\ pipe.fetched \subseteq DOMAIN objects
      BY DEF LineInv, Flows
    <3>2. n.x = pipe.x /\ n.scx = pipe.scx /\ n.fetched = pipe.fetched
      BY <3>1 DEF Pipe
    <3>3. n \in Pipe
      <4>1. 8 \in 0 .. 8
        OBVIOUS
      <4>2. QED
        BY <2>1, <3>1, <4>1, Zenon DEF Pipe
    <3> HIDE DEF n
    <3>4. QED
      BY <2>2, <3>1, <3>2, <3>3 DEF Flows, n
  <2>4. QED
    BY <2>2, <2>3 DEF LineInv, Flows
<1>3. CASE Line!HandlePixelTransfer
  BY <1>3, LineTransfer
<1>4. CASE Line!LcdOff
  <2>1. pipe.fetched \subseteq Nat
    BY DEF LineInv, Flows, Pipe
  <2>2. /\ pipe' = [Line!EmptyPipe EXCEPT !.fetched = pipe.fetched]
        /\ phase' = "idle" /\ startup' = TRUE /\ UNCHANGED <<line, wx, objects>>
    BY <1>4 DEF Line!LcdOff
  <2>3. pipe' \in Pipe /\ pipe'.scx = 0 /\ pipe'.fetched = pipe.fetched
    BY <2>1, <2>2, EmptyType
  <2>4. QED
    BY <2>2, <2>3 DEF LineInv, Flows
<1>5. ASSUME NEW value \in WindowValues, Line!WriteWindow(value)
      PROVE  LineInv'
  BY <1>5 DEF Line!RendererAssumption, Line!WriteWindow, LineInv, Flows
<1>6. CASE UNCHANGED Line!vars
  BY <1>6 DEF Line!vars, LineInv, Flows
<1>7. QED
  BY <1>1, <1>2, <1>3, <1>4, <1>5, <1>6 DEF Line!Next

LEMMA LineInit ==
  ASSUME Line!Init
  PROVE  LineInv
<1>1. objects = <<>> /\ <<>> \in Seq(Object) /\ Len(<<>>) = 0
  BY EmptySeq DEF Line!Init
<1>2. Line!EmptyPipe \in Pipe /\ Line!EmptyPipe.scx = 0 /\ Line!EmptyPipe.fetched = {}
  BY EmptyType, Zenon
<1>3. pipe = Line!EmptyPipe /\ line.scx = 0 /\ wx = 255 /\ phase = "idle" /\ startup = TRUE
  BY DEF Line!Init
<1>4. QED
  BY <1>1, <1>2, <1>3 DEF LineInv, Flows

LEMMA LineType ==
  ASSUME LineInv
  PROVE  Line!TypeOK
<1>1. /\ pipe.x \in 0 .. 160 /\ pipe.initial \in 0 .. 8 /\ pipe.scx \in 0 .. line.scx
      /\ pipe.clip \in 0 .. 7 /\ pipe.fetched \subseteq DOMAIN objects
  BY DEF LineInv, Flows, Pipe
<1>2. /\ Len(pipe.bg) \in Nat /\ Len(pipe.bg) <= 8
      /\ Len(pipe.obj) \in Nat /\ Len(pipe.obj) <= 8
  BY LenProperties DEF LineInv, Flows, Pipe, Fifo
<1>3. Len(pipe.bg) <= 16 /\ Len(pipe.obj) <= 16
  BY <1>2
<1>4. QED
  BY <1>1, <1>3 DEF LineInv, Line!TypeOK

PictureInv == kind = "line" => LineInv

LEMMA PictureInductive ==
  /\ Init => PictureInv
  /\ PictureInv /\ [Next]_vars => PictureInv'
<1>1. Init => PictureInv
  BY LineInit DEF Init, PictureInv
<1>2. ASSUME PictureInv, [Next]_vars, kind = "line"
      PROVE  LineInv'
  <2>1. [Line!Next]_Line!vars
    BY <1>2 DEF Next, vars, lineVars, Line!vars
  <2>2. QED
    BY <1>2, <2>1, LineStep, HardwareAssumption DEF PictureInv
<1>3. QED
  BY <1>1, <1>2, KindStays DEF PictureInv

-----------------------------------------------------------------------------
(* The renderer implements ScanLine.  What it draws next of the background or *)
(* of the window is a matter of counting: the fetcher has fetched so many     *)
(* tiles, so many of their pixels are in the FIFO still.                      *)

\* The fetch of the background, or of the window, that goes on or is put off.
Base(p) == IF p.fetcher.mode = "object" THEN p.saved ELSE p.fetcher

Tiles(p) == Base(p).tileX + (IF Base(p).rowPushed THEN 1 ELSE 0)
NextColumn(p) == 8 * Tiles(p) - Len(p.bg)

\* Where on the screen the next pixel is.
Place(p) == p.x - p.initial

\* The window with its left edge in WX.
LeftOf(w) == IF w < 7 THEN 7 - w ELSE 0
StartOf(w) == IF w < 7 THEN 0 ELSE w - 7

\* Before the line begins there is nothing in the FIFO but blanks.
Blank(p) ==
  p.initial > 0 =>
    /\ p.x = 0 /\ p.scx = 0 /\ Base(p).mode = "background"
    /\ Tiles(p) = 0 /\ Len(p.bg) = p.initial

RowInOrder(p) ==
  p.initial = 0 =>
    \A k \in 1 .. Len(p.bg) :
      p.bg[k] = [strip |-> Base(p).mode, column |-> NextColumn(p) + k - 1]

OnBackground(p, last) ==
  Base(p).mode = "background" =>
    /\ p.begun = Line!NotBegun /\ p.clip = 0
    /\ p.x > 0 => last.strip = "background"
    /\ p.initial = 0 => NextColumn(p) = p.scx + p.x

OnWindow(p, last) ==
  Base(p).mode = "window" =>
    /\ p.initial = 0 /\ p.scx = line.scx /\ p.begun \in 0 .. 255
    /\ IF p.x > 0 /\ last.strip = "window"
       THEN p.clip = 0 /\ NextColumn(p) = last.column + 1
       ELSE p.x = StartOf(p.begun) /\ NextColumn(p) = LeftOf(p.begun) - p.clip

\* An object is fetched from its low byte on, between two pixels.
FetchesInOrder(p) ==
  /\ Base(p).mode # "object"
  /\ p.fetcher.mode = "object" =>
       /\ ~p.fetcher.objectPending /\ ~p.saved.objectPending
       /\ p.fetcher.state \in {"low", "high"}

\* What is drawn after the pixel last.
StripsInOrder(p, last) ==
  /\ FetchesInOrder(p)
  /\ Blank(p) /\ RowInOrder(p) /\ OnBackground(p, last) /\ OnWindow(p, last)
  /\ p.x > 0 => p.scx = line.scx
  /\ p.blankNext => p.x = 0

\* Nothing of it but where the fetcher is in its fetch.
SameStrips(p, n) ==
  /\ n.x = p.x /\ n.initial = p.initial /\ n.scx = p.scx /\ n.clip = p.clip
  /\ n.begun = p.begun /\ n.bg = p.bg /\ n.blankNext = p.blankNext
  /\ Base(n).mode = Base(p).mode /\ Tiles(n) = Tiles(p)

LEMMA StripsStay ==
  ASSUME NEW p, NEW n, NEW last, StripsInOrder(p, last), SameStrips(p, n), FetchesInOrder(n)
  PROVE  StripsInOrder(n, last)
<1>1. NextColumn(n) = NextColumn(p)
  BY DEF SameStrips, NextColumn
<1>2. QED
  BY <1>1 DEF SameStrips, StripsInOrder, Blank, RowInOrder, OnBackground, OnWindow

\* The fields of a pipe that a piece of a T-cycle leaves alone.
SameBut(p, n, fields) ==
  /\ "x" \notin fields => n.x = p.x
  /\ "initial" \notin fields => n.initial = p.initial
  /\ "scx" \notin fields => n.scx = p.scx
  /\ "clip" \notin fields => n.clip = p.clip
  /\ "blankNext" \notin fields => n.blankNext = p.blankNext
  /\ "fetcher" \notin fields => n.fetcher = p.fetcher
  /\ "saved" \notin fields => n.saved = p.saved
  /\ "bg" \notin fields => n.bg = p.bg
  /\ "obj" \notin fields => n.obj = p.obj
  /\ "fetched" \notin fields => n.fetched = p.fetched
  /\ "begun" \notin fields => n.begun = p.begun

LEMMA Numbers ==
  ASSUME LineInv, NEW p, Flows(p)
  PROVE  /\ p.x \in Nat /\ p.initial \in Nat /\ p.scx \in Nat /\ p.clip \in Nat
         /\ line.scx \in Nat /\ p.scx <= line.scx /\ p.begun \in Int
         /\ p.fetcher \in Fetcher /\ p.saved \in Fetcher
<1>1. p.x \in Nat
  BY DEF Flows, Pipe
<1>2. p.initial \in Nat /\ p.scx \in Nat /\ p.clip \in Nat /\ p.begun \in Int
  BY DEF Flows, Pipe
<1>3. line.scx \in Nat
  BY DEF LineInv
<1>4. p.fetcher \in Fetcher /\ p.saved \in Fetcher /\ p.scx <= line.scx
  BY DEF Flows, Pipe
<1>5. QED
  BY <1>1, <1>2, <1>3, <1>4

LEMMA ResetShape ==
  ASSUME NEW p, Flows(p), NEW mode \in {"window", "object"}
  PROVE  LET n == Line!Reset(p, mode)
         IN  /\ SameBut(p, n, IF mode = "object" THEN {"fetcher"}
                              ELSE {"fetcher", "bg", "scx", "clip", "begun"})
             /\ n.fetcher.mode = mode /\ ~n.fetcher.rowPushed /\ ~n.fetcher.objectPending
             /\ n.fetcher.tileX = 0 /\ n.fetcher.age = 0
             /\ n.fetcher.object = p.fetcher.object
             /\ n.fetcher.state = IF mode = "object" THEN "low" ELSE "tile"
             /\ mode = "window" =>
                  n.bg = <<>> /\ n.scx = line.scx /\ n.clip = LeftOf(wx) /\ n.begun = wx
<1> DEFINE g == [Line!Idle EXCEPT !.mode = mode, !.object = p.fetcher.object,
                                  !.state = IF mode = "object" THEN "low" ELSE "tile"]
           b == IF mode = "object" THEN p.bg ELSE <<>>
           s == IF mode = "window" THEN line.scx ELSE p.scx
           c == IF mode # "window" THEN p.clip ELSE IF wx < 7 THEN 7 - wx ELSE 0
           e == IF mode = "window" THEN wx ELSE p.begun
           n == Line!Reset(p, mode)
<1>1. /\ g.mode = mode /\ ~g.rowPushed /\ ~g.objectPending /\ g.tileX = 0 /\ g.age = 0
      /\ g.object = p.fetcher.object /\ g.state = IF mode = "object" THEN "low" ELSE "tile"
  BY DEF Line!Idle
<1>2. n = [p EXCEPT !.fetcher = g, !.bg = b, !.scx = s, !.clip = c, !.begun = e]
  BY DEF Line!Reset
<1> HIDE DEF g, n
<1>3. /\ n.fetcher = g /\ n.bg = b /\ n.scx = s /\ n.clip = c /\ n.begun = e
  BY <1>2 DEF Flows, Pipe
<1>4. /\ n.x = p.x /\ n.initial = p.initial /\ n.blankNext = p.blankNext
      /\ n.saved = p.saved /\ n.obj = p.obj /\ n.fetched = p.fetched
  BY <1>2 DEF Flows, Pipe
<1>5. SameBut(p, n, IF mode = "object" THEN {"fetcher"}
                    ELSE {"fetcher", "bg", "scx", "clip", "begun"})
  BY <1>3, <1>4 DEF SameBut
<1>6. QED
  BY <1>1, <1>3, <1>5 DEF LeftOf, n

LEMMA FindObjectShape ==
  ASSUME LineInv, NEW p, Flows(p)
  PROVE  LET n == Line!FindObject(p)
             i == n.fetcher.object
         IN  \/ /\ n = p
                /\ Line!IsFetchingObject(p.fetcher) \/ Line!Due(p) = {}
             \/ /\ SameBut(p, n, {"fetcher", "blankNext", "fetched"})
                /\ ~Line!IsFetchingObject(p.fetcher)
                /\ n.fetcher = [p.fetcher EXCEPT !.object = i, !.objectPending = TRUE]
                /\ i \in Line!Due(p) /\ \A j \in Line!Due(p) : i <= j
                /\ n.fetched = p.fetched \union {i}
                /\ n.blankNext => p.blankNext \/ p.initial > 0
<1> DEFINE T == Line!Due(p)
           i == CHOOSE i \in T : \A j \in T : i <= j
           n == Line!FindObject(p)
           g == [p.fetcher EXCEPT !.object = i, !.objectPending = TRUE]
           e == p.blankNext \/ Line!BlanksNext(p)
           d == p.fetched \union {i}
<1>1. CASE p.fetcher.mode = "object" \/ p.fetcher.objectPending \/ T = {}
  BY <1>1 DEF Line!FindObject, Line!IsFetchingObject
<1>2. CASE ~(p.fetcher.mode = "object" \/ p.fetcher.objectPending \/ T = {})
  <2>1. i \in T /\ \A j \in T : i <= j
    <3>1. Len(objects) \in Nat /\ Len(objects) <= 10 /\ DOMAIN objects = 1 .. Len(objects)
      BY LenProperties DEF LineInv
    <3>2. T \subseteq 1 .. 10
      BY <3>1 DEF Line!Due
    <3>3. \E k \in T : \A j \in T : k <= j
      BY <1>2, <3>2, LeastOf
    <3>4. QED
      BY <3>3
  <2>2. n = [p EXCEPT !.fetched = d, !.fetcher = g, !.blankNext = e]
    <3>1. n = [p EXCEPT !.fetched = @ \union {i}, !.fetcher.object = i,
                        !.fetcher.objectPending = TRUE,
                        !.blankNext = @ \/ Line!BlanksNext(p)]
      BY <1>2, Zenon DEF Line!FindObject
    <3> HIDE DEF i
    <3>2. QED
      BY <3>1 DEF Flows, Pipe
  <2> HIDE DEF i, T, n, d, e
  <2>3. g.object = i
    BY DEF Flows, Pipe, Fetcher
  <2> HIDE DEF g
  <2>4. n.fetched = d /\ n.fetcher = g /\ n.blankNext = e
    BY <2>2 DEF Flows, Pipe
  <2>5. SameBut(p, n, {"fetcher", "blankNext", "fetched"})
    BY <2>2 DEF SameBut, Flows, Pipe
  <2>6. e => p.blankNext \/ p.initial > 0
    BY DEF e, Line!BlanksNext
  <2>7. QED
    BY <1>2, <2>1, <2>3, <2>4, <2>5, <2>6 DEF n, d, g, T, Line!IsFetchingObject
<1>3. QED
  BY <1>1, <1>2

LEMMA FetchObjectShape ==
  ASSUME LineInv, NEW p, Flows(p)
  PROVE  LET n == Line!FetchObject(p)
         IN  \/ n = p
             \/ /\ SameBut(p, n, {"fetcher", "saved"}) /\ p.fetcher.objectPending
                /\ n.fetcher.mode = "object" /\ n.fetcher.object = p.fetcher.object
                /\ n.fetcher.state = "low" /\ n.fetcher.age = 0 /\ ~n.fetcher.objectPending
                /\ n.saved = [p.fetcher EXCEPT !.objectPending = FALSE, !.object = 0,
                                               !.age = 3]
                /\ p.bg # <<>>
<1> DEFINE g == [p.fetcher EXCEPT !.objectPending = FALSE, !.object = 0, !.age = 3]
           m == [p EXCEPT !.saved = g]
           n == Line!FetchObject(p)
<1>1. CASE ~(p.fetcher.objectPending /\ Line!ReachedStep5(p.fetcher) /\ p.bg # <<>>)
  BY <1>1 DEF Line!FetchObject
<1>2. CASE p.fetcher.objectPending /\ Line!ReachedStep5(p.fetcher) /\ p.bg # <<>>
  <2>1. g \in Fetcher
    BY DEF Flows, Pipe, Fetcher
  <2>2. n = Line!Reset(m, "object")
    BY <1>2 DEF Line!FetchObject
  <2> HIDE DEF g, n
  <2>3. Flows(m) /\ m.saved = g /\ SameBut(p, m, {"saved"})
    BY <2>1 DEF Flows, Pipe, SameBut
  <2> HIDE DEF m
  <2>4. /\ SameBut(m, n, {"fetcher"})
        /\ n.fetcher.mode = "object" /\ ~n.fetcher.objectPending
        /\ n.fetcher.age = 0 /\ n.fetcher.object = m.fetcher.object
        /\ n.fetcher.state = "low"
    BY <2>2, <2>3, ResetShape
  <2>5. SameBut(p, n, {"fetcher", "saved"})
    BY <2>3, <2>4 DEF SameBut
  <2>6. n.saved = g /\ m.fetcher = p.fetcher
    BY <2>3, <2>4 DEF SameBut
  <2>7. QED
    BY <1>2, <2>4, <2>5, <2>6 DEF g, n
<1>3. QED
  BY <1>1, <1>2

\* The row of a tile.
Row(p) == [i \in 1 .. 8 |-> [strip |-> p.fetcher.mode,
                             column |-> 8 * p.fetcher.tileX + i - 1]]

LEMMA PushRowShape ==
  ASSUME NEW p, Flows(p)
  PROVE  LET n == Line!PushRow(p)
         IN  \/ n = p /\ (p.fetcher.rowPushed \/ p.bg # <<>>)
             \/ /\ SameBut(p, n, {"fetcher", "bg"}) /\ p.bg = <<>> /\ ~p.fetcher.rowPushed
                /\ n.fetcher = [p.fetcher EXCEPT !.rowPushed = TRUE]
                /\ n.bg = Row(p) /\ Len(n.bg) = 8
<1> DEFINE g == [p.fetcher EXCEPT !.rowPushed = TRUE]
           n == Line!PushRow(p)
<1>1. CASE p.fetcher.rowPushed \/ p.bg # <<>>
  BY <1>1 DEF Line!PushRow
<1>2. CASE ~(p.fetcher.rowPushed \/ p.bg # <<>>)
  <2>1. n = [p EXCEPT !.bg = Row(p), !.fetcher = g]
    BY <1>2 DEF Line!PushRow, Flows, Pipe, Row
  <2>2. Len(Row(p)) = 8
    <3>1. p.fetcher.mode \in Strips /\ p.fetcher.tileX \in Nat
      BY DEF Flows, Pipe, Fetcher, Strips
    <3>2. Row(p) \in [1 .. 8 -> BgPixel]
      BY <3>1 DEF Row, BgPixel
    <3>3. QED
      BY <3>2, EightPixels
  <2> HIDE DEF g, n
  <2>3. n.bg = Row(p) /\ n.fetcher = g /\ SameBut(p, n, {"fetcher", "bg"})
    BY <2>1 DEF Flows, Pipe, SameBut
  <2>4. QED
    BY <1>2, <2>2, <2>3 DEF g, n
<1>3. QED
  BY <1>1, <1>2

LEMMA FetcherShape ==
  ASSUME NEW p, Flows(p), NEW g, NEW n, n = [p EXCEPT !.fetcher = g]
  PROVE  n.fetcher = g /\ SameBut(p, n, {"fetcher"})
BY DEF Flows, Pipe, SameBut

\* Each piece of a T-cycle leaves the strips in order.
LEMMA CheckForWindowStrips ==
  ASSUME LineInv, NEW p, Flows(p), NEW last, StripsInOrder(p, last)
  PROVE  LET n == Line!CheckForWindow(p)
         IN  /\ StripsInOrder(n, last)
             /\ \/ n = p /\ (p.fetcher.mode = "background" => Place(p) # StartOf(wx))
                \/ /\ n = Line!Reset(p, "window") /\ p.fetcher.mode = "background"
                   /\ Place(p) = StartOf(wx)
<1> DEFINE n == Line!CheckForWindow(p)
<1>1. Line!WindowStart = StartOf(wx) /\ wx \in 0 .. 255 /\ line.scx \in 0 .. 7
  BY DEF Line!WindowStart, StartOf, LineInv
<1>2. CASE ~(p.fetcher.mode = "background" /\ Place(p) = StartOf(wx))
  BY <1>1, <1>2 DEF Line!CheckForWindow, Place
<1>3. CASE p.fetcher.mode = "background" /\ Place(p) = StartOf(wx)
  <2>1. n = Line!Reset(p, "window")
    BY <1>1, <1>3 DEF Line!CheckForWindow, Place
  <2>2. /\ SameBut(p, n, {"fetcher", "bg", "scx", "clip", "begun"})
        /\ n.fetcher.mode = "window" /\ ~n.fetcher.rowPushed /\ n.fetcher.tileX = 0
        /\ n.bg = <<>> /\ n.scx = line.scx /\ n.clip = LeftOf(wx) /\ n.begun = wx
    BY <2>1, ResetShape
  <2>3. n.x = p.x /\ n.initial = p.initial /\ n.blankNext = p.blankNext
    BY <2>2 DEF SameBut
  <2>4. p.x \in Nat /\ p.initial \in Nat /\ StartOf(wx) \in Nat /\ LeftOf(wx) \in Nat
    BY <1>1, Numbers DEF StartOf, LeftOf
  <2>5. p.initial = 0 /\ p.x = StartOf(wx)
    <3>1. p.initial > 0 => p.x = 0
      BY DEF StripsInOrder, Blank
    <3>2. p.x - p.initial = StartOf(wx)
      BY <1>3 DEF Place
    <3>3. QED
      BY <2>4, <3>1, <3>2
  <2>6. Base(p).mode = "background" /\ (p.x > 0 => last.strip = "background")
    BY <1>3 DEF StripsInOrder, OnBackground, Base
  <2>7. Base(n).mode = "window" /\ Tiles(n) = 0 /\ NextColumn(n) = 0
    BY <2>2 DEF Base, Tiles, NextColumn
  <2>8. FetchesInOrder(n) /\ Blank(n) /\ RowInOrder(n) /\ OnBackground(n, last)
    BY <2>2, <2>3, <2>5, <2>7 DEF FetchesInOrder, Blank, RowInOrder, OnBackground
  <2>9. OnWindow(n, last)
    <3>1. ~(n.x > 0 /\ last.strip = "window")
      BY <2>3, <2>6
    <3>2. n.initial = 0 /\ n.x = StartOf(n.begun) /\ n.begun \in 0 .. 255
      BY <1>1, <2>2, <2>3, <2>5
    <3>3. NextColumn(n) = LeftOf(n.begun) - n.clip
      BY <2>2, <2>4, <2>7
    <3>4. QED
      BY <2>2, <3>1, <3>2, <3>3 DEF OnWindow
  <2> HIDE DEF n
  <2>10. QED
    BY <1>1, <1>3, <2>1, <2>2, <2>3, <2>8, <2>9 DEF StripsInOrder, n
<1>4. QED
  BY <1>2, <1>3

LEMMA FindObjectStrips ==
  ASSUME LineInv, NEW p, Flows(p), NEW last, StripsInOrder(p, last)
  PROVE  StripsInOrder(Line!FindObject(p), last)
<1> DEFINE n == Line!FindObject(p)
           i == n.fetcher.object
<1>1. \/ n = p
      \/ /\ SameBut(p, n, {"fetcher", "blankNext", "fetched"})
         /\ ~Line!IsFetchingObject(p.fetcher)
         /\ n.fetcher = [p.fetcher EXCEPT !.object = i, !.objectPending = TRUE]
         /\ n.blankNext => p.blankNext \/ p.initial > 0
  BY FindObjectShape
<1> HIDE DEF n
<1>2. ASSUME n # p
      PROVE  StripsInOrder(n, last)
  <2>1. /\ n.x = p.x /\ n.initial = p.initial /\ n.scx = p.scx /\ n.clip = p.clip
        /\ n.begun = p.begun /\ n.bg = p.bg /\ n.saved = p.saved
    BY <1>1, <1>2 DEF SameBut
  <2>2. /\ p.fetcher.mode # "object" /\ n.fetcher.mode = p.fetcher.mode
        /\ n.fetcher.rowPushed = p.fetcher.rowPushed /\ n.fetcher.tileX = p.fetcher.tileX
    BY <1>1, <1>2 DEF Line!IsFetchingObject, Flows, Pipe, Fetcher
  <2>3. /\ Base(n).mode = Base(p).mode /\ Tiles(n) = Tiles(p)
        /\ NextColumn(n) = NextColumn(p) /\ FetchesInOrder(n)
    BY <2>1, <2>2 DEF Base, Tiles, NextColumn, FetchesInOrder, StripsInOrder
  <2>4. n.blankNext => n.x = 0
    BY <1>1, <1>2, <2>1 DEF StripsInOrder, Blank
  <2>5. QED
    BY <2>1, <2>3, <2>4 DEF StripsInOrder, Blank, RowInOrder, OnBackground, OnWindow
<1>3. QED
  BY <1>2 DEF n

LEMMA FetchObjectStrips ==
  ASSUME LineInv, NEW p, Flows(p), NEW last, StripsInOrder(p, last)
  PROVE  StripsInOrder(Line!FetchObject(p), last)
<1> DEFINE n == Line!FetchObject(p)
<1>1. \/ n = p
      \/ /\ SameBut(p, n, {"fetcher", "saved"}) /\ p.fetcher.objectPending
         /\ n.fetcher.mode = "object" /\ n.fetcher.state = "low" /\ ~n.fetcher.objectPending
         /\ n.saved = [p.fetcher EXCEPT !.objectPending = FALSE, !.object = 0, !.age = 3]
  BY FetchObjectShape
<1> HIDE DEF n
<1>2. ASSUME n # p
      PROVE  StripsInOrder(n, last)
  <2>1. p.fetcher.mode # "object" /\ Base(p) = p.fetcher /\ Base(n) = n.saved
    BY <1>1, <1>2 DEF StripsInOrder, FetchesInOrder, Base
  <2>2. /\ n.saved.mode = p.fetcher.mode /\ n.saved.rowPushed = p.fetcher.rowPushed
        /\ n.saved.tileX = p.fetcher.tileX /\ ~n.saved.objectPending
    BY <1>1, <1>2 DEF Flows, Pipe, Fetcher
  <2>3. SameStrips(p, n)
    BY <1>1, <1>2, <2>1, <2>2 DEF SameStrips, SameBut, Tiles
  <2>4. FetchesInOrder(n)
    BY <1>1, <1>2, <2>1, <2>2 DEF FetchesInOrder
  <2>5. QED
    BY <2>3, <2>4, StripsStay
<1>3. QED
  BY <1>2 DEF n

LEMMA PushRowStrips ==
  ASSUME NEW p, Flows(p), NEW last, StripsInOrder(p, last), p.fetcher.mode # "object"
  PROVE  LET n == Line!PushRow(p)
         IN  /\ StripsInOrder(n, last)
             /\ SameBut(p, n, {"fetcher", "bg"})
             /\ n.fetcher = [p.fetcher EXCEPT !.rowPushed = n.fetcher.rowPushed]
<1> DEFINE n == Line!PushRow(p)
<1>1. CASE n = p
  BY <1>1 DEF SameBut, Flows, Pipe, Fetcher
<1>2. CASE n # p
  <2>1. /\ SameBut(p, n, {"fetcher", "bg"}) /\ p.bg = <<>> /\ ~p.fetcher.rowPushed
        /\ n.fetcher = [p.fetcher EXCEPT !.rowPushed = TRUE]
        /\ n.bg = Row(p) /\ Len(n.bg) = 8
    BY <1>2, PushRowShape
  <2> HIDE DEF n
  <2>2. /\ n.fetcher.mode = p.fetcher.mode /\ n.fetcher.rowPushed
        /\ n.fetcher.tileX = p.fetcher.tileX /\ p.fetcher.tileX \in Nat
    BY <2>1 DEF Flows, Pipe, Fetcher
  <2>3. /\ n.x = p.x /\ n.initial = p.initial /\ n.scx = p.scx /\ n.clip = p.clip
        /\ n.begun = p.begun /\ n.blankNext = p.blankNext /\ Len(p.bg) = 0
    BY <2>1 DEF SameBut
  <2>4. /\ Base(p) = p.fetcher /\ Base(n) = n.fetcher
        /\ Tiles(p) = p.fetcher.tileX /\ Tiles(n) = p.fetcher.tileX + 1
        /\ NextColumn(n) = 8 * p.fetcher.tileX /\ NextColumn(p) = 8 * p.fetcher.tileX
    BY <2>1, <2>2, <2>3 DEF Base, Tiles, NextColumn
  <2>5. Blank(n)
    BY <2>3 DEF StripsInOrder, Blank
  <2>6. RowInOrder(n)
    <3>1. ASSUME NEW k \in 1 .. 8
          PROVE  n.bg[k] = [strip |-> Base(n).mode, column |-> NextColumn(n) + k - 1]
      BY <2>1, <2>2, <2>4 DEF Row
    <3>2. QED
      BY <2>1, <3>1 DEF RowInOrder
  <2>7. FetchesInOrder(n) /\ OnBackground(n, last) /\ OnWindow(n, last)
    BY <2>2, <2>3, <2>4
       DEF StripsInOrder, FetchesInOrder, OnBackground, OnWindow
  <2>8. StripsInOrder(n, last)
    BY <2>3, <2>5, <2>6, <2>7 DEF StripsInOrder
  <2>9. QED
    BY <2>1, <2>2, <2>8 DEF n
<1>3. QED
  BY <1>1, <1>2

\* The fetcher goes on to another state, or becomes older.
LEMMA FetcherStrips ==
  ASSUME NEW p, Flows(p), NEW last, StripsInOrder(p, last), NEW g, NEW n,
         n = [p EXCEPT !.fetcher = g],
         g.mode = p.fetcher.mode, g.objectPending = p.fetcher.objectPending,
         p.fetcher.mode = "object" => g.state \in {"low", "high"},
         \/ g.rowPushed = p.fetcher.rowPushed /\ g.tileX = p.fetcher.tileX
         \/ p.fetcher.rowPushed /\ ~g.rowPushed /\ g.tileX = p.fetcher.tileX + 1
  PROVE  StripsInOrder(n, last)
<1>1. n.fetcher = g /\ SameBut(p, n, {"fetcher"}) /\ p.fetcher.tileX \in Nat
  BY FetcherShape DEF Flows, Pipe, Fetcher
<1>2. Base(n).mode = Base(p).mode /\ Tiles(n) = Tiles(p)
  BY <1>1 DEF Base, Tiles, SameBut
<1>3. SameStrips(p, n)
  BY <1>1, <1>2 DEF SameStrips, SameBut
<1>4. FetchesInOrder(n)
  BY <1>1, <1>2 DEF FetchesInOrder, StripsInOrder, SameBut
<1>5. QED
  BY <1>3, <1>4, StripsStay

LEMMA MergeRowShape ==
  ASSUME NEW p, Flows(p)
  PROVE  LET n == Line!MergeRow(p)
             j == p.fetcher.object
             Old(i) == IF i <= Len(p.obj) THEN p.obj[i] ELSE Line!NoObject
             Replaces(old) == objects[j].opaque
                              /\ (old = Line!NoObject \/ Line!Precedes(j, old.object))
         IN  /\ SameBut(p, n, {"obj"}) /\ Len(n.obj) = 8
             /\ \A i \in 1 .. 8 :
                  n.obj[i] = IF Replaces(Old(i)) THEN [object |-> j, column |-> i - 1]
                             ELSE Old(i)
<1> DEFINE row == [i \in 1 .. 8 |-> IF i <= Len(p.obj) THEN p.obj[i] ELSE Line!NoObject]
           Old(i) == IF i <= Len(p.obj) THEN p.obj[i] ELSE Line!NoObject
           j == p.fetcher.object
           Replaces(old) == objects[j].opaque
                            /\ (old = Line!NoObject \/ Line!Precedes(j, old.object))
           merged == [i \in 1 .. 8 |-> IF Replaces(row[i])
                                       THEN [object |-> j, column |-> i - 1] ELSE row[i]]
           n == Line!MergeRow(p)
<1>1. n = [p EXCEPT !.obj = merged]
  BY Zenon DEF Line!MergeRow
<1>2. Len(merged) = 8
  <2>1. merged \in [1 .. 8 -> {merged[i] : i \in 1 .. 8}]
    <3> HIDE DEF Replaces
    <3>1. QED
      BY Zenon
  <2> HIDE DEF merged
  <2>2. QED
    BY <2>1, EightPixels
<1>3. \A i \in 1 .. 8 : merged[i] = IF Replaces(Old(i)) THEN [object |-> j, column |-> i - 1]
                                    ELSE Old(i)
  BY Zenon
<1> HIDE DEF merged, Replaces, Old, n, j
<1>4. n.obj = merged /\ SameBut(p, n, {"obj"})
  BY <1>1 DEF Flows, Pipe, SameBut
<1>5. QED
  BY <1>2, <1>3, <1>4 DEF n, Replaces, Old, j

LEMMA RestoreShape ==
  ASSUME NEW p, Flows(p)
  PROVE  LET n == Line!Restore(p)
         IN  SameBut(p, n, {"fetcher", "saved"}) /\ n.fetcher = p.saved
<1>1. Line!Restore(p) = [p EXCEPT !.fetcher = p.saved, !.saved = Line!Idle]
  BY DEF Line!Restore
<1> HIDE DEF Line!Idle
<1>2. QED
  BY <1>1 DEF Flows, Pipe, SameBut

\* The states of a fetch of the background or the window, and of an object.
LEMMA AdvanceCases ==
  ASSUME NEW p, Flows(p), NEW last, StripsInOrder(p, last)
  PROVE  LET n == Line!Advance(p)
             f0 == p.fetcher
             pushed == Line!PushRow(p)
         IN  /\ f0.mode # "object" =>
                  \/ n = p
                  \/ n = Line!Enter(p, "low") /\ f0.state = "tile" /\ f0.age >= 2
                  \/ n = Line!Enter(p, "high") /\ f0.state = "low" /\ f0.age >= 2
                  \/ n = Line!PushRow(Line!Enter(p, "sleep")) /\ f0.state = "high" /\ f0.age >= 2
                  \/ n = pushed /\ f0.state = "sleep" /\ f0.age < 2
                  \/ n = Line!Enter(pushed, "push") /\ f0.state = "sleep" /\ f0.age >= 2
                     /\ ~pushed.fetcher.rowPushed
                  \/ n = pushed /\ f0.state = "push" /\ ~pushed.fetcher.rowPushed
                  \/ n = Line!NextTile(pushed) /\ pushed.fetcher.rowPushed
                     /\ f0.state \in {"sleep", "push"} /\ (f0.state = "sleep" => f0.age >= 2)
             /\ f0.mode = "object" =>
                  \/ n = p
                  \/ n = Line!Enter(p, "high") /\ f0.state = "low" /\ f0.age >= 2
                  \/ n = Line!Restore(Line!MergeRow(p)) /\ f0.state = "high" /\ f0.age >= 3
<1> DEFINE f0 == p.fetcher
           pushed == Line!PushRow(p)
<1>1. f0.state \in {"tile", "low", "high", "sleep", "push"} /\ f0.age \in Nat
  BY DEF Flows, Pipe, Fetcher
<1>2. f0.mode = "object" => f0.state \in {"low", "high"}
  BY DEF StripsInOrder, FetchesInOrder
<1> HIDE DEF pushed
<1>3. CASE f0.state = "tile"
  BY <1>1, <1>2, <1>3 DEF Line!Advance, pushed
<1>4. CASE f0.state = "low"
  BY <1>1, <1>4 DEF Line!Advance, pushed
<1>5. CASE f0.state = "high"
  BY <1>1, <1>5 DEF Line!Advance, pushed
<1>6. CASE f0.state = "sleep"
  BY <1>1, <1>2, <1>6 DEF Line!Advance, pushed
<1>7. CASE f0.state = "push"
  BY <1>1, <1>2, <1>7 DEF Line!Advance, pushed
<1>8. QED
  BY <1>1, <1>3, <1>4, <1>5, <1>6, <1>7

LEMMA EnterStrips ==
  ASSUME NEW p, Flows(p), NEW last, StripsInOrder(p, last),
         NEW state \in {"low", "high", "sleep", "push"},
         p.fetcher.mode = "object" => state = "high"
  PROVE  LET n == Line!Enter(p, state)
         IN  /\ Flows(n) /\ StripsInOrder(n, last) /\ SameBut(p, n, {"fetcher"})
             /\ n.fetcher = [p.fetcher EXCEPT !.state = state]
<1> DEFINE g == [p.fetcher EXCEPT !.state = state]
           n == Line!Enter(p, state)
<1>1. n = [p EXCEPT !.fetcher = g]
  BY DEF Line!Enter, Flows, Pipe
<1>2. /\ g \in Fetcher /\ g.mode = p.fetcher.mode /\ g.state = state
      /\ g.objectPending = p.fetcher.objectPending
      /\ g.rowPushed = p.fetcher.rowPushed /\ g.tileX = p.fetcher.tileX
  BY DEF Flows, Pipe, Fetcher
<1> HIDE DEF g, n
<1>3. Flows(n) /\ n.fetcher = g /\ SameBut(p, n, {"fetcher"})
  BY <1>1, <1>2, NewFetcher, FetcherShape DEF FlowsFrom
<1>4. StripsInOrder(n, last)
  BY <1>1, <1>2, FetcherStrips
<1>5. QED
  BY <1>3, <1>4 DEF n, g

LEMMA NextTileStrips ==
  ASSUME NEW p, Flows(p), NEW last, StripsInOrder(p, last),
         p.fetcher.mode # "object", p.fetcher.rowPushed
  PROVE  LET n == Line!NextTile(p)
         IN  /\ Flows(n) /\ StripsInOrder(n, last) /\ SameBut(p, n, {"fetcher"})
             /\ n.fetcher = [p.fetcher EXCEPT !.state = "tile", !.rowPushed = FALSE,
                                              !.tileX = @ + 1]
<1> DEFINE h == [p.fetcher EXCEPT !.state = "tile", !.rowPushed = FALSE]
           g == [p.fetcher EXCEPT !.state = "tile", !.rowPushed = FALSE, !.tileX = @ + 1]
           n == Line!NextTile(p)
<1>1. n = [p EXCEPT !.fetcher = g]
  BY DEF Line!NextTile, Flows, Pipe
<1>2. h \in Fetcher /\ p.fetcher.tileX + 1 \in Nat
      /\ h.mode = p.fetcher.mode /\ h.objectPending = p.fetcher.objectPending /\ ~h.rowPushed
  <2>1. p.fetcher \in Fetcher
    BY DEF Flows, Pipe
  <2>2. p.fetcher.tileX + 1 \in Nat
    BY <2>1 DEF Fetcher
  <2>3. QED
    BY <2>1, <2>2 DEF Fetcher
<1>7. g = [h EXCEPT !.tileX = p.fetcher.tileX + 1]
  BY DEF Flows, Pipe, Fetcher
<1> HIDE DEF h, g, n
<1>3. /\ g \in Fetcher /\ g.mode = p.fetcher.mode
      /\ g.objectPending = p.fetcher.objectPending
      /\ ~g.rowPushed /\ g.tileX = p.fetcher.tileX + 1
  BY <1>2, <1>7 DEF Fetcher
<1>4. Flows(n) /\ n.fetcher = g /\ SameBut(p, n, {"fetcher"})
  BY <1>1, <1>3, NewFetcher, FetcherShape DEF FlowsFrom
<1>5. StripsInOrder(n, last)
  BY <1>1, <1>3, FetcherStrips
<1>6. QED
  BY <1>4, <1>5 DEF n, g

LEMMA AdvanceStrips ==
  ASSUME NEW p, Flows(p), NEW last, StripsInOrder(p, last)
  PROVE  StripsInOrder(Line!Advance(p), last)
<1> DEFINE pushed == Line!PushRow(p)
           merged == Line!MergeRow(p)
           n == Line!Advance(p)
<1>1. CASE p.fetcher.mode # "object"
  <2>1. /\ StripsInOrder(pushed, last) /\ Flows(pushed)
        /\ pushed.fetcher.mode # "object"
    <3>1. /\ StripsInOrder(pushed, last)
          /\ pushed.fetcher = [p.fetcher EXCEPT !.rowPushed = pushed.fetcher.rowPushed]
      BY <1>1, PushRowStrips
    <3> HIDE DEF pushed
    <3>2. pushed.fetcher.mode = p.fetcher.mode
      BY <3>1 DEF Flows, Pipe, Fetcher
    <3>3. QED
      BY <1>1, <3>1, <3>2, PushRowFlows DEF FlowsFrom, pushed
  <2>2. StripsInOrder(Line!PushRow(Line!Enter(p, "sleep")), last)
    <3> DEFINE e == Line!Enter(p, "sleep")
    <3>1. Flows(e) /\ StripsInOrder(e, last) /\ e.fetcher = [p.fetcher EXCEPT !.state = "sleep"]
      BY <1>1, EnterStrips
    <3> HIDE DEF e
    <3>2. e.fetcher.mode # "object"
      BY <1>1, <3>1 DEF Flows, Pipe, Fetcher
    <3>3. QED
      BY <3>1, <3>2, PushRowStrips DEF e
  <2> HIDE DEF pushed, n
  <2>3. /\ StripsInOrder(Line!Enter(p, "low"), last) /\ StripsInOrder(Line!Enter(p, "high"), last)
        /\ StripsInOrder(Line!Enter(pushed, "push"), last)
        /\ pushed.fetcher.rowPushed => StripsInOrder(Line!NextTile(pushed), last)
    BY <1>1, <2>1, EnterStrips, NextTileStrips
  <2>4. QED
    BY <1>1, <2>1, <2>2, <2>3, AdvanceCases DEF pushed, n
<1>2. CASE p.fetcher.mode = "object"
  <2>1. StripsInOrder(Line!Enter(p, "high"), last)
    BY EnterStrips
  <2>2. StripsInOrder(Line!Restore(merged), last)
    <3> DEFINE m == Line!Restore(merged)
    <3>1. SameBut(p, merged, {"obj"})
      BY MergeRowShape
    <3>2. SameBut(merged, m, {"fetcher", "saved"}) /\ m.fetcher = merged.saved
      BY MergeRowFlows, RestoreShape DEF FlowsFrom
    <3> HIDE DEF m, merged
    <3>3. /\ Base(p) = p.saved /\ m.fetcher = p.saved /\ p.saved.mode # "object"
          /\ Base(m) = p.saved
      BY <1>2, <3>1, <3>2 DEF SameBut, Base, StripsInOrder, FetchesInOrder
    <3>4. SameStrips(p, m)
      BY <3>1, <3>2, <3>3 DEF SameStrips, SameBut, Tiles
    <3>5. FetchesInOrder(m)
      BY <3>3 DEF FetchesInOrder
    <3>6. QED
      BY <3>4, <3>5, StripsStay DEF m
  <2> HIDE DEF merged, n
  <2>3. QED
    BY <1>2, <2>1, <2>2, AdvanceCases DEF merged, n
<1>3. QED
  BY <1>1, <1>2

\* A fetch of the background or the window goes on without a look at objects.
LEMMA AdvanceShape ==
  ASSUME NEW p, Flows(p), NEW last, StripsInOrder(p, last), p.fetcher.mode # "object"
  PROVE  LET n == Line!Advance(p)
         IN  /\ SameBut(p, n, {"fetcher", "bg"}) /\ n.fetcher.mode = p.fetcher.mode
             /\ n.fetcher.objectPending = p.fetcher.objectPending
             /\ n.fetcher.object = p.fetcher.object
<1> DEFINE Like(q, n) == /\ SameBut(q, n, {"fetcher", "bg"})
                         /\ n.fetcher.mode = q.fetcher.mode
                         /\ n.fetcher.objectPending = q.fetcher.objectPending
                         /\ n.fetcher.object = q.fetcher.object
           pushed == Line!PushRow(p)
           e == Line!Enter(p, "sleep")
           n == Line!Advance(p)
<1>1. ASSUME NEW q, Flows(q), StripsInOrder(q, last), q.fetcher.mode # "object",
             NEW state \in {"low", "high", "sleep", "push"}
      PROVE  Like(q, Line!Enter(q, state)) /\ Flows(Line!Enter(q, state))
             /\ StripsInOrder(Line!Enter(q, state), last)
  <2> DEFINE m == Line!Enter(q, state)
  <2>1. /\ Flows(m) /\ StripsInOrder(m, last)
        /\ SameBut(q, m, {"fetcher"}) /\ m.fetcher = [q.fetcher EXCEPT !.state = state]
    BY <1>1, EnterStrips
  <2> HIDE DEF m
  <2>2. /\ m.fetcher.mode = q.fetcher.mode /\ m.fetcher.object = q.fetcher.object
        /\ m.fetcher.objectPending = q.fetcher.objectPending
    BY <1>1, <2>1 DEF Flows, Pipe, Fetcher
  <2>3. QED
    BY <2>1, <2>2 DEF m, SameBut
<1>2. ASSUME NEW q, Flows(q), StripsInOrder(q, last), q.fetcher.mode # "object"
      PROVE  Like(q, Line!PushRow(q)) /\ Flows(Line!PushRow(q))
             /\ StripsInOrder(Line!PushRow(q), last)
  <2> DEFINE m == Line!PushRow(q)
  <2>1. /\ StripsInOrder(m, last) /\ SameBut(q, m, {"fetcher", "bg"})
        /\ m.fetcher = [q.fetcher EXCEPT !.rowPushed = m.fetcher.rowPushed]
    BY <1>2, PushRowStrips
  <2>2. Flows(m)
    BY <1>2, PushRowFlows DEF FlowsFrom
  <2> HIDE DEF m
  <2>3. /\ m.fetcher.mode = q.fetcher.mode /\ m.fetcher.object = q.fetcher.object
        /\ m.fetcher.objectPending = q.fetcher.objectPending
    BY <1>2, <2>1 DEF Flows, Pipe, Fetcher
  <2>4. QED
    BY <2>1, <2>2, <2>3 DEF m
<1>3. ASSUME NEW q, Flows(q), StripsInOrder(q, last), q.fetcher.mode # "object",
             q.fetcher.rowPushed
      PROVE  Like(q, Line!NextTile(q))
  <2> DEFINE m == Line!NextTile(q)
  <2>1. /\ SameBut(q, m, {"fetcher"})
        /\ m.fetcher = [q.fetcher EXCEPT !.state = "tile", !.rowPushed = FALSE,
                                         !.tileX = @ + 1]
    BY <1>3, NextTileStrips
  <2> HIDE DEF m
  <2>2. /\ m.fetcher.mode = q.fetcher.mode /\ m.fetcher.object = q.fetcher.object
        /\ m.fetcher.objectPending = q.fetcher.objectPending
    BY <1>3, <2>1 DEF Flows, Pipe, Fetcher
  <2>3. QED
    BY <2>1, <2>2 DEF m, SameBut
<1>4. Like(p, p) /\ \A q, m, k : Like(q, m) /\ Like(m, k) => Like(q, k)
  BY DEF SameBut
<1>5. Like(p, pushed) /\ Flows(pushed) /\ StripsInOrder(pushed, last)
  BY <1>2
<1>6. Like(p, Line!PushRow(e))
  <2>1. Like(p, e) /\ Flows(e) /\ StripsInOrder(e, last)
    BY <1>1
  <2> HIDE DEF e
  <2>2. Like(e, Line!PushRow(e))
    BY <1>2, <2>1
  <2> HIDE DEF Like
  <2>3. QED
    BY <1>4, <2>1, <2>2
<1> HIDE DEF pushed, n
<1>7. /\ Like(p, Line!Enter(p, "low")) /\ Like(p, Line!Enter(p, "high"))
  BY <1>1
<1>8. Like(p, Line!Enter(pushed, "push"))
  <2>1. Like(pushed, Line!Enter(pushed, "push"))
    BY <1>1, <1>5
  <2> HIDE DEF Like
  <2>2. QED
    BY <1>4, <1>5, <2>1
<1>9. ASSUME pushed.fetcher.rowPushed
      PROVE  Like(p, Line!NextTile(pushed))
  <2>1. Like(pushed, Line!NextTile(pushed))
    BY <1>3, <1>5, <1>9
  <2> HIDE DEF Like
  <2>2. QED
    BY <1>4, <1>5, <2>1
<1>10. \/ n \in {p, pushed, Line!PushRow(e), Line!Enter(p, "low"), Line!Enter(p, "high"),
                 Line!Enter(pushed, "push")}
       \/ n = Line!NextTile(pushed) /\ pushed.fetcher.rowPushed
  BY AdvanceCases, Zenon DEF n, pushed, e
<1> HIDE DEF Like, e
<1>11. Like(p, n)
  BY <1>4, <1>5, <1>6, <1>7, <1>8, <1>9, <1>10
<1>12. QED
  BY <1>11 DEF Like, n

\* The end of a T-cycle: the fetcher is one dot older, or in a new state.
LEMMA RunFetcherShape ==
  ASSUME LineInv, NEW p, Flows(p), NEW last, StripsInOrder(p, last)
  PROVE  LET w == Line!CheckForWindow(p)
             o == Line!FindObject(w)
             q == Line!FetchObject(o)
             next == Line!Advance(q)
             n == Line!RunFetcher(p)
         IN  /\ Flows(w) /\ Flows(o) /\ Flows(q) /\ Flows(next) /\ Flows(n)
             /\ StripsInOrder(w, last) /\ StripsInOrder(o, last) /\ StripsInOrder(q, last)
             /\ StripsInOrder(next, last) /\ StripsInOrder(n, last)
             /\ SameBut(next, n, {"fetcher"})
             /\ n.fetcher = [next.fetcher EXCEPT !.age = n.fetcher.age]
             /\ n.fetcher.age = IF next.fetcher.state # q.fetcher.state THEN 1
                                ELSE IF next.fetcher.age < 3 THEN next.fetcher.age + 1
                                ELSE next.fetcher.age
<1> DEFINE w == Line!CheckForWindow(p)
           o == Line!FindObject(w)
           q == Line!FetchObject(o)
           next == Line!Advance(q)
           n == Line!RunFetcher(p)
           a0 == next.fetcher.age
           a1 == IF next.fetcher.state # q.fetcher.state THEN 1
                 ELSE IF a0 < 3 THEN a0 + 1 ELSE a0
           g == [next.fetcher EXCEPT !.age = a1]
<1>1. Flows(w) /\ StripsInOrder(w, last)
  BY CheckForWindowFlows, CheckForWindowStrips DEF FlowsFrom
<1> HIDE DEF w
<1>2. Flows(o) /\ StripsInOrder(o, last)
  BY <1>1, FindObjectFlows, FindObjectStrips DEF FlowsFrom
<1> HIDE DEF o
<1>3. Flows(q) /\ StripsInOrder(q, last)
  BY <1>2, FetchObjectFlows, FetchObjectStrips DEF FlowsFrom
<1> HIDE DEF q
<1>4. Flows(next) /\ StripsInOrder(next, last)
  BY <1>3, AdvanceFlows, AdvanceStrips DEF FlowsFrom
<1>5. n = [next EXCEPT !.fetcher.age = a1]
  BY DEF Line!RunFetcher, Line!CheckForObject, w, o, q
<1> HIDE DEF next, n, a1
<1>6. n = [next EXCEPT !.fetcher = g]
  BY <1>4, <1>5 DEF Flows, Pipe
<1>7. /\ g.mode = next.fetcher.mode /\ g.objectPending = next.fetcher.objectPending
      /\ g.state = next.fetcher.state /\ g.rowPushed = next.fetcher.rowPushed
      /\ g.tileX = next.fetcher.tileX /\ g.age = a1
  BY <1>4 DEF Flows, Pipe, Fetcher
<1> HIDE DEF g
<1>8. next.fetcher.mode = "object" => g.state \in {"low", "high"}
  BY <1>4, <1>7 DEF StripsInOrder, FetchesInOrder
<1>9. StripsInOrder(n, last)
  BY <1>4, <1>6, <1>7, <1>8, FetcherStrips
<1>10. n.fetcher = g /\ SameBut(next, n, {"fetcher"})
  BY <1>4, <1>6, FetcherShape
<1>11. Flows(n)
  BY RunFetcherFlows DEF FlowsFrom, n
<1>12. QED
  BY <1>1, <1>2, <1>3, <1>4, <1>7, <1>9, <1>10, <1>11 DEF n, next, q, o, w, g, a1

\* A T-cycle in which a pixel leaves the FIFO: neither window nor object is due.
LEMMA Flowing ==
  ASSUME LineInv, NEW p, Flows(p), NEW last, StripsInOrder(p, last),
         ~Line!IsFetchingObject(p.fetcher),
         ~Line!IsFetchingObject(Line!RunFetcher(p).fetcher), Line!RunFetcher(p).bg # <<>>
  PROVE  LET n == Line!RunFetcher(p)
         IN  /\ p.fetcher.mode = "background" => Place(p) # StartOf(wx)
             /\ Line!Due(p) = {}
             /\ SameBut(p, n, {"fetcher", "bg"}) /\ n.fetcher.mode = p.fetcher.mode
             /\ n.fetcher.mode # "object" /\ ~n.fetcher.objectPending
<1> DEFINE w == Line!CheckForWindow(p)
           o == Line!FindObject(w)
           q == Line!FetchObject(o)
           next == Line!Advance(q)
           n == Line!RunFetcher(p)
<1>1. /\ Flows(w) /\ Flows(o) /\ Flows(q) /\ Flows(next)
      /\ StripsInOrder(w, last) /\ StripsInOrder(o, last) /\ StripsInOrder(q, last)
      /\ SameBut(next, n, {"fetcher"})
      /\ n.fetcher = [next.fetcher EXCEPT !.age = n.fetcher.age]
  BY RunFetcherShape
<1>2. \/ w = p /\ (p.fetcher.mode = "background" => Place(p) # StartOf(wx))
      \/ w = Line!Reset(p, "window")
  BY CheckForWindowStrips
<1>3. \/ o = w /\ (Line!IsFetchingObject(w.fetcher) \/ Line!Due(w) = {})
      \/ /\ ~Line!IsFetchingObject(w.fetcher)
         /\ o.fetcher = [w.fetcher EXCEPT !.object = o.fetcher.object, !.objectPending = TRUE]
  BY <1>1, FindObjectShape
<1>4. \/ q = o
      \/ q.fetcher.mode = "object" /\ q.fetcher.state = "low" /\ q.fetcher.age = 0
  BY <1>1, FetchObjectShape
<1>5. q.fetcher.mode # "object" =>
        /\ SameBut(q, next, {"fetcher", "bg"}) /\ next.fetcher.mode = q.fetcher.mode
        /\ next.fetcher.objectPending = q.fetcher.objectPending
  BY <1>1, AdvanceShape
<1>6. q.fetcher.state \in {"tile", "low"} /\ q.fetcher.age = 0 => next = q
  BY DEF Line!Advance
<1>7. w = Line!Reset(p, "window") =>
        /\ w.bg = <<>> /\ w.fetcher.mode = "window" /\ ~w.fetcher.objectPending
        /\ w.fetcher.state = "tile" /\ w.fetcher.age = 0
  BY ResetShape
<1>8. ~Line!IsFetchingObject(w.fetcher)
  BY <1>2, <1>7 DEF Line!IsFetchingObject
<1> HIDE DEF w, o, q, next, n
<1>9. n.fetcher.mode = next.fetcher.mode /\ n.fetcher.objectPending = next.fetcher.objectPending
  BY <1>1 DEF Flows, Pipe, Fetcher
<1>10. /\ o.fetcher.mode # "object"
       /\ o.fetcher.objectPending \/ (o = w /\ Line!Due(w) = {})
  BY <1>1, <1>3, <1>8 DEF Line!IsFetchingObject, Flows, Pipe, Fetcher
<1>11. q = o
  <2>1. q.fetcher.mode = "object" => next.fetcher.mode = "object"
    BY <1>4, <1>6, <1>10
  <2>2. q.fetcher.mode # "object"
    BY <1>9, <2>1 DEF Line!IsFetchingObject, n
  <2>3. QED
    BY <1>4, <2>2
<1>12. o = w /\ Line!Due(w) = {}
  <2>1. ~o.fetcher.objectPending
    BY <1>5, <1>9, <1>10, <1>11 DEF Line!IsFetchingObject, n
  <2>2. QED
    BY <1>10, <2>1
<1>13. w = p /\ (p.fetcher.mode = "background" => Place(p) # StartOf(wx))
  <2>1. CASE w = Line!Reset(p, "window")
    <3>1. next.bg = <<>>
      BY <1>6, <1>7, <1>11, <1>12, <2>1
    <3>2. n.bg = <<>>
      BY <1>1, <3>1 DEF SameBut
    <3>3. QED
      BY <3>2 DEF n
  <2>2. QED
    BY <1>2, <2>1
<1>14. /\ SameBut(p, n, {"fetcher", "bg"}) /\ n.fetcher.mode = p.fetcher.mode
       /\ n.fetcher.mode # "object" /\ ~n.fetcher.objectPending
  <2>1. SameBut(p, next, {"fetcher", "bg"}) /\ next.fetcher.mode = p.fetcher.mode
    BY <1>5, <1>10, <1>11, <1>12, <1>13
  <2>2. SameBut(p, n, {"fetcher", "bg"})
    BY <1>1, <2>1 DEF SameBut
  <2>3. QED
    BY <1>9, <2>1, <2>2 DEF Line!IsFetchingObject, n
<1>15. QED
  BY <1>12, <1>13, <1>14 DEF n

LEMMA FifoTail ==
  ASSUME NEW S, NEW s \in Fifo(S), s # <<>>
  PROVE  /\ Len(s) \in Nat /\ Len(s) >= 1 /\ Len(s) <= 8 /\ Head(s) = s[1]
         /\ Len(Tail(s)) = Len(s) - 1
         /\ \A k \in 1 .. Len(s) - 1 : Tail(s)[k] = s[k + 1]
<1>1. s \in Seq(S) /\ Len(s) \in Nat /\ Len(s) <= 8
  BY LenProperties DEF Fifo
<1>2. Len(Tail(s)) = Len(s) - 1 /\ \A k \in 1 .. Len(Tail(s)) : Tail(s)[k] = s[k + 1]
  BY <1>1, HeadTailProperties
<1>3. Len(s) # 0
  BY <1>1, EmptySeq
<1>4. Head(s) = s[1]
  BY <1>1
<1>5. QED
  BY <1>1, <1>2, <1>3, <1>4

\* A pixel leaves the FIFOs.
Popped(s) == IF s = <<>> THEN s ELSE Tail(s)

LEMMA PopShape ==
  ASSUME LineInv, NEW p, Flows(p), p.bg # <<>>
  PROVE  LET n == Line!Pop(p)
         IN  /\ n.bg = Tail(p.bg)
             /\ \/ /\ p.initial > 0 /\ n.initial = p.initial - 1 /\ ~Line!Draws(p)
                   /\ n.obj = Popped(p.obj) /\ SameBut(p, n, {"bg", "obj", "initial"})
                \/ /\ p.initial = 0 /\ p.scx < line.scx /\ ~Line!Draws(p)
                   /\ n.scx = p.scx + 1 /\ SameBut(p, n, {"bg", "scx"})
                \/ /\ p.initial = 0 /\ p.scx = line.scx /\ p.clip > 0 /\ ~Line!Draws(p)
                   /\ n.clip = p.clip - 1 /\ SameBut(p, n, {"bg", "clip"})
                \/ /\ p.initial = 0 /\ p.scx = line.scx /\ p.clip = 0 /\ Line!Draws(p)
                   /\ n.x = p.x + 1 /\ ~n.blankNext /\ n.obj = Popped(p.obj)
                   /\ SameBut(p, n, {"bg", "obj", "x", "blankNext"})
<1> DEFINE b == Tail(p.bg)
           o == Popped(p.obj)
           m == [p EXCEPT !.bg = b]
           k == [p EXCEPT !.bg = b, !.obj = o]
           n == Line!Pop(p)
<1>1. Line!PopBackground(p) = m /\ Line!PopObject(Line!PopBackground(p)) = k
  BY DEF Line!PopBackground, Line!PopObject, Flows, Pipe, Popped
<1>2. b \in Fifo(BgPixel) /\ o \in Fifo(ObjPixel)
  BY ShorterFifo DEF Flows, Pipe, Popped
<1> HIDE DEF b, o, n
<1>3. /\ m \in Pipe /\ m.bg = b /\ SameBut(p, m, {"bg"})
      /\ k \in Pipe /\ k.bg = b /\ k.obj = o /\ SameBut(p, k, {"bg", "obj"})
  BY <1>2 DEF Flows, Pipe, SameBut
<1> HIDE DEF m, k
<1>4. /\ p.initial \in Nat /\ p.scx \in Nat /\ p.clip \in Nat /\ line.scx \in Nat
      /\ p.scx <= line.scx
  BY DEF Flows, Pipe, LineInv
<1>5. CASE p.initial > 0
  <2>1. n = [k EXCEPT !.initial = k.initial - 1] /\ ~Line!Draws(p)
    BY <1>1, <1>4, <1>5 DEF n, Line!Pop, Line!Draws
  <2>2. n.initial = p.initial - 1 /\ n.bg = b /\ n.obj = o /\ SameBut(p, n, {"bg", "obj", "initial"})
    BY <1>3, <2>1 DEF Pipe, SameBut
  <2>3. QED
    BY <1>5, <2>1, <2>2 DEF n, b, o
<1>6. CASE p.initial = 0 /\ p.scx < line.scx
  <2>1. n = [m EXCEPT !.scx = m.scx + 1] /\ ~Line!Draws(p)
    BY <1>1, <1>4, <1>6 DEF n, Line!Pop, Line!Draws
  <2>2. n.scx = p.scx + 1 /\ n.bg = b /\ SameBut(p, n, {"bg", "scx"})
    BY <1>3, <2>1 DEF Pipe, SameBut
  <2>3. QED
    BY <1>6, <2>1, <2>2 DEF n, b
<1>7. CASE p.initial = 0 /\ p.scx = line.scx /\ p.clip > 0
  <2>1. n = [m EXCEPT !.clip = m.clip - 1] /\ ~Line!Draws(p)
    BY <1>1, <1>4, <1>7 DEF n, Line!Pop, Line!Draws
  <2>2. n.clip = p.clip - 1 /\ n.bg = b /\ SameBut(p, n, {"bg", "clip"})
    BY <1>3, <2>1 DEF Pipe, SameBut
  <2>3. QED
    BY <1>7, <2>1, <2>2 DEF n, b
<1>8. CASE p.initial = 0 /\ p.scx = line.scx /\ p.clip = 0
  <2>1. n = [k EXCEPT !.x = k.x + 1, !.blankNext = FALSE] /\ Line!Draws(p)
    BY <1>1, <1>4, <1>8 DEF n, Line!Pop, Line!Draws
  <2>2. /\ n.x = p.x + 1 /\ ~n.blankNext /\ n.bg = b /\ n.obj = o
        /\ SameBut(p, n, {"bg", "obj", "x", "blankNext"})
    BY <1>3, <2>1 DEF Pipe, SameBut
  <2>3. QED
    BY <1>8, <2>1, <2>2 DEF n, b, o
<1>9. QED
  BY <1>4, <1>5, <1>6, <1>7, <1>8

\* What is drawn, if anything is.
Drawing(p, last) ==
  IF ~Line!Draws(p) THEN last
  ELSE [strip |-> Head(p.bg).strip, column |-> Head(p.bg).column,
        object |-> IF p.obj = <<>> THEN Line!NoObject ELSE Head(p.obj),
        blanked |-> p.blankNext]

LEMMA PopStrips ==
  ASSUME LineInv, NEW p, Flows(p), NEW last, StripsInOrder(p, last), p.bg # <<>>,
         p.fetcher.mode # "object"
  PROVE  /\ StripsInOrder(Line!Pop(p), Drawing(p, last))
         /\ Line!Draws(p) =>
              /\ Drawing(p, last).strip = p.fetcher.mode
              /\ Drawing(p, last).column = NextColumn(p)
<1> DEFINE n == Line!Pop(p)
           next == Drawing(p, last)
<1>1. /\ Len(p.bg) \in Nat /\ Len(p.bg) >= 1 /\ Head(p.bg) = p.bg[1]
      /\ Len(Tail(p.bg)) = Len(p.bg) - 1
      /\ \A k \in 1 .. Len(p.bg) - 1 : Tail(p.bg)[k] = p.bg[k + 1]
  BY FifoTail DEF Flows, Pipe
<1>2. /\ p.x \in Nat /\ p.initial \in Nat /\ p.scx \in Nat /\ p.clip \in Nat
      /\ line.scx \in Nat /\ p.fetcher.tileX \in Nat /\ LeftOf(p.begun) \in Int
      /\ p.fetcher.mode \in {"background", "window"}
  <2>1. LeftOf(p.begun) \in Int
    BY Numbers DEF LeftOf
  <2>2. p.fetcher \in Fetcher /\ p.fetcher.mode # "object"
    BY Numbers
  <2>3. p.fetcher.tileX \in Nat /\ p.fetcher.mode \in {"background", "window"}
    BY <2>2 DEF Fetcher
  <2>4. QED
    BY <2>1, <2>3, Numbers
<1>3. /\ n.bg = Tail(p.bg)
      /\ \/ /\ p.initial > 0 /\ n.initial = p.initial - 1 /\ ~Line!Draws(p)
            /\ n.obj = Popped(p.obj) /\ SameBut(p, n, {"bg", "obj", "initial"})
         \/ /\ p.initial = 0 /\ p.scx < line.scx /\ ~Line!Draws(p)
            /\ n.scx = p.scx + 1 /\ SameBut(p, n, {"bg", "scx"})
         \/ /\ p.initial = 0 /\ p.scx = line.scx /\ p.clip > 0 /\ ~Line!Draws(p)
            /\ n.clip = p.clip - 1 /\ SameBut(p, n, {"bg", "clip"})
         \/ /\ p.initial = 0 /\ p.scx = line.scx /\ p.clip = 0 /\ Line!Draws(p)
            /\ n.x = p.x + 1 /\ ~n.blankNext /\ n.obj = Popped(p.obj)
            /\ SameBut(p, n, {"bg", "obj", "x", "blankNext"})
  BY PopShape
<1> HIDE DEF n
<1>4. n.fetcher = p.fetcher /\ n.saved = p.saved /\ n.begun = p.begun
  BY <1>3 DEF SameBut
<1>5. /\ Base(p) = p.fetcher /\ Base(n) = p.fetcher
      /\ Tiles(n) = Tiles(p) /\ Tiles(p) \in Nat
      /\ NextColumn(p) \in Int /\ NextColumn(n) = NextColumn(p) + 1
  BY <1>1, <1>2, <1>3, <1>4 DEF Base, Tiles, NextColumn
<1>6. FetchesInOrder(n)
  BY <1>4, <1>5 DEF FetchesInOrder, StripsInOrder
<1>7. CASE p.initial > 0
  <2>1. /\ p.x = 0 /\ p.scx = 0 /\ p.fetcher.mode = "background" /\ Tiles(p) = 0
        /\ Len(p.bg) = p.initial
    BY <1>5, <1>7 DEF StripsInOrder, Blank
  <2>2. /\ n.x = 0 /\ n.scx = 0 /\ n.clip = p.clip /\ n.blankNext = p.blankNext
        /\ n.initial = p.initial - 1 /\ Len(n.bg) = n.initial /\ next = last
    BY <1>1, <1>3, <1>7, <2>1 DEF SameBut, Drawing
  <2> HIDE DEF next
  <2>3. Blank(n) /\ OnWindow(n, next) /\ (n.x > 0 => n.scx = line.scx) /\ (n.blankNext => n.x = 0)
    BY <1>5, <2>1, <2>2 DEF Blank, OnWindow
  <2>4. NextColumn(n) = 0 - n.initial
    BY <1>5, <2>1, <2>2 DEF NextColumn
  <2>5. OnBackground(n, next)
    BY <1>2, <1>4, <1>5, <2>1, <2>2, <2>4 DEF OnBackground, StripsInOrder
  <2>6. RowInOrder(n)
    BY <2>2 DEF RowInOrder
  <2>7. QED
    BY <1>3, <1>6, <1>7, <2>3, <2>5, <2>6 DEF StripsInOrder, n, next
<1>8. ASSUME p.initial = 0
      PROVE  /\ n.initial = 0 /\ Blank(n) /\ RowInOrder(n)
             /\ \A k \in 1 .. Len(p.bg) :
                  p.bg[k] = [strip |-> p.fetcher.mode, column |-> NextColumn(p) + k - 1]
  <2>1. \A k \in 1 .. Len(p.bg) :
          p.bg[k] = [strip |-> p.fetcher.mode, column |-> NextColumn(p) + k - 1]
    BY <1>5, <1>8 DEF StripsInOrder, RowInOrder
  <2>2. n.initial = 0 /\ Len(n.bg) = Len(p.bg) - 1
    BY <1>1, <1>3, <1>8 DEF SameBut
  <2>3. ASSUME NEW k \in 1 .. Len(p.bg) - 1
        PROVE  n.bg[k] = [strip |-> p.fetcher.mode, column |-> NextColumn(n) + k - 1]
    <3>1. k + 1 \in 1 .. Len(p.bg) /\ k \in Int
      BY <1>1
    <3>2. n.bg[k] = p.bg[k + 1]
      BY <1>1, <1>3
    <3>3. NextColumn(p) + (k + 1) - 1 = NextColumn(n) + k - 1
      BY <1>5, <3>1
    <3>4. QED
      BY <2>1, <3>1, <3>2, <3>3
  <2>4. RowInOrder(n)
    BY <1>5, <2>2, <2>3 DEF RowInOrder
  <2>5. QED
    BY <2>1, <2>2, <2>4 DEF Blank
<1>9. CASE p.initial = 0 /\ p.scx < line.scx
  <2>1. /\ n.x = p.x /\ n.clip = p.clip /\ n.blankNext = p.blankNext
        /\ n.scx = p.scx + 1 /\ next = last
    BY <1>2, <1>3, <1>9 DEF SameBut, Drawing
  <2>2. p.fetcher.mode = "background" /\ p.x = 0
    BY <1>2, <1>5, <1>9 DEF StripsInOrder, OnWindow
  <2> HIDE DEF next
  <2>3. OnBackground(n, next) /\ OnWindow(n, next)
    BY <1>2, <1>4, <1>5, <1>9, <2>1, <2>2 DEF OnBackground, OnWindow, StripsInOrder
  <2>4. QED
    BY <1>3, <1>6, <1>8, <1>9, <2>1, <2>2, <2>3 DEF StripsInOrder, n, next
<1>10. CASE p.initial = 0 /\ p.scx = line.scx /\ p.clip > 0
  <2>1. /\ n.x = p.x /\ n.scx = p.scx /\ n.blankNext = p.blankNext
        /\ n.clip = p.clip - 1 /\ next = last
    BY <1>2, <1>3, <1>10 DEF SameBut, Drawing
  <2>2. p.fetcher.mode = "window"
    BY <1>2, <1>5, <1>10 DEF StripsInOrder, OnBackground
  <2> HIDE DEF next
  <2>3. p.begun \in 0 .. 255 /\ p.x = StartOf(p.begun) /\ NextColumn(p) = LeftOf(p.begun) - p.clip
        /\ ~(p.x > 0 /\ last.strip = "window")
    BY <1>2, <1>5, <1>10, <2>2 DEF StripsInOrder, OnWindow
  <2>4. NextColumn(n) = LeftOf(n.begun) - n.clip
    BY <1>2, <1>4, <1>5, <2>1, <2>3
  <2>5. OnBackground(n, next) /\ OnWindow(n, next)
    BY <1>4, <1>5, <1>8, <1>10, <2>1, <2>2, <2>3, <2>4 DEF OnBackground, OnWindow
  <2>6. QED
    BY <1>3, <1>6, <1>8, <1>10, <2>1, <2>5 DEF StripsInOrder, n, next
<1>11. CASE p.initial = 0 /\ p.scx = line.scx /\ p.clip = 0
  <2>1. Line!Draws(p) /\ n.x = p.x + 1 /\ ~n.blankNext /\ n.scx = p.scx /\ n.clip = p.clip
    BY <1>2, <1>3, <1>11 DEF SameBut
  <2>2. p.bg[1] = [strip |-> p.fetcher.mode, column |-> NextColumn(p)]
    <3>1. 1 \in 1 .. Len(p.bg) /\ NextColumn(p) + 1 - 1 = NextColumn(p)
      BY <1>1, <1>5
    <3>2. p.bg[1] = [strip |-> p.fetcher.mode, column |-> NextColumn(p) + 1 - 1]
      BY <1>8, <1>11, <3>1, Zenon
    <3>3. QED
      BY <3>1, <3>2
  <2>3. next.strip = p.fetcher.mode /\ next.column = NextColumn(p)
    BY <1>1, <1>5, <2>1, <2>2 DEF Drawing
  <2> HIDE DEF next
  <2>4. OnBackground(n, next)
    <3>1. p.fetcher.mode = "background" =>
            p.begun = Line!NotBegun /\ NextColumn(p) = p.scx + p.x
      BY <1>5, <1>11 DEF StripsInOrder, OnBackground
    <3>2. QED
      BY <1>2, <1>4, <1>5, <1>11, <2>1, <2>3, <3>1 DEF OnBackground
  <2>5. OnWindow(n, next)
    <3>1. p.fetcher.mode = "window" => p.begun \in 0 .. 255
      BY <1>5 DEF StripsInOrder, OnWindow
    <3>2. QED
      BY <1>2, <1>4, <1>5, <1>8, <1>11, <2>1, <2>3, <3>1 DEF OnWindow
  <2>6. QED
    BY <1>6, <1>8, <1>11, <2>1, <2>3, <2>4, <2>5 DEF StripsInOrder, n, next
<1>12. p.scx <= line.scx
  BY DEF Flows
<1>13. QED
  BY <1>2, <1>7, <1>9, <1>10, <1>11, <1>12 DEF n, next

-----------------------------------------------------------------------------
(* Objects.  They are fetched from left to right, in OAM order where two    *)
(* begin in one column, and the FIFO holds the foremost of those fetched.   *)

\* The place for which objects are looked up: it lags behind while the
\* background is scrolled within its first tile.
FetchX(p) == Place(p) - (line.scx - p.scx)

Fetching(p) == IF Line!IsFetchingObject(p.fetcher) THEN {p.fetcher.object} ELSE {}
Taken(p) == p.fetched \ line.gone
Waiting(p) == DOMAIN objects \ p.fetched
Merged(p) == Taken(p) \ Fetching(p)

Sooner(i, j) ==
  objects[i].x < objects[j].x \/ (objects[i].x = objects[j].x /\ i < j)

InFront(i, j) ==
  LET o == objects[i]  other == objects[j]
  IN  \/ ~line.byIndex /\ o.x < other.x
      \/ (line.byIndex \/ o.x = other.x) /\ o.oamIndex < other.oamIndex
      \/ o.oamIndex = other.oamIndex /\ (o.x < other.x \/ (o.x = other.x /\ i < j))

Covers(i, c) == objects[i].opaque /\ c \in objects[i].x - 8 .. objects[i].x - 1

\* The pixel is what merged objects look like in column c.
Front(pixel, merged, c) ==
  \/ pixel = Line!NoObject /\ \A i \in merged : ~Covers(i, c)
  \/ /\ pixel.object \in merged /\ Covers(pixel.object, c)
     /\ pixel = [object |-> pixel.object, column |-> c - (objects[pixel.object].x - 8)]
     /\ \A i \in merged \ {pixel.object} : Covers(i, c) => InFront(pixel.object, i)

\* The pixel in the FIFO for column c.
ObjectAt(p, c) ==
  IF c - Place(p) < Len(p.obj) THEN p.obj[c - Place(p) + 1] ELSE Line!NoObject

QueueInOrder(p) ==
  /\ line.gone \subseteq p.fetched /\ Fetching(p) \subseteq Taken(p)
  /\ \A i \in Fetching(p) : objects[i].x = FetchX(p) + 8
  /\ \A i \in Waiting(p) : objects[i].x >= FetchX(p) + 8
  /\ \A i \in Waiting(p), j \in Taken(p) : Sooner(j, i)
  /\ \A i \in Fetching(p), j \in Merged(p) : Sooner(j, i)

FifoInOrder(p) ==
  \A c \in Int : c >= Place(p) => Front(ObjectAt(p, c), Merged(p), c)

\* The window does not begin where an object is fetched.
NoWindowHere(p) == Base(p).mode = "background" => Place(p) # StartOf(wx)

ObjectsInOrder(p) ==
  /\ QueueInOrder(p) /\ FifoInOrder(p)
  /\ Fetching(p) # {} => NoWindowHere(p)

\* ScanLine's ObjectsPromised.
Promise ==
  ~moved /\ (line.scx = 0 \/ \A i \in DOMAIN objects \ line.gone : objects[i].x >= 8)

SameObjects(p, n) ==
  /\ n.x = p.x /\ n.initial = p.initial /\ n.scx = p.scx
  /\ n.obj = p.obj /\ n.fetched = p.fetched
  /\ Fetching(n) = Fetching(p) /\ Base(n).mode = Base(p).mode

LEMMA ObjectsStay ==
  ASSUME NEW p, NEW n, ObjectsInOrder(p), SameObjects(p, n)
  PROVE  ObjectsInOrder(n)
<1>1. /\ Place(n) = Place(p) /\ FetchX(n) = FetchX(p) /\ Taken(n) = Taken(p)
      /\ Waiting(n) = Waiting(p) /\ Merged(n) = Merged(p) /\ Fetching(n) = Fetching(p)
      /\ n.fetched = p.fetched
  BY DEF SameObjects, Place, FetchX, Taken, Waiting, Merged
<1>2. \A c : ObjectAt(n, c) = ObjectAt(p, c)
  BY <1>1 DEF ObjectAt, SameObjects
<1>3. QueueInOrder(n)
  BY <1>1 DEF QueueInOrder, ObjectsInOrder
<1>4. FifoInOrder(n)
  BY <1>1, <1>2 DEF FifoInOrder, ObjectsInOrder
<1>5. Fetching(n) # {} => NoWindowHere(n)
  BY <1>1 DEF NoWindowHere, SameObjects, ObjectsInOrder
<1>6. QED
  BY <1>3, <1>4, <1>5 DEF ObjectsInOrder

LEMMA ObjectNumbers ==
  ASSUME LineInv
  PROVE  \A i \in DOMAIN objects :
           /\ i \in Nat /\ objects[i].x \in Nat /\ objects[i].oamIndex \in Nat
           /\ objects[i].opaque \in BOOLEAN
<1> SUFFICES ASSUME NEW i \in DOMAIN objects
             PROVE  /\ i \in Nat /\ objects[i].x \in Nat /\ objects[i].oamIndex \in Nat
                    /\ objects[i].opaque \in BOOLEAN
  OBVIOUS
<1>1. objects \in Seq(Object) /\ Len(objects) \in Nat /\ DOMAIN objects = 1 .. Len(objects)
  BY LenProperties DEF LineInv
<1>2. objects[i] \in Object /\ i \in Nat
  BY <1>1, ElementOfSeq
<1>3. QED
  BY <1>2 DEF Object

LEMMA Places ==
  ASSUME LineInv, NEW p, Flows(p)
  PROVE  /\ Place(p) \in Int /\ FetchX(p) \in Int
         /\ Place(p) = p.x - p.initial /\ FetchX(p) = Place(p) - (line.scx - p.scx)
         /\ p.fetched \subseteq DOMAIN objects
         /\ Taken(p) \subseteq DOMAIN objects /\ Waiting(p) \subseteq DOMAIN objects
         /\ Merged(p) \subseteq DOMAIN objects
         /\ DOMAIN objects \subseteq Nat
<1>1. p.fetched \subseteq DOMAIN objects
  BY DEF Flows
<1>2. DOMAIN objects \subseteq Nat
  BY ObjectNumbers
<1>3. QED
  BY <1>1, <1>2, Numbers DEF Place, FetchX, Taken, Waiting, Merged

\* The window begins: there is no object on its way.
LEMMA CheckForWindowObjects ==
  ASSUME LineInv, Promise, NEW p, Flows(p), NEW last, StripsInOrder(p, last),
         ObjectsInOrder(p)
  PROVE  LET n == Line!CheckForWindow(p)
         IN  /\ ObjectsInOrder(n)
             /\ n.fetcher.mode = "background" => NoWindowHere(n)
<1> DEFINE n == Line!CheckForWindow(p)
<1>1. \/ n = p /\ (p.fetcher.mode = "background" => Place(p) # StartOf(wx))
      \/ /\ n = Line!Reset(p, "window") /\ p.fetcher.mode = "background"
         /\ Place(p) = StartOf(wx)
  BY CheckForWindowStrips
<1>2. CASE n = p /\ (p.fetcher.mode = "background" => Place(p) # StartOf(wx))
  BY <1>2 DEF NoWindowHere
<1>3. CASE /\ n = Line!Reset(p, "window") /\ p.fetcher.mode = "background"
           /\ Place(p) = StartOf(wx)
  <2>1. /\ SameBut(p, n, {"fetcher", "bg", "scx", "clip", "begun"})
        /\ n.fetcher.mode = "window" /\ ~n.fetcher.objectPending /\ n.scx = line.scx
    BY <1>3, ResetShape
  <2> HIDE DEF n
  <2>2. n.x = p.x /\ n.initial = p.initial /\ n.obj = p.obj /\ n.fetched = p.fetched
    BY <2>1 DEF SameBut
  <2>3. Fetching(p) = {} /\ Fetching(n) = {}
    <3>1. Base(p).mode = "background" /\ ~NoWindowHere(p)
      BY <1>3 DEF Base, NoWindowHere
    <3>2. Fetching(p) = {}
      BY <3>1 DEF ObjectsInOrder
    <3>3. QED
      BY <2>1, <3>2 DEF Fetching, Line!IsFetchingObject
  <2>4. /\ Place(n) = Place(p) /\ Taken(n) = Taken(p) /\ Waiting(n) = Waiting(p)
        /\ Merged(n) = Merged(p)
    BY <2>2, <2>3 DEF Place, Taken, Waiting, Merged
  <2>5. FetchX(n) = Place(p)
    BY <2>1, <2>4, Places, Numbers DEF FetchX
  <2>6. \A i \in Waiting(p) : objects[i].x >= Place(p) + 8
    <3>1. CASE p.scx = line.scx
      <4>1. FetchX(p) = Place(p)
        BY <3>1, Places, Numbers
      <4>2. QED
        BY <4>1 DEF ObjectsInOrder, QueueInOrder
    <3>2. CASE p.scx # line.scx
      <4>1. p.x = 0 /\ line.scx # 0
        BY <3>2, Numbers DEF StripsInOrder
      <4>2. Place(p) <= 0
        BY <4>1, Places, Numbers
      <4>3. ASSUME NEW i \in Waiting(p)
            PROVE  objects[i].x >= 8 /\ objects[i].x \in Nat
        <5>1. i \in DOMAIN objects \ line.gone
          BY DEF Waiting, ObjectsInOrder, QueueInOrder
        <5>2. QED
          BY <4>1, <5>1, ObjectNumbers DEF Promise
      <4>4. QED
        BY <4>2, <4>3, Places
    <3>3. QED
      BY <3>1, <3>2
  <2>7. QueueInOrder(n)
    BY <2>2, <2>3, <2>4, <2>5, <2>6 DEF QueueInOrder, ObjectsInOrder
  <2>8. FifoInOrder(n)
    <3>1. \A c : ObjectAt(n, c) = ObjectAt(p, c)
      BY <2>2, <2>4 DEF ObjectAt
    <3>2. QED
      BY <2>4, <3>1 DEF FifoInOrder, ObjectsInOrder
  <2>9. QED
    BY <2>1, <2>3, <2>7, <2>8 DEF ObjectsInOrder, n
<1>4. QED
  BY <1>1, <1>2, <1>3

\* The object that is looked up next is the first of those waiting.
LEMMA FindObjectObjects ==
  ASSUME LineInv, NEW p, Flows(p), ObjectsInOrder(p),
         NEW last, StripsInOrder(p, last), p.fetcher.mode = "background" => NoWindowHere(p)
  PROVE  ObjectsInOrder(Line!FindObject(p))
<1> DEFINE n == Line!FindObject(p)
           i == n.fetcher.object
<1>1. CASE n = p
  BY <1>1
<1>2. CASE n # p
  <2>1. /\ SameBut(p, n, {"fetcher", "blankNext", "fetched"})
        /\ ~Line!IsFetchingObject(p.fetcher)
        /\ n.fetcher = [p.fetcher EXCEPT !.object = i, !.objectPending = TRUE]
        /\ i \in Line!Due(p) /\ \A j \in Line!Due(p) : i <= j
        /\ n.fetched = p.fetched \union {i}
    BY <1>2, FindObjectShape
  <2> HIDE DEF n
  <2>2. n.x = p.x /\ n.initial = p.initial /\ n.scx = p.scx /\ n.obj = p.obj
    BY <2>1 DEF SameBut
  <2>3. n.fetcher.objectPending /\ n.fetcher.mode = p.fetcher.mode /\ p.fetcher.mode # "object"
    BY <2>1 DEF Flows, Pipe, Fetcher, Line!IsFetchingObject
  <2>4. Fetching(p) = {} /\ Fetching(n) = {i}
    BY <2>1, <2>3 DEF Fetching, Line!IsFetchingObject
  <2>5. Place(n) = Place(p) /\ FetchX(n) = FetchX(p) /\ Base(n).mode = Base(p).mode
    BY <2>2, <2>3 DEF Place, FetchX, Base
  <2>6. Line!Due(p) = {k \in Waiting(p) : FetchX(p) + 8 >= objects[k].x}
    BY DEF Line!Due, Waiting, FetchX, Place
  <2>7. i \in Waiting(p) /\ i \notin line.gone /\ i \notin Taken(p) /\ objects[i].x = FetchX(p) + 8
    <3>1. i \in Waiting(p) /\ FetchX(p) + 8 >= objects[i].x
      BY <2>1, <2>6
    <3>2. objects[i].x >= FetchX(p) + 8 /\ i \notin line.gone
      BY <3>1 DEF ObjectsInOrder, QueueInOrder, Waiting
    <3>3. objects[i].x \in Nat /\ FetchX(p) \in Int
      BY <3>1, Places, ObjectNumbers
    <3>4. i \notin Taken(p)
      BY <3>1 DEF Taken, Waiting
    <3>5. QED
      BY <3>1, <3>2, <3>3, <3>4
  <2>8. /\ Taken(n) = Taken(p) \union {i} /\ Merged(n) = Taken(p) /\ Merged(p) = Taken(p)
        /\ Waiting(n) = Waiting(p) \ {i}
    BY <2>1, <2>4, <2>7 DEF Taken, Merged, Waiting
  <2>9. ASSUME NEW k \in Waiting(p) \ {i}
        PROVE  Sooner(i, k)
    <3>1. objects[k].x >= objects[i].x
      BY <2>7 DEF ObjectsInOrder, QueueInOrder
    <3>2. objects[k].x = objects[i].x => i <= k
      <4>1. objects[k].x \in Nat /\ FetchX(p) \in Int
        BY Places, ObjectNumbers
      <4>2. objects[k].x = objects[i].x => k \in Line!Due(p)
        BY <2>6, <2>7, <4>1
      <4>3. QED
        BY <2>1, <4>2
    <3>3. /\ i \in Nat /\ k \in Nat /\ objects[i].x \in Nat /\ objects[k].x \in Nat
      BY <2>7, Places, ObjectNumbers
    <3>4. QED
      BY <3>1, <3>2, <3>3 DEF Sooner
  <2>10. QueueInOrder(n)
    <3>1. line.gone \subseteq n.fetched /\ Fetching(n) \subseteq Taken(n)
      BY <2>1, <2>4, <2>8 DEF ObjectsInOrder, QueueInOrder
    <3>2. \A k \in Fetching(n) : objects[k].x = FetchX(n) + 8
      BY <2>4, <2>5, <2>7
    <3>3. \A k \in Waiting(n) : objects[k].x >= FetchX(n) + 8
      BY <2>5, <2>8 DEF ObjectsInOrder, QueueInOrder
    <3>4. \A k \in Waiting(n), j \in Taken(n) : Sooner(j, k)
      BY <2>8, <2>9 DEF ObjectsInOrder, QueueInOrder
    <3>5. \A k \in Fetching(n), j \in Merged(n) : Sooner(j, k)
      BY <2>4, <2>7, <2>8 DEF ObjectsInOrder, QueueInOrder
    <3>6. QED
      BY <3>1, <3>2, <3>3, <3>4, <3>5 DEF QueueInOrder
  <2>11. FifoInOrder(n)
    <3>1. \A c : ObjectAt(n, c) = ObjectAt(p, c)
      BY <2>2, <2>5 DEF ObjectAt
    <3>2. QED
      BY <2>5, <2>8, <3>1 DEF FifoInOrder, ObjectsInOrder
  <2>12. NoWindowHere(n)
    BY <2>3, <2>5 DEF NoWindowHere, Base
  <2>13. QED
    BY <2>10, <2>11, <2>12 DEF ObjectsInOrder, n
<1>3. QED
  BY <1>1, <1>2

LEMMA FetchObjectObjects ==
  ASSUME LineInv, NEW p, Flows(p), ObjectsInOrder(p), NEW last, StripsInOrder(p, last)
  PROVE  ObjectsInOrder(Line!FetchObject(p))
<1> DEFINE n == Line!FetchObject(p)
<1>1. CASE n = p
  BY <1>1
<1>2. CASE n # p
  <2>1. /\ SameBut(p, n, {"fetcher", "saved"}) /\ p.fetcher.objectPending
        /\ n.fetcher.mode = "object" /\ n.fetcher.object = p.fetcher.object
        /\ n.saved = [p.fetcher EXCEPT !.objectPending = FALSE, !.object = 0, !.age = 3]
    BY <1>2, FetchObjectShape
  <2> HIDE DEF n
  <2>2. p.fetcher.mode # "object" /\ n.saved.mode = p.fetcher.mode
    BY <2>1 DEF StripsInOrder, FetchesInOrder, Flows, Pipe, Fetcher
  <2>3. Fetching(n) = Fetching(p) /\ Base(n).mode = Base(p).mode
    BY <2>1, <2>2 DEF Fetching, Base, Line!IsFetchingObject
  <2>4. SameObjects(p, n)
    BY <2>1, <2>3 DEF SameObjects, SameBut
  <2>5. QED
    BY <2>4, ObjectsStay DEF n
<1>3. QED
  BY <1>1, <1>2

\* In front, of two objects, is the one that Fetcher::mergeObjectRowIntoFifo()
\* takes for the foremost, if it was fetched later.
LEMMA LaterIsInFront ==
  ASSUME LineInv, NEW i \in DOMAIN objects, NEW j \in DOMAIN objects, Sooner(j, i)
  PROVE  /\ Line!Precedes(i, j) => InFront(i, j)
         /\ ~Line!Precedes(i, j) => InFront(j, i)
<1>1. /\ i \in Nat /\ j \in Nat /\ objects[i].x \in Nat /\ objects[j].x \in Nat
      /\ objects[i].oamIndex \in Nat /\ objects[j].oamIndex \in Nat
  BY ObjectNumbers
<1>2. QED
  BY <1>1 DEF Sooner, Line!Precedes, InFront

LEMMA InFrontIsOrder ==
  ASSUME LineInv, NEW i \in DOMAIN objects, NEW j \in DOMAIN objects
  PROVE  /\ InFront(i, j) => ~InFront(j, i)
         /\ \A k \in DOMAIN objects : InFront(i, j) /\ InFront(j, k) => InFront(i, k)
<1>1. /\ i \in Nat /\ j \in Nat /\ objects[i].x \in Nat /\ objects[j].x \in Nat
      /\ objects[i].oamIndex \in Nat /\ objects[j].oamIndex \in Nat
  BY ObjectNumbers
<1>2. InFront(i, j) => ~InFront(j, i)
  BY <1>1 DEF InFront
<1>3. ASSUME NEW k \in DOMAIN objects, InFront(i, j), InFront(j, k)
      PROVE  InFront(i, k)
  <2>1. k \in Nat /\ objects[k].x \in Nat /\ objects[k].oamIndex \in Nat
    BY ObjectNumbers
  <2>2. QED
    BY <1>1, <1>3, <2>1 DEF InFront
<1>4. QED
  BY <1>2, <1>3

\* The pixel of a new object in column c, over what was there.
LEMMA MergedPixel ==
  ASSUME LineInv, NEW i \in DOMAIN objects, NEW merged, merged \subseteq DOMAIN objects,
         i \notin merged, \A j \in merged : Sooner(j, i),
         NEW c \in Int, NEW old, Front(old, merged, c),
         NEW new, NEW replaces \in BOOLEAN,
         replaces <=> objects[i].opaque
                      /\ (old = Line!NoObject \/ Line!Precedes(i, old.object)),
         c \in objects[i].x - 8 .. objects[i].x - 1,
         new = IF replaces THEN [object |-> i, column |-> c - (objects[i].x - 8)] ELSE old
  PROVE  Front(new, merged \union {i}, c)
<1>1. Covers(i, c) <=> objects[i].opaque
  BY DEF Covers
<1>2. old = Line!NoObject => old.object = 0 /\ 0 \notin DOMAIN objects
  <2>1. DOMAIN objects = 1 .. Len(objects)
    BY LenProperties DEF LineInv
  <2>2. QED
    BY <2>1 DEF Line!NoObject
<1>3. CASE replaces
  <2>1. /\ new.object = i
        /\ new = [object |-> new.object, column |-> c - (objects[new.object].x - 8)]
    BY <1>3
  <2>2. Covers(i, c)
    BY <1>1, <1>3
  <2>3. ASSUME NEW j \in merged, Covers(j, c)
        PROVE  InFront(i, j)
    <3>1. old # Line!NoObject /\ old.object \in merged /\ Line!Precedes(i, old.object)
      BY <1>2, <1>3, <2>3 DEF Front
    <3>2. InFront(i, old.object)
      BY <3>1, LaterIsInFront
    <3>3. j = old.object \/ InFront(old.object, j)
      BY <1>2, <2>3, <3>1 DEF Front
    <3>4. QED
      BY <3>1, <3>2, <3>3, InFrontIsOrder
  <2>4. QED
    BY <2>1, <2>2, <2>3 DEF Front
<1>4. CASE ~replaces
  <2>1. CASE old = Line!NoObject
    <3>1. new = Line!NoObject /\ ~Covers(i, c)
      BY <1>1, <1>4, <2>1
    <3>2. \A j \in merged : ~Covers(j, c)
      BY <1>2, <2>1 DEF Front
    <3>3. QED
      BY <3>1, <3>2 DEF Front
  <2>2. CASE old # Line!NoObject
    <3>1. /\ old.object \in merged /\ Covers(old.object, c)
          /\ old = [object |-> old.object, column |-> c - (objects[old.object].x - 8)]
          /\ \A j \in merged \ {old.object} : Covers(j, c) => InFront(old.object, j)
      BY <2>2 DEF Front
    <3>2. Covers(i, c) => InFront(old.object, i)
      <4>1. Covers(i, c) => ~Line!Precedes(i, old.object)
        BY <1>1, <1>4
      <4>2. QED
        BY <3>1, <4>1, LaterIsInFront
    <3>3. new = old
      BY <1>4
    <3>4. QED
      BY <3>1, <3>2, <3>3 DEF Front
  <2>3. QED
    BY <2>1, <2>2
<1>5. QED
  BY <1>3, <1>4

\* The row of an object is merged with those before it.
LEMMA MergeObjects ==
  ASSUME LineInv, Promise, NEW p, Flows(p), ObjectsInOrder(p),
         NEW last, StripsInOrder(p, last), p.fetcher.mode = "object"
  PROVE  ObjectsInOrder(Line!Restore(Line!MergeRow(p)))
<1> DEFINE m == Line!MergeRow(p)
           n == Line!Restore(m)
           i == p.fetcher.object
           Old(k) == IF k <= Len(p.obj) THEN p.obj[k] ELSE Line!NoObject
           Replaces(old) == objects[i].opaque
                            /\ (old = Line!NoObject \/ Line!Precedes(i, old.object))
<1>1. /\ SameBut(p, m, {"obj"}) /\ Len(m.obj) = 8
      /\ \A k \in 1 .. 8 :
           m.obj[k] = IF Replaces(Old(k)) THEN [object |-> i, column |-> k - 1] ELSE Old(k)
  BY MergeRowShape
<1>2. SameBut(m, n, {"fetcher", "saved"}) /\ n.fetcher = m.saved
  BY MergeRowFlows, RestoreShape DEF FlowsFrom
<1> HIDE DEF n, m, Replaces, Old
<1>3. /\ n.x = p.x /\ n.initial = p.initial /\ n.scx = p.scx /\ n.fetched = p.fetched
      /\ n.fetcher = p.saved /\ n.obj = m.obj
  BY <1>1, <1>2 DEF SameBut
<1>4. Fetching(p) = {i} /\ Fetching(n) = {}
  BY <1>3 DEF Fetching, Line!IsFetchingObject, StripsInOrder, FetchesInOrder, Base
<1>5. /\ Place(n) = Place(p) /\ FetchX(n) = FetchX(p) /\ Taken(n) = Taken(p)
      /\ Waiting(n) = Waiting(p) /\ Merged(n) = Taken(p)
  BY <1>3, <1>4 DEF Place, FetchX, Taken, Waiting, Merged
<1>6. /\ i \in Taken(p) /\ objects[i].x = FetchX(p) + 8
      /\ Taken(p) = Merged(p) \union {i} /\ i \notin Merged(p)
      /\ \A j \in Merged(p) : Sooner(j, i)
  BY <1>4 DEF ObjectsInOrder, QueueInOrder, Merged
<1>7. i \in DOMAIN objects /\ Merged(p) \subseteq DOMAIN objects /\ objects[i].x \in Nat
      /\ Place(p) \in Int /\ FetchX(p) \in Int
  BY <1>6, Places, ObjectNumbers
<1>8. objects[i].x = Place(p) + 8
  <2>1. CASE p.scx = line.scx
    BY <1>6, <2>1, Places, Numbers
  <2>2. CASE p.scx # line.scx
    <3>1. p.x = 0 /\ line.scx # 0 /\ p.scx < line.scx
      BY <2>2, Numbers DEF StripsInOrder
    <3>2. FetchX(p) < 0
      BY <3>1, Places, Numbers
    <3>3. objects[i].x >= 8
      BY <1>6, <1>7, <3>1 DEF Promise, Taken
    <3>4. QED
      BY <1>6, <1>7, <3>2, <3>3
  <2>3. QED
    BY <2>1, <2>2
<1>9. Len(p.obj) \in Nat /\ Len(p.obj) <= 8
  BY LenProperties DEF Flows, Pipe, Fifo
<1>10. QueueInOrder(n)
  BY <1>3, <1>4, <1>5 DEF ObjectsInOrder, QueueInOrder
<1>11. FifoInOrder(n)
  <2> SUFFICES ASSUME NEW c \in Int, c >= Place(p)
               PROVE  Front(ObjectAt(n, c), Taken(p), c)
    BY <1>5 DEF FifoInOrder
  <2>1. Front(ObjectAt(p, c), Merged(p), c)
    BY DEF ObjectsInOrder, FifoInOrder
  <2>2. CASE c - Place(p) < 8
    <3> DEFINE k == c - Place(p) + 1
    <3>1. k \in 1 .. 8
      BY <1>7, <2>2
    <3>2. ObjectAt(p, c) = Old(k)
      <4>1. c - Place(p) < Len(p.obj) <=> k <= Len(p.obj)
        BY <1>7, <1>9
      <4>2. QED
        BY <4>1 DEF ObjectAt, Old
    <3>3. ObjectAt(n, c) = m.obj[k]
      BY <1>1, <1>3, <1>5, <2>2 DEF ObjectAt
    <3>4. k - 1 = c - (objects[i].x - 8)
      BY <1>7, <1>8
    <3> HIDE DEF k
    <3>5. ObjectAt(n, c) = IF Replaces(ObjectAt(p, c))
                           THEN [object |-> i, column |-> c - (objects[i].x - 8)]
                           ELSE ObjectAt(p, c)
      BY <1>1, <3>1, <3>2, <3>3, <3>4
    <3>6. c \in objects[i].x - 8 .. objects[i].x - 1
      BY <1>7, <1>8, <2>2
    <3>7. Replaces(ObjectAt(p, c)) \in BOOLEAN
      <4>1. objects[i].opaque \in BOOLEAN
        BY <1>7, ObjectNumbers
      <4>2. QED
        BY <4>1 DEF Replaces
    <3>8. Front(ObjectAt(n, c), Merged(p) \union {i}, c)
      BY <1>6, <1>7, <2>1, <3>5, <3>6, <3>7, MergedPixel DEF Replaces
    <3>9. QED
      BY <1>6, <3>8
  <2>3. CASE ~(c - Place(p) < 8)
    <3>1. ObjectAt(n, c) = Line!NoObject
      BY <1>1, <1>3, <1>5, <2>3 DEF ObjectAt
    <3>2. ASSUME NEW j \in Taken(p)
          PROVE  ~Covers(j, c)
      <4>1. objects[j].x <= objects[i].x /\ objects[j].x \in Nat
        <5>1. j = i \/ Sooner(j, i)
          BY <1>6
        <5>2. objects[j].x \in Nat
          BY <1>6, <1>7, ObjectNumbers
        <5>3. QED
          BY <1>7, <5>1, <5>2 DEF Sooner
      <4>2. QED
        BY <1>7, <1>8, <2>3, <4>1 DEF Covers
    <3>3. QED
      BY <3>1, <3>2 DEF Front
  <2>4. QED
    BY <2>2, <2>3
<1>12. QED
  BY <1>4, <1>10, <1>11 DEF ObjectsInOrder, n, m

LEMMA AdvanceObjects ==
  ASSUME LineInv, Promise, NEW p, Flows(p), ObjectsInOrder(p),
         NEW last, StripsInOrder(p, last)
  PROVE  ObjectsInOrder(Line!Advance(p))
<1> DEFINE n == Line!Advance(p)
<1>1. CASE p.fetcher.mode # "object"
  <2>1. /\ SameBut(p, n, {"fetcher", "bg"}) /\ n.fetcher.mode = p.fetcher.mode
        /\ n.fetcher.objectPending = p.fetcher.objectPending
        /\ n.fetcher.object = p.fetcher.object
    BY <1>1, AdvanceShape
  <2> HIDE DEF n
  <2>2. SameObjects(p, n)
    BY <1>1, <2>1 DEF SameObjects, SameBut, Fetching, Line!IsFetchingObject, Base
  <2>3. QED
    BY <2>2, ObjectsStay DEF n
<1>2. CASE p.fetcher.mode = "object"
  <2>1. ObjectsInOrder(Line!Enter(p, "high"))
    <3> DEFINE m == Line!Enter(p, "high")
    <3>1. SameBut(p, m, {"fetcher"}) /\ m.fetcher = [p.fetcher EXCEPT !.state = "high"]
      BY EnterStrips
    <3> HIDE DEF m
    <3>2. /\ m.fetcher.mode = p.fetcher.mode /\ m.fetcher.object = p.fetcher.object
          /\ m.fetcher.objectPending = p.fetcher.objectPending
      BY <3>1 DEF Flows, Pipe, Fetcher
    <3>3. SameObjects(p, m)
      BY <1>2, <3>1, <3>2 DEF SameObjects, SameBut, Fetching, Line!IsFetchingObject, Base
    <3>4. QED
      BY <3>3, ObjectsStay DEF m
  <2>2. ObjectsInOrder(Line!Restore(Line!MergeRow(p)))
    BY <1>2, MergeObjects
  <2> HIDE DEF n
  <2>3. \/ n = p
        \/ n = Line!Enter(p, "high")
        \/ n = Line!Restore(Line!MergeRow(p))
    BY <1>2, AdvanceCases DEF n
  <2>4. QED
    BY <2>1, <2>2, <2>3 DEF n
<1>3. QED
  BY <1>1, <1>2

LEMMA RunFetcherObjects ==
  ASSUME LineInv, Promise, NEW p, Flows(p), ObjectsInOrder(p),
         NEW last, StripsInOrder(p, last)
  PROVE  ObjectsInOrder(Line!RunFetcher(p))
<1> DEFINE w == Line!CheckForWindow(p)
           o == Line!FindObject(w)
           q == Line!FetchObject(o)
           next == Line!Advance(q)
           n == Line!RunFetcher(p)
<1>1. /\ Flows(w) /\ Flows(o) /\ Flows(q) /\ Flows(next)
      /\ StripsInOrder(w, last) /\ StripsInOrder(o, last) /\ StripsInOrder(q, last)
      /\ SameBut(next, n, {"fetcher"})
      /\ n.fetcher = [next.fetcher EXCEPT !.age = n.fetcher.age]
  BY RunFetcherShape
<1>2. ObjectsInOrder(w) /\ (w.fetcher.mode = "background" => NoWindowHere(w))
  BY CheckForWindowObjects
<1> HIDE DEF w
<1>3. ObjectsInOrder(o)
  BY <1>1, <1>2, FindObjectObjects
<1> HIDE DEF o
<1>4. ObjectsInOrder(q)
  BY <1>1, <1>3, FetchObjectObjects
<1> HIDE DEF q
<1>5. ObjectsInOrder(next)
  BY <1>1, <1>4, AdvanceObjects
<1> HIDE DEF next, n
<1>6. /\ n.fetcher.mode = next.fetcher.mode /\ n.fetcher.object = next.fetcher.object
      /\ n.fetcher.objectPending = next.fetcher.objectPending
  BY <1>1 DEF Flows, Pipe, Fetcher
<1>7. SameObjects(next, n)
  BY <1>1, <1>6 DEF SameObjects, SameBut, Fetching, Line!IsFetchingObject, Base
<1>8. QED
  BY <1>5, <1>7, ObjectsStay DEF n

\* A pixel leaves the FIFOs when no object is due.
LEMMA PopObjects ==
  ASSUME LineInv, NEW p, Flows(p), ObjectsInOrder(p), p.bg # <<>>,
         Fetching(p) = {}, Line!Due(p) = {}
  PROVE  ObjectsInOrder(Line!Pop(p))
<1> DEFINE n == Line!Pop(p)
<1>1. \/ /\ p.initial > 0 /\ n.initial = p.initial - 1
         /\ n.obj = Popped(p.obj) /\ SameBut(p, n, {"bg", "obj", "initial"})
      \/ /\ p.initial = 0 /\ p.scx < line.scx
         /\ n.scx = p.scx + 1 /\ SameBut(p, n, {"bg", "scx"})
      \/ /\ p.initial = 0 /\ p.scx = line.scx /\ p.clip > 0
         /\ n.clip = p.clip - 1 /\ SameBut(p, n, {"bg", "clip"})
      \/ /\ p.initial = 0 /\ p.scx = line.scx /\ p.clip = 0
         /\ n.x = p.x + 1 /\ n.obj = Popped(p.obj)
         /\ SameBut(p, n, {"bg", "obj", "x", "blankNext"})
  BY PopShape
<1> HIDE DEF n
<1>2. n.fetched = p.fetched /\ n.fetcher = p.fetcher
  BY <1>1 DEF SameBut
<1>3. Fetching(n) = {} /\ Taken(n) = Taken(p) /\ Waiting(n) = Waiting(p) /\ Merged(n) = Merged(p)
  BY <1>2 DEF Fetching, Taken, Waiting, Merged
<1>4. /\ Place(n) \in Int /\ FetchX(n) \in Int /\ FetchX(n) <= FetchX(p) + 1
      /\ \/ Place(n) = Place(p) /\ n.obj = p.obj
         \/ Place(n) = Place(p) + 1 /\ n.obj = Popped(p.obj)
  <2>1. /\ p.x \in Nat /\ p.initial \in Nat /\ p.scx \in Nat /\ line.scx \in Nat
    BY Numbers
  <2>2. \/ n.x = p.x /\ n.initial = p.initial - 1 /\ n.scx = p.scx /\ n.obj = Popped(p.obj)
        \/ n.x = p.x /\ n.initial = p.initial /\ n.scx = p.scx + 1 /\ n.obj = p.obj
        \/ n.x = p.x /\ n.initial = p.initial /\ n.scx = p.scx /\ n.obj = p.obj
        \/ n.x = p.x + 1 /\ n.initial = p.initial /\ n.scx = p.scx /\ n.obj = Popped(p.obj)
    BY <1>1 DEF SameBut
  <2>3. n.x \in Int /\ n.initial \in Int /\ n.scx \in Int
    BY <2>1, <2>2
  <2>4. Place(n) = n.x - n.initial /\ Place(p) = p.x - p.initial
        /\ FetchX(n) = Place(n) - (line.scx - n.scx)
        /\ FetchX(p) = Place(p) - (line.scx - p.scx)
    BY DEF Place, FetchX
  <2> HIDE DEF Popped
  <2>5. \/ Place(n) = Place(p) /\ n.obj = p.obj
        \/ Place(n) = Place(p) + 1 /\ n.obj = Popped(p.obj)
    BY <2>1, <2>2, <2>4
  <2>6. FetchX(n) <= FetchX(p) + 1
    BY <2>1, <2>2, <2>4
  <2>7. Place(n) \in Int /\ FetchX(n) \in Int
    BY <2>1, <2>3, <2>4
  <2>8. QED
    BY <2>5, <2>6, <2>7, Zenon
<1>5. ASSUME NEW i \in Waiting(p)
      PROVE  objects[i].x >= FetchX(n) + 8
  <2>1. ~(FetchX(p) + 8 >= objects[i].x)
    BY DEF Line!Due, Waiting, FetchX, Place
  <2>2. objects[i].x \in Nat /\ FetchX(p) \in Int
    BY Places, ObjectNumbers
  <2>3. QED
    BY <1>4, <2>1, <2>2
<1>6. QueueInOrder(n)
  BY <1>2, <1>3, <1>5 DEF ObjectsInOrder, QueueInOrder
<1>7. FifoInOrder(n)
  <2> SUFFICES ASSUME NEW c \in Int, c >= Place(n)
               PROVE  Front(ObjectAt(n, c), Merged(p), c)
    BY <1>3 DEF FifoInOrder
  <2>1. c >= Place(p) /\ Place(p) \in Int
    BY <1>4, Places
  <2>2. Front(ObjectAt(p, c), Merged(p), c)
    BY <2>1 DEF ObjectsInOrder, FifoInOrder
  <2>3. CASE Place(n) = Place(p) /\ n.obj = p.obj
    BY <2>2, <2>3 DEF ObjectAt
  <2>4. CASE Place(n) = Place(p) + 1 /\ n.obj = Popped(p.obj)
    <3>1. CASE p.obj = <<>>
      <4>1. n.obj = <<>> /\ Len(<<>>) = 0
        BY <2>4, <3>1 DEF Popped
      <4>2. ObjectAt(n, c) = Line!NoObject /\ ObjectAt(p, c) = Line!NoObject
        BY <1>4, <2>1, <3>1, <4>1 DEF ObjectAt
      <4>3. QED
        BY <2>2, <4>2
    <3>2. CASE p.obj # <<>>
      <4>1. /\ Len(p.obj) \in Nat /\ Len(n.obj) = Len(p.obj) - 1
            /\ \A k \in 1 .. Len(p.obj) - 1 : n.obj[k] = p.obj[k + 1]
        BY <2>4, <3>2, FifoTail DEF Flows, Pipe, Popped
      <4>2. c - Place(n) < Len(n.obj) <=> c - Place(p) < Len(p.obj)
        BY <1>4, <2>1, <2>4, <4>1
      <4>3. ASSUME c - Place(p) < Len(p.obj)
            PROVE  n.obj[c - Place(n) + 1] = p.obj[c - Place(p) + 1]
        <5>1. c - Place(n) + 1 \in 1 .. Len(p.obj) - 1
          BY <1>4, <2>1, <2>4, <4>1, <4>3
        <5>2. (c - Place(n) + 1) + 1 = c - Place(p) + 1
          BY <1>4, <2>1, <2>4
        <5>3. QED
          BY <4>1, <5>1, <5>2
      <4>4. ObjectAt(n, c) = ObjectAt(p, c)
        BY <4>2, <4>3 DEF ObjectAt
      <4>5. QED
        BY <2>2, <4>4
    <3>3. QED
      BY <3>1, <3>2
  <2>5. QED
    BY <1>4, <2>3, <2>4
<1>8. QED
  BY <1>3, <1>6, <1>7 DEF ObjectsInOrder, n

-----------------------------------------------------------------------------
(* The invariant of the renderer, and the steps of ScanLine.               *)

LineStarted ==
  /\ phase = "found" => pipe = [Line!EmptyPipe EXCEPT !.fetched = line.gone] /\ ~moved
  /\ phase # "idle" /\ pipe.x = 0 => shown = Line!NoPixel
  /\ phase = "transfer" => StripsInOrder(pipe, shown)
  /\ phase = "transfer" /\ Promise => ObjectsInOrder(pipe)

LEMMA LineStarts ==
  ASSUME LineInv, LineStarted, Line!StartLine
  PROVE  LineStarted'
<1>1. /\ phase = "found" /\ phase' = "transfer"
      /\ pipe' = [pipe EXCEPT !.initial = 8, !.bg = Line!Blanks]
      /\ pipe = [Line!EmptyPipe EXCEPT !.fetched = line.gone]
      /\ UNCHANGED <<line, wx, objects, shown, calls, moved>>
  BY DEF Line!StartLine, LineStarted
<1>2. Len(Line!Blanks) = 8
  <2>1. Line!Blanks \in [1 .. 8 -> BgPixel]
    BY DEF Line!Blanks, BgPixel, Strips
  <2>2. QED
    BY <2>1, EightPixels
<1> HIDE DEF Line!Blanks
<1>3. /\ pipe'.x = 0 /\ pipe'.initial = 8 /\ pipe'.scx = 0 /\ pipe'.clip = 0
      /\ ~pipe'.blankNext /\ pipe'.fetcher = Line!Idle /\ pipe'.bg = Line!Blanks
      /\ pipe'.obj = <<>> /\ pipe'.fetched = line.gone /\ pipe'.begun = Line!NotBegun
      /\ pipe.x = 0 /\ pipe.fetched = line.gone
  BY <1>1 DEF Line!EmptyPipe
<1>4. /\ Line!Idle.mode = "background" /\ ~Line!Idle.rowPushed /\ Line!Idle.tileX = 0
      /\ ~Line!Idle.objectPending
  BY DEF Line!Idle
<1>5. Base(pipe)' = Line!Idle /\ Tiles(pipe)' = 0
  BY <1>3, <1>4 DEF Base, Tiles
<1>6. StripsInOrder(pipe, shown)'
  <2>1. FetchesInOrder(pipe)' /\ RowInOrder(pipe)'
    BY <1>3, <1>4, <1>5 DEF FetchesInOrder, RowInOrder
  <2>2. Blank(pipe)'
    BY <1>2, <1>3, <1>4, <1>5 DEF Blank
  <2>3. OnBackground(pipe, shown)' /\ OnWindow(pipe, shown)'
    BY <1>3, <1>4, <1>5 DEF OnBackground, OnWindow
  <2>4. QED
    BY <1>3, <2>1, <2>2, <2>3 DEF StripsInOrder
<1>7. ObjectsInOrder(pipe)'
  <2>1. line.scx \in Nat /\ line.gone \subseteq DOMAIN objects
    BY <1>3, Numbers DEF LineInv, Flows
  <2>2. Fetching(pipe)' = {}
    BY <1>3, <1>4 DEF Fetching, Line!IsFetchingObject
  <2>3. Taken(pipe)' = {} /\ Merged(pipe)' = {} /\ Place(pipe)' = -8
        /\ Waiting(pipe)' \subseteq DOMAIN objects
    BY <1>1, <1>3, <2>2 DEF Taken, Merged, Place, Waiting
  <2>4. FetchX(pipe)' \in Int /\ FetchX(pipe)' + 8 <= 0
    BY <1>1, <1>3, <2>1, <2>3 DEF FetchX
  <2>5. \A i \in Waiting(pipe)' : objects'[i].x >= FetchX(pipe)' + 8
    BY <1>1, <2>3, <2>4, ObjectNumbers
  <2>6. QueueInOrder(pipe)'
    BY <1>1, <1>3, <2>2, <2>3, <2>5 DEF QueueInOrder
  <2>7. FifoInOrder(pipe)'
    <3>1. ASSUME NEW c \in Int, c >= Place(pipe)'
          PROVE  Front(ObjectAt(pipe, c), Merged(pipe), c)'
      <4>1. Len(<<>>) = 0 /\ ~(c - Place(pipe)' < 0)
        BY <2>3, <3>1
      <4>2. ObjectAt(pipe, c)' = Line!NoObject
        BY <1>3, <4>1 DEF ObjectAt
      <4>3. QED
        BY <2>3, <4>2 DEF Front
    <3>2. QED
      BY <3>1 DEF FifoInOrder
  <2>8. QED
    BY <2>2, <2>6, <2>7 DEF ObjectsInOrder
<1>8. QED
  BY <1>1, <1>3, <1>6, <1>7 DEF LineStarted

\* One call of Ppu::handlePixelTransfer().
LEMMA Transferred ==
  ASSUME LineInv, LineStarted, Line!HandlePixelTransfer
  PROVE  LET p == Line!RunFetcher(pipe)
         IN  /\ phase = "transfer" /\ UNCHANGED <<startup, line, wx, objects, moved>>
             /\ Flows(pipe) /\ pipe.x < 160 /\ Flows(p) /\ p.x = pipe.x
             /\ StripsInOrder(pipe, shown) /\ StripsInOrder(p, shown)
             /\ Promise => ObjectsInOrder(p)
             /\ \/ pipe' = p /\ shown' = shown /\ phase' = phase
                \/ /\ pipe' = Line!Pop(p) /\ shown' = Drawing(p, shown) /\ p.bg # <<>>
                   /\ phase' = IF Line!Draws(p) /\ p.x + 1 >= 160 THEN "idle" ELSE phase
                   /\ pipe.fetcher.mode = "background" => Place(pipe) # StartOf(wx)
                   /\ SameBut(pipe, p, {"fetcher", "bg"})
                   /\ p.fetcher.mode = pipe.fetcher.mode /\ p.fetcher.mode # "object"
                   /\ Fetching(p) = {} /\ Line!Due(p) = {}
<1> DEFINE p == Line!RunFetcher(pipe)
           stalls == \/ Line!IsFetchingObject(pipe.fetcher) \/ Line!IsFetchingObject(p.fetcher)
                     \/ p.bg = <<>>
           draws == ~stalls /\ Line!Draws(p)
<1>1. /\ pipe' = IF stalls THEN p ELSE Line!Pop(p)
      /\ shown' = IF ~draws THEN shown
                  ELSE [strip |-> Head(p.bg).strip, column |-> Head(p.bg).column,
                        object |-> IF p.obj = <<>> THEN Line!NoObject ELSE Head(p.obj),
                        blanked |-> p.blankNext]
      /\ phase' = IF draws /\ p.x + 1 >= 160 THEN "idle" ELSE phase
      /\ phase = "transfer" /\ UNCHANGED <<startup, line, wx, objects, moved>>
  BY DEF Line!HandlePixelTransfer
<1>2. Flows(pipe) /\ pipe.x < 160 /\ StripsInOrder(pipe, shown)
  BY <1>1 DEF LineInv, LineStarted
<1>3. Flows(p) /\ p.x = pipe.x
  BY <1>2, RunFetcherFlows DEF FlowsFrom
<1>4. StripsInOrder(p, shown)
  BY <1>2, RunFetcherShape
<1>5. Promise => ObjectsInOrder(p)
  BY <1>1, <1>2, RunFetcherObjects DEF LineStarted
<1>6. ~stalls =>
        /\ pipe.fetcher.mode = "background" => Place(pipe) # StartOf(wx)
        /\ Line!Due(pipe) = {}
        /\ SameBut(pipe, p, {"fetcher", "bg"}) /\ p.fetcher.mode = pipe.fetcher.mode
        /\ p.fetcher.mode # "object" /\ ~p.fetcher.objectPending
  BY <1>2, Flowing
<1>7. ~stalls => p.bg # <<>>
  OBVIOUS
<1> HIDE DEF p, stalls
<1>8. SameBut(pipe, p, {"fetcher", "bg"}) => Line!Due(p) = Line!Due(pipe)
  BY DEF SameBut, Line!Due
<1>9. ~p.fetcher.objectPending /\ p.fetcher.mode # "object" => Fetching(p) = {}
  BY DEF Fetching, Line!IsFetchingObject
<1>10. CASE stalls
  BY <1>1, <1>2, <1>3, <1>4, <1>5, <1>10 DEF p
<1>11. CASE ~stalls
  <2>1. shown' = Drawing(p, shown)
    BY <1>1, <1>11 DEF Drawing
  <2>2. phase' = IF Line!Draws(p) /\ p.x + 1 >= 160 THEN "idle" ELSE phase
    BY <1>1, <1>11
  <2>3. pipe' = Line!Pop(p)
    BY <1>1, <1>11
  <2>4. /\ pipe.fetcher.mode = "background" => Place(pipe) # StartOf(wx)
        /\ SameBut(pipe, p, {"fetcher", "bg"})
        /\ p.fetcher.mode = pipe.fetcher.mode /\ p.fetcher.mode # "object"
        /\ Fetching(p) = {} /\ Line!Due(p) = {} /\ p.bg # <<>>
    BY <1>6, <1>7, <1>8, <1>9, <1>11
  <2>5. QED
    BY <1>1, <1>2, <1>3, <1>4, <1>5, <2>1, <2>2, <2>3, <2>4 DEF p
<1>12. QED
  BY <1>10, <1>11

LEMMA StripsNext ==
  ASSUME UNCHANGED line, NEW p, NEW last, p = pipe', last = shown', StripsInOrder(p, last)
  PROVE  StripsInOrder(pipe, shown)'
BY DEF StripsInOrder, FetchesInOrder, Blank, RowInOrder, OnBackground, OnWindow, Base, Tiles,
       NextColumn, LeftOf, StartOf

LEMMA ObjectsNext ==
  ASSUME UNCHANGED <<line, wx, objects>>, NEW p, p = pipe', ObjectsInOrder(p)
  PROVE  ObjectsInOrder(pipe)'
<1>1. /\ Fetching(pipe)' = Fetching(p) /\ Taken(pipe)' = Taken(p)
      /\ Waiting(pipe)' = Waiting(p) /\ Merged(pipe)' = Merged(p)
      /\ Place(pipe)' = Place(p) /\ FetchX(pipe)' = FetchX(p)
  BY DEF Fetching, Taken, Waiting, Merged, Place, FetchX, Line!IsFetchingObject
<1>2. /\ NoWindowHere(pipe)' <=> NoWindowHere(p)
      /\ \A c \in Int : ObjectAt(pipe, c)' = ObjectAt(p, c)
  BY <1>1 DEF NoWindowHere, Base, StartOf, ObjectAt, Line!NoObject
<1>3. QueueInOrder(pipe)'
  BY <1>1 DEF QueueInOrder, ObjectsInOrder, Sooner
<1>4. FifoInOrder(pipe)'
  BY <1>1, <1>2 DEF FifoInOrder, ObjectsInOrder, Front, Covers, InFront, Line!NoObject
<1>5. QED
  BY <1>1, <1>2, <1>3, <1>4 DEF ObjectsInOrder

LEMMA LineTransfers ==
  ASSUME LineInv, LineStarted, Line!HandlePixelTransfer
  PROVE  LineStarted'
<1> DEFINE p == Line!RunFetcher(pipe)
<1>1. /\ phase = "transfer" /\ UNCHANGED <<startup, line, wx, objects, moved>>
      /\ Flows(pipe) /\ pipe.x < 160 /\ Flows(p) /\ p.x = pipe.x
      /\ StripsInOrder(p, shown) /\ (Promise => ObjectsInOrder(p))
      /\ \/ pipe' = p /\ shown' = shown /\ phase' = phase
         \/ /\ pipe' = Line!Pop(p) /\ shown' = Drawing(p, shown) /\ p.bg # <<>>
            /\ phase' = IF Line!Draws(p) /\ p.x + 1 >= 160 THEN "idle" ELSE phase
            /\ p.fetcher.mode # "object"
            /\ Fetching(p) = {} /\ Line!Due(p) = {}
  BY Transferred
<1> HIDE DEF p
<1>2. Promise' <=> Promise
  BY <1>1 DEF Promise
<1>3. pipe.x = 0 => shown = Line!NoPixel
  BY <1>1 DEF LineStarted
<1>4. /\ StripsInOrder(pipe, shown)' /\ (Promise => ObjectsInOrder(pipe)')
      /\ pipe'.x = 0 => shown' = Line!NoPixel
  <2>1. CASE pipe' = p /\ shown' = shown
    BY <1>1, <1>3, <2>1, StripsNext, ObjectsNext
  <2>2. CASE /\ pipe' = Line!Pop(p) /\ shown' = Drawing(p, shown) /\ p.bg # <<>>
             /\ p.fetcher.mode # "object" /\ Fetching(p) = {} /\ Line!Due(p) = {}
    <3>1. StripsInOrder(Line!Pop(p), Drawing(p, shown))
      BY <1>1, <2>2, PopStrips
    <3>2. Promise => ObjectsInOrder(Line!Pop(p))
      BY <1>1, <2>2, PopObjects
    <3>3. Line!Pop(p).x = IF Line!Draws(p) THEN p.x + 1 ELSE p.x
      BY <1>1, <2>2, PopFlows
    <3> HIDE DEF Drawing
    <3>4. pipe'.x = 0 => shown' = Line!NoPixel
      <4>1. p.x \in Nat
        BY <1>1, Numbers
      <4>2. CASE Line!Draws(p)
        BY <2>2, <3>3, <4>1, <4>2
      <4>3. CASE ~Line!Draws(p)
        <5>1. Drawing(p, shown) = shown
          BY <4>3 DEF Drawing
        <5>2. QED
          BY <1>1, <1>3, <2>2, <3>3, <4>3, <5>1
      <4>4. QED
        BY <4>2, <4>3
    <3>5. QED
      BY <1>1, <2>2, <3>1, <3>2, <3>4, StripsNext, ObjectsNext
  <2>3. QED
    BY <1>1, <2>1, <2>2
<1>5. QED
  BY <1>1, <1>2, <1>4 DEF LineStarted

LEMMA StartedStep ==
  ASSUME LineInv, LineStarted, [Line!Next]_Line!vars
  PROVE  LineStarted'
<1>1. ASSUME NEW l, Line!OamSearch(l)
      PROVE  LineStarted'
  <2>1. /\ phase' = "found" /\ ~moved' /\ shown' = Line!NoPixel
        /\ pipe' = [Line!EmptyPipe EXCEPT !.fetched = line'.gone]
    BY <1>1 DEF Line!OamSearch
  <2>2. QED
    BY <2>1 DEF LineStarted, Line!EmptyPipe, Line!Idle, Line!NotBegun, Line!NoPixel, Line!NoObject
<1>2. CASE Line!StartLine
  BY <1>2, LineStarts
<1>3. CASE Line!HandlePixelTransfer
  BY <1>3, LineTransfers
<1>4. CASE Line!LcdOff
  BY <1>4 DEF Line!LcdOff, LineStarted
<1>5. ASSUME NEW value, Line!WriteWindow(value)
      PROVE  LineStarted'
  <2>1. /\ phase = "transfer" /\ phase' = phase /\ moved' = TRUE
        /\ UNCHANGED <<line, pipe, shown>>
    BY <1>5 DEF Line!WriteWindow
  <2>2. StripsInOrder(pipe, shown)'
    BY <2>1, StripsNext DEF LineStarted
  <2>3. QED
    BY <2>1, <2>2 DEF LineStarted, Promise, Line!NoPixel, Line!NoObject
<1>6. CASE UNCHANGED Line!vars
  <2>1. UNCHANGED <<phase, line, wx, objects, pipe, shown, moved>>
    BY <1>6 DEF Line!vars
  <2>2. Promise' <=> Promise
    BY <2>1 DEF Promise
  <2>3. phase = "transfer" => StripsInOrder(pipe, shown)' /\ (Promise => ObjectsInOrder(pipe)')
    BY <2>1, StripsNext, ObjectsNext DEF LineStarted
  <2>4. QED
    BY <2>1, <2>2, <2>3 DEF LineStarted, Line!EmptyPipe, Line!Idle, Line!NotBegun, Line!NoPixel,
                            Line!NoObject
<1>7. QED
  BY <1>1, <1>2, <1>3, <1>4, <1>5, <1>6 DEF Line!Next

-----------------------------------------------------------------------------
(* The refinement: the steps of a line, as those of ScanLine.              *)

\* What is in the FIFO for a column is the foremost of all objects there.
LEMMA ForemostIsDrawn ==
  ASSUME kind = "line", LineInv, NEW p, Flows(p), ObjectsInOrder(p),
         Fetching(p) = {}, Line!Due(p) = {}, p.initial = 0, p.scx = line.scx, p.x = pipe.x
  PROVE  (IF p.obj = <<>> THEN Line!NoObject ELSE Head(p.obj)) = Drawn!Foremost(pipe.x)
<1> DEFINE c == pipe.x
           pixel == IF p.obj = <<>> THEN Line!NoObject ELSE Head(p.obj)
           all == Line!Promised
           covering == {i \in DOMAIN all :
                          all[i].opaque /\ c \in all[i].x - 8 .. all[i].x - 1}
<1>1. c \in Int /\ Place(p) = c /\ FetchX(p) = c
  BY Places, Numbers
<1>2. pixel = ObjectAt(p, c)
  <2>1. CASE p.obj = <<>>
    <3>1. Len(<<>>) = 0 /\ ~(c - c < 0)
      BY <1>1
    <3>2. QED
      BY <1>1, <2>1, <3>1 DEF ObjectAt
  <2>2. CASE p.obj # <<>>
    <3>1. Len(p.obj) \in Nat /\ Len(p.obj) >= 1 /\ Head(p.obj) = p.obj[1]
      BY <2>2, FifoTail DEF Flows, Pipe
    <3>2. c - c < Len(p.obj) /\ c - c + 1 = 1
      BY <1>1, <3>1
    <3>3. QED
      BY <1>1, <2>2, <3>1, <3>2 DEF ObjectAt
  <2>3. QED
    BY <2>1, <2>2
<1>3. Front(pixel, Merged(p), c)
  <2>1. c >= Place(p)
    BY <1>1
  <2>2. QED
    BY <1>1, <1>2, <2>1 DEF ObjectsInOrder, FifoInOrder
<1> HIDE DEF pixel
<1>4. all = [i \in DOMAIN objects \ line.gone |-> objects[i]]
  BY DEF Line!Promised
<1>5. covering = {i \in Merged(p) : Covers(i, c)}
  <2>1. ASSUME NEW i \in Waiting(p)
        PROVE  ~Covers(i, c)
    <3>1. ~(FetchX(p) + 8 >= objects[i].x)
      BY DEF Line!Due, Waiting, FetchX, Place
    <3>2. objects[i].x \in Nat
      BY Places, ObjectNumbers
    <3>3. QED
      BY <1>1, <3>1, <3>2 DEF Covers
  <2>2. DOMAIN all = Merged(p) \union Waiting(p)
    <3>1. line.gone \subseteq p.fetched /\ p.fetched \subseteq DOMAIN objects
      BY Places DEF ObjectsInOrder, QueueInOrder
    <3>2. QED
      BY <1>4, <3>1 DEF Merged, Taken, Waiting
  <2>3. \A i \in DOMAIN all : all[i] = objects[i]
    BY <1>4
  <2> HIDE DEF all
  <2>4. QED
    BY <2>1, <2>2, <2>3 DEF Covers
<1>6. Merged(p) \subseteq DOMAIN objects /\ Merged(p) \subseteq DOMAIN all
  BY <1>4, Places DEF Merged, Taken
<1>7. \A i, j \in Merged(p) : Drawn!Before(i, j) <=> InFront(i, j)
  BY <1>4, <1>6 DEF Drawn!Before, InFront
<1>8. Drawn!Foremost(c) =
        IF covering = {} THEN Line!NoObject
        ELSE LET i == CHOOSE i \in covering : \A j \in covering \ {i} : Drawn!Before(i, j)
             IN  [object |-> i, column |-> c - (all[i].x - 8)]
  BY DEF Drawn!Foremost
<1>9. pixel = Line!NoObject => pixel.object = 0 /\ 0 \notin DOMAIN objects
  <2>1. DOMAIN objects = 1 .. Len(objects)
    BY LenProperties DEF LineInv
  <2>2. QED
    BY <2>1 DEF Line!NoObject
<1> HIDE DEF c, all, covering
<1>10. CASE pixel = Line!NoObject
  <2>1. covering = {}
    BY <1>3, <1>5, <1>6, <1>9, <1>10 DEF Front
  <2>2. QED
    BY <1>8, <1>10, <2>1 DEF pixel, c
<1>11. CASE pixel # Line!NoObject
  <2> DEFINE i == pixel.object
             First(k) == k \in covering /\ \A j \in covering \ {k} : Drawn!Before(k, j)
  <2>1. /\ i \in Merged(p) /\ Covers(i, c)
        /\ pixel = [object |-> i, column |-> c - (objects[i].x - 8)]
        /\ \A j \in Merged(p) \ {i} : Covers(j, c) => InFront(i, j)
    BY <1>3, <1>11 DEF Front
  <2> HIDE DEF i
  <2>2. First(i)
    BY <1>5, <1>7, <2>1
  <2>3. ASSUME NEW k, First(k)
        PROVE  k = i
    <3>1. SUFFICES ASSUME k # i PROVE FALSE
      OBVIOUS
    <3>2. Drawn!Before(k, i) /\ Drawn!Before(i, k) /\ k \in Merged(p)
      BY <1>5, <2>2, <2>3, <3>1
    <3>3. InFront(k, i) /\ InFront(i, k)
      BY <1>7, <2>1, <3>2
    <3>4. QED
      BY <1>6, <2>1, <3>2, <3>3, InFrontIsOrder
  <2>4. (CHOOSE k \in covering : \A j \in covering \ {k} : Drawn!Before(k, j)) = i
    BY <2>2, <2>3
  <2>5. all[i] = objects[i] /\ covering # {}
    BY <1>4, <1>6, <2>1, <2>2
  <2>6. QED
    BY <1>8, <2>1, <2>4, <2>5 DEF pixel, c
<1>12. QED
  BY <1>10, <1>11

\* The pixel drawn is the next of the background or of the window.
LEMMA StripIsDrawn ==
  ASSUME kind = "line", kind' = "line", LineInv, LineStarted, Line!HandlePixelTransfer,
         Line!Draws(Line!RunFetcher(pipe)), shown' # shown \/ pipe' # Line!RunFetcher(pipe)
  PROVE  /\ Drawn!Background(shown') \/ Drawn!Window(shown')
         /\ shown'.blanked => pipe.x = 0
         /\ Line!WindowBegins' = Line!WindowBegins
         /\ pipe'.x = pipe.x + 1 /\ (phase' = "transfer" <=> pipe.x + 1 < 160)
         /\ Drawn!ObjectsPromised => shown'.object = Drawn!Foremost(pipe.x)
<1> DEFINE p == Line!RunFetcher(pipe)
<1>1. /\ phase = "transfer" /\ UNCHANGED <<line, wx, objects, moved>>
      /\ Flows(pipe) /\ pipe.x < 160 /\ Flows(p) /\ p.x = pipe.x
      /\ StripsInOrder(pipe, shown) /\ StripsInOrder(p, shown)
      /\ Promise => ObjectsInOrder(p)
      /\ pipe' = Line!Pop(p) /\ shown' = Drawing(p, shown) /\ p.bg # <<>>
      /\ phase' = IF Line!Draws(p) /\ p.x + 1 >= 160 THEN "idle" ELSE phase
      /\ pipe.fetcher.mode = "background" => Place(pipe) # StartOf(wx)
      /\ SameBut(pipe, p, {"fetcher", "bg"})
      /\ p.fetcher.mode = pipe.fetcher.mode /\ p.fetcher.mode # "object"
      /\ Fetching(p) = {} /\ Line!Due(p) = {}
  BY Transferred
<1>2. Line!Draws(p)
  OBVIOUS
<1> HIDE DEF p
<1>3. /\ p.initial = 0 /\ p.scx = line.scx /\ p.clip = 0 /\ p.x \in Nat
      /\ line.scx \in Nat
  BY <1>1, <1>2, Numbers DEF Line!Draws
<1>4. /\ pipe.initial = 0 /\ pipe.begun = p.begun /\ Place(pipe) = pipe.x
  BY <1>1, <1>3 DEF SameBut, Place
<1>5. pipe'.x = pipe.x + 1 /\ pipe'.begun = pipe.begun
  <2>1. pipe'.begun = p.begun
    BY <1>1, PopShape DEF SameBut
  <2>2. QED
    BY <1>1, <1>2, <1>4, <2>1, PopFlows
<1>6. Line!WindowBegins' = Line!WindowBegins
  BY <1>1, <1>5 DEF Line!WindowBegins, Line!NotBegun
<1>7. phase' = "transfer" <=> pipe.x + 1 < 160
  BY <1>1, <1>2, <1>3
<1>8. shown'.blanked = p.blankNext /\ shown'.strip = p.fetcher.mode
      /\ shown'.column = NextColumn(p)
      /\ shown'.object = IF p.obj = <<>> THEN Line!NoObject ELSE Head(p.obj)
  BY <1>1, <1>2, PopStrips DEF Drawing
<1>9. shown'.blanked => pipe.x = 0
  BY <1>1, <1>8 DEF StripsInOrder
<1>10. Base(p) = p.fetcher /\ Base(pipe) = pipe.fetcher
       /\ p.fetcher.mode \in {"background", "window"}
  <2>1. p.fetcher \in Fetcher
    BY <1>1, Numbers
  <2>2. QED
    BY <1>1, <2>1 DEF Base, Fetcher
<1> DEFINE begins == Line!WindowBegins
<1>11. Drawn!WindowStart = StartOf(begins) /\ Drawn!WindowLeft = LeftOf(begins)
  BY DEF Drawn!WindowStart, Drawn!WindowLeft, StartOf, LeftOf
<1>12. ASSUME p.fetcher.mode = "background"
       PROVE  Drawn!Background(shown')
  <2>1. p.begun = Line!NotBegun /\ NextColumn(p) = p.scx + p.x
        /\ (pipe.x > 0 => shown.strip = "background")
    BY <1>1, <1>3, <1>10, <1>12 DEF StripsInOrder, OnBackground
  <2>2. begins = wx
    BY <1>4, <2>1 DEF Line!WindowBegins
  <2>3. pipe.x # Drawn!WindowStart
    BY <1>1, <1>4, <1>11, <1>12, <2>2
  <2>4. shown'.strip = "background" /\ shown'.column = line.scx + pipe.x
        /\ (pipe.x = 0 \/ shown.strip = "background")
    BY <1>1, <1>3, <1>8, <1>12, <2>1
  <2>5. Drawn!Background(shown')
    BY <2>3, <2>4, Zenon DEF Drawn!Background
  <2>6. QED
    BY <2>5
<1>13. ASSUME p.fetcher.mode = "window"
       PROVE  Drawn!Window(shown')
  <2>1. /\ p.begun \in 0 .. 255
        /\ IF p.x > 0 /\ shown.strip = "window"
           THEN NextColumn(p) = shown.column + 1
           ELSE p.x = StartOf(p.begun) /\ NextColumn(p) = LeftOf(p.begun) - p.clip
    BY <1>1, <1>10, <1>13 DEF StripsInOrder, OnWindow
  <2>2. begins = p.begun /\ LeftOf(p.begun) \in Int
    BY <1>4, <2>1 DEF Line!WindowBegins, Line!NotBegun, LeftOf
  <2>3. IF pipe.x > 0 /\ shown.strip = "window"
        THEN shown'.column = shown.column + 1
        ELSE shown'.column = Drawn!WindowLeft /\ pipe.x = Drawn!WindowStart
    BY <1>1, <1>3, <1>8, <1>11, <2>1, <2>2
  <2>4. shown'.strip = "window"
    BY <1>8, <1>13
  <2>5. Drawn!Window(shown')
    BY <2>3, <2>4, Zenon DEF Drawn!Window
  <2>6. QED
    BY <2>5
<1>14. Drawn!ObjectsPromised => shown'.object = Drawn!Foremost(pipe.x)
  <2>1. Drawn!ObjectsPromised => Promise
    <3>1. Line!Promised = [i \in DOMAIN objects \ line.gone |-> objects[i]]
      BY DEF Line!Promised
    <3>2. QED
      BY <3>1 DEF Drawn!ObjectsPromised, Promise
  <2>2. Promise => shown'.object = Drawn!Foremost(pipe.x)
    BY <1>1, <1>3, <1>8, ForemostIsDrawn
  <2>3. QED
    BY <2>1, <2>2
<1>15. QED
  BY <1>5, <1>6, <1>7, <1>9, <1>10, <1>12, <1>13, <1>14

LEMMA LineIsDrawn ==
  ASSUME kind = "line", kind' = "line", LineInv, LineStarted, [Line!Next]_Line!vars
  PROVE  [Drawn!Next]_Drawn!vars
<1>1. ASSUME NEW l, Line!OamSearch(l)
      PROVE  Drawn!Rest
  <2>1. phase' = "found" /\ pipe'.x = 0
    BY <1>1 DEF Line!OamSearch, Line!EmptyPipe
  <2>2. QED
    BY <2>1 DEF Drawn!Rest
<1>2. ASSUME Line!StartLine
      PROVE  Drawn!Begin
  <2>1. phase = "found" /\ phase' = "transfer" /\ pipe'.x = 0
    BY <1>2 DEF Line!StartLine, LineStarted, Line!EmptyPipe
  <2>2. QED
    BY <2>1 DEF Drawn!Begin
<1>3. ASSUME Line!LcdOff
      PROVE  Drawn!Rest
  <2>1. phase' = "idle" /\ pipe'.x = 0
    BY <1>3 DEF Line!LcdOff, Line!EmptyPipe
  <2>2. QED
    BY <2>1 DEF Drawn!Rest
<1>4. ASSUME NEW value, Line!WriteWindow(value)
      PROVE  Drawn!MoveWindow
  BY <1>4 DEF Line!WriteWindow, Line!Promised, Drawn!MoveWindow
<1>5. CASE Line!HandlePixelTransfer
  <2> DEFINE p == Line!RunFetcher(pipe)
  <2>1. /\ phase = "transfer" /\ UNCHANGED <<startup, line, wx, objects, moved>>
        /\ Flows(pipe) /\ pipe.x < 160 /\ Flows(p) /\ p.x = pipe.x
        /\ \/ pipe' = p /\ shown' = shown /\ phase' = phase
           \/ /\ pipe' = Line!Pop(p) /\ shown' = Drawing(p, shown) /\ p.bg # <<>>
              /\ phase' = IF Line!Draws(p) /\ p.x + 1 >= 160 THEN "idle" ELSE phase
    BY <1>5, Transferred
  <2>2. Line!Promised' = Line!Promised
    BY <2>1 DEF Line!Promised
  <2>3. CASE pipe' = p /\ shown' = shown
    <3> HIDE DEF p
    <3>1. phase' = phase
      <4>1. pipe' = Line!Pop(p) /\ p.bg # <<>> => pipe'.bg # p.bg
        <5>1. p.bg # <<>> => Line!Pop(p).bg = Tail(p.bg)
          BY <2>1, PopShape
        <5>2. p.bg # <<>> => Len(Tail(p.bg)) = Len(p.bg) - 1 /\ Len(p.bg) \in Nat
          BY <2>1, FifoTail DEF Flows, Pipe
        <5>3. ASSUME p.bg # <<>>, Tail(p.bg) = p.bg
              PROVE  FALSE
          <6> DEFINE length == Len(p.bg)
          <6>1. length = length - 1 /\ length \in Nat
            BY <5>2, <5>3
          <6> HIDE DEF length
          <6>2. QED
            BY <6>1
        <5>4. QED
          BY <5>1, <5>3
      <4>2. QED
        BY <2>1, <2>3, <4>1
    <3>2. QED
      BY <2>1, <2>2, <2>3, <3>1 DEF Drawn!MoveWindow, Drawn!Next
  <2>4. CASE ~(pipe' = p /\ shown' = shown) /\ ~Line!Draws(p)
    <3>1. Line!Pop(p).x = p.x /\ phase' = phase /\ shown' = shown
      BY <2>1, <2>4, PopFlows DEF Drawing
    <3> HIDE DEF p
    <3>2. pipe'.x = pipe.x
      BY <2>1, <2>4, <3>1
    <3>3. QED
      BY <2>1, <2>2, <3>1, <3>2 DEF Drawn!MoveWindow, Drawn!Next
  <2>5. CASE ~(pipe' = p /\ shown' = shown) /\ Line!Draws(p)
    <3>1. /\ Drawn!Background(shown') \/ Drawn!Window(shown')
          /\ shown'.blanked => pipe.x = 0
          /\ Line!WindowBegins' = Line!WindowBegins
          /\ pipe'.x = pipe.x + 1 /\ (phase' = "transfer" <=> pipe.x + 1 < 160)
          /\ Drawn!ObjectsPromised => shown'.object = Drawn!Foremost(pipe.x)
      BY <1>5, <2>5, StripIsDrawn
    <3> HIDE DEF p
    <3>2. Drawn!Draw
      BY <2>1, <2>2, <3>1 DEF Drawn!Draw
    <3>3. QED
      BY <3>2 DEF Drawn!Next
  <2>6. QED
    BY <2>3, <2>4, <2>5
<1>6. CASE UNCHANGED Line!vars
  <2>1. Line!Promised' = Line!Promised /\ Line!WindowBegins' = Line!WindowBegins
    BY <1>6 DEF Line!vars, Line!Promised, Line!WindowBegins, Line!NotBegun
  <2>2. QED
    BY <1>6, <2>1 DEF Line!vars, Drawn!vars
<1>7. QED
  BY <1>1, <1>2, <1>3, <1>4, <1>5, <1>6 DEF Line!Next, Drawn!Next

DrawingInv == kind = "line" => LineInv /\ LineStarted

LEMMA DrawingInductive ==
  /\ Init => DrawingInv
  /\ DrawingInv /\ [Next]_vars => DrawingInv'
<1>1. Init => DrawingInv
  <2>1. Line!Init => LineStarted
    BY DEF Line!Init, LineStarted
  <2>2. QED
    BY <2>1, LineInit DEF Init, DrawingInv
<1>2. ASSUME DrawingInv, [Next]_vars, kind = "line"
      PROVE  LineInv' /\ LineStarted'
  <2>1. [Line!Next]_Line!vars
    BY <1>2 DEF Next, vars, lineVars, Line!vars
  <2>2. QED
    BY <1>2, <2>1, LineStep, StartedStep, HardwareAssumption DEF DrawingInv
<1>3. QED
  BY <1>1, <1>2, KindStays DEF DrawingInv

\* What the renderer draws of a line is what ScanLine promises, whatever the
\* line, its objects, and what the program does during it: the background from
\* the column it is scrolled to, the window from its edge, without a gap or a
\* repetition, at each place the foremost object.  With the end of each line,
\* which is liveness, that is DrawsTheLine.
THEOREM DrawingTheorem ==
  /\ Spec => Drawn!Safety
  /\ Spec /\ Drawn!LinesEnd => DrawsTheLine
<1>1. Init => Drawn!Init
  BY DEF Init, Line!Init, Drawn!Init
<1>2. DrawingInv /\ [Next]_vars => [Drawn!Next]_Drawn!vars
  <2>1. ASSUME DrawingInv, [Next]_vars, kind = "line"
        PROVE  [Drawn!Next]_Drawn!vars
    <3>1. [Line!Next]_Line!vars /\ kind' = "line"
      BY <2>1, KindStays DEF Next, vars, lineVars, Line!vars
    <3>2. QED
      BY <2>1, <3>1, LineIsDrawn DEF DrawingInv
  <2>2. ASSUME [Next]_vars, kind # "line"
        PROVE  UNCHANGED Drawn!vars
    <3>1. kind' # "line"
      BY <2>2, KindStays
    <3>2. QED
      BY <2>2, <3>1 DEF Drawn!vars
  <2>3. QED
    BY <2>1, <2>2
<1>3. Spec => Drawn!Safety
  BY <1>1, <1>2, DrawingInductive, PTL DEF Spec, Drawn!Safety
<1>4. QED
  BY <1>3, PTL DEF DrawsTheLine, Drawn!Spec

-----------------------------------------------------------------------------
(* The time a line takes: every call of handlePixelTransfer() brings its end *)
(* nearer, by a count of the calls that may be left.                       *)

Short(n) == IF n < 2 THEN 2 - n ELSE 0

\* Dots until fetcher f can push a row, and until it can give way to an object.
UntilRow(g) ==
  IF g.rowPushed THEN Short(g.age) + 6
  ELSE IF g.state = "tile" THEN Short(g.age) + 4
  ELSE IF g.state = "low" THEN Short(g.age) + 2
  ELSE IF g.state = "high" THEN Short(g.age) ELSE 0

UntilStep5(g) ==
  IF g.state = "tile" THEN Short(g.age) + 3
  ELSE IF g.state = "low" THEN Short(g.age) + 1
  ELSE IF g.state = "high" /\ g.age = 0 THEN 1 ELSE 0

\* Calls that find the FIFO empty.
Lack(dots, pixels) == IF dots > pixels THEN dots - pixels ELSE 0
Starved(p) == Lack(UntilRow(Base(p)), Len(p.bg))

\* Calls until the object that is being fetched has been, one of them for the
\* fetch of the background that it throws back.
ForObject(p) ==
  IF p.fetcher.mode = "object"
  THEN IF p.fetcher.state = "low" THEN Short(p.fetcher.age) + 5
       ELSE IF p.fetcher.age < 3 THEN 5 - p.fetcher.age ELSE 2
  ELSE IF ~p.fetcher.objectPending THEN 0
  ELSE IF p.bg = <<>> THEN 12 ELSE UntilStep5(p.fetcher) + 7

\* Pixels still to be discarded or drawn.
PixelsLeft(p) == (160 - p.x) + p.initial + (line.scx - p.scx) + p.clip

\* A window and objects that may still be due.
Ahead(p) ==
  (IF Base(p).mode = "background" THEN 13 ELSE 0) + 13 * Cardinality(Waiting(p))

CallsLeft(p) == PixelsLeft(p) + Ahead(p) + Starved(p) + ForObject(p)

\* Of a fetch, a row is pushed at its end.
Timely(p) == Base(p).rowPushed => Base(p).state = "sleep"

LEMMA PushRowTable ==
  ASSUME NEW p, Flows(p)
  PROVE  LET n == Line!PushRow(p)
             g == p.fetcher
             h == n.fetcher
         IN  /\ h.age = g.age /\ h.state = g.state
             /\ \/ n = p /\ (g.rowPushed \/ p.bg # <<>>)
                \/ ~g.rowPushed /\ p.bg = <<>> /\ Len(n.bg) = 8 /\ h.rowPushed
<1> DEFINE n == Line!PushRow(p)
<1>1. \/ n = p /\ (p.fetcher.rowPushed \/ p.bg # <<>>)
      \/ /\ p.bg = <<>> /\ ~p.fetcher.rowPushed
         /\ n.fetcher = [p.fetcher EXCEPT !.rowPushed = TRUE] /\ Len(n.bg) = 8
  BY PushRowShape
<1> HIDE DEF n
<1>2. QED
  BY <1>1 DEF Flows, Pipe, Fetcher, n

LEMMA AdvanceTable ==
  ASSUME NEW p, Flows(p), NEW last, StripsInOrder(p, last), p.fetcher.mode # "object"
  PROVE  LET n == Line!Advance(p)
             g == p.fetcher
             h == n.fetcher
             Stays == n.bg = p.bg /\ h.rowPushed = g.rowPushed
             Pushes == ~g.rowPushed /\ p.bg = <<>> /\ Len(n.bg) = 8
         IN  /\ h.age = g.age
             /\ \/ g.state \in {"tile", "low", "high"} /\ g.age < 2 /\ h.state = g.state /\ Stays
                \/ g.state = "tile" /\ g.age >= 2 /\ h.state = "low" /\ Stays
                \/ g.state = "low" /\ g.age >= 2 /\ h.state = "high" /\ Stays
                \/ /\ \/ g.state = "high" /\ g.age >= 2
                      \/ g.state = "sleep" /\ g.age < 2
                   /\ h.state = "sleep"
                   /\ \/ Stays /\ (g.rowPushed \/ p.bg # <<>>)
                      \/ Pushes /\ h.rowPushed
                \/ /\ g.state = "push" \/ (g.state = "sleep" /\ g.age >= 2)
                   /\ \/ /\ h.state = "tile" /\ ~h.rowPushed
                         /\ \/ g.rowPushed /\ n.bg = p.bg
                            \/ Pushes
                      \/ h.state = "push" /\ Stays /\ ~g.rowPushed /\ p.bg # <<>>
<1> DEFINE n == Line!Advance(p)
           g == p.fetcher
           pushed == Line!PushRow(p)
           e == Line!Enter(p, "sleep")
           Is(m, state) == m.fetcher.state = state /\ m.fetcher.age = g.age
           Like(q, m) == m.bg = q.bg /\ m.fetcher.rowPushed = q.fetcher.rowPushed
<1>1. g.state \in {"tile", "low", "high", "sleep", "push"} /\ g.age \in Nat
  BY DEF Flows, Pipe, Fetcher
<1>2. ASSUME NEW q, Flows(q), StripsInOrder(q, last), q.fetcher.mode # "object",
             q.fetcher.age = g.age, NEW state \in {"low", "high", "sleep", "push"}
      PROVE  Flows(Line!Enter(q, state)) /\ Is(Line!Enter(q, state), state)
             /\ Like(q, Line!Enter(q, state))
  <2> DEFINE m == Line!Enter(q, state)
  <2>1. /\ Flows(m) /\ SameBut(q, m, {"fetcher"})
        /\ m.fetcher = [q.fetcher EXCEPT !.state = state]
    BY <1>2, EnterStrips
  <2> HIDE DEF m
  <2>2. m.fetcher.state = state /\ m.fetcher.age = g.age
        /\ m.fetcher.rowPushed = q.fetcher.rowPushed
    BY <1>2, <2>1 DEF Flows, Pipe, Fetcher
  <2>3. QED
    BY <2>1, <2>2 DEF m, SameBut
<1>3. /\ Flows(pushed) /\ StripsInOrder(pushed, last) /\ pushed.fetcher.mode # "object"
      /\ Is(pushed, g.state)
      /\ \/ pushed = p /\ (g.rowPushed \/ p.bg # <<>>)
         \/ ~g.rowPushed /\ p.bg = <<>> /\ Len(pushed.bg) = 8 /\ pushed.fetcher.rowPushed
  <2>1. Flows(pushed)
    BY PushRowFlows DEF FlowsFrom
  <2>2. /\ StripsInOrder(pushed, last)
        /\ pushed.fetcher = [g EXCEPT !.rowPushed = pushed.fetcher.rowPushed]
    BY PushRowStrips
  <2>3. /\ Is(pushed, g.state)
        /\ \/ pushed = p /\ (g.rowPushed \/ p.bg # <<>>)
           \/ ~g.rowPushed /\ p.bg = <<>> /\ Len(pushed.bg) = 8 /\ pushed.fetcher.rowPushed
    BY PushRowTable
  <2> HIDE DEF pushed
  <2>4. pushed.fetcher.mode = g.mode
    BY <2>2 DEF Flows, Pipe, Fetcher
  <2>5. QED
    BY <2>1, <2>2, <2>3, <2>4 DEF pushed
<1>4. ASSUME pushed.fetcher.rowPushed
      PROVE  LET m == Line!NextTile(pushed)
             IN  Is(m, "tile") /\ ~m.fetcher.rowPushed /\ m.bg = pushed.bg
  <2> DEFINE m == Line!NextTile(pushed)
  <2>1. /\ SameBut(pushed, m, {"fetcher"})
        /\ m.fetcher = [pushed.fetcher EXCEPT !.state = "tile", !.rowPushed = FALSE,
                                              !.tileX = @ + 1]
    BY <1>3, <1>4, NextTileStrips
  <2> HIDE DEF m, pushed
  <2>2. m.fetcher.state = "tile" /\ ~m.fetcher.rowPushed /\ m.fetcher.age = g.age
    BY <1>3, <2>1 DEF Flows, Pipe, Fetcher
  <2>3. QED
    BY <2>1, <2>2 DEF m, SameBut
<1>5. CASE g.state = "tile"
  <2>1. n = IF g.age >= 2 THEN Line!Enter(p, "low") ELSE p
    BY <1>5, Zenon DEF Line!Advance
  <2>2. g.age >= 2 \/ g.age < 2
    BY <1>1
  <2> HIDE DEF n
  <2>3. QED
    BY <1>2, <1>5, <2>1, <2>2 DEF n
<1>6. CASE g.state = "low"
  <2>1. n = IF g.age >= 2 THEN Line!Enter(p, "high") ELSE p
    BY <1>6 DEF Line!Advance
  <2>2. g.age >= 2 \/ g.age < 2
    BY <1>1
  <2> HIDE DEF n
  <2>3. QED
    BY <1>2, <1>6, <2>1, <2>2 DEF n
<1>7. CASE g.state = "high"
  <2>1. n = IF g.age >= 2 THEN Line!PushRow(e) ELSE p
    BY <1>7 DEF Line!Advance
  <2>2. g.age >= 2 \/ g.age < 2
    BY <1>1
  <2>3. Flows(e) /\ Is(e, "sleep") /\ Like(p, e)
    BY <1>2
  <2> DEFINE m == Line!PushRow(e)
  <2>4. /\ Is(m, "sleep")
        /\ \/ m = e /\ (e.fetcher.rowPushed \/ e.bg # <<>>)
           \/ ~e.fetcher.rowPushed /\ e.bg = <<>> /\ Len(m.bg) = 8 /\ m.fetcher.rowPushed
    BY <2>3, PushRowTable
  <2> HIDE DEF n, m, e
  <2>5. QED
    BY <1>7, <2>1, <2>2, <2>3, <2>4 DEF n, m
<1>8. CASE g.state = "sleep"
  <2>1. n = IF g.age < 2 THEN pushed
            ELSE IF pushed.fetcher.rowPushed THEN Line!NextTile(pushed)
            ELSE Line!Enter(pushed, "push")
    BY <1>8 DEF Line!Advance
  <2>2. g.age >= 2 \/ g.age < 2
    BY <1>1
  <2>3. Is(Line!Enter(pushed, "push"), "push") /\ Like(pushed, Line!Enter(pushed, "push"))
    BY <1>2, <1>3
  <2> HIDE DEF n, pushed
  <2>4. CASE g.age < 2
    BY <1>3, <1>8, <2>1, <2>4 DEF n
  <2>5. CASE ~(g.age < 2) /\ pushed.fetcher.rowPushed
    BY <1>3, <1>4, <1>8, <2>1, <2>2, <2>5 DEF n
  <2>6. CASE ~(g.age < 2) /\ ~pushed.fetcher.rowPushed
    BY <1>3, <1>8, <2>1, <2>2, <2>3, <2>6 DEF n
  <2>7. QED
    BY <2>4, <2>5, <2>6
<1>9. CASE g.state = "push"
  <2>1. n = IF pushed.fetcher.rowPushed THEN Line!NextTile(pushed) ELSE pushed
    BY <1>9 DEF Line!Advance
  <2> HIDE DEF n, pushed
  <2>2. CASE pushed.fetcher.rowPushed
    BY <1>3, <1>4, <1>9, <2>1, <2>2 DEF n
  <2>3. CASE ~pushed.fetcher.rowPushed
    BY <1>3, <1>9, <2>1, <2>3 DEF n
  <2>4. QED
    BY <2>2, <2>3
<1>10. QED
  BY <1>1, <1>5, <1>6, <1>7, <1>8, <1>9

\* What a T-cycle does to a fetch of the background or the window.
LEMMA FetchAges ==
  ASSUME NEW p, Flows(p), NEW last, StripsInOrder(p, last), p.fetcher.mode # "object",
         Timely(p), NEW n, SameBut(Line!Advance(p), n, {"fetcher"}),
         LET next == Line!Advance(p)
         IN  /\ n.fetcher = [next.fetcher EXCEPT !.age = n.fetcher.age]
             /\ n.fetcher.age = IF next.fetcher.state # p.fetcher.state THEN 1
                                ELSE IF next.fetcher.age < 3 THEN next.fetcher.age + 1
                                ELSE next.fetcher.age
  PROVE  LET g == p.fetcher
             h == n.fetcher
         IN  /\ h.rowPushed => h.state = "sleep"
             /\ \/ UntilRow(g) > 0 /\ UntilRow(h) = UntilRow(g) - 1 /\ n.bg = p.bg
                \/ UntilRow(g) = 0 /\ UntilRow(h) = 0 /\ n.bg = p.bg /\ p.bg # <<>>
                \/ UntilRow(g) = 0 /\ UntilRow(h) <= 7 /\ p.bg = <<>> /\ Len(n.bg) = 8
             /\ \/ UntilStep5(g) > 0 /\ UntilStep5(h) = UntilStep5(g) - 1 /\ UntilRow(g) > 0
                \/ UntilStep5(g) = 0 /\ UntilStep5(h) <= 4
             /\ h.mode = g.mode /\ h.objectPending = g.objectPending
<1> DEFINE next == Line!Advance(p)
           g == p.fetcher
           h == n.fetcher
<1>1. /\ next.fetcher.age = g.age
      /\ \/ /\ g.state \in {"tile", "low", "high"} /\ g.age < 2 /\ next.fetcher.state = g.state
            /\ next.bg = p.bg /\ next.fetcher.rowPushed = g.rowPushed
         \/ /\ g.state = "tile" /\ g.age >= 2 /\ next.fetcher.state = "low"
            /\ next.bg = p.bg /\ next.fetcher.rowPushed = g.rowPushed
         \/ /\ g.state = "low" /\ g.age >= 2 /\ next.fetcher.state = "high"
            /\ next.bg = p.bg /\ next.fetcher.rowPushed = g.rowPushed
         \/ /\ \/ g.state = "high" /\ g.age >= 2
               \/ g.state = "sleep" /\ g.age < 2
            /\ next.fetcher.state = "sleep"
            /\ \/ /\ next.bg = p.bg /\ next.fetcher.rowPushed = g.rowPushed
                  /\ g.rowPushed \/ p.bg # <<>>
               \/ /\ ~g.rowPushed /\ p.bg = <<>> /\ Len(next.bg) = 8
                  /\ next.fetcher.rowPushed
         \/ /\ g.state = "push" \/ (g.state = "sleep" /\ g.age >= 2)
            /\ \/ /\ next.fetcher.state = "tile" /\ ~next.fetcher.rowPushed
                  /\ \/ g.rowPushed /\ next.bg = p.bg
                     \/ ~g.rowPushed /\ p.bg = <<>> /\ Len(next.bg) = 8
               \/ /\ next.fetcher.state = "push" /\ ~g.rowPushed /\ p.bg # <<>>
                  /\ next.bg = p.bg /\ next.fetcher.rowPushed = g.rowPushed
  BY AdvanceTable
<1>2. next.fetcher.mode = g.mode /\ next.fetcher.objectPending = g.objectPending
  BY AdvanceShape
<1>3. Flows(next) /\ g.age \in Nat /\ g.rowPushed \in BOOLEAN
  BY AdvanceFlows DEF FlowsFrom, Flows, Pipe, Fetcher
<1> HIDE DEF next
<1>4. /\ h.state = next.fetcher.state /\ h.rowPushed = next.fetcher.rowPushed
      /\ h.mode = g.mode /\ h.objectPending = g.objectPending /\ n.bg = next.bg
  BY <1>2, <1>3 DEF Flows, Pipe, Fetcher, SameBut, next
<1>5. h.age = IF h.state # g.state THEN 1 ELSE IF g.age < 3 THEN g.age + 1 ELSE g.age
  BY <1>1, <1>4 DEF next
<1>6. g.rowPushed => g.state = "sleep"
  BY DEF Timely, Base
<1> HIDE DEF g, h
<1> DEFINE goal ==
      /\ h.rowPushed => h.state = "sleep"
      /\ \/ UntilRow(g) > 0 /\ UntilRow(h) = UntilRow(g) - 1 /\ n.bg = p.bg
         \/ UntilRow(g) = 0 /\ UntilRow(h) = 0 /\ n.bg = p.bg /\ p.bg # <<>>
         \/ UntilRow(g) = 0 /\ UntilRow(h) <= 7 /\ p.bg = <<>> /\ Len(n.bg) = 8
      /\ \/ UntilStep5(g) > 0 /\ UntilStep5(h) = UntilStep5(g) - 1 /\ UntilRow(g) > 0
         \/ UntilStep5(g) = 0 /\ UntilStep5(h) <= 4
<1>7. ASSUME g.state \in {"tile", "low", "high"}, g.age < 2, h.state = g.state,
             n.bg = p.bg, h.rowPushed = g.rowPushed
      PROVE  goal
  <2>1. ~g.rowPushed /\ ~h.rowPushed /\ h.age = g.age + 1
    BY <1>3, <1>5, <1>6, <1>7
  <2>2. g.age = 0 \/ g.age = 1
    BY <1>3, <1>7
  <2>3. QED
    BY <1>7, <2>1, <2>2 DEF UntilRow, UntilStep5, Short
<1>8. ASSUME g.state \in {"tile", "low"}, g.age >= 2, n.bg = p.bg, h.rowPushed = g.rowPushed,
             h.state = IF g.state = "tile" THEN "low" ELSE "high"
      PROVE  goal
  <2>1. ~g.rowPushed /\ ~h.rowPushed /\ h.age = 1 /\ Short(h.age) = 1 /\ Short(g.age) = 0
    BY <1>3, <1>5, <1>6, <1>8 DEF Short
  <2> HIDE DEF Short
  <2>2. QED
    BY <1>8, <2>1 DEF UntilRow, UntilStep5
<1>9. ASSUME \/ g.state = "high" /\ g.age >= 2
             \/ g.state = "sleep" /\ g.age < 2,
             h.state = "sleep",
             \/ /\ n.bg = p.bg /\ h.rowPushed = g.rowPushed
                /\ g.rowPushed \/ p.bg # <<>>
             \/ /\ ~g.rowPushed /\ p.bg = <<>> /\ Len(n.bg) = 8 /\ h.rowPushed
      PROVE  goal
  <2>1. \/ g.state = "high" /\ ~g.rowPushed /\ h.age = 1 /\ Short(g.age) = 0 /\ g.age # 0
        \/ g.state = "sleep" /\ h.age = g.age + 1 /\ g.age \in {0, 1}
    BY <1>3, <1>5, <1>6, <1>9 DEF Short
  <2>2. CASE g.state = "high"
    <3>1. UntilRow(g) = 0 /\ UntilStep5(g) = 0 /\ UntilStep5(h) = 0
      BY <1>9, <2>1, <2>2 DEF UntilRow, UntilStep5
    <3>2. UntilRow(h) = IF h.rowPushed THEN 7 ELSE 0
      BY <1>9, <2>1, <2>2 DEF UntilRow, Short
    <3>3. QED
      BY <1>9, <2>1, <2>2, <3>1, <3>2
  <2>3. CASE g.state = "sleep"
    <3>1. UntilStep5(g) = 0 /\ UntilStep5(h) = 0
      BY <1>9, <2>3 DEF UntilStep5
    <3>2. /\ UntilRow(g) = IF g.rowPushed THEN 8 - g.age ELSE 0
          /\ UntilRow(h) = IF h.rowPushed THEN 7 - g.age ELSE 0
      BY <1>9, <2>1, <2>3 DEF UntilRow, Short
    <3>3. QED
      BY <1>9, <2>1, <2>3, <3>1, <3>2
  <2>4. QED
    BY <2>1, <2>2, <2>3
<1>10. ASSUME g.state = "push" \/ (g.state = "sleep" /\ g.age >= 2),
              \/ /\ h.state = "tile" /\ ~h.rowPushed
                 /\ \/ g.rowPushed /\ n.bg = p.bg
                    \/ ~g.rowPushed /\ p.bg = <<>> /\ Len(n.bg) = 8
              \/ /\ h.state = "push" /\ ~g.rowPushed /\ p.bg # <<>>
                 /\ n.bg = p.bg /\ h.rowPushed = g.rowPushed
       PROVE  goal
  <2>1. /\ h.state = "tile" => h.age = 1 /\ Short(h.age) = 1
        /\ g.rowPushed => Short(g.age) = 0
    BY <1>3, <1>5, <1>6, <1>10 DEF Short
  <2>2. UntilStep5(g) = 0 /\ UntilStep5(h) <= 4
    BY <1>10, <2>1 DEF UntilStep5
  <2>3. UntilRow(g) = IF g.rowPushed THEN 6 ELSE 0
    BY <1>10, <2>1 DEF UntilRow
  <2>4. CASE h.state = "tile"
    <3>1. UntilRow(h) = 5
      BY <1>10, <2>1, <2>4 DEF UntilRow
    <3>2. QED
      BY <1>10, <2>2, <2>3, <2>4, <3>1
  <2>5. CASE h.state = "push"
    <3>1. UntilRow(h) = 0
      BY <1>10, <2>5 DEF UntilRow
    <3>2. QED
      BY <1>10, <2>2, <2>3, <2>5, <3>1
  <2>6. QED
    BY <1>10, <2>4, <2>5
<1>11. goal
  <2>1. CASE g.state \in {"tile", "low", "high"} /\ g.age < 2 /\ h.state = g.state
             /\ n.bg = p.bg /\ h.rowPushed = g.rowPushed
    BY <1>7, <2>1
  <2>2. CASE g.state \in {"tile", "low"} /\ g.age >= 2 /\ n.bg = p.bg
             /\ h.rowPushed = g.rowPushed
             /\ h.state = IF g.state = "tile" THEN "low" ELSE "high"
    BY <1>8, <2>2
  <2>3. CASE /\ \/ g.state = "high" /\ g.age >= 2
                \/ g.state = "sleep" /\ g.age < 2
             /\ h.state = "sleep"
             /\ \/ /\ n.bg = p.bg /\ h.rowPushed = g.rowPushed
                   /\ g.rowPushed \/ p.bg # <<>>
                \/ /\ ~g.rowPushed /\ p.bg = <<>> /\ Len(n.bg) = 8 /\ h.rowPushed
    BY <1>9, <2>3
  <2>4. CASE /\ g.state = "push" \/ (g.state = "sleep" /\ g.age >= 2)
             /\ \/ /\ h.state = "tile" /\ ~h.rowPushed
                   /\ \/ g.rowPushed /\ n.bg = p.bg
                      \/ ~g.rowPushed /\ p.bg = <<>> /\ Len(n.bg) = 8
                \/ /\ h.state = "push" /\ ~g.rowPushed /\ p.bg # <<>>
                   /\ n.bg = p.bg /\ h.rowPushed = g.rowPushed
    BY <1>10, <2>4
  <2> HIDE DEF goal
  <2>5. QED
    BY <1>1, <1>4, <2>1, <2>2, <2>3, <2>4
<1>12. QED
  BY <1>4, <1>11 DEF g, h

LEMMA UntilNumbers ==
  ASSUME NEW g \in Fetcher
  PROVE  /\ UntilRow(g) \in Nat /\ UntilRow(g) <= 8
         /\ UntilStep5(g) \in Nat /\ UntilStep5(g) <= 5
<1>1. g.age \in Nat /\ g.state \in {"tile", "low", "high", "sleep", "push"}
  BY DEF Fetcher
<1>2. Short(g.age) \in {0, 1, 2}
  BY <1>1 DEF Short
<1> HIDE DEF Short
<1>3. UntilRow(g) \in Nat /\ UntilRow(g) <= 8
  BY <1>1, <1>2 DEF UntilRow
<1>4. UntilStep5(g) \in Nat /\ UntilStep5(g) <= 5
  BY <1>1, <1>2 DEF UntilStep5
<1>5. QED
  BY <1>3, <1>4

LEMMA LackNumbers ==
  ASSUME NEW dots \in Nat, NEW pixels \in Nat
  PROVE  Lack(dots, pixels) \in Nat /\ Lack(dots, pixels) <= dots
BY DEF Lack

\* What CallsLeft is the sum of.
LEMMA CallNumbers ==
  ASSUME LineInv, NEW p, Flows(p)
  PROVE  /\ PixelsLeft(p) \in Nat /\ Starved(p) \in Nat /\ ForObject(p) \in Nat
         /\ ForObject(p) <= 12
         /\ IsFiniteSet(Waiting(p))
         /\ Cardinality(Waiting(p)) \in Nat /\ Cardinality(Waiting(p)) <= 10
         /\ Ahead(p) \in Nat
         /\ Base(p) \in Fetcher /\ Len(p.bg) \in Nat
         /\ CallsLeft(p) = PixelsLeft(p) + Ahead(p) + Starved(p) + ForObject(p)
<1>1. p.fetcher \in Fetcher /\ Base(p) \in Fetcher
  BY DEF Base, Flows, Pipe
<1>2. Len(p.bg) \in Nat
  BY LenProperties DEF Flows, Pipe, Fifo
<1>3. PixelsLeft(p) \in Nat
  <2>1. 160 - p.x \in Nat
    BY DEF Flows, Pipe
  <2>2. QED
    BY <2>1, Numbers DEF PixelsLeft
<1>4. Starved(p) \in Nat
  BY <1>1, <1>2, UntilNumbers, LackNumbers DEF Starved
<1>5. ForObject(p) \in Nat /\ ForObject(p) <= 12
  <2>1. UntilStep5(p.fetcher) \in Nat /\ UntilStep5(p.fetcher) <= 5
    BY <1>1, UntilNumbers
  <2>2. p.fetcher.age \in Nat
    BY <1>1 DEF Fetcher
  <2>3. Short(p.fetcher.age) \in {0, 1, 2}
    BY <2>2 DEF Short
  <2> HIDE DEF Short, UntilStep5
  <2>4. QED
    BY <2>1, <2>2, <2>3 DEF ForObject
<1>6. /\ IsFiniteSet(Waiting(p)) /\ Cardinality(Waiting(p)) \in Nat
      /\ Cardinality(Waiting(p)) <= 10
  <2>1. Len(objects) \in Nat /\ Len(objects) <= 10 /\ DOMAIN objects = 1 .. Len(objects)
    BY LenProperties DEF LineInv
  <2>2. IsFiniteSet(1 .. 10) /\ Cardinality(1 .. 10) = 10
    <3>1. 1 \in Int /\ 10 \in Int
      OBVIOUS
    <3>2. /\ IsFiniteSet(1 .. 10)
          /\ Cardinality(1 .. 10) = IF 1 > 10 THEN 0 ELSE 10 - 1 + 1
      BY <3>1, FS_Interval, Zenon
    <3>3. QED
      BY <3>2
  <2>3. Waiting(p) \in SUBSET (1 .. 10)
    BY <2>1 DEF Waiting
  <2>4. IsFiniteSet(Waiting(p)) /\ Cardinality(Waiting(p)) <= Cardinality(1 .. 10)
    BY <2>2, <2>3, FS_Subset
  <2>5. QED
    BY <2>2, <2>4, FS_CardinalityType
<1>7. Ahead(p) \in Nat
  BY <1>6 DEF Ahead
<1>8. QED
  BY <1>1, <1>2, <1>3, <1>4, <1>5, <1>6, <1>7 DEF CallsLeft

\* The window starts the fetch anew, at most once.
LEMMA CheckForWindowCalls ==
  ASSUME LineInv, NEW p, Flows(p), NEW last, StripsInOrder(p, last), Timely(p)
  PROVE  LET n == Line!CheckForWindow(p)
         IN  Timely(n) /\ CallsLeft(n) <= CallsLeft(p)
<1> DEFINE n == Line!CheckForWindow(p)
<1>1. /\ Flows(n)
      /\ \/ n = p
         \/ n = Line!Reset(p, "window") /\ p.fetcher.mode = "background"
  BY CheckForWindowFlows, CheckForWindowStrips DEF FlowsFrom
<1> HIDE DEF n
<1>2. CASE n = Line!Reset(p, "window") /\ p.fetcher.mode = "background"
  <2>1. /\ SameBut(p, n, {"fetcher", "bg", "scx", "clip", "begun"})
        /\ n.fetcher.mode = "window" /\ ~n.fetcher.rowPushed /\ ~n.fetcher.objectPending
        /\ n.fetcher.age = 0 /\ n.fetcher.state = "tile"
        /\ n.bg = <<>> /\ n.scx = line.scx /\ n.clip = LeftOf(wx)
    BY <1>2, ResetShape
  <2>2. Base(n) = n.fetcher /\ Base(p) = p.fetcher
    BY <1>2, <2>1 DEF Base
  <2>3. Timely(n) /\ Starved(n) = 6 /\ ForObject(n) = 0
    BY <2>1, <2>2 DEF Timely, Starved, UntilRow, Lack, Short, ForObject
  <2>4. Waiting(n) = Waiting(p)
    BY <2>1 DEF Waiting, SameBut
  <2>5. Ahead(n) = Ahead(p) - 13
    <3>1. Cardinality(Waiting(p)) \in Nat
      BY CallNumbers
    <3>2. QED
      BY <1>2, <2>1, <2>2, <2>4, <3>1 DEF Ahead
  <2>6. PixelsLeft(n) <= PixelsLeft(p) + 7
    <3>1. n.x = p.x /\ n.initial = p.initial /\ n.scx = line.scx
      BY <2>1 DEF SameBut
    <3>2. n.clip <= 7
      BY <1>1 DEF Flows, Pipe
    <3>3. /\ p.x \in Nat /\ p.clip \in Nat /\ p.initial \in Nat /\ p.scx \in Nat
          /\ line.scx \in Nat /\ p.scx <= line.scx
      BY Numbers
    <3>4. n.clip \in Nat
      BY <1>1, Numbers
    <3> DEFINE rest == 160 - p.x + p.initial
    <3>5. /\ PixelsLeft(n) = rest + 0 + n.clip
          /\ PixelsLeft(p) = rest + (line.scx - p.scx) + p.clip
      BY <3>1, <3>3, <3>4 DEF PixelsLeft
    <3>6. rest \in Int
      BY <3>3
    <3> HIDE DEF rest
    <3>7. QED
      BY <3>2, <3>3, <3>4, <3>5, <3>6
  <2> HIDE DEF PixelsLeft, Ahead, Starved, ForObject
  <2>7. /\ PixelsLeft(n) \in Nat /\ Ahead(n) \in Nat
        /\ CallsLeft(n) = PixelsLeft(n) + Ahead(n) + Starved(n) + ForObject(n)
    BY <1>1, CallNumbers
  <2>8. /\ PixelsLeft(p) \in Nat /\ Ahead(p) \in Nat
        /\ Starved(p) \in Nat /\ ForObject(p) \in Nat
        /\ CallsLeft(p) = PixelsLeft(p) + Ahead(p) + Starved(p) + ForObject(p)
    BY CallNumbers
  <2> HIDE DEF CallsLeft
  <2>9. CallsLeft(n) <= CallsLeft(p)
    BY <2>3, <2>5, <2>6, <2>7, <2>8
  <2>10. QED
    BY <2>3, <2>9 DEF n
<1>3. QED
  BY <1>1, <1>2, CallNumbers DEF n

\* An object is fetched once.
LEMMA FindObjectCalls ==
  ASSUME LineInv, NEW p, Flows(p), Timely(p)
  PROVE  LET n == Line!FindObject(p)
         IN  Timely(n) /\ CallsLeft(n) <= CallsLeft(p)
<1> DEFINE n == Line!FindObject(p)
           i == n.fetcher.object
<1>1. /\ Flows(n)
      /\ \/ n = p
         \/ /\ SameBut(p, n, {"fetcher", "blankNext", "fetched"})
            /\ ~Line!IsFetchingObject(p.fetcher)
            /\ n.fetcher = [p.fetcher EXCEPT !.object = i, !.objectPending = TRUE]
            /\ i \in Line!Due(p)
            /\ n.fetched = p.fetched \union {i}
  BY FindObjectFlows, FindObjectShape DEF FlowsFrom
<1> HIDE DEF n
<1>2. CASE n # p
  <2>1. /\ p.fetcher.mode # "object" /\ ~p.fetcher.objectPending
        /\ n.fetcher.mode = p.fetcher.mode /\ n.fetcher.state = p.fetcher.state
        /\ n.fetcher.rowPushed = p.fetcher.rowPushed /\ n.fetcher.age = p.fetcher.age
    BY <1>1, <1>2 DEF Flows, Pipe, Fetcher, Line!IsFetchingObject
  <2>2. Base(p) = p.fetcher /\ Base(n) = n.fetcher /\ n.bg = p.bg
    BY <1>1, <1>2, <2>1 DEF Base, SameBut
  <2>3. Timely(n) /\ Starved(n) = Starved(p) /\ ForObject(p) = 0
    BY <2>1, <2>2 DEF Timely, Starved, UntilRow, ForObject
  <2>4. Waiting(n) = Waiting(p) \ {i} /\ i \in Waiting(p)
    BY <1>1, <1>2 DEF Waiting, Line!Due
  <2>5. Cardinality(Waiting(n)) = Cardinality(Waiting(p)) - 1
    <3>1. IsFiniteSet(Waiting(p))
      BY CallNumbers
    <3>2. QED
      BY <2>4, <3>1, FS_RemoveElement
  <2>6. Ahead(n) = Ahead(p) - 13
    <3>1. Cardinality(Waiting(p)) \in Nat
      BY CallNumbers
    <3>2. QED
      BY <2>1, <2>2, <2>5, <3>1 DEF Ahead
  <2>7. PixelsLeft(n) = PixelsLeft(p)
    BY <1>1, <1>2 DEF PixelsLeft, SameBut
  <2> HIDE DEF PixelsLeft, Ahead, Starved, ForObject
  <2>8. /\ PixelsLeft(n) \in Nat /\ Ahead(n) \in Nat /\ Starved(n) \in Nat
        /\ ForObject(n) \in Nat /\ ForObject(n) <= 12
        /\ CallsLeft(n) = PixelsLeft(n) + Ahead(n) + Starved(n) + ForObject(n)
    BY <1>1, CallNumbers
  <2>9. /\ Ahead(p) \in Nat
        /\ CallsLeft(p) = PixelsLeft(p) + Ahead(p) + Starved(p) + ForObject(p)
    BY CallNumbers
  <2> HIDE DEF CallsLeft
  <2>10. CallsLeft(n) <= CallsLeft(p)
    BY <2>3, <2>6, <2>7, <2>8, <2>9
  <2>11. QED
    BY <2>3, <2>10 DEF n
<1>3. QED
  BY <1>1, <1>2, CallNumbers DEF n

\* The fetch is put off for the object once it can wait.
LEMMA FetchObjectCalls ==
  ASSUME LineInv, NEW p, Flows(p), NEW last, StripsInOrder(p, last), Timely(p)
  PROVE  LET n == Line!FetchObject(p)
         IN  /\ Timely(n) /\ CallsLeft(n) <= CallsLeft(p)
             /\ n.fetcher.mode # "object" /\ n.fetcher.objectPending /\ n.bg # <<>> =>
                  UntilStep5(n.fetcher) > 0
<1> DEFINE n == Line!FetchObject(p)
<1>1. /\ Flows(n)
      /\ \/ n = p
         \/ /\ SameBut(p, n, {"fetcher", "saved"}) /\ p.fetcher.objectPending
            /\ n.fetcher.mode = "object"
            /\ n.fetcher.state = "low" /\ n.fetcher.age = 0 /\ ~n.fetcher.objectPending
            /\ n.saved = [p.fetcher EXCEPT !.objectPending = FALSE, !.object = 0, !.age = 3]
            /\ p.bg # <<>>
  BY FetchObjectFlows, FetchObjectShape DEF FlowsFrom
<1>2. /\ n # p => Line!ReachedStep5(p.fetcher)
      /\ p.fetcher.objectPending /\ p.bg # <<>> /\ n = p =>
           ~Line!ReachedStep5(p.fetcher) \/ n.fetcher.mode = "object"
  <2>1. CASE p.fetcher.objectPending /\ Line!ReachedStep5(p.fetcher) /\ p.bg # <<>>
    <3> DEFINE m == [p EXCEPT !.saved = [p.fetcher EXCEPT !.objectPending = FALSE,
                                                          !.object = 0, !.age = 3]]
    <3>1. n = Line!Reset(m, "object")
      BY <2>1 DEF Line!FetchObject
    <3>2. m \in Pipe /\ m.scx = p.scx /\ m.fetched = p.fetched
      BY DEF Flows, Pipe, Fetcher
    <3>3. n.fetcher.mode = "object"
      BY <3>1, <3>2, ResetShape DEF Flows
    <3> HIDE DEF n
    <3>4. QED
      BY <2>1, <3>3
  <2>2. CASE ~(p.fetcher.objectPending /\ Line!ReachedStep5(p.fetcher) /\ p.bg # <<>>)
    <3>1. n = p
      BY <2>2 DEF Line!FetchObject
    <3> HIDE DEF n
    <3>2. QED
      BY <2>2, <3>1
  <2>3. QED
    BY <2>1, <2>2
<1>3. p.fetcher.age \in Nat /\ p.fetcher.state \in {"tile", "low", "high", "sleep", "push"}
  BY DEF Flows, Pipe, Fetcher
<1> HIDE DEF n
<1>4. CASE n # p
  <2>1. p.fetcher.mode # "object" /\ Base(p) = p.fetcher /\ Base(n) = n.saved
    BY <1>1, <1>4 DEF StripsInOrder, FetchesInOrder, Base
  <2>2. /\ n.saved.mode = p.fetcher.mode /\ n.saved.rowPushed = p.fetcher.rowPushed
        /\ n.saved.state = p.fetcher.state /\ n.saved.age = 3
    BY <1>1, <1>4 DEF Flows, Pipe, Fetcher
  <2>3. Timely(n)
    BY <2>1, <2>2 DEF Timely
  <2>4. ForObject(p) = 7
    <3>1. UntilStep5(p.fetcher) = 0
      BY <1>2, <1>3, <1>4 DEF Line!ReachedStep5, UntilStep5
    <3>2. QED
      BY <1>1, <1>4, <2>1, <3>1 DEF ForObject
  <2>5. ForObject(n) = 7
    BY <1>1, <1>4 DEF ForObject, Short
  <2>6. Starved(n) <= Starved(p)
    <3>1. UntilRow(n.saved) <= UntilRow(p.fetcher)
      <4>1. Short(3) = 0 /\ Short(p.fetcher.age) \in Nat
        BY <1>3 DEF Short
      <4> HIDE DEF Short
      <4>2. QED
        BY <1>3, <2>2, <4>1 DEF UntilRow
    <3>2. n.bg = p.bg /\ Len(p.bg) \in Nat /\ n.saved \in Fetcher /\ p.fetcher \in Fetcher
      BY <1>1, <1>4, CallNumbers, Numbers DEF SameBut
    <3>3. UntilRow(n.saved) \in Nat /\ UntilRow(p.fetcher) \in Nat
      BY <3>2, UntilNumbers
    <3>4. QED
      BY <2>1, <3>1, <3>2, <3>3 DEF Starved, Lack
  <2>7. PixelsLeft(n) = PixelsLeft(p)
    BY <1>1, <1>4 DEF PixelsLeft, SameBut
  <2>8. Ahead(n) = Ahead(p)
    <3>1. Base(n).mode = Base(p).mode
      BY <2>1, <2>2
    <3>2. Waiting(n) = Waiting(p)
      BY <1>1, <1>4 DEF SameBut, Waiting
    <3>3. QED
      BY <3>1, <3>2 DEF Ahead
  <2> HIDE DEF PixelsLeft, Ahead, Starved, ForObject
  <2>9. CallsLeft(n) <= CallsLeft(p)
    <3>1. /\ PixelsLeft(n) \in Nat /\ Ahead(n) \in Nat /\ Starved(n) \in Nat
          /\ CallsLeft(n) = PixelsLeft(n) + Ahead(n) + Starved(n) + ForObject(n)
      BY <1>1, CallNumbers
    <3>2. /\ Starved(p) \in Nat
          /\ CallsLeft(p) = PixelsLeft(p) + Ahead(p) + Starved(p) + ForObject(p)
      BY CallNumbers
    <3> HIDE DEF CallsLeft
    <3>3. QED
      BY <2>4, <2>5, <2>6, <2>7, <2>8, <3>1, <3>2
  <2>10. QED
    BY <1>1, <1>4, <2>3, <2>9 DEF n
<1>5. CASE n = p
  <2>1. n.fetcher.mode # "object" /\ n.fetcher.objectPending /\ n.bg # <<>> =>
          UntilStep5(n.fetcher) > 0
    <3>1. SUFFICES ASSUME n.fetcher.mode # "object", n.fetcher.objectPending, n.bg # <<>>
                   PROVE  UntilStep5(n.fetcher) > 0
      OBVIOUS
    <3>2. p.fetcher.state \in {"tile", "low", "high"} /\ (p.fetcher.state = "high" => p.fetcher.age = 0)
      BY <1>2, <1>3, <1>5, <3>1 DEF Line!ReachedStep5
    <3>3. Short(p.fetcher.age) \in Nat
      BY <1>3 DEF Short
    <3> HIDE DEF Short
    <3>4. QED
      BY <1>5, <3>2, <3>3 DEF UntilStep5
  <2>2. QED
    BY <1>1, <1>5, <2>1, CallNumbers DEF n
<1>6. QED
  BY <1>4, <1>5

LEMMA OnePixelLess ==
  ASSUME NEW p, NEW n, line.scx \in Nat,
         p.x \in Nat /\ p.initial \in Nat /\ p.scx \in Nat /\ p.clip \in Nat,
         \/ n.initial = p.initial - 1 /\ n.x = p.x /\ n.scx = p.scx /\ n.clip = p.clip
         \/ n.scx = p.scx + 1 /\ n.x = p.x /\ n.initial = p.initial /\ n.clip = p.clip
         \/ n.clip = p.clip - 1 /\ n.x = p.x /\ n.initial = p.initial /\ n.scx = p.scx
         \/ n.x = p.x + 1 /\ n.initial = p.initial /\ n.scx = p.scx /\ n.clip = p.clip
  PROVE  PixelsLeft(n) = PixelsLeft(p) - 1
BY DEF PixelsLeft

\* Fewer pixels left, and as many in the FIFO, in a call that draws one.
LEMMA PopCalls ==
  ASSUME LineInv, NEW p, Flows(p), p.bg # <<>>, ~Line!IsFetchingObject(p.fetcher), Timely(p)
  PROVE  LET n == Line!Pop(p)
         IN  /\ Timely(n)
             /\ CallsLeft(n) = PixelsLeft(p) - 1 + Ahead(p)
                               + Lack(UntilRow(Base(p)), Len(p.bg) - 1)
             /\ CallsLeft(n) <= CallsLeft(p)
             /\ Place(n) <= Place(p) + 1
<1> DEFINE n == Line!Pop(p)
<1>1. /\ n.bg = Tail(p.bg)
      /\ \/ p.initial > 0 /\ n.initial = p.initial - 1 /\ SameBut(p, n, {"bg", "obj", "initial"})
         \/ p.scx < line.scx /\ n.scx = p.scx + 1 /\ SameBut(p, n, {"bg", "scx"})
         \/ p.clip > 0 /\ n.clip = p.clip - 1 /\ SameBut(p, n, {"bg", "clip"})
         \/ n.x = p.x + 1 /\ SameBut(p, n, {"bg", "obj", "x", "blankNext"})
  BY PopShape
<1> HIDE DEF n
<1>2. n.fetcher = p.fetcher /\ n.saved = p.saved /\ n.fetched = p.fetched
  BY <1>1 DEF SameBut
<1>3. Base(n) = Base(p) /\ Waiting(n) = Waiting(p)
  BY <1>2 DEF Base, Waiting
<1>4. Ahead(n) = Ahead(p) /\ Timely(n)
  BY <1>3 DEF Ahead, Timely
<1>5. /\ p.x \in Nat /\ p.initial \in Nat /\ p.scx \in Nat /\ p.clip \in Nat
      /\ line.scx \in Nat
  BY Numbers
<1>6. PixelsLeft(n) = PixelsLeft(p) - 1 /\ Place(n) <= Place(p) + 1
  <2>1. /\ n.x \in Nat /\ n.initial \in Nat /\ n.scx \in Nat /\ n.clip \in Nat
        /\ \/ /\ n.initial = p.initial - 1
              /\ n.x = p.x /\ n.scx = p.scx /\ n.clip = p.clip
           \/ /\ n.scx = p.scx + 1
              /\ n.x = p.x /\ n.initial = p.initial /\ n.clip = p.clip
           \/ /\ n.clip = p.clip - 1
              /\ n.x = p.x /\ n.initial = p.initial /\ n.scx = p.scx
           \/ /\ n.x = p.x + 1
              /\ n.initial = p.initial /\ n.scx = p.scx /\ n.clip = p.clip
    BY <1>1, <1>5 DEF SameBut
  <2>2. PixelsLeft(n) = PixelsLeft(p) - 1
    BY <1>5, <2>1, OnePixelLess
  <2>3. Place(n) <= Place(p) + 1
    BY <1>5, <2>1 DEF Place
  <2>4. QED
    BY <2>2, <2>3
<1>7. Len(n.bg) = Len(p.bg) - 1 /\ Len(p.bg) >= 1 /\ Len(p.bg) \in Nat
  BY <1>1, FifoTail DEF Flows, Pipe
<1>8. ForObject(n) = 0 /\ ForObject(p) = 0
  BY <1>2 DEF ForObject, Line!IsFetchingObject
<1>9. UntilRow(Base(p)) \in Nat
  BY CallNumbers, UntilNumbers
<1>10. /\ Starved(n) = Lack(UntilRow(Base(p)), Len(p.bg) - 1)
       /\ Starved(n) \in Nat /\ Starved(p) \in Nat /\ Starved(n) <= Starved(p) + 1
  <2>1. Starved(n) = Lack(UntilRow(Base(p)), Len(p.bg) - 1)
        /\ Starved(p) = Lack(UntilRow(Base(p)), Len(p.bg))
    BY <1>3, <1>7 DEF Starved
  <2> HIDE DEF UntilRow, Starved
  <2>2. QED
    BY <1>7, <1>9, <2>1 DEF Lack
<1>11. PixelsLeft(p) \in Nat /\ Ahead(p) \in Nat
  BY CallNumbers
<1> HIDE DEF PixelsLeft, Ahead, Starved, ForObject, Lack
<1>12. /\ CallsLeft(n) = PixelsLeft(p) - 1 + Ahead(p) + Starved(n)
       /\ CallsLeft(p) = PixelsLeft(p) + Ahead(p) + Starved(p)
  BY <1>4, <1>6, <1>8, <1>10, <1>11 DEF CallsLeft
<1>13. CallsLeft(n) <= CallsLeft(p)
  BY <1>10, <1>11, <1>12
<1>14. QED
  BY <1>4, <1>6, <1>10, <1>12, <1>13 DEF n

\* A T-cycle of the fetch of an object.
LEMMA ObjectBurns ==
  ASSUME LineInv, NEW p, Flows(p), NEW last, StripsInOrder(p, last),
         p.fetcher.mode = "object", Timely(p),
         NEW n, Flows(n), SameBut(Line!Advance(p), n, {"fetcher"}),
         LET next == Line!Advance(p)
         IN  /\ n.fetcher = [next.fetcher EXCEPT !.age = n.fetcher.age]
             /\ n.fetcher.age = IF next.fetcher.state # p.fetcher.state THEN 1
                                ELSE IF next.fetcher.age < 3 THEN next.fetcher.age + 1
                                ELSE next.fetcher.age
  PROVE  Timely(n) /\ CallsLeft(n) < CallsLeft(p) /\ Place(n) = Place(p)
<1> DEFINE next == Line!Advance(p)
           merged == Line!MergeRow(p)
           e == Line!Enter(p, "high")
           r == Line!Restore(merged)
<1>1. /\ p.fetcher.state \in {"low", "high"} /\ ~p.fetcher.objectPending
      /\ ~p.saved.objectPending /\ p.saved.mode # "object" /\ Base(p) = p.saved
      /\ p.fetcher.age \in Nat /\ p.saved.age \in Nat
  BY DEF StripsInOrder, FetchesInOrder, Base, Flows, Pipe, Fetcher
<1>2. \/ next = p /\ p.fetcher.state = "low" /\ p.fetcher.age < 2
      \/ next = p /\ p.fetcher.state = "high" /\ p.fetcher.age < 3
      \/ next = e /\ p.fetcher.state = "low" /\ p.fetcher.age >= 2
      \/ next = r /\ p.fetcher.state = "high" /\ p.fetcher.age >= 3
  <2>1. CASE p.fetcher.state = "low"
    <3>1. next = IF p.fetcher.age >= 2 THEN e ELSE p
      BY <2>1 DEF Line!Advance
    <3>2. QED
      BY <1>1, <2>1, <3>1
  <2>2. CASE p.fetcher.state = "high"
    <3>1. next = IF p.fetcher.age >= 3 THEN r ELSE p
      BY <2>2 DEF Line!Advance
    <3>2. QED
      BY <1>1, <2>2, <3>1
  <2>3. QED
    BY <1>1, <2>1, <2>2
<1>3. /\ SameBut(p, e, {"fetcher"}) /\ e.fetcher = [p.fetcher EXCEPT !.state = "high"]
  BY EnterStrips
<1>4. Flows(merged) /\ SameBut(p, merged, {"obj"})
  BY MergeRowFlows, MergeRowShape DEF FlowsFrom
<1>5. SameBut(merged, r, {"fetcher", "saved"}) /\ r.fetcher = merged.saved
  BY <1>4, RestoreShape
<1> HIDE DEF next, e, r, merged
<1>6. /\ next.x = p.x /\ next.initial = p.initial /\ next.scx = p.scx /\ next.clip = p.clip
      /\ next.fetched = p.fetched /\ next.bg = p.bg
  BY <1>2, <1>3, <1>4, <1>5 DEF SameBut
<1>7. /\ n.x = p.x /\ n.initial = p.initial /\ n.scx = p.scx /\ n.clip = p.clip
      /\ n.fetched = p.fetched /\ n.bg = p.bg /\ n.saved = next.saved
  BY <1>6 DEF SameBut, next
<1>8. PixelsLeft(n) = PixelsLeft(p) /\ Place(n) = Place(p) /\ Waiting(n) = Waiting(p)
  BY <1>7 DEF PixelsLeft, Place, Waiting
<1>9. next.fetcher \in Fetcher
  BY AdvanceFlows DEF FlowsFrom, Flows, Pipe, next
<1>10. /\ n.fetcher.mode = next.fetcher.mode /\ n.fetcher.state = next.fetcher.state
       /\ n.fetcher.rowPushed = next.fetcher.rowPushed
       /\ n.fetcher.objectPending = next.fetcher.objectPending
       /\ n.fetcher.age = IF next.fetcher.state # p.fetcher.state THEN 1
                          ELSE IF next.fetcher.age < 3 THEN next.fetcher.age + 1
                          ELSE next.fetcher.age
  BY <1>9 DEF Fetcher, next
<1>11. /\ CallsLeft(p) = PixelsLeft(p) + Ahead(p) + Starved(p) + ForObject(p)
       /\ PixelsLeft(p) \in Nat /\ Ahead(p) \in Nat /\ Starved(p) \in Nat
       /\ ForObject(p) \in Nat
  BY CallNumbers
<1>12. /\ CallsLeft(n) = PixelsLeft(n) + Ahead(n) + Starved(n) + ForObject(n)
       /\ Starved(n) \in Nat /\ ForObject(n) \in Nat
  BY CallNumbers
<1>13. ASSUME next = p \/ next = e
       PROVE  Timely(n) /\ CallsLeft(n) < CallsLeft(p)
  <2>1. next.saved = p.saved /\ next.fetcher.mode = "object" /\ next.fetcher.age = p.fetcher.age
        /\ next.fetcher.state = (IF next = p THEN p.fetcher.state ELSE "high")
    <3>1. CASE next = e /\ next # p
      <4>1. next.saved = p.saved
        BY <1>3, <3>1 DEF SameBut
      <4>2. QED
        BY <1>3, <3>1, <4>1 DEF Flows, Pipe, Fetcher
    <3>2. QED
      BY <1>13, <3>1
  <2>2. Base(n) = p.saved
    BY <1>7, <1>10, <2>1 DEF Base
  <2>3. Ahead(n) = Ahead(p) /\ Starved(n) = Starved(p) /\ Timely(n)
    BY <1>1, <1>7, <1>8, <2>2 DEF Ahead, Starved, Timely
  <2>4. ForObject(n) < ForObject(p)
    <3>1. CASE next = p /\ p.fetcher.state = "low" /\ p.fetcher.age < 2
      <4>1. /\ n.fetcher.age = p.fetcher.age + 1 /\ n.fetcher.state = "low"
            /\ n.fetcher.mode = "object" /\ p.fetcher.age \in {0, 1}
        BY <1>1, <1>10, <2>1, <3>1
      <4>2. QED
        BY <3>1, <4>1 DEF ForObject, Short
    <3>2. CASE next = p /\ p.fetcher.state = "high" /\ p.fetcher.age < 3
      <4>1. /\ n.fetcher.age = p.fetcher.age + 1 /\ n.fetcher.state = "high"
            /\ n.fetcher.mode = "object" /\ p.fetcher.age \in {0, 1, 2}
        BY <1>1, <1>10, <2>1, <3>2
      <4>2. QED
        BY <3>2, <4>1 DEF ForObject
    <3>3. CASE next = e /\ p.fetcher.state = "low" /\ p.fetcher.age >= 2
      <4>1. /\ next.fetcher.state = "high"
        BY <1>3, <3>3 DEF Flows, Pipe, Fetcher
      <4>2. /\ n.fetcher.age = 1 /\ n.fetcher.state = "high" /\ n.fetcher.mode = "object"
        BY <1>10, <2>1, <3>3, <4>1
      <4>3. ForObject(n) = 4 /\ ForObject(p) = 5
        BY <1>1, <3>3, <4>2 DEF ForObject, Short
      <4>4. QED
        BY <4>3
    <3>4. CASE next = r /\ p.fetcher.state = "high" /\ p.fetcher.age >= 3
      <4>1. r.fetcher.mode # "object"
        BY <1>1, <1>4, <1>5 DEF SameBut
      <4>2. QED
        BY <2>1, <3>4, <4>1
    <3>5. QED
      BY <1>2, <3>1, <3>2, <3>3, <3>4
  <2> HIDE DEF PixelsLeft, Ahead, Starved, ForObject
  <2>5. QED
    BY <1>8, <1>11, <1>12, <2>3, <2>4
<1>14. ASSUME next = r, p.fetcher.state = "high", p.fetcher.age >= 3
       PROVE  Timely(n) /\ CallsLeft(n) < CallsLeft(p)
  <2>1. next.fetcher = p.saved
    BY <1>4, <1>5, <1>14 DEF SameBut
  <2>2. Base(n) = n.fetcher
    BY <1>1, <1>10, <2>1 DEF Base
  <2>3. Ahead(n) = Ahead(p) /\ Timely(n) /\ ForObject(n) = 0 /\ ForObject(p) = 2
    BY <1>1, <1>8, <1>10, <1>14, <2>1, <2>2 DEF Ahead, Timely, ForObject
  <2>4. Starved(n) <= Starved(p) + 1
    <3>1. UntilRow(n.fetcher) <= UntilRow(p.saved) + 1
      <4>1. Short(n.fetcher.age) <= Short(p.saved.age) + 1
        <5>1. n.fetcher.age = 1 \/ n.fetcher.age = p.saved.age \/ n.fetcher.age = p.saved.age + 1
          BY <1>10, <2>1
        <5>2. QED
          BY <1>1, <5>1 DEF Short
      <4>2. Short(n.fetcher.age) \in Nat /\ Short(p.saved.age) \in Nat
        <5>1. n.fetcher.age \in Nat
          BY DEF Flows, Pipe, Fetcher
        <5>2. QED
          BY <1>1, <5>1 DEF Short
      <4> HIDE DEF Short
      <4>3. QED
        BY <1>10, <2>1, <4>1, <4>2 DEF UntilRow
    <3>2. UntilRow(n.fetcher) \in Nat /\ UntilRow(p.saved) \in Nat
      BY UntilNumbers DEF Flows, Pipe
    <3>3. Len(p.bg) \in Nat
      BY CallNumbers
    <3> HIDE DEF UntilRow
    <3>4. QED
      BY <1>1, <1>7, <2>2, <3>1, <3>2, <3>3 DEF Starved, Lack
  <2> HIDE DEF PixelsLeft, Ahead, Starved, ForObject
  <2>5. QED
    BY <1>8, <1>11, <1>12, <2>3, <2>4
<1>15. QED
  BY <1>2, <1>8, <1>13, <1>14

\* What is short of a row, before a T-cycle and after it.
LEMMA RowComesNearer ==
  ASSUME NEW dots \in Nat, NEW pixels \in Nat, NEW then \in Nat, NEW filled \in Nat,
         \/ dots > 0 /\ then = dots - 1 /\ filled = pixels
         \/ dots = 0 /\ then = 0 /\ filled = pixels /\ pixels > 0
         \/ dots = 0 /\ then <= 7 /\ pixels = 0 /\ filled = 8
  PROVE  /\ Lack(then, filled) <= Lack(dots, pixels)
         /\ filled = 0 => Lack(then, filled) = Lack(dots, pixels) - 1
         /\ filled > 0 => Lack(then, filled - 1) <= Lack(dots, pixels)
BY DEF Lack

\* A T-cycle of the fetch of the background or the window.
LEMMA BackgroundBurns ==
  ASSUME LineInv, NEW p, Flows(p), NEW last, StripsInOrder(p, last),
         p.fetcher.mode # "object", Timely(p),
         p.fetcher.objectPending /\ p.bg # <<>> => UntilStep5(p.fetcher) > 0,
         NEW n, Flows(n), SameBut(Line!Advance(p), n, {"fetcher"}),
         LET next == Line!Advance(p)
         IN  /\ n.fetcher = [next.fetcher EXCEPT !.age = n.fetcher.age]
             /\ n.fetcher.age = IF next.fetcher.state # p.fetcher.state THEN 1
                                ELSE IF next.fetcher.age < 3 THEN next.fetcher.age + 1
                                ELSE next.fetcher.age
  PROVE  /\ Timely(n) /\ Place(n) = Place(p)
         /\ n.fetcher.mode # "object" /\ n.fetcher.objectPending = p.fetcher.objectPending
         /\ p.fetcher.objectPending \/ n.bg = <<>> => CallsLeft(n) < CallsLeft(p)
         /\ ~p.fetcher.objectPending /\ n.bg # <<>> => CallsLeft(Line!Pop(n)) < CallsLeft(p)
<1> DEFINE next == Line!Advance(p)
           g == p.fetcher
           h == n.fetcher
<1>1. /\ h.rowPushed => h.state = "sleep"
      /\ \/ UntilRow(g) > 0 /\ UntilRow(h) = UntilRow(g) - 1 /\ n.bg = p.bg
         \/ UntilRow(g) = 0 /\ UntilRow(h) = 0 /\ n.bg = p.bg /\ p.bg # <<>>
         \/ UntilRow(g) = 0 /\ UntilRow(h) <= 7 /\ p.bg = <<>> /\ Len(n.bg) = 8
      /\ \/ UntilStep5(g) > 0 /\ UntilStep5(h) = UntilStep5(g) - 1 /\ UntilRow(g) > 0
         \/ UntilStep5(g) = 0 /\ UntilStep5(h) <= 4
      /\ h.mode = g.mode /\ h.objectPending = g.objectPending
  BY FetchAges
<1>2. SameBut(p, next, {"fetcher", "bg"})
  BY AdvanceShape
<1> HIDE DEF next
<1>3. /\ n.x = p.x /\ n.initial = p.initial /\ n.scx = p.scx /\ n.clip = p.clip
      /\ n.fetched = p.fetched
  BY <1>2 DEF SameBut, next
<1>4. PixelsLeft(n) = PixelsLeft(p) /\ Place(n) = Place(p) /\ Waiting(n) = Waiting(p)
  BY <1>3 DEF PixelsLeft, Place, Waiting
<1>5. Base(n) = h /\ Base(p) = g
  BY <1>1 DEF Base
<1>6. Ahead(n) = Ahead(p) /\ Timely(n)
  BY <1>1, <1>4, <1>5 DEF Ahead, Timely
<1>7. /\ g \in Fetcher /\ h \in Fetcher
      /\ p.bg \in Seq(BgPixel) /\ n.bg \in Seq(BgPixel)
  BY DEF Flows, Pipe, Fifo
<1>8. /\ UntilRow(g) \in Nat /\ UntilRow(h) \in Nat
      /\ UntilStep5(g) \in Nat /\ UntilStep5(h) \in Nat
  BY <1>7, UntilNumbers
<1>9. /\ Len(p.bg) \in Nat /\ Len(n.bg) \in Nat
      /\ p.bg = <<>> <=> Len(p.bg) = 0
      /\ n.bg = <<>> <=> Len(n.bg) = 0
  BY <1>7, LenProperties, EmptySeq
<1> HIDE DEF g, h
<1>10. \/ UntilRow(g) > 0 /\ UntilRow(h) = UntilRow(g) - 1 /\ Len(n.bg) = Len(p.bg)
       \/ UntilRow(g) = 0 /\ UntilRow(h) = 0 /\ Len(n.bg) = Len(p.bg) /\ Len(p.bg) > 0
       \/ UntilRow(g) = 0 /\ UntilRow(h) <= 7 /\ Len(p.bg) = 0 /\ Len(n.bg) = 8
  BY <1>1, <1>9
<1>11. /\ Starved(n) = Lack(UntilRow(h), Len(n.bg)) /\ Starved(p) = Lack(UntilRow(g), Len(p.bg))
       /\ Starved(n) <= Starved(p)
       /\ Len(n.bg) = 0 => Starved(n) = Starved(p) - 1
       /\ Len(n.bg) > 0 => Lack(UntilRow(h), Len(n.bg) - 1) <= Starved(p)
  <2>1. Starved(n) = Lack(UntilRow(h), Len(n.bg)) /\ Starved(p) = Lack(UntilRow(g), Len(p.bg))
    BY <1>5 DEF Starved
  <2>2. /\ Lack(UntilRow(h), Len(n.bg)) <= Lack(UntilRow(g), Len(p.bg))
        /\ Len(n.bg) = 0 => Lack(UntilRow(h), Len(n.bg)) = Lack(UntilRow(g), Len(p.bg)) - 1
        /\ Len(n.bg) > 0 => Lack(UntilRow(h), Len(n.bg) - 1) <= Lack(UntilRow(g), Len(p.bg))
    <3> DEFINE dots == UntilRow(g)
               then == UntilRow(h)
               pixels == Len(p.bg)
               filled == Len(n.bg)
    <3>1. dots \in Nat /\ then \in Nat /\ pixels \in Nat /\ filled \in Nat
      BY <1>8, <1>9
    <3>2. \/ dots > 0 /\ then = dots - 1 /\ filled = pixels
          \/ dots = 0 /\ then = 0 /\ filled = pixels /\ pixels > 0
          \/ dots = 0 /\ then <= 7 /\ pixels = 0 /\ filled = 8
      BY <1>10
    <3> HIDE DEF dots, then, pixels, filled
    <3>3. /\ Lack(then, filled) <= Lack(dots, pixels)
          /\ filled = 0 => Lack(then, filled) = Lack(dots, pixels) - 1
          /\ filled > 0 => Lack(then, filled - 1) <= Lack(dots, pixels)
      BY <3>1, <3>2, RowComesNearer
    <3>4. QED
      BY <3>3 DEF dots, then, pixels, filled
  <2>3. QED
    BY <2>1, <2>2
<1>12. /\ CallsLeft(p) = PixelsLeft(p) + Ahead(p) + Starved(p) + ForObject(p)
       /\ PixelsLeft(p) \in Nat /\ Ahead(p) \in Nat /\ Starved(p) \in Nat
       /\ ForObject(p) \in Nat
  BY CallNumbers
<1>13. /\ CallsLeft(n) = PixelsLeft(n) + Ahead(n) + Starved(n) + ForObject(n)
       /\ Starved(n) \in Nat /\ ForObject(n) \in Nat
  BY CallNumbers
<1>14. ASSUME ~p.fetcher.objectPending
       PROVE  ForObject(p) = 0 /\ ForObject(n) = 0 /\ ~Line!IsFetchingObject(n.fetcher)
  BY <1>1, <1>14 DEF ForObject, Line!IsFetchingObject, g, h
<1>15. ASSUME p.fetcher.objectPending
       PROVE  /\ ForObject(n) <= ForObject(p)
              /\ ForObject(n) = ForObject(p) => Starved(n) = Starved(p) - 1
  <2>1. /\ ForObject(p) = IF p.bg = <<>> THEN 12 ELSE UntilStep5(g) + 7
        /\ ForObject(n) = IF n.bg = <<>> THEN 12 ELSE UntilStep5(h) + 7
    BY <1>1, <1>15 DEF ForObject, g, h
  <2>2. CASE p.bg # <<>>
    <3>1. UntilStep5(g) > 0 /\ UntilStep5(h) = UntilStep5(g) - 1 /\ n.bg # <<>>
      BY <1>1, <1>8, <1>9, <1>15, <2>2 DEF g
    <3>2. QED
      BY <1>8, <2>1, <2>2, <3>1
  <2>3. CASE p.bg = <<>> /\ n.bg = <<>>
    BY <1>9, <1>11, <2>1, <2>3
  <2>4. CASE p.bg = <<>> /\ n.bg # <<>>
    <3>1. UntilRow(g) = 0
      BY <1>1, <2>4
    <3>2. UntilStep5(h) <= 4
      BY <1>1, <1>8, <3>1
    <3>3. QED
      BY <1>8, <2>1, <2>4, <3>2
  <2>5. QED
    BY <2>2, <2>3, <2>4
<1> HIDE DEF PixelsLeft, Ahead, Starved, ForObject, CallsLeft
<1>16. ASSUME p.fetcher.objectPending
       PROVE  CallsLeft(n) < CallsLeft(p)
  BY <1>4, <1>6, <1>11, <1>12, <1>13, <1>15, <1>16
<1>17. ASSUME ~p.fetcher.objectPending, n.bg = <<>>
       PROVE  CallsLeft(n) < CallsLeft(p)
  BY <1>4, <1>6, <1>9, <1>11, <1>12, <1>13, <1>14, <1>17
<1>18. ASSUME ~p.fetcher.objectPending, n.bg # <<>>
       PROVE  CallsLeft(Line!Pop(n)) < CallsLeft(p)
  <2>1. CallsLeft(Line!Pop(n)) = PixelsLeft(n) - 1 + Ahead(n)
                                 + Lack(UntilRow(Base(n)), Len(n.bg) - 1)
    BY <1>6, <1>14, <1>18, PopCalls
  <2>2. Len(n.bg) > 0 /\ Len(n.bg) - 1 \in Nat
    BY <1>9, <1>18
  <2>3. Lack(UntilRow(h), Len(n.bg) - 1) \in Nat
    BY <1>8, <2>2, LackNumbers
  <2>4. QED
    BY <1>4, <1>5, <1>6, <1>11, <1>12, <1>14, <1>18, <2>1, <2>2, <2>3
<1>19. QED
  BY <1>1, <1>4, <1>6, <1>16, <1>17, <1>18 DEF g, h

\* Every call brings the end of the line nearer.
LEMMA CallBurns ==
  ASSUME LineInv, NEW p, Flows(p), p.x < 160, NEW last, StripsInOrder(p, last), Timely(p)
  PROVE  LET n == Line!RunFetcher(p)
             m == Line!Pop(n)
             stalls == \/ Line!IsFetchingObject(p.fetcher) \/ Line!IsFetchingObject(n.fetcher)
                       \/ n.bg = <<>>
         IN  /\ stalls => Timely(n) /\ CallsLeft(n) < CallsLeft(p) /\ Place(n) = Place(p)
             /\ ~stalls => Timely(m) /\ CallsLeft(m) < CallsLeft(p) /\ Place(m) <= Place(p) + 1
<1> DEFINE w == Line!CheckForWindow(p)
           o == Line!FindObject(w)
           q == Line!FetchObject(o)
           next == Line!Advance(q)
           n == Line!RunFetcher(p)
           m == Line!Pop(n)
           stalls == \/ Line!IsFetchingObject(p.fetcher) \/ Line!IsFetchingObject(n.fetcher)
                     \/ n.bg = <<>>
<1>1. /\ Flows(w) /\ Flows(o) /\ Flows(q) /\ Flows(n)
      /\ StripsInOrder(w, last) /\ StripsInOrder(o, last) /\ StripsInOrder(q, last)
      /\ SameBut(next, n, {"fetcher"})
      /\ n.fetcher = [next.fetcher EXCEPT !.age = n.fetcher.age]
      /\ n.fetcher.age = IF next.fetcher.state # q.fetcher.state THEN 1
                         ELSE IF next.fetcher.age < 3 THEN next.fetcher.age + 1
                         ELSE next.fetcher.age
  BY RunFetcherShape
<1>2. Timely(w) /\ CallsLeft(w) <= CallsLeft(p)
  BY CheckForWindowCalls
<1>3. Timely(o) /\ CallsLeft(o) <= CallsLeft(w)
  BY <1>1, <1>2, FindObjectCalls
<1>4. /\ Timely(q) /\ CallsLeft(q) <= CallsLeft(o)
      /\ q.fetcher.mode # "object" /\ q.fetcher.objectPending /\ q.bg # <<>> =>
           UntilStep5(q.fetcher) > 0
  BY <1>1, <1>3, FetchObjectCalls
<1>5. /\ CallsLeft(p) \in Nat /\ CallsLeft(w) \in Nat /\ CallsLeft(o) \in Nat
      /\ CallsLeft(q) \in Nat /\ CallsLeft(n) \in Nat
      /\ n.bg # <<>> => CallsLeft(m) \in Nat
  <2>1. ASSUME NEW k, Flows(k)
        PROVE  CallsLeft(k) \in Nat
    <3>1. /\ PixelsLeft(k) \in Nat /\ Starved(k) \in Nat /\ ForObject(k) \in Nat
          /\ Ahead(k) \in Nat
      BY <2>1, CallNumbers
    <3> HIDE DEF PixelsLeft, Starved, ForObject, Ahead
    <3>2. QED
      BY <3>1 DEF CallsLeft
  <2>2. n.bg # <<>> => Flows(m)
    <3>1. n.x = p.x
      BY RunFetcherFlows DEF FlowsFrom
    <3> HIDE DEF n
    <3>2. QED
      BY <1>1, <3>1, PopFlows DEF m
  <2>3. QED
    BY <1>1, <2>1, <2>2
<1>6. FlowsFrom(p, n)
  BY RunFetcherFlows
<1>7. Place(n) = Place(p) /\ Place(p) \in Int
  BY <1>6, Numbers DEF FlowsFrom, Place
<1>8. q.fetcher.mode = "object" => Timely(n) /\ CallsLeft(n) < CallsLeft(q)
  BY <1>1, <1>4, ObjectBurns
<1>9. q.fetcher.mode # "object" =>
        /\ Timely(n)
        /\ n.fetcher.mode # "object" /\ n.fetcher.objectPending = q.fetcher.objectPending
        /\ q.fetcher.objectPending \/ n.bg = <<>> => CallsLeft(n) < CallsLeft(q)
        /\ ~q.fetcher.objectPending /\ n.bg # <<>> => CallsLeft(m) < CallsLeft(q)
  BY <1>1, <1>4, BackgroundBurns
\* The window may take the place of an object that is pending; the FIFO is then empty.
<1>10. Line!IsFetchingObject(p.fetcher) /\ ~Line!IsFetchingObject(q.fetcher) => n.bg = <<>>
  <2>1. \/ w = p
        \/ /\ w = Line!Reset(p, "window")
           /\ w.bg = <<>> /\ w.fetcher.mode = "window" /\ ~w.fetcher.objectPending
           /\ w.fetcher.state = "tile" /\ w.fetcher.age = 0
    BY CheckForWindowStrips, ResetShape
  <2>2. \/ o = w
        \/ /\ SameBut(w, o, {"fetcher", "blankNext", "fetched"})
           /\ ~Line!IsFetchingObject(w.fetcher)
           /\ o.fetcher = [w.fetcher EXCEPT !.object = o.fetcher.object, !.objectPending = TRUE]
    BY <1>1, FindObjectShape
  <2>3. q = o \/ q.fetcher.mode = "object"
    BY <1>1, FetchObjectShape
  <2>4. q.fetcher.state = "tile" /\ q.fetcher.age = 0 => next = q
    BY DEF Line!Advance
  <2> HIDE DEF w, o, q, next, n, m
  <2>5. o # w => o.fetcher.objectPending
    BY <1>1, <2>2 DEF Flows, Pipe, Fetcher
  <2>6. SUFFICES ASSUME Line!IsFetchingObject(p.fetcher), ~Line!IsFetchingObject(q.fetcher)
                 PROVE  n.bg = <<>>
    OBVIOUS
  <2>7. q = o /\ o = w /\ w # p
    BY <2>3, <2>5, <2>6 DEF Line!IsFetchingObject
  <2>8. next.bg = <<>>
    BY <2>1, <2>4, <2>7
  <2>9. QED
    BY <1>1, <2>8 DEF SameBut
<1> HIDE DEF w, o, q, next, n, m
<1>11. ~stalls => Timely(m) /\ CallsLeft(m) <= CallsLeft(n) /\ Place(m) <= Place(n) + 1
  BY <1>1, <1>8, <1>9, PopCalls DEF m
<1>12. CASE stalls
  <2>1. CallsLeft(n) < CallsLeft(q)
    BY <1>8, <1>9, <1>10, <1>12 DEF Line!IsFetchingObject
  <2>2. CallsLeft(n) < CallsLeft(p)
    BY <1>2, <1>3, <1>4, <1>5, <2>1
  <2>3. Timely(n)
    BY <1>8, <1>9
  <2>4. QED
    BY <1>7, <1>12, <2>2, <2>3 DEF n, m
<1>13. CASE ~stalls
  <2>1. CallsLeft(m) \in Nat
    BY <1>5, <1>13
  <2>2. CallsLeft(m) < CallsLeft(q)
    <3>1. CASE q.fetcher.mode = "object"
      <4>1. CallsLeft(m) <= CallsLeft(n) /\ CallsLeft(n) < CallsLeft(q)
        BY <1>8, <1>11, <1>13, <3>1
      <4>2. QED
        BY <1>5, <2>1, <4>1
    <3>2. CASE q.fetcher.mode # "object"
      BY <1>9, <1>13, <3>2 DEF Line!IsFetchingObject
    <3>3. QED
      BY <3>1, <3>2
  <2>3. CallsLeft(m) < CallsLeft(p)
    BY <1>2, <1>3, <1>4, <1>5, <2>1, <2>2
  <2>4. QED
    BY <1>7, <1>11, <1>13, <2>3 DEF n, m
<1>14. QED
  BY <1>12, <1>13

\* At the start of a line, with a window and ten objects ahead: the most there is.
LEMMA CallsAtStart ==
  ASSUME LineInv, NEW p, Flows(p), p.x = 0, p.initial = 8, p.scx = 0, p.clip = 0,
         Len(p.bg) = 8, p.fetcher = Line!Idle
  PROVE  Timely(p) /\ CallsLeft(p) <= 318
<1>1. /\ Line!Idle.mode = "background" /\ Line!Idle.state = "tile" /\ Line!Idle.age = 0
      /\ ~Line!Idle.rowPushed /\ ~Line!Idle.objectPending
  BY DEF Line!Idle
<1>2. Base(p) = Line!Idle
  BY <1>1 DEF Base
<1>3. Timely(p) /\ Starved(p) = 0 /\ ForObject(p) = 0
  <2>1. UntilRow(Line!Idle) = 6
    BY <1>1 DEF UntilRow, Short
  <2>2. QED
    BY <1>1, <1>2, <2>1 DEF Timely, Starved, Lack, ForObject
<1>4. Ahead(p) <= 143
  <2>1. Cardinality(Waiting(p)) \in Nat /\ Cardinality(Waiting(p)) <= 10
    BY CallNumbers
  <2>2. 13 * Cardinality(Waiting(p)) <= 130
    BY <2>1
  <2>3. QED
    BY <1>1, <1>2, <2>1, <2>2 DEF Ahead
<1>5. PixelsLeft(p) <= 175
  <2>1. line.scx \in Nat /\ line.scx <= 7
    BY DEF LineInv
  <2>2. QED
    BY <2>1 DEF PixelsLeft
<1>6. /\ CallsLeft(p) = PixelsLeft(p) + Ahead(p) + Starved(p) + ForObject(p)
      /\ PixelsLeft(p) \in Nat /\ Ahead(p) \in Nat
  BY CallNumbers
<1> HIDE DEF PixelsLeft, Ahead, Starved, ForObject
<1>7. QED
  BY <1>3, <1>4, <1>5, <1>6

LEMMA CallsNext ==
  ASSUME UNCHANGED <<line, objects>>, NEW p, p = pipe'
  PROVE  /\ CallsLeft(pipe)' = CallsLeft(p) /\ Timely(pipe)' <=> Timely(p)
         /\ Place(pipe)' = Place(p)
BY DEF CallsLeft, PixelsLeft, Ahead, Starved, ForObject, Base, Waiting, Timely, Place, Lack,
       UntilRow, UntilStep5, Short

\* How many calls a line has taken and how many may be left.
LineInTime ==
  /\ calls \in Nat
  /\ phase = "found" => calls = 0
  /\ phase = "transfer" =>
       calls + CallsLeft(pipe) <= 318 /\ calls >= Place(pipe) + 8 /\ Timely(pipe)
  /\ phase = "idle" => calls <= 318 /\ (calls > 0 => calls >= 168)

LEMMA LineInTimeStarts ==
  ASSUME LineInv, LineInv', LineStarted, LineInTime, Line!StartLine
  PROVE  LineInTime'
<1>1. /\ phase = "found" /\ phase' = "transfer"
      /\ pipe' = [pipe EXCEPT !.initial = 8, !.bg = Line!Blanks]
      /\ pipe = [Line!EmptyPipe EXCEPT !.fetched = line.gone]
      /\ UNCHANGED <<line, wx, objects, shown, calls, moved>>
  BY DEF Line!StartLine, LineStarted
<1>2. Len(Line!Blanks) = 8
  <2>1. Line!Blanks \in [1 .. 8 -> BgPixel]
    BY DEF Line!Blanks, BgPixel, Strips
  <2>2. QED
    BY <2>1, EightPixels
<1> HIDE DEF Line!Blanks
<1>3. PICK p : p = pipe'
  OBVIOUS
<1>4. /\ p.x = 0 /\ p.initial = 8 /\ p.scx = 0 /\ p.clip = 0
      /\ p.fetcher = Line!Idle /\ p.bg = Line!Blanks
  BY <1>1, <1>3 DEF Line!EmptyPipe
<1>5. Flows(p)
  BY <1>1, <1>3 DEF LineInv, Flows
<1>6. Timely(p) /\ CallsLeft(p) <= 318 /\ CallsLeft(p) \in Int
  <2>1. Timely(p) /\ CallsLeft(p) <= 318
    BY <1>2, <1>4, <1>5, CallsAtStart
  <2>2. CallsLeft(p) \in Int
    BY <1>5, CallNumbers
  <2>3. QED
    BY <2>1, <2>2
<1>7. Place(p) = -8
  BY <1>4 DEF Place
<1>8. CallsLeft(pipe)' = CallsLeft(p) /\ Timely(pipe)' /\ Place(pipe)' = Place(p)
  BY <1>1, <1>3, <1>6, CallsNext
<1>9. calls' = 0
  BY <1>1 DEF LineInTime
<1>10. QED
  BY <1>1, <1>6, <1>7, <1>8, <1>9 DEF LineInTime

LEMMA LineInTimeTransfers ==
  ASSUME LineInv, LineStarted, LineInTime, Line!HandlePixelTransfer
  PROVE  LineInTime'
<1> DEFINE p == Line!RunFetcher(pipe)
           m == Line!Pop(p)
           stalls == \/ Line!IsFetchingObject(pipe.fetcher) \/ Line!IsFetchingObject(p.fetcher)
                     \/ p.bg = <<>>
           draws == ~stalls /\ Line!Draws(p)
           n == IF stalls THEN p ELSE m
<1>1. /\ pipe' = n /\ calls' = calls + 1
      /\ phase' = IF draws /\ p.x + 1 >= 160 THEN "idle" ELSE phase
      /\ phase = "transfer" /\ UNCHANGED <<startup, line, wx, objects, moved>>
  BY DEF Line!HandlePixelTransfer
<1>2. Flows(pipe) /\ pipe.x < 160 /\ StripsInOrder(pipe, shown)
  BY <1>1 DEF LineInv, LineStarted
<1>3. calls \in Nat /\ calls + CallsLeft(pipe) <= 318 /\ calls >= Place(pipe) + 8 /\ Timely(pipe)
  BY <1>1 DEF LineInTime
<1>4. Timely(n) /\ CallsLeft(n) < CallsLeft(pipe) /\ Place(n) <= Place(pipe) + 1
  <2>1. /\ stalls => Timely(p) /\ CallsLeft(p) < CallsLeft(pipe) /\ Place(p) = Place(pipe)
        /\ ~stalls => Timely(m) /\ CallsLeft(m) < CallsLeft(pipe) /\ Place(m) <= Place(pipe) + 1
    BY <1>2, <1>3, CallBurns
  <2>2. Place(pipe) \in Int
    BY <1>2, Places
  <2> HIDE DEF p, m, stalls
  <2>3. QED
    BY <2>1, <2>2
<1>5. Flows(p) /\ p.x = pipe.x
  BY <1>2, RunFetcherFlows DEF FlowsFrom
<1>6. ~stalls => p.bg # <<>>
  OBVIOUS
<1> HIDE DEF p
<1>7. ~stalls => Flows(m) /\ m.x = (IF Line!Draws(p) THEN p.x + 1 ELSE p.x)
  BY <1>2, <1>5, <1>6, PopFlows
<1>8. draws => m.initial = 0
  <2>1. Line!Draws(p) => p.initial = 0
    BY DEF Line!Draws
  <2>2. p.bg # <<>> /\ Line!Draws(p) => SameBut(p, m, {"bg", "obj", "x", "blankNext"})
    BY <1>5, PopShape
  <2>3. QED
    BY <1>6, <2>1, <2>2 DEF SameBut
<1> HIDE DEF m, stalls
<1>9. Flows(n)
  BY <1>5, <1>7
<1>10. /\ CallsLeft(n) \in Nat /\ CallsLeft(pipe) \in Nat
       /\ Place(n) \in Int /\ Place(pipe) \in Int
  <2>1. ASSUME NEW k, Flows(k)
        PROVE  CallsLeft(k) \in Nat /\ Place(k) \in Int
    <3>1. /\ PixelsLeft(k) \in Nat /\ Starved(k) \in Nat /\ ForObject(k) \in Nat
          /\ Ahead(k) \in Nat
      BY <2>1, CallNumbers
    <3> HIDE DEF PixelsLeft, Starved, ForObject, Ahead
    <3>2. CallsLeft(k) \in Nat
      BY <3>1 DEF CallsLeft
    <3>3. Place(k) \in Int
      BY <2>1, Places
    <3>4. QED
      BY <3>2, <3>3
  <2>2. QED
    BY <1>2, <1>9, <2>1
<1>11. draws /\ p.x + 1 >= 160 => Place(n) >= 160
  <2>1. SUFFICES ASSUME draws, p.x + 1 >= 160
                 PROVE  Place(n) >= 160
    OBVIOUS
  <2>2. n = m /\ m.x = p.x + 1 /\ m.initial = 0
    BY <1>7, <1>8, <2>1
  <2>3. p.x \in Nat
    BY <1>5, Numbers
  <2>4. QED
    BY <2>1, <2>2, <2>3 DEF Place
<1>12. CallsLeft(pipe)' = CallsLeft(n) /\ Timely(pipe)' /\ Place(pipe)' = Place(n)
  BY <1>1, <1>4, CallsNext
<1> HIDE DEF n, draws
<1>13. calls' \in Nat /\ calls' + CallsLeft(n) <= 318 /\ calls' >= Place(n) + 8
  BY <1>1, <1>3, <1>4, <1>10
<1>14. phase' = "idle" => calls' <= 318 /\ calls' >= 168
  BY <1>1, <1>10, <1>11, <1>13
<1>15. phase' \in {"transfer", "idle"}
  BY <1>1
<1>16. QED
  BY <1>12, <1>13, <1>14, <1>15 DEF LineInTime

LEMMA LineInTimeStep ==
  ASSUME LineInv, LineInv', LineStarted, LineInTime, [Line!Next]_Line!vars
  PROVE  LineInTime'
<1>1. ASSUME NEW l, Line!OamSearch(l)
      PROVE  LineInTime'
  BY <1>1 DEF Line!OamSearch, LineInTime
<1>2. CASE Line!StartLine
  BY <1>2, LineInTimeStarts
<1>3. CASE Line!HandlePixelTransfer
  BY <1>3, LineInTimeTransfers
<1>4. CASE Line!LcdOff
  BY <1>4 DEF Line!LcdOff, LineInTime
<1>5. ASSUME UNCHANGED <<phase, line, objects, pipe, calls>>
      PROVE  LineInTime'
  <2>1. /\ CallsLeft(pipe)' = CallsLeft(pipe) /\ Timely(pipe)' <=> Timely(pipe)
        /\ Place(pipe)' = Place(pipe)
    BY <1>5, CallsNext
  <2>2. QED
    BY <1>5, <2>1 DEF LineInTime
<1>6. ASSUME NEW value, Line!WriteWindow(value)
      PROVE  LineInTime'
  BY <1>5, <1>6 DEF Line!WriteWindow
<1>7. CASE UNCHANGED Line!vars
  BY <1>5, <1>7 DEF Line!vars
<1>8. QED
  BY <1>1, <1>2, <1>3, <1>4, <1>6, <1>7 DEF Line!Next

TimeInv == kind = "line" => LineInv /\ LineStarted /\ LineInTime

LEMMA TimeInductive ==
  /\ Init => TimeInv
  /\ TimeInv /\ [Next]_vars => TimeInv'
<1>1. Init => TimeInv
  <2>1. Line!Init => LineInTime
    BY DEF Line!Init, LineInTime
  <2>2. Init => (kind = "line" => Line!Init)
    BY DEF Init
  <2>3. QED
    BY <2>1, <2>2, DrawingInductive DEF DrawingInv, TimeInv
<1>2. ASSUME TimeInv, [Next]_vars, kind = "line"
      PROVE  LineInv' /\ LineStarted' /\ LineInTime'
  <2>1. [Line!Next]_Line!vars
    BY <1>2 DEF Next, vars, lineVars, Line!vars
  <2>2. LineInv' /\ LineStarted'
    BY <1>2, <2>1, LineStep, StartedStep, HardwareAssumption DEF TimeInv
  <2>3. QED
    BY <1>2, <2>1, <2>2, LineInTimeStep DEF TimeInv
<1>3. QED
  BY <1>1, <1>2, KindStays DEF TimeInv

\* Mode 3 of a line takes the renderer between 168 and 318 calls, whatever
\* scrolls it, wherever the window begins or is moved to, and however many
\* objects stop it: PpuTiming may count on it with any bounds that leave this
\* room.
THEOREM LineTimeTheorem ==
  ASSUME MinTransfer <= 168, MaxTransfer >= 318
  PROVE  Spec => []LineFits
<1>1. MinTransfer \in Nat /\ MaxTransfer \in Nat
  BY HardwareAssumption DEF Line!RendererAssumption
<1>2. TimeInv => LineFits
  <2>1. SUFFICES ASSUME LineInv, LineStarted, LineInTime
                 PROVE  Line!LineFits
    BY DEF TimeInv, LineFits
  <2>2. calls <= 318
    <3>1. CASE phase = "transfer"
      <4>1. Flows(pipe)
        BY <2>1 DEF LineInv
      <4>2. /\ PixelsLeft(pipe) \in Nat /\ Starved(pipe) \in Nat /\ ForObject(pipe) \in Nat
            /\ Ahead(pipe) \in Nat
        BY <2>1, <4>1, CallNumbers
      <4>3. CallsLeft(pipe) \in Nat
        BY <4>2 DEF CallsLeft
      <4> HIDE DEF CallsLeft
      <4>4. QED
        BY <2>1, <3>1, <4>3 DEF LineInTime
    <3>2. QED
      BY <2>1, <3>1 DEF LineInTime, LineInv
  <2>3. calls \in Nat /\ (phase = "idle" /\ calls > 0 => calls >= 168)
    BY <2>1 DEF LineInTime
  <2>4. QED
    BY <1>1, <2>2, <2>3 DEF Line!LineFits
<1>3. QED
  BY <1>2, TimeInductive, PTL DEF Spec
=============================================================================
