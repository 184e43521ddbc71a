------------------------------ MODULE Transfers ------------------------------
(***************************************************************************)
(* The two transfers that Mmu::runNextTCycle() carries on beside VRAM DMA: *)
(* OAM DMA and the serial port, each of them started, and started anew in  *)
(* its middle, by a store of the program.                                  *)
(*                                                                         *)
(* Of a byte in OAM the model keeps which page it came from.  The program's*)
(* own stores to OAM, which nothing holds back meanwhile, are left out.    *)
(***************************************************************************)
EXTENDS Integers

CONSTANTS
  TotalBytes,      \* bytes an OAM DMA copies (160)
  TCyclesPerByte,  \* T-cycles for each of them (4)
  SerialTCycles,   \* T-cycles of a byte on the serial port (4096)
  Pages,           \* what the program writes to FF46
  None

Offsets == 0 .. TotalBytes - 1
DmaState == [source : Pages, offset : Offsets, cycles : 0 .. TCyclesPerByte - 1]

TransfersAssumption ==
  /\ TotalBytes \in Nat \ {0}
  /\ TCyclesPerByte \in Nat \ {0} /\ SerialTCycles \in Nat \ {0}
  /\ Pages # {} /\ None \notin Pages \union Nat \union DmaState

VARIABLES
  dma,        \* m_dmaState, or None
  oam,        \* the page that each byte of OAM comes from
  sc,         \* bits 7 and 0 of SC
  countdown,  \* m_serialTCyclesRemaining, or None
  requested,  \* the serial interrupt has been requested
  page        \* history: what was last written to FF46

vars == <<dma, oam, sc, countdown, requested, page>>

TypeOK ==
  /\ dma \in DmaState \union {None}
  /\ oam \in [Offsets -> Pages \union {None}]
  /\ sc \in [start : BOOLEAN, internal : BOOLEAN]
  /\ countdown \in 1 .. SerialTCycles \union {None}
  /\ requested \in BOOLEAN
  /\ page \in Pages \union {None}

Init ==
  /\ dma = None /\ oam = [i \in Offsets |-> None]
  /\ sc = [start |-> FALSE, internal |-> FALSE]
  /\ countdown = None /\ requested = FALSE /\ page = None

\* A T-cycle of the transfer that copies a byte.
Copies == dma # None /\ dma.cycles + 1 >= TCyclesPerByte

\* Mutant: the byte count of the next transfer starts where this one ended.
DmaAfterByteShort ==
  IF dma.offset + 1 >= TotalBytes - 1 THEN None
  ELSE [dma EXCEPT !.cycles = 0, !.offset = @ + 1]

DmaAfterByte ==
  IF dma.offset + 1 >= TotalBytes THEN None
  ELSE [dma EXCEPT !.cycles = 0, !.offset = @ + 1]

ClockDma ==
  /\ dma' = IF dma = None THEN None
            ELSE IF Copies THEN DmaAfterByte
            ELSE [dma EXCEPT !.cycles = @ + 1]
  /\ oam' = IF Copies THEN [oam EXCEPT ![dma.offset] = dma.source] ELSE oam

\* Mutant: the countdown is only run while SC asks for the internal clock.
ClockSerialGuarded ==
  IF countdown = None \/ ~sc.internal THEN UNCHANGED <<countdown, sc, requested>>
  ELSE IF countdown > 1
  THEN countdown' = countdown - 1 /\ UNCHANGED <<sc, requested>>
  ELSE /\ countdown' = None
       /\ requested' = TRUE
       /\ UNCHANGED sc

ClockSerial ==
  IF countdown = None THEN UNCHANGED <<countdown, sc, requested>>
  ELSE IF countdown > 1
  THEN countdown' = countdown - 1 /\ UNCHANGED <<sc, requested>>
  ELSE /\ countdown' = None
       /\ sc' = [sc EXCEPT !.start = FALSE]
       /\ requested' = TRUE

RunNextTCycle == ClockDma /\ ClockSerial /\ UNCHANGED page

\* Mutant: a transfer that is under way only gets another source.
DmaStartedMidway(source) ==
  IF dma = None THEN [source |-> source, offset |-> 0, cycles |-> 0]
  ELSE [dma EXCEPT !.source = source]

DmaStarted(source) == [source |-> source, offset |-> 0, cycles |-> 0]

\* A store to FF46.
WriteOamDma(source) ==
  /\ dma' = DmaStarted(source) /\ page' = source
  /\ UNCHANGED <<oam, sc, countdown, requested>>

\* A store to SC: only one that starts the internal clock touches the countdown.
WriteSc(start, internal) ==
  /\ sc' = [start |-> start, internal |-> internal]
  /\ countdown' = IF start /\ internal THEN SerialTCycles ELSE countdown
  /\ UNCHANGED <<dma, oam, requested, page>>

\* The program takes the request from IF.
ClearRequest ==
  /\ requested /\ requested' = FALSE
  /\ UNCHANGED <<dma, oam, sc, countdown, page>>

Write ==
  \/ \E source \in Pages : WriteOamDma(source)
  \/ \E start, internal \in BOOLEAN : WriteSc(start, internal)

Next == RunNextTCycle \/ Write \/ ClearRequest

Spec == Init /\ [][Next]_vars

-----------------------------------------------------------------------------
(* Properties.                                                             *)

\* What OAM DMA has copied, all of OAM when it is over, comes from the page
\* written last, however often it was started anew.
OamIsOnePage ==
  \A i \in Offsets :
    (page # None /\ dma = None) \/ (dma # None /\ i < dma.offset) => oam[i] = page
=============================================================================
