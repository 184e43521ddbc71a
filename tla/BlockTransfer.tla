--------------------------- MODULE BlockTransfer ---------------------------
(***************************************************************************)
(* What VRAM DMA promises: a transfer is a number of blocks, moved one at  *)
(* a time.  A general-purpose transfer moves all of its blocks and nothing *)
(* can come between; an H-Blank transfer moves one block for every grant.  *)
(***************************************************************************)
EXTENDS Integers

CONSTANT MaxBlocks    \* longest transfer, in blocks (128)

VARIABLES
  onHBlank,   \* whether blocks wait for the H-Blank
  blocks,     \* blocks still to be moved
  granted     \* whether the next block may be moved now

vars == <<onHBlank, blocks, granted>>

Init == onHBlank = FALSE /\ blocks = 0 /\ granted = FALSE

\* A new transfer replaces an H-Blank transfer, never a general-purpose one.
Start ==
  /\ onHBlank \/ blocks = 0
  /\ onHBlank' \in BOOLEAN
  /\ blocks' \in 1 .. MaxBlocks
  /\ granted' \in BOOLEAN
  /\ granted' => onHBlank'

Grant ==
  /\ onHBlank /\ blocks > 0 /\ ~granted
  /\ granted' = TRUE
  /\ UNCHANGED <<onHBlank, blocks>>

\* Moving a block uses the grant up.
MoveBlock ==
  /\ blocks > 0
  /\ onHBlank => granted
  /\ blocks' = blocks - 1
  /\ granted' = FALSE
  /\ UNCHANGED onHBlank

Next == Start \/ Grant \/ MoveBlock

Spec == Init /\ [][Next]_vars
=============================================================================
