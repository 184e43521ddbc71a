------------------------------- MODULE CgbDma -------------------------------
(***************************************************************************)
(* VRAM DMA of the CGB (FF51 to FF55): Mmu moves a byte every two T-cycles *)
(* while Cpu::runNextInstruction() refuses to start an instruction, and    *)
(* Ppu::runNextTCycle() lets the next block of an H-Blank transfer go.     *)
(*                                                                         *)
(* An instruction that is already under way when an H-Blank starts is not  *)
(* stopped: its later accesses meet the block in transfer.  A step is one  *)
(* T-cycle, or one access (timings from CpuTiming).  The PPU is reduced to *)
(* whether STAT shows mode 0, and to how long it has not.  The bytes, and  *)
(* the source they come from, are left out.  The words that LD (a16),SP,   *)
(* pushes and calls store unsynchronised may hit any two adjacent          *)
(* registers; the return address of an interrupt dispatch is assumed to be *)
(* stored elsewhere, for the instruction behind it runs even when the word *)
(* has started a transfer.                                                 *)
(***************************************************************************)
EXTENDS CpuTiming

CONSTANTS
  MaxBlocks,   \* longest transfer FF55 can ask for, in blocks (128)
  Mode3Min,    \* least T-cycles between mode 0 being left and an H-Blank (172)
  VramPages,   \* values of destHigh that lie in VRAM (32)
  HighMod,     \* values of destHigh (256)
  PageBytes    \* values of destLow (256); these three are 1 in the runs that
               \* are not about addresses

BlockSize == 16
TCyclesPerByte == 2

ASSUME CgbDmaAssumption ==
  /\ MaxBlocks \in Nat \ {0}
  /\ Mode3Min \in Nat /\ Mode3Min >= BlockSize * TCyclesPerByte
  /\ VramPages \in Nat \ {0} /\ PageBytes \in Nat \ {0}
  /\ HighMod \in Nat /\ VramPages <= HighMod

VARIABLES
  isHDMA,     \* whether the transfer waits for H-Blanks
  remaining,  \* bytesRemaining
  inBlock,    \* isHDMABlockInTransfer
  sub,        \* tCyclesSinceLastByte
  destHigh, destLow, \* the destination
  mode0,      \* whether the mode bits of STAT are 0
  drawn,      \* T-cycles since they were last, up to Mode3Min
  stage, left, rest, accesses, writes, \* the CPU, as in CpuTimer
  running,    \* no hardAssert() has ended the program
  due         \* history: blocks asked for that wait for an H-Blank to come

transfer == <<isHDMA, remaining, inBlock, sub>>
dest == <<destHigh, destLow>>
ppu == <<mode0, drawn>>
cpu == <<stage, left, rest, accesses, writes>>
vars == <<transfer, dest, ppu, cpu, running, due>>

MaxTCycles == DispatchTCycles + 24

TypeOK ==
  /\ isHDMA \in BOOLEAN /\ inBlock \in BOOLEAN
  /\ remaining \in 0 .. MaxBlocks * BlockSize
  /\ sub \in 0 .. TCyclesPerByte - 1
  /\ destHigh \in 0 .. HighMod - 1 /\ destLow \in 0 .. PageBytes - 1
  /\ mode0 \in BOOLEAN /\ drawn \in 0 .. Mode3Min
  /\ stage \in {"boundary", "sync", "access"}
  /\ left \in 0 .. MaxTCycles /\ rest \in 0 .. 4 /\ accesses \in 0 .. 2
  /\ writes \in BOOLEAN /\ running \in BOOLEAN
  /\ due \in 0 .. MaxBlocks

Init ==
  /\ isHDMA = FALSE /\ inBlock = FALSE /\ remaining = 0 /\ sub = 0
  /\ destHigh = 0 /\ destLow = 0
  /\ mode0 = TRUE /\ drawn = 0
  /\ stage = "boundary" /\ left = 0 /\ rest = 0 /\ accesses = 0
  /\ writes = FALSE /\ running = TRUE /\ due = 0

-----------------------------------------------------------------------------
(* One T-cycle: Mmu::runNextTCycle(), then Ppu::runNextTCycle().           *)

\* Mutant: nobody looks at how many bytes are left.
ActiveUncounted == isHDMA => inBlock

Active == remaining > 0 /\ (isHDMA => inBlock)

Copies == Active /\ sub + 1 >= TCyclesPerByte

RemainingAfter == IF Copies THEN remaining - 1 ELSE remaining

\* Mutant: the end of a block is looked for after the decrement.
EndsBlockLate == Copies /\ isHDMA /\ remaining % BlockSize = 0

\* The byte being copied is the last of its block.
EndsBlock == Copies /\ isHDMA /\ remaining % BlockSize = 1

\* Mutant: an H-Blank lets a block go only on top of one already in transfer.
NotifyInBlock(hblank) == hblank /\ isHDMA /\ RemainingAfter > 0 /\ inBlock

\* notifyHBlankStart()
Notifies(hblank) == hblank /\ isHDMA /\ RemainingAfter > 0

NextDest ==
  LET carry == destLow + 1 = PageBytes
  IN  /\ destLow' = IF carry THEN 0 ELSE destLow + 1
      /\ destHigh' = IF ~carry THEN destHigh
                     ELSE IF destHigh + 1 = HighMod THEN 0 ELSE destHigh + 1

DmaTCycle(hblank) ==
  /\ sub' = IF Active THEN (IF Copies THEN 0 ELSE sub + 1) ELSE sub
  /\ remaining' = RemainingAfter
  /\ inBlock' = ((inBlock /\ ~EndsBlock) \/ Notifies(hblank))
  /\ IF Copies THEN NextDest ELSE UNCHANGED dest
  /\ UNCHANGED isHDMA

NoMode0TCycle == drawn' = IF drawn < Mode3Min THEN drawn + 1 ELSE drawn

\* What the PPU does to STAT in a T-cycle: nothing; mode 3 ends in an H-Blank;
\* mode 0 is left, for mode 2 of the next line or for mode 1; or the LCD is
\* switched off.
PpuTCycle(event) ==
  CASE event = "none" ->
         /\ UNCHANGED mode0
         /\ IF mode0 THEN UNCHANGED drawn ELSE NoMode0TCycle
    [] event = "hblank" -> ~mode0 /\ drawn = Mode3Min /\ mode0' = TRUE /\ drawn' = 0
    [] event = "leave"  -> mode0 /\ mode0' = FALSE /\ drawn' = 0
    [] event = "off"    -> ~mode0 /\ mode0' = TRUE /\ drawn' = 0

PpuEvents == {"none", "hblank", "leave", "off"}

RunNextTCycle(event) ==
  /\ running /\ stage = "sync" /\ left > 0
  /\ left' = left - 1
  /\ DmaTCycle(event = "hblank")
  /\ PpuTCycle(event)
  /\ due' = IF event = "hblank" /\ due > 0 THEN due - 1 ELSE due
  /\ UNCHANGED <<stage, rest, accesses, writes, running>>

Synced ==
  /\ running /\ stage = "sync" /\ left = 0
  /\ stage' = IF accesses > 0 THEN "access" ELSE "boundary"
  /\ UNCHANGED <<transfer, dest, ppu, left, rest, accesses, writes, running, due>>

-----------------------------------------------------------------------------
(* The registers.                                                          *)

\* FF53 keeps five bits, FF54 drops the low nibble.
SetDestHigh == destHigh' \in 0 .. VramPages - 1
SetDestLow == destLow' \in {low \in 0 .. PageBytes - 1 : low % BlockSize = 0}

SetDest ==
  \/ SetDestHigh /\ UNCHANGED destLow
  \/ SetDestLow /\ UNCHANGED destHigh

Length(n) == n * BlockSize

\* FF55 starts a transfer, whatever is under way; in mode 0 the first block of
\* an H-Blank transfer goes at once.
SetTransfer(hdma, n) ==
  /\ isHDMA' = hdma
  /\ remaining' = Length(n)
  /\ inBlock' = (hdma /\ mode0)
  /\ due' = IF ~hdma THEN 0 ELSE IF mode0 THEN n - 1 ELSE n
  /\ UNCHANGED sub

\* Mutant: the number of blocks left is read, not the one less that is written.
Ff55Remaining == IF isHDMA /\ remaining > 0 THEN remaining \div BlockSize ELSE 255

\* A read of FF55.
Ff55 == IF isHDMA /\ remaining > 0 THEN remaining \div BlockSize - 1 ELSE 255

-----------------------------------------------------------------------------
(* The CPU.                                                                *)

Fetch(t, dispatched) ==
  /\ stage' = "sync"
  /\ left' = t.first + (IF dispatched THEN DispatchTCycles ELSE 0)
  /\ rest' = t.rest /\ accesses' = t.accesses /\ writes' = t.writes
  /\ UNCHANGED <<ppu, running>>

\* Mutant: only an H-Blank transfer stalls the CPU.
StalledByHdma == remaining > 0 /\ isHDMA /\ inBlock

\* Mutant: an H-Blank transfer stalls it between its blocks as well.
StalledThroughout == remaining > 0

\* isCgbGdmaActive() or isCgbHdmaActive()
Stalled == remaining > 0 /\ (isHDMA => inBlock)

\* The CPU is held for an M-cycle at a time.
Stall ==
  /\ running /\ stage = "boundary" /\ Stalled
  /\ Fetch(Unsynced(1), FALSE)
  /\ UNCHANGED <<transfer, dest, due>>

Free == running /\ stage = "boundary" /\ ~Stalled

RunInstruction ==
  /\ Free
  /\ \E t \in INSTRUCTIONS, dispatched \in BOOLEAN : Fetch(t, dispatched)
  /\ UNCHANGED <<transfer, dest, due>>

\* Words across FF52 and FF53, or FF53 and FF54.
WordToDest ==
  /\ Free
  /\ \E t \in WORD_STORES, dispatched \in BOOLEAN : Fetch(t, dispatched)
  /\ SetDestHigh /\ (SetDestLow \/ UNCHANGED destLow)
  /\ UNCHANGED <<transfer, due>>

\* Words across FF54 and FF55, or FF55 and FF56.
WordToFf55 ==
  /\ Free
  /\ \E t \in WORD_STORES, dispatched \in BOOLEAN : Fetch(t, dispatched)
  /\ SetDestLow \/ UNCHANGED destLow
  /\ UNCHANGED destHigh
  /\ \E hdma \in BOOLEAN, n \in 1 .. MaxBlocks : SetTransfer(hdma, n)

AfterAccess ==
  /\ running /\ stage = "access"
  /\ stage' = "sync" /\ left' = rest /\ rest' = 0
  /\ accesses' = accesses - 1
  /\ UNCHANGED <<writes, ppu>>

Store == accesses = 1 /\ writes

OtherAccess == AfterAccess /\ UNCHANGED <<transfer, dest, running, due>>

\* A read of FF55 while an H-Blank transfer is under way asserts that it is
\* between two blocks, with whole blocks left: hardAssert() ends the program.
ReadFf55 ==
  /\ AfterAccess /\ ~Store
  /\ running' = (isHDMA /\ remaining > 0 => ~inBlock /\ remaining >= BlockSize)
  /\ UNCHANGED <<transfer, dest, due>>

WriteDest == AfterAccess /\ Store /\ SetDest /\ UNCHANGED <<transfer, running, due>>

WriteFf55 ==
  /\ AfterAccess /\ Store
  /\ \E hdma \in BOOLEAN, n \in 1 .. MaxBlocks : SetTransfer(hdma, n)
  /\ UNCHANGED <<dest, running>>

Next ==
  \/ \E event \in PpuEvents : RunNextTCycle(event)
  \/ Synced
  \/ Stall
  \/ RunInstruction
  \/ WordToDest
  \/ WordToFf55
  \/ OtherAccess
  \/ ReadFf55
  \/ WriteDest
  \/ WriteFf55

Spec == Init /\ [][Next]_vars

\* The front end keeps calling runNextInstruction(), until a failed assertion
\* ends the program.
FairSpec == Spec /\ WF_vars(Next)

-----------------------------------------------------------------------------
(* Properties.                                                             *)

\* Between two blocks an H-Blank transfer has whole blocks left
\* (mmu.cpp, readByte() of FF55).
WaitingIsWholeBlocks == isHDMA /\ ~inBlock => remaining % BlockSize = 0

\* No read of FF55 finds a block in transfer.
Ff55Readable == running

\* The destination stays an offset within VRAM (mmu.cppm, destAddress()).
DestInVram == Active => destHigh < VramPages

\* Blocks move one per grant, and a general-purpose transfer is never disturbed.
Blocks == (remaining + BlockSize - 1) \div BlockSize
Granted == isHDMA /\ inBlock

\* FF55 keeps count through any H-Blanks, replacements and blocks under way: a
\* read of it gives one less than the blocks asked for that no H-Blank has let
\* go, and all ones without any, unless it comes in the middle of a block.
Ff55KeepsCount ==
  [][ReadFf55 => IF Granted THEN ~running'
                 ELSE running' /\ Ff55 = IF due = 0 THEN 255 ELSE due - 1]_vars

Promise == INSTANCE BlockTransfer WITH
  onHBlank <- isHDMA, blocks <- Blocks, granted <- Granted

MovesBlocks == Promise!Spec

\* What holds the CPU lets it go again, if the program does not end; and with
\* H-Blanks to come and nothing started anew, an H-Blank transfer ends.
DmaEnds ==
  /\ Stalled ~> (stage = "boundary" /\ ~Stalled) \/ ~running
  /\ []<><<RunNextTCycle("hblank")>>_vars /\ <>[][~WriteFf55 /\ ~WordToFf55]_vars
     => <>[](remaining = 0)
=============================================================================
