---------------------------- MODULE CgbDmaProofs ----------------------------
(***************************************************************************)
(* Theorems about CgbDma, for every length of a transfer and of mode 3.    *)
(*                                                                         *)
(* That Mmu's transfer implements BlockTransfer rests on a race being won: *)
(* a block let go in one H-Blank must be over when the next one starts.    *)
(* BlockInTime says how: a block in transfer that needs n more T-cycles    *)
(* saw at most 32 - n of them since mode 0 was left.                       *)
(***************************************************************************)
EXTENDS CgbDma, TLAPS

\* T-cycles until the block under way has been moved.
Needed == 2 * ((remaining - 1) % 16) + 2 - sub

\* Only an H-Blank transfer with bytes left has a block in transfer.
BlockOfTransfer == inBlock => isHDMA /\ remaining > 0

BlockInTime ==
  /\ mode0 => drawn = 0
  /\ inBlock /\ ~mode0 => drawn + Needed <= 32

\* While a general-purpose transfer runs the CPU has no access left to make.
GdmaAlone == ~isHDMA /\ remaining > 0 => accesses = 0

\* An access only comes when the handler has one left.
AccessOutstanding == stage = "access" => accesses > 0

TypeInv == TypeOK /\ AccessOutstanding

\* The blocks that wait for an H-Blank are those left, less the one let go.
DueIsWaiting ==
  due = IF ~isHDMA THEN 0 ELSE IF inBlock THEN Blocks - 1 ELSE Blocks

IInv ==
  /\ TypeInv /\ WaitingIsWholeBlocks /\ BlockOfTransfer /\ BlockInTime /\ GdmaAlone
  /\ DueIsWaiting

-----------------------------------------------------------------------------
(* Arithmetic of blocks of 16 bytes.                                       *)

\* A byte that is not the last of its block leaves the number of blocks alone.
LEMMA InsideBlock ==
  ASSUME NEW r \in Nat, r > 0, r % 16 # 1
  PROVE  /\ (r - 1 + 16 - 1) \div 16 = (r + 16 - 1) \div 16
         /\ (r - 1) % 16 > 0
         /\ (r - 2) % 16 = ((r - 1) % 16) - 1
         /\ r - 1 > 0
OBVIOUS

\* The last byte of a block is one block less.
LEMMA EndOfBlock ==
  ASSUME NEW r \in Nat, r > 0, r % 16 = 1
  PROVE  /\ (r - 1 + 16 - 1) \div 16 = (r + 16 - 1) \div 16 - 1
         /\ (r - 1) % 16 = 0
OBVIOUS

LEMMA WholeBlocks ==
  ASSUME NEW n \in Nat
  PROVE  /\ (n * 16) % 16 = 0
         /\ (n * 16 + 16 - 1) \div 16 = n
OBVIOUS

LEMMA SomeBlocks ==
  ASSUME NEW r \in Nat
  PROVE  /\ (r + 16 - 1) \div 16 \in Nat
         /\ r > 0 <=> (r + 16 - 1) \div 16 > 0
OBVIOUS

\* Whole blocks are one at least.
LEMMA WholeBlocksLeft ==
  ASSUME NEW r \in Nat, r > 0, r % 16 = 0
  PROVE  r >= 16 /\ (r + 16 - 1) \div 16 = r \div 16 /\ r \div 16 > 0
OBVIOUS

-----------------------------------------------------------------------------
(* Type correctness.                                                       *)

LEMMA InitInv == Init => IInv
<1>1. SUFFICES ASSUME Init PROVE IInv
  OBVIOUS
<1>2. /\ isHDMA \in BOOLEAN /\ inBlock \in BOOLEAN /\ mode0 \in BOOLEAN
      /\ writes \in BOOLEAN /\ running \in BOOLEAN
  BY <1>1, Zenon DEF Init
<1>3. /\ remaining \in 0 .. MaxBlocks * BlockSize
      /\ sub \in 0 .. TCyclesPerByte - 1
      /\ destHigh \in 0 .. HighMod - 1 /\ destLow \in 0 .. PageBytes - 1
      /\ drawn \in 0 .. Mode3Min
      /\ stage \in {"boundary", "sync", "access"}
      /\ left \in 0 .. MaxTCycles /\ rest \in 0 .. 4 /\ accesses \in 0 .. 2
      /\ due \in 0 .. MaxBlocks
  BY <1>1, CgbDmaAssumption
     DEF Init, BlockSize, TCyclesPerByte, MaxTCycles, DispatchTCycles
<1>4. TypeInv
  BY <1>1, <1>2, <1>3 DEF TypeOK, TypeInv, AccessOutstanding, Init
<1>5. WaitingIsWholeBlocks /\ BlockOfTransfer /\ BlockInTime /\ GdmaAlone
  BY <1>1 DEF Init, WaitingIsWholeBlocks, BlockOfTransfer, BlockInTime,
              GdmaAlone, BlockSize
<1>6. DueIsWaiting
  BY <1>1 DEF Init, DueIsWaiting
<1>7. QED
  BY <1>4, <1>5, <1>6 DEF IInv

LEMMA TickType ==
  ASSUME TypeOK, NEW event \in PpuEvents, RunNextTCycle(event)
  PROVE  TypeOK'
<1>1. isHDMA' \in BOOLEAN
  BY Zenon DEF TypeOK, RunNextTCycle, DmaTCycle
<1>2. inBlock' \in BOOLEAN
  BY Zenon DEF RunNextTCycle, DmaTCycle
<1>3. remaining' \in 0 .. MaxBlocks * BlockSize
  BY CgbDmaAssumption
     DEF TypeOK, RunNextTCycle, DmaTCycle, RemainingAfter, Copies, Active, BlockSize
<1>4. sub' \in 0 .. TCyclesPerByte - 1
  BY DEF TypeOK, RunNextTCycle, DmaTCycle, Copies, TCyclesPerByte
<1>5. destHigh' \in 0 .. HighMod - 1 /\ destLow' \in 0 .. PageBytes - 1
  BY CgbDmaAssumption DEF TypeOK, RunNextTCycle, DmaTCycle, NextDest, dest
<1>6. drawn' \in 0 .. Mode3Min
  <2>1. CASE event = "none"
    BY <2>1, CgbDmaAssumption DEF TypeOK, RunNextTCycle, PpuTCycle, NoMode0TCycle
  <2>2. CASE event # "none"
    <3>1. drawn' = 0
      BY <2>2, Zenon DEF RunNextTCycle, PpuTCycle, PpuEvents
    <3>2. QED
      BY <3>1, CgbDmaAssumption
  <2>3. QED
    BY <2>1, <2>2
<1>7. mode0' \in BOOLEAN
  <2>1. mode0' = mode0 \/ mode0' = TRUE \/ mode0' = FALSE
    BY Zenon DEF RunNextTCycle, PpuTCycle, PpuEvents
  <2>2. QED
    BY <2>1, Zenon DEF TypeOK
<1>8. left' \in 0 .. MaxTCycles
  BY DEF TypeOK, RunNextTCycle, MaxTCycles, DispatchTCycles
<1>9. /\ stage' = stage /\ rest' = rest /\ accesses' = accesses
      /\ writes' = writes /\ running' = running
  BY DEF RunNextTCycle
<1>10. due' \in 0 .. MaxBlocks
  BY CgbDmaAssumption DEF TypeOK, RunNextTCycle
<1>11. QED
  BY <1>1, <1>2, <1>3, <1>4, <1>5, <1>6, <1>7, <1>8, <1>9, <1>10 DEF TypeOK

\* The longest way to the first access of a handler, and from it to the end.
IsShort(t) ==
  /\ t.first \in 0 .. 24 /\ t.rest \in 0 .. 4
  /\ t.accesses \in 0 .. 2 /\ t.writes \in BOOLEAN

LEMMA TimingsAreShort == \A t \in INSTRUCTIONS : IsShort(t)
<1>1. /\ \A c \in 1 .. 6 : IsShort(Unsynced(c))
      /\ \A c \in 2 .. 4 : IsShort(LoadAt(c)) /\ IsShort(StoreAt(c))
      /\ \A c \in 2 .. 4 : IsShort(EarlyLoadAt(c)) /\ IsShort(EarlyStoreAt(c))
      /\ \A c \in 2 .. 4 : IsShort(ModifyAt(c))
  BY DEF IsShort, Unsynced, LoadAt, StoreAt, EarlyLoadAt, EarlyStoreAt, ModifyAt, Timing
<1>2. \A t \in UNION {nop, halt, jpcc, retcc, ldRRd16, jrcc, di, ei, reti, rst,
                      stop, callcc, pushr16, popr16, incdecr16, aluD8} : IsShort(t)
  BY <1>1 DEF nop, halt, jpcc, retcc, ldRRd16, jrcc, di, ei, reti, rst, stop,
              callcc, pushr16, popr16, incdecr16, aluD8
<1>3. \A t \in UNION {rotateA, addhlr16, jphl, ldA16Sp, addSpHlE8, ldSpHl,
                      daaCplScfCcf} : IsShort(t)
  BY <1>1 DEF rotateA, addhlr16, jphl, ldA16Sp, addSpHlE8, ldSpHl, daaCplScfCcf
<1>4. \A t \in UNION {ldhlia, ldbcdea, ldRd8, ldaa16, aluR8} : IsShort(t)
  BY <1>1 DEF ldhlia, ldbcdea, ldRd8, ldaa16, aluR8
<1>5. \A t \in UNION {ldRR, ldhca, cbPrefixed, incr8, decr8, ldha8} : IsShort(t)
  BY <1>1 DEF ldRR, ldhca, cbPrefixed, incr8, decr8, ldha8
<1>6. QED
  BY <1>2, <1>3, <1>4, <1>5 DEF INSTRUCTIONS

\* What an instruction begins with, of the CPU and of the PPU.
LEMMA FetchType ==
  ASSUME TypeOK, NEW t \in INSTRUCTIONS, NEW dispatched \in BOOLEAN,
         Fetch(t, dispatched)
  PROVE  /\ stage' = "sync" /\ left' \in 0 .. MaxTCycles
         /\ rest' \in 0 .. 4 /\ accesses' \in 0 .. 2 /\ writes' \in BOOLEAN
         /\ mode0' \in BOOLEAN /\ drawn' \in 0 .. Mode3Min /\ running' \in BOOLEAN
<1>1. /\ t.first \in 0 .. 24 /\ t.rest \in 0 .. 4
      /\ t.accesses \in 0 .. 2 /\ t.writes \in BOOLEAN
  BY TimingsAreShort DEF IsShort
<1>2. left' \in 0 .. MaxTCycles
  BY <1>1 DEF Fetch, MaxTCycles, DispatchTCycles
<1>3. QED
  BY <1>1, <1>2 DEF TypeOK, Fetch, ppu

\* Words are stored by instructions without a synchronised access.
LEMMA WordsAreUnsynced ==
  \A t \in WORD_STORES : t \in INSTRUCTIONS /\ t.accesses = 0
<1>1. WORD_STORES \subseteq {Unsynced(4), Unsynced(5), Unsynced(6)}
  BY DEF WORD_STORES, ldA16Sp, pushr16, rst, callcc
<1>2. \A t \in WORD_STORES : t \in INSTRUCTIONS
  BY DEF WORD_STORES, INSTRUCTIONS
<1>3. \A c \in 4 .. 6 : Unsynced(c).accesses = 0
  BY DEF Unsynced, Timing
<1>4. QED
  BY <1>1, <1>2, <1>3

\* After an access only the handler's own registers are left to look at.
LEMMA AccessType ==
  ASSUME TypeInv, AfterAccess
  PROVE  /\ stage' = "sync" /\ left' \in 0 .. MaxTCycles
         /\ rest' \in 0 .. 4 /\ accesses' \in 0 .. 2 /\ writes' \in BOOLEAN
         /\ mode0' \in BOOLEAN /\ drawn' \in 0 .. Mode3Min
BY DEF TypeInv, AccessOutstanding, TypeOK, AfterAccess, ppu, MaxTCycles,
       DispatchTCycles

LEMMA TransferType ==
  ASSUME TypeOK, NEW hdma \in BOOLEAN, NEW n \in 1 .. MaxBlocks,
         SetTransfer(hdma, n)
  PROVE  /\ isHDMA' \in BOOLEAN /\ inBlock' \in BOOLEAN
         /\ remaining' \in 0 .. MaxBlocks * BlockSize
         /\ sub' \in 0 .. TCyclesPerByte - 1 /\ due' \in 0 .. MaxBlocks
<1>1. isHDMA' \in BOOLEAN /\ inBlock' \in BOOLEAN
  BY Zenon DEF SetTransfer
<1>2. remaining' \in 0 .. MaxBlocks * BlockSize
  BY CgbDmaAssumption DEF SetTransfer, Length, BlockSize
<1>3. sub' \in 0 .. TCyclesPerByte - 1 /\ due' \in 0 .. MaxBlocks
  BY CgbDmaAssumption DEF SetTransfer, TypeOK
<1>4. QED
  BY <1>1, <1>2, <1>3

LEMMA TypeStep ==
  ASSUME TypeInv, [Next]_vars
  PROVE  TypeInv'
<1> USE DEF TypeInv
<1>1. ASSUME NEW event \in PpuEvents, RunNextTCycle(event) PROVE TypeInv'
  BY <1>1, TickType DEF AccessOutstanding, RunNextTCycle
<1>2. CASE Synced
  BY <1>2 DEF AccessOutstanding, TypeOK, Synced, transfer, dest, ppu
<1>3. ASSUME NEW t \in INSTRUCTIONS, NEW dispatched \in BOOLEAN,
             Fetch(t, dispatched), UNCHANGED <<transfer, dest, due>>
      PROVE  TypeInv'
  BY <1>3, FetchType DEF AccessOutstanding, TypeOK, transfer, dest
<1>4. CASE Stall
  <2>1. Unsynced(1) \in INSTRUCTIONS
    BY DEF INSTRUCTIONS, nop
  <2>2. QED
    BY <1>3, <1>4, <2>1 DEF Stall
<1>5. CASE RunInstruction
  BY <1>3, <1>5 DEF RunInstruction
<1>6. CASE WordToDest
  <2>1. PICK t \in WORD_STORES, dispatched \in BOOLEAN : Fetch(t, dispatched)
    BY <1>6 DEF WordToDest
  <2>2. t \in INSTRUCTIONS
    BY <2>1, WordsAreUnsynced
  <2>3. destHigh' \in 0 .. HighMod - 1 /\ destLow' \in 0 .. PageBytes - 1
    BY <1>6, CgbDmaAssumption DEF TypeOK, WordToDest, SetDestHigh, SetDestLow
  <2>4. QED
    BY <1>6, <2>1, <2>2, <2>3, FetchType
       DEF AccessOutstanding, TypeOK, transfer, WordToDest
<1>7. CASE WordToFf55
  <2>1. PICK t \in WORD_STORES, dispatched \in BOOLEAN : Fetch(t, dispatched)
    BY <1>7 DEF WordToFf55
  <2>2. t \in INSTRUCTIONS
    BY <2>1, WordsAreUnsynced
  <2>3. destHigh' \in 0 .. HighMod - 1 /\ destLow' \in 0 .. PageBytes - 1
    BY <1>7, CgbDmaAssumption DEF TypeOK, WordToFf55, SetDestLow
  <2>4. /\ isHDMA' \in BOOLEAN /\ inBlock' \in BOOLEAN
        /\ remaining' \in 0 .. MaxBlocks * BlockSize
        /\ sub' \in 0 .. TCyclesPerByte - 1 /\ due' \in 0 .. MaxBlocks
    BY <1>7, TransferType DEF WordToFf55
  <2>5. QED
    BY <2>1, <2>2, <2>3, <2>4, FetchType DEF AccessOutstanding, TypeOK
<1>8. CASE OtherAccess
  BY <1>8, AccessType DEF AccessOutstanding, TypeOK, OtherAccess, transfer, dest
<1>9. CASE ReadFf55
  <2>1. running' \in BOOLEAN
    BY <1>9, Zenon DEF ReadFf55
  <2>2. QED
    BY <1>9, <2>1, AccessType DEF AccessOutstanding, TypeOK, ReadFf55, transfer, dest
<1>10. CASE WriteDest
  <2>1. destHigh' \in 0 .. HighMod - 1 /\ destLow' \in 0 .. PageBytes - 1
    BY <1>10, CgbDmaAssumption
       DEF TypeOK, WriteDest, SetDest, SetDestHigh, SetDestLow
  <2>2. QED
    BY <1>10, <2>1, AccessType DEF AccessOutstanding, TypeOK, WriteDest, transfer
<1>11. CASE WriteFf55
  <2>1. /\ isHDMA' \in BOOLEAN /\ inBlock' \in BOOLEAN
        /\ remaining' \in 0 .. MaxBlocks * BlockSize
        /\ sub' \in 0 .. TCyclesPerByte - 1 /\ due' \in 0 .. MaxBlocks
    BY <1>11, TransferType DEF WriteFf55
  <2>2. QED
    BY <1>11, <2>1, AccessType DEF AccessOutstanding, TypeOK, WriteFf55, dest
<1>12. CASE UNCHANGED vars
  BY <1>12 DEF AccessOutstanding, TypeOK, vars, transfer, dest, ppu, cpu
<1>13. QED
  BY <1>1, <1>2, <1>4, <1>5, <1>6, <1>7, <1>8, <1>9, <1>10, <1>11, <1>12 DEF Next

\* Type correctness (CgbDma's TypeOK): bytesRemaining and the destination never
\* leave their ranges, so no decrement of the count wraps.
THEOREM TypeCorrect == Spec => []TypeOK
<1>1. Init => TypeInv
  BY InitInv DEF IInv
<1>2. TypeInv /\ [Next]_vars => TypeInv'
  BY TypeStep
<1>3. TypeInv => TypeOK
  BY DEF TypeInv
<1>4. QED
  BY <1>1, <1>2, <1>3, PTL DEF Spec

-----------------------------------------------------------------------------
(* The race of a block against the next H-Blank.                           *)

\* What a T-cycle does to the count of a transfer that is not active.
LEMMA IdleTick ==
  ASSUME TypeOK, NEW event \in PpuEvents, RunNextTCycle(event), ~Active
  PROVE  /\ remaining' = remaining /\ sub' = sub /\ isHDMA' = isHDMA
         /\ inBlock' <=> inBlock \/ Notifies(event = "hblank")
BY DEF TypeOK, RunNextTCycle, DmaTCycle, RemainingAfter, Copies, EndsBlock

\* A byte takes two T-cycles; the first of them only counts.
LEMMA HalfByteTick ==
  ASSUME TypeOK, NEW event \in PpuEvents, RunNextTCycle(event), Active, sub = 0
  PROVE  /\ remaining' = remaining /\ sub' = 1 /\ isHDMA' = isHDMA
         /\ inBlock' <=> inBlock \/ Notifies(event = "hblank")
<1>1. ~Copies
  BY DEF TypeOK, Copies, TCyclesPerByte
<1>2. remaining' = remaining /\ sub' = 1 /\ isHDMA' = isHDMA
  BY <1>1 DEF RunNextTCycle, DmaTCycle, RemainingAfter
<1>3. inBlock' <=> inBlock \/ Notifies(event = "hblank")
  BY <1>1, Zenon DEF RunNextTCycle, DmaTCycle, EndsBlock
<1>4. QED
  BY <1>2, <1>3

LEMMA ByteTick ==
  ASSUME TypeOK, NEW event \in PpuEvents, RunNextTCycle(event), Active, sub # 0
  PROVE  /\ remaining' = remaining - 1 /\ sub' = 0 /\ isHDMA' = isHDMA
         /\ inBlock' <=> \/ inBlock /\ ~(isHDMA /\ remaining % 16 = 1)
                         \/ Notifies(event = "hblank")
<1>1. Copies
  BY DEF TypeOK, Copies, TCyclesPerByte
<1>2. remaining' = remaining - 1 /\ sub' = 0 /\ isHDMA' = isHDMA
  BY <1>1 DEF RunNextTCycle, DmaTCycle, RemainingAfter
<1>3. EndsBlock <=> isHDMA /\ remaining % 16 = 1
  BY <1>1, Zenon DEF EndsBlock, BlockSize
<1>4. inBlock' <=> \/ inBlock /\ ~(isHDMA /\ remaining % 16 = 1)
                  \/ Notifies(event = "hblank")
  BY <1>3, Zenon DEF RunNextTCycle, DmaTCycle
<1>5. QED
  BY <1>2, <1>4

\* The PPU's side of a T-cycle.
LEMMA PpuTick ==
  ASSUME TypeOK, mode0 => drawn = 0, NEW event \in PpuEvents, RunNextTCycle(event)
  PROVE  /\ mode0' => drawn' = 0
         /\ ~mode0' => drawn' <= (IF mode0 THEN 0 ELSE drawn + 1)
         /\ event = "hblank" => mode0' /\ ~mode0 /\ drawn = Mode3Min
<1>1. CASE event = "none"
  BY <1>1 DEF TypeOK, RunNextTCycle, PpuTCycle, NoMode0TCycle
<1>2. CASE event = "hblank"
  BY <1>2 DEF TypeOK, RunNextTCycle, PpuTCycle
<1>3. CASE event = "leave"
  BY <1>3 DEF TypeOK, RunNextTCycle, PpuTCycle
<1>4. CASE event = "off"
  BY <1>4 DEF TypeOK, RunNextTCycle, PpuTCycle
<1>5. QED
  BY <1>1, <1>2, <1>3, <1>4 DEF PpuEvents

\* With a block in transfer no H-Blank starts: mode 3 is longer than the block.
LEMMA NoHBlankInBlock ==
  ASSUME IInv, inBlock, NEW event \in PpuEvents, RunNextTCycle(event)
  PROVE  event # "hblank"
<1>1. TypeOK /\ remaining > 0 /\ (~mode0 => drawn + Needed <= 32)
  BY DEF IInv, TypeInv, BlockInTime, BlockOfTransfer
<1>2. remaining \in Nat /\ sub \in 0 .. 1
  BY <1>1, CgbDmaAssumption DEF TypeOK, BlockSize, TCyclesPerByte
<1>3. Needed >= 1
  BY <1>1, <1>2 DEF Needed
<1>4. Mode3Min >= 32
  BY CgbDmaAssumption DEF BlockSize, TCyclesPerByte
<1>5. ~mode0 => drawn < Mode3Min
  BY <1>1, <1>2, <1>3, <1>4, CgbDmaAssumption DEF TypeOK, Needed
<1>6. mode0 => drawn = 0
  BY DEF IInv, BlockInTime
<1>7. event = "hblank" => ~mode0 /\ drawn = Mode3Min
  BY <1>1, <1>6, PpuTick
<1>8. QED
  BY <1>1, <1>5, <1>7, CgbDmaAssumption DEF TypeOK

\* What is left of the invariant after a T-cycle, given what it did to the
\* transfer.
LEMMA TickInv ==
  ASSUME IInv, NEW event \in PpuEvents, RunNextTCycle(event)
  PROVE  WaitingIsWholeBlocks' /\ BlockOfTransfer' /\ BlockInTime' /\ GdmaAlone'
<1>1. /\ TypeOK /\ remaining \in Nat /\ sub \in 0 .. 1
      /\ isHDMA \in BOOLEAN /\ inBlock \in BOOLEAN /\ drawn \in Nat
  BY CgbDmaAssumption DEF IInv, TypeInv, TypeOK, BlockSize, TCyclesPerByte
<1>2. /\ inBlock => isHDMA /\ remaining > 0
      /\ isHDMA /\ ~inBlock => remaining % 16 = 0
      /\ mode0 => drawn = 0
      /\ inBlock /\ ~mode0 => drawn + Needed <= 32
      /\ ~isHDMA /\ remaining > 0 => accesses = 0
  BY DEF IInv, WaitingIsWholeBlocks, BlockOfTransfer, BlockInTime, GdmaAlone,
         BlockSize
<1>3. /\ mode0' => drawn' = 0
      /\ ~mode0' => drawn' <= (IF mode0 THEN 0 ELSE drawn + 1)
      /\ event = "hblank" => mode0' /\ ~mode0
      /\ inBlock => event # "hblank"
      /\ accesses' = accesses /\ drawn' \in Nat
  BY <1>1, <1>2, PpuTick, NoHBlankInBlock, TickType, CgbDmaAssumption
     DEF RunNextTCycle, TypeOK
<1>4. Notifies(event = "hblank") =>
        isHDMA /\ ~inBlock /\ mode0' /\ RemainingAfter > 0
  BY <1>3 DEF Notifies
<1>5. CASE ~Active
  <2>1. /\ remaining' = remaining /\ sub' = sub /\ isHDMA' = isHDMA
        /\ inBlock' <=> inBlock \/ Notifies(event = "hblank")
    BY <1>1, <1>5, IdleTick
  <2>2. ~inBlock
    BY <1>2, <1>5 DEF Active
  <2>3. RemainingAfter = remaining
    BY <1>5 DEF RemainingAfter, Copies
  <2>4. QED
    BY <1>1, <1>2, <1>3, <1>4, <2>1, <2>2, <2>3
       DEF WaitingIsWholeBlocks, BlockOfTransfer, BlockInTime, GdmaAlone, BlockSize
<1>6. CASE Active /\ sub = 0
  <2>1. /\ remaining' = remaining /\ sub' = 1 /\ isHDMA' = isHDMA
        /\ inBlock' <=> inBlock \/ Notifies(event = "hblank")
    BY <1>1, <1>6, HalfByteTick
  <2>2. inBlock' <=> inBlock
    BY <1>4, <1>6, <2>1 DEF Active
  <2>3. inBlock => Needed' = Needed - 1 /\ Needed <= 32
    BY <1>1, <1>2, <1>6, <2>1 DEF Needed
  <2>4. Needed \in Int
    BY <1>1 DEF Needed
  <2>5. BlockInTime'
    BY <1>1, <1>2, <1>3, <2>2, <2>3, <2>4 DEF BlockInTime
  <2>6. QED
    BY <1>1, <1>2, <1>3, <2>1, <2>2, <2>5
       DEF WaitingIsWholeBlocks, BlockOfTransfer, GdmaAlone, BlockSize
<1>7. CASE Active /\ sub # 0
  <2>1. /\ remaining' = remaining - 1 /\ sub' = 0 /\ isHDMA' = isHDMA
        /\ inBlock' <=> \/ inBlock /\ ~(isHDMA /\ remaining % 16 = 1)
                        \/ Notifies(event = "hblank")
    BY <1>1, <1>7, ByteTick
  <2>2. remaining > 0 /\ sub = 1
    BY <1>1, <1>7 DEF Active
  <2>3. Notifies(event = "hblank") => FALSE
    BY <1>4, <1>7 DEF Active
  <2>4. CASE remaining % 16 = 1
    <3>1. ~inBlock'
      BY <1>2, <2>1, <2>3, <2>4
    <3>2. (remaining - 1) % 16 = 0
      BY <1>1, <2>2, <2>4, EndOfBlock
    <3>3. QED
      BY <1>1, <1>2, <1>3, <2>1, <2>2, <3>1, <3>2
         DEF WaitingIsWholeBlocks, BlockOfTransfer, BlockInTime, GdmaAlone, BlockSize
  <2>5. CASE remaining % 16 # 1
    <3>1. inBlock' <=> inBlock
      BY <2>1, <2>3, <2>5
    <3>2. isHDMA => inBlock
      BY <1>7 DEF Active
    <3>3. /\ remaining - 1 > 0
          /\ (remaining - 2) % 16 = ((remaining - 1) % 16) - 1
      BY <1>1, <2>2, <2>5, InsideBlock
    <3>4. (remaining - 1) - 1 = remaining - 2
      BY <1>1
    <3>5. Needed = 2 * ((remaining - 1) % 16) + 1
      BY <1>1, <2>2 DEF Needed
    <3>6. Needed' = 2 * ((remaining - 2) % 16) + 2
      BY <1>1, <2>1, <3>4 DEF Needed
    <3>7. Needed' = Needed - 1 /\ Needed \in Int /\ Needed <= 32
      BY <1>1, <2>2, <3>3, <3>5, <3>6
    <3>8. Needed' \in Int /\ Needed' <= 31 /\ Needed' = Needed - 1 /\ Needed \in Int
      BY <3>7
    <3>9. drawn \in Nat /\ drawn' \in Nat
      BY <1>1, <1>3
    <3>10. BlockInTime'
      <4>1. ASSUME inBlock', ~mode0' PROVE drawn' + Needed' <= 32
        <5>1. inBlock
          BY <3>1, <4>1
        <5>2. CASE mode0
          <6>1. drawn' <= 0
            BY <1>3, <4>1, <5>2
          <6>2. \A x \in Nat, y \in Int : x <= 0 /\ y <= 31 => x + y <= 32
            OBVIOUS
          <6>3. QED
            BY <3>8, <3>9, <6>1, <6>2, Zenon
        <5>3. CASE ~mode0
          <6>1. drawn + Needed <= 32
            BY <1>2, <5>1, <5>3
          <6>2. drawn' <= drawn + 1
            BY <1>3, <4>1, <5>3
          <6>3. \A x, z \in Nat, y, w \in Int :
                  z <= x + 1 /\ y = w - 1 /\ x + w <= 32 => z + y <= 32
            OBVIOUS
          <6>4. QED
            BY <3>8, <3>9, <6>1, <6>2, <6>3, Zenon
        <5>4. QED
          BY <5>2, <5>3
      <4>2. QED
        BY <1>3, <4>1 DEF BlockInTime
    <3>11. QED
      BY <1>1, <1>2, <1>3, <2>1, <2>2, <3>1, <3>2, <3>3, <3>10
         DEF WaitingIsWholeBlocks, BlockOfTransfer, GdmaAlone, BlockSize
  <2>6. QED
    BY <2>4, <2>5
<1>8. QED
  BY <1>5, <1>6, <1>7

\* A T-cycle lets a block go, moves the last byte of one, or does nothing to
\* the number of blocks.
TickGrants(event) ==
  /\ event = "hblank" /\ isHDMA /\ ~inBlock /\ Blocks > 0
  /\ inBlock' /\ Blocks' = Blocks

TickMoves(event) ==
  /\ Blocks > 0 /\ (isHDMA => inBlock /\ event # "hblank")
  /\ ~inBlock' /\ Blocks' = Blocks - 1

TickIdles(event) ==
  /\ event = "hblank" /\ isHDMA => ~inBlock /\ Blocks = 0
  /\ (inBlock' <=> inBlock) /\ Blocks' = Blocks

LEMMA TickBlocks ==
  ASSUME IInv, NEW event \in PpuEvents, RunNextTCycle(event)
  PROVE  isHDMA' = isHDMA /\ (TickGrants(event) \/ TickMoves(event) \/ TickIdles(event))
<1>1. /\ TypeOK /\ remaining \in Nat /\ sub \in 0 .. 1
      /\ isHDMA \in BOOLEAN /\ inBlock \in BOOLEAN
      /\ inBlock => isHDMA /\ remaining > 0
      /\ inBlock => event # "hblank"
  BY CgbDmaAssumption, NoHBlankInBlock
     DEF IInv, TypeInv, TypeOK, BlockSize, TCyclesPerByte, BlockOfTransfer
<1>2. Notifies(event = "hblank") =>
        event = "hblank" /\ isHDMA /\ ~inBlock /\ RemainingAfter > 0
  BY <1>1, Zenon DEF Notifies
<1>3. Blocks = (remaining + 16 - 1) \div 16
  BY DEF Blocks, BlockSize
<1>4. Blocks' = (remaining' + 16 - 1) \div 16
  BY DEF Blocks, BlockSize
<1>5. remaining > 0 <=> Blocks > 0
  BY <1>1, <1>3, SomeBlocks
<1>6. CASE ~Active
  <2>1. /\ remaining' = remaining /\ isHDMA' = isHDMA
        /\ inBlock' <=> inBlock \/ Notifies(event = "hblank")
    BY <1>1, <1>6, IdleTick
  <2>2. Blocks' = Blocks
    BY <1>3, <1>4, <2>1
  <2>3. RemainingAfter = remaining
    BY <1>6 DEF RemainingAfter, Copies
  <2>4. CASE Notifies(event = "hblank")
    <3>1. event = "hblank" /\ isHDMA /\ ~inBlock /\ remaining > 0
      BY <1>2, <2>3, <2>4
    <3>2. Blocks > 0
      BY <1>5, <3>1
    <3>3. QED
      BY <2>1, <2>2, <2>4, <3>1, <3>2, Zenon DEF TickGrants
  <2>5. CASE ~Notifies(event = "hblank")
    <3>1. event = "hblank" /\ isHDMA => ~inBlock /\ ~(remaining > 0)
      BY <1>1, <2>3, <2>5, Zenon DEF Notifies
    <3>2. Blocks \in Nat
      BY <1>1, <1>3, SomeBlocks
    <3>3. ~(remaining > 0) => Blocks = 0
      BY <1>5, <3>2
    <3>4. QED
      BY <2>1, <2>2, <2>5, <3>1, <3>3, Zenon DEF TickIdles
  <2>6. QED
    BY <2>4, <2>5
<1>7. CASE Active /\ sub = 0
  <2>1. /\ remaining' = remaining /\ isHDMA' = isHDMA
        /\ inBlock' <=> inBlock \/ Notifies(event = "hblank")
    BY <1>1, <1>7, HalfByteTick
  <2>2. isHDMA => inBlock /\ event # "hblank"
    BY <1>1, <1>7 DEF Active
  <2>3. inBlock' <=> inBlock
    BY <1>2, <2>1, <2>2
  <2>4. Blocks' = Blocks
    BY <1>3, <1>4, <2>1
  <2>5. QED
    BY <2>1, <2>2, <2>3, <2>4, Zenon DEF TickIdles
<1>8. CASE Active /\ sub # 0
  <2>1. /\ remaining' = remaining - 1 /\ isHDMA' = isHDMA
        /\ inBlock' <=> \/ inBlock /\ ~(isHDMA /\ remaining % 16 = 1)
                        \/ Notifies(event = "hblank")
    BY <1>1, <1>8, ByteTick
  <2>2. remaining > 0 /\ (isHDMA => inBlock /\ event # "hblank")
    BY <1>1, <1>8 DEF Active
  <2>3. ~Notifies(event = "hblank")
    BY <1>2, <2>2
  <2>4. CASE remaining % 16 = 1
    <3>1. Blocks' = Blocks - 1
      BY <1>1, <1>3, <1>4, <2>1, <2>2, <2>4, EndOfBlock
    <3>2. Blocks > 0
      BY <1>5, <2>2
    <3>3. ~inBlock'
      BY <1>1, <2>1, <2>3, <2>4
    <3>4. QED
      BY <2>1, <2>2, <3>1, <3>2, <3>3, Zenon DEF TickMoves
  <2>5. CASE remaining % 16 # 1
    <3>1. Blocks' = Blocks
      BY <1>1, <1>3, <1>4, <2>1, <2>2, <2>5, InsideBlock
    <3>2. inBlock' <=> inBlock
      BY <2>1, <2>3, <2>5
    <3>3. QED
      BY <2>1, <2>2, <3>1, <3>2, Zenon DEF TickIdles
  <2>6. QED
    BY <2>4, <2>5
<1>9. QED
  BY <1>6, <1>7, <1>8

\* The blocks that wait are counted down by the H-Blanks.
LEMMA TickDue ==
  ASSUME IInv, NEW event \in PpuEvents, RunNextTCycle(event)
  PROVE  DueIsWaiting'
<1>1. /\ isHDMA' = isHDMA
      /\ TickGrants(event) \/ TickMoves(event) \/ TickIdles(event)
  BY TickBlocks
<1>2. due' = IF event = "hblank" /\ due > 0 THEN due - 1 ELSE due
  BY DEF RunNextTCycle
<1>3. /\ due = IF ~isHDMA THEN 0 ELSE IF inBlock THEN Blocks - 1 ELSE Blocks
      /\ due \in Int
  BY DEF IInv, TypeInv, TypeOK, DueIsWaiting
<1>4. DueIsWaiting' <=>
        due' = IF ~isHDMA' THEN 0 ELSE IF inBlock' THEN Blocks' - 1 ELSE Blocks'
  BY DEF DueIsWaiting
<1>5. CASE ~isHDMA
  <2>1. due' = 0
    BY <1>2, <1>3, <1>5
  <2>2. QED
    BY <1>1, <1>4, <1>5, <2>1, Zenon
<1>6. CASE isHDMA /\ TickGrants(event)
  <2>1. /\ event = "hblank" /\ ~inBlock /\ Blocks > 0
        /\ inBlock' /\ Blocks' = Blocks
    BY <1>6, Zenon DEF TickGrants
  <2>2. due' = Blocks - 1
    BY <1>2, <1>3, <1>6, <2>1
  <2>3. QED
    BY <1>1, <1>4, <1>6, <2>1, <2>2, Zenon
<1>7. CASE isHDMA /\ TickMoves(event)
  <2>1. event # "hblank" /\ inBlock /\ ~inBlock' /\ Blocks' = Blocks - 1
    BY <1>7, Zenon DEF TickMoves
  <2>2. due' = Blocks - 1
    BY <1>2, <1>3, <1>7, <2>1
  <2>3. QED
    BY <1>1, <1>4, <1>7, <2>1, <2>2, Zenon
<1>8. CASE isHDMA /\ TickIdles(event)
  <2>1. /\ event = "hblank" => ~inBlock /\ Blocks = 0
        /\ (inBlock' <=> inBlock) /\ Blocks' = Blocks
    BY <1>8, Zenon DEF TickIdles
  <2>2. due' = due
    BY <1>2, <1>3, <1>8, <2>1
  <2>3. QED
    BY <1>1, <1>3, <1>4, <1>8, <2>1, <2>2, Zenon
<1>9. QED
  BY <1>1, <1>5, <1>6, <1>7, <1>8

-----------------------------------------------------------------------------
(* The CPU's steps.                                                        *)

LEMMA UntouchedInv ==
  ASSUME IInv, UNCHANGED <<transfer, ppu, due>>,
         ~isHDMA /\ remaining > 0 => accesses' = 0
  PROVE  /\ WaitingIsWholeBlocks' /\ BlockOfTransfer' /\ BlockInTime' /\ GdmaAlone'
         /\ DueIsWaiting'
BY DEF IInv, WaitingIsWholeBlocks, BlockOfTransfer, BlockInTime, GdmaAlone,
       DueIsWaiting, Blocks, Needed, transfer, ppu

\* Whoever stores to FF55 has no access left to make, and no general-purpose
\* transfer under way.
LEMMA Starter ==
  ASSUME IInv, WordToFf55 \/ WriteFf55
  PROVE  /\ \E hdma \in BOOLEAN, n \in 1 .. MaxBlocks : SetTransfer(hdma, n)
         /\ UNCHANGED ppu /\ accesses' = 0
         /\ ~isHDMA => ~(remaining > 0)
<1>1. CASE WordToFf55
  <2>1. accesses' = 0 /\ UNCHANGED ppu
    BY <1>1, WordsAreUnsynced DEF WordToFf55, Fetch
  <2>2. ~isHDMA => ~(remaining > 0)
    BY <1>1 DEF WordToFf55, Free, Stalled
  <2>3. QED
    BY <1>1, <2>1, <2>2 DEF WordToFf55
<1>2. CASE WriteFf55
  <2>1. accesses = 1 /\ accesses' = accesses - 1 /\ UNCHANGED ppu
    BY <1>2 DEF WriteFf55, AfterAccess, Store
  <2>2. QED
    BY <1>2, <2>1 DEF WriteFf55, IInv, GdmaAlone
<1>3. QED
  BY <1>1, <1>2

\* The store that starts a transfer.
LEMMA StartInv ==
  ASSUME IInv, NEW hdma \in BOOLEAN, NEW n \in 1 .. MaxBlocks,
         SetTransfer(hdma, n), UNCHANGED ppu, accesses' = 0
  PROVE  /\ WaitingIsWholeBlocks' /\ BlockOfTransfer' /\ BlockInTime' /\ GdmaAlone'
         /\ DueIsWaiting'
<1>1. /\ isHDMA' = hdma /\ remaining' = n * 16 /\ inBlock' = (hdma /\ mode0)
      /\ mode0' = mode0 /\ drawn' = drawn
      /\ due' = IF ~hdma THEN 0 ELSE IF mode0 THEN n - 1 ELSE n
  BY DEF SetTransfer, Length, BlockSize, ppu
<1>2. (n * 16) % 16 = 0 /\ n * 16 > 0
  BY CgbDmaAssumption, WholeBlocks
<1>3. mode0 => drawn = 0
  BY DEF IInv, BlockInTime
<1>4. WaitingIsWholeBlocks' /\ GdmaAlone'
  BY <1>1, <1>2 DEF WaitingIsWholeBlocks, GdmaAlone, BlockSize
<1>5. BlockOfTransfer' /\ BlockInTime'
  BY <1>1, <1>2, <1>3, Zenon DEF BlockOfTransfer, BlockInTime
<1>6. Blocks' = n
  BY <1>1, CgbDmaAssumption, WholeBlocks DEF Blocks, BlockSize
<1>7. DueIsWaiting'
  BY <1>1, <1>6, Zenon DEF DueIsWaiting
<1>8. QED
  BY <1>4, <1>5, <1>7

LEMMA InvStep ==
  ASSUME IInv, [Next]_vars
  PROVE  IInv'
<1>1. TypeInv'
  BY TypeStep DEF IInv
<1>2. TypeOK /\ (~isHDMA /\ remaining > 0 => accesses = 0)
  BY DEF IInv, TypeInv, GdmaAlone
<1>3. /\ WaitingIsWholeBlocks' /\ BlockOfTransfer' /\ BlockInTime' /\ GdmaAlone'
      /\ DueIsWaiting'
  <2>1. CASE \E event \in PpuEvents : RunNextTCycle(event)
    BY <2>1, TickInv, TickDue
  <2>2. CASE Synced
    BY <1>2, <2>2, UntouchedInv DEF Synced
  <2>3. CASE Stall
    BY <2>3, UntouchedInv DEF Stall, Fetch, Unsynced, Timing
  <2>4. CASE RunInstruction \/ WordToDest
    <3>1. ~Stalled /\ UNCHANGED <<transfer, ppu, due>>
      BY <2>4 DEF RunInstruction, WordToDest, Free, Fetch
    <3>2. QED
      BY <3>1, UntouchedInv DEF Stalled
  <2>5. CASE OtherAccess \/ ReadFf55 \/ WriteDest
    <3>1. UNCHANGED <<transfer, ppu, due>> /\ AfterAccess
      BY <2>5 DEF OtherAccess, ReadFf55, WriteDest, AfterAccess
    <3>2. accesses > 0
      BY <3>1 DEF IInv, TypeInv, AccessOutstanding, AfterAccess
    <3>3. QED
      BY <1>2, <3>1, <3>2, UntouchedInv DEF TypeOK
  <2>6. CASE WordToFf55 \/ WriteFf55
    BY <2>6, Starter, StartInv
  <2>7. CASE UNCHANGED vars
    BY <1>2, <2>7, UntouchedInv DEF vars, cpu
  <2>8. QED
    BY <2>1, <2>2, <2>3, <2>4, <2>5, <2>6, <2>7 DEF Next
<1>4. QED
  BY <1>1, <1>3 DEF IInv

LEMMA Invariant == Spec => []IInv
BY InitInv, InvStep, PTL DEF Spec

\* The second assertion at the read of FF55 (Mmu::readByte()) never fires: an
\* H-Blank transfer waits with whole blocks left.
THEOREM WholeBlocksTheorem == Spec => []WaitingIsWholeBlocks
<1>1. IInv => WaitingIsWholeBlocks
  BY DEF IInv
<1>2. QED
  BY <1>1, Invariant, PTL

-----------------------------------------------------------------------------
(* The refinement.                                                         *)

LEMMA InitImplements == Init => Promise!Init
<1>1. SUFFICES ASSUME Init PROVE Promise!Init
  OBVIOUS
<1>2. isHDMA = FALSE /\ inBlock = FALSE /\ remaining = 0
  BY <1>1 DEF Init
<1>3. Blocks = 0
  BY <1>2 DEF Blocks, BlockSize
<1>4. Granted = FALSE
  BY <1>2, Zenon DEF Granted
<1>5. QED
  BY <1>2, <1>3, <1>4 DEF Promise!Init

\* A T-cycle is a grant, the move of a block, or nothing that BlockTransfer
\* can see.
LEMMA TickImplements ==
  ASSUME IInv, NEW event \in PpuEvents, RunNextTCycle(event)
  PROVE  Promise!Grant \/ Promise!MoveBlock \/ UNCHANGED Promise!vars
<1>1. /\ isHDMA' = isHDMA
      /\ TickGrants(event) \/ TickMoves(event) \/ TickIdles(event)
  BY TickBlocks
<1>2. CASE TickGrants(event)
  <2>1. isHDMA /\ Blocks > 0 /\ ~Granted /\ Granted' = TRUE /\ Blocks' = Blocks
    BY <1>1, <1>2, Zenon DEF TickGrants, Granted
  <2>2. QED
    BY <1>1, <2>1, Zenon DEF Promise!Grant
<1>3. CASE TickMoves(event)
  <2>1. /\ Blocks > 0 /\ (isHDMA => Granted)
        /\ Granted' = FALSE /\ Blocks' = Blocks - 1
    BY <1>1, <1>3, Zenon DEF TickMoves, Granted
  <2>2. QED
    BY <1>1, <2>1, Zenon DEF Promise!MoveBlock
<1>4. CASE TickIdles(event)
  <2>1. Granted' = Granted /\ Blocks' = Blocks
    BY <1>1, <1>4, Zenon DEF TickIdles, Granted
  <2>2. QED
    BY <1>1, <2>1 DEF Promise!vars
<1>5. QED
  BY <1>1, <1>2, <1>3, <1>4

LEMMA StartImplements ==
  ASSUME IInv, WordToFf55 \/ WriteFf55
  PROVE  Promise!Start
<1>1. PICK hdma \in BOOLEAN, n \in 1 .. MaxBlocks : SetTransfer(hdma, n)
  BY Starter
<1>2. isHDMA' = hdma /\ remaining' = n * 16
  BY <1>1 DEF SetTransfer, Length, BlockSize
<1>3. isHDMA \/ Blocks = 0
  <2>1. remaining \in Nat /\ (~isHDMA => ~(remaining > 0))
    BY Starter, CgbDmaAssumption DEF IInv, TypeInv, TypeOK, BlockSize
  <2>2. ~isHDMA => remaining = 0
    BY <2>1
  <2>3. QED
    BY <2>2 DEF Blocks, BlockSize
<1>4. Blocks' = n
  BY <1>2, CgbDmaAssumption, WholeBlocks DEF Blocks, BlockSize
<1>5. Granted' \in BOOLEAN /\ (Granted' => isHDMA')
  BY Zenon DEF Granted
<1>6. QED
  BY <1>2, <1>3, <1>4, <1>5 DEF Promise!Start

LEMMA NextImplements ==
  ASSUME IInv, [Next]_vars
  PROVE  [Promise!Next]_(Promise!vars)
<1>1. CASE \E event \in PpuEvents : RunNextTCycle(event)
  BY <1>1, TickImplements DEF Promise!Next
<1>2. CASE WordToFf55 \/ WriteFf55
  BY <1>2, StartImplements DEF Promise!Next
<1>3. CASE UNCHANGED transfer
  BY <1>3 DEF transfer, Promise!vars, Blocks, Granted
<1>4. Synced \/ Stall \/ RunInstruction \/ WordToDest \/ OtherAccess \/ ReadFf55
        \/ WriteDest \/ UNCHANGED vars => UNCHANGED transfer
  BY DEF Synced, Stall, RunInstruction, WordToDest, OtherAccess, ReadFf55,
         WriteDest, vars
<1>5. QED
  BY <1>1, <1>2, <1>3, <1>4 DEF Next

\* Mmu's transfer, with the CPU that starts it and the PPU that paces it,
\* implements BlockTransfer: H-Blank blocks move one per grant and nothing
\* disturbs a general-purpose transfer.
THEOREM MovesBlocksTheorem == Spec => MovesBlocks
BY InitImplements, NextImplements, Invariant, PTL
   DEF Spec, MovesBlocks, Promise!Spec

-----------------------------------------------------------------------------
(* What FF55 reads.                                                        *)

LEMMA ReadStep ==
  ASSUME IInv, ReadFf55
  PROVE  IF Granted THEN ~running'
         ELSE running' /\ Ff55 = IF due = 0 THEN 255 ELSE due - 1
<1>1. /\ remaining \in Nat /\ isHDMA \in BOOLEAN
      /\ inBlock => isHDMA /\ remaining > 0
      /\ isHDMA /\ ~inBlock => remaining % 16 = 0
      /\ due = IF ~isHDMA THEN 0 ELSE IF inBlock THEN Blocks - 1 ELSE Blocks
  BY CgbDmaAssumption
     DEF IInv, TypeInv, TypeOK, BlockOfTransfer, WaitingIsWholeBlocks, DueIsWaiting,
         BlockSize
<1>2. running' <=> (isHDMA /\ remaining > 0 => ~inBlock /\ remaining >= 16)
  BY Zenon DEF ReadFf55, BlockSize
<1>3. CASE Granted
  BY <1>1, <1>2, <1>3 DEF Granted
<1>4. CASE ~Granted /\ ~(isHDMA /\ remaining > 0)
  <2>1. running' /\ Ff55 = 255
    BY <1>2, <1>4, Zenon DEF Ff55
  <2>2. due = 0
    <3>1. ~isHDMA \/ Blocks = 0
      BY <1>1, <1>4 DEF Blocks, BlockSize
    <3>2. QED
      BY <1>1, <1>4, <3>1 DEF Granted
  <2>3. QED
    BY <1>4, <2>1, <2>2, Zenon
<1>5. CASE ~Granted /\ isHDMA /\ remaining > 0
  <2>1. ~inBlock /\ remaining % 16 = 0
    BY <1>1, <1>5, Zenon DEF Granted
  <2>2. remaining >= 16 /\ Blocks = remaining \div 16 /\ Blocks > 0
    BY <1>1, <1>5, <2>1, WholeBlocksLeft DEF Blocks, BlockSize
  <2>3. running'
    BY <1>2, <2>1, <2>2, Zenon
  <2>4. due = Blocks /\ Ff55 = Blocks - 1
    BY <1>1, <1>5, <2>1, <2>2 DEF Ff55, BlockSize
  <2>5. QED
    BY <1>5, <2>2, <2>3, <2>4
<1>6. QED
  BY <1>3, <1>4, <1>5

\* FF55 keeps count (CgbDma's Ff55KeepsCount): for transfers of every length,
\* started anew any number of times, a read between two blocks trips neither
\* assertion of Mmu::readByte() and gives the blocks no H-Blank has let go yet.
THEOREM Ff55Theorem == Spec => Ff55KeepsCount
<1>1. IInv /\ [Next]_vars =>
        [ReadFf55 => IF Granted THEN ~running'
                     ELSE running' /\ Ff55 = IF due = 0 THEN 255 ELSE due - 1]_vars
  BY ReadStep
<1>2. QED
  BY <1>1, Invariant, PTL DEF Spec, Ff55KeepsCount
=============================================================================
