-------------------------------- MODULE Mbc2 --------------------------------
(***************************************************************************)
(* Mbc2Mapper: one register range, told apart by bit 8 of the address, and *)
(* a RAM of 512 half-bytes that repeats over the whole of A000-BFFF.       *)
(***************************************************************************)
EXTENDS Integers

CONSTANTS
  RomBanks,      \* romSize() / KB16
  Values,        \* what a program writes, to registers and to RAM
  RamAddresses   \* where a program accesses RAM

RamStart == 40960   \* A000

Mbc2Assumption ==
  /\ RomBanks \in 1 .. 16
  /\ Values \subseteq 0 .. 255
  /\ RamAddresses \subseteq RamStart .. RamStart + 8191

VARIABLES
  regs,    \* romBank, ramEnabled
  ram,     \* m_ram, the bytes at the addresses that RamAddresses repeat
  written  \* history: the half-byte last stored at each of them

vars == <<regs, ram, written>>

\* Addresses of the ROM area on both sides of each boundary; the registers end
\* at 4000, where readRom() has its second window.
KB16 == 16384
RomAddresses == {255, 256, KB16 - 257, KB16 - 1, KB16, KB16 + 256, 2 * KB16 - 1}

\* Mutant: the RAM repeats every 256 half-bytes.
EffectiveRamAddressShort(a) == RamStart + (a % 256)

EffectiveRamAddress(a) == RamStart + (a % 512)

Cells == {EffectiveRamAddress(a) : a \in RamAddresses}

TypeOK ==
  /\ regs \in [romBank : 0 .. 15, ramEnabled : BOOLEAN]
  /\ ram \in [Cells -> 0 .. 15]
  /\ written \in [{a % 512 : a \in RamAddresses} -> 0 .. 15]

Init ==
  /\ regs = [romBank |-> 1, ramEnabled |-> FALSE]
  /\ ram = [c \in Cells |-> 0]
  /\ written = [o \in {a % 512 : a \in RamAddresses} |-> 0]

\* Mutant: the bank is checked for 0 before it is masked.
BankMaskedLate(v) == IF v = 0 THEN 1 ELSE v % 16

Bank(v) == IF v % 16 = 0 THEN 1 ELSE v % 16

\* writeRom(): bit 8 of the address tells the two registers apart.
RegsAfter(r, a, v) ==
  CASE a < KB16 /\ (a \div 256) % 2 = 1 -> [r EXCEPT !.romBank = Bank(v)]
    [] a < KB16 /\ (a \div 256) % 2 = 0 -> [r EXCEPT !.ramEnabled = v % 16 = 10]
    [] OTHER -> r

WriteRom(a, v) == regs' = RegsAfter(regs, a, v) /\ UNCHANGED <<ram, written>>

\* What readRom() shows at 4000-7FFF.
SwitchedBank == regs.romBank % RomBanks

\* The upper half of a byte reads as set.
ReadRam(a) == IF regs.ramEnabled THEN ram[EffectiveRamAddress(a)] + 240 ELSE 255

\* Mutant: whole bytes are stored.
StoredByteWhole(v) == v

StoredByte(v) == v % 16

WriteRam(a, v) ==
  /\ IF regs.ramEnabled
     THEN /\ ram' = [ram EXCEPT ![EffectiveRamAddress(a)] = StoredByte(v)]
          /\ written' = [written EXCEPT ![a % 512] = v % 16]
     ELSE UNCHANGED <<ram, written>>
  /\ UNCHANGED regs

Next == \/ \E a \in RomAddresses, v \in Values : WriteRom(a, v)
        \/ \E a \in RamAddresses, v \in Values : WriteRam(a, v)

Spec == Init /\ [][Next]_vars

-----------------------------------------------------------------------------
(* Properties.                                                             *)

\* The window at 4000 shows bank 0 only when the ROM has a single bank or the
\* selected number is a multiple of its banks: never with all sixteen.
NoBankZeroAt4000 == RomBanks = 16 => SwitchedBank # 0

\* Every address reads as what was last stored at any address that is the same
\* modulo 512, with the upper half set, the RAM enabled or not in between.
RamRepeats ==
  regs.ramEnabled => \A a \in RamAddresses : ReadRam(a) = 240 + written[a % 512]
=============================================================================
