------------------------------- MODULE Mapper -------------------------------
(***************************************************************************)
(* What the cartridge mappers share, from the base class Mapper: how a     *)
(* selected bank becomes an index into the ROM and into the RAM array.     *)
(*                                                                         *)
(* A bank of RAM is one cell: no property tells two bytes of a bank apart, *)
(* and the offset into a bank is the same for every mapper.                *)
(***************************************************************************)
EXTENDS Integers

CONSTANTS
  RomBanks,     \* romSize() / KB16; loadRom() accepts whole banks only
  RamSizeCode,  \* the byte at 0149 of the cartridge's header
  Bytes         \* the values a program stores in RAM

MapperAssumption ==
  /\ RomBanks \in Nat \ {0}
  /\ RamSizeCode \in 0 .. 255
  /\ Bytes \subseteq 0 .. 255 /\ Bytes # {}

\* Where the registers in the ROM area begin (2000, 4000, 6000), and its end.
RomBankRegister == 8192
RamBankRegister == 16384
ModeRegister == 24576
RomEnd == 32768

\* RAM_SIZE / RAM_BANK_SIZE
ArrayBanks == 8

RamBankCount ==
  CASE RamSizeCode = 3 -> 4
    [] RamSizeCode = 4 -> 16
    [] RamSizeCode = 5 -> 8
    [] OTHER -> 1

\* Mutant: a bank the cartridge does not have aliases none that it has.
RamBankUnaliased(raw) == raw

\* Where a bank-select value leads: banks that do not exist alias others.
RamBank(raw) == raw % RamBankCount

RomBank(raw) == raw % RomBanks

\* m_ram.at() throws for a bank that lies beyond the array.
RamFits(raw) == RamBank(raw) < ArrayBanks

\* m_ram is cleared; a cartridge always has the whole array.
Ram == [0 .. ArrayBanks - 1 -> Bytes \union {0}]
ClearedRam == [bank \in 0 .. ArrayBanks - 1 |-> 0]

\* Disabled RAM reads as an open bus.
OpenBus == 255
=============================================================================
