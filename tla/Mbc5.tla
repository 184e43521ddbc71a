-------------------------------- MODULE Mbc5 --------------------------------
(***************************************************************************)
(* Mbc5Mapper: nine bits of ROM bank, four of RAM bank, one bit of which   *)
(* drives the motor of a cartridge with a rumbler instead.                 *)
(***************************************************************************)
EXTENDS Mapper

CONSTANTS Values   \* what a program writes to the registers

Mbc5Assumption == MapperAssumption /\ Values \subseteq 0 .. 255

VARIABLES
  regs,     \* romBankLow, romBankHigh, ramBank, ramEnabled, rumblerEnabled
  ram,      \* m_ram, a cell for each bank
  written,  \* history: what was last stored while the bank was to be read
  thrown    \* whether m_ram.at() has thrown std::out_of_range

vars == <<regs, ram, written, thrown>>

\* The upper half of the ROM bank register, 3000-3FFF, holds its ninth bit.
RomBankHighRegister == 12288

Addresses == {0, RomBankRegister - 1, RomBankRegister, RomBankHighRegister - 1,
              RomBankHighRegister, RamBankRegister - 1, RamBankRegister,
              ModeRegister - 1, ModeRegister, RomEnd - 1}

Registers == [romBankLow : 0 .. 255, romBankHigh : 0 .. 1,
              ramBank : 0 .. 15, ramEnabled : BOOLEAN, rumblerEnabled : BOOLEAN]

TypeOK == /\ regs \in Registers /\ ram \in Ram
          /\ written \in [0 .. RamBankCount - 1 -> Bytes \union {0}]
          /\ thrown \in BOOLEAN

Init ==
  /\ \E rumbler \in BOOLEAN :
       regs = [romBankLow |-> 1, romBankHigh |-> 0, ramBank |-> 0,
               ramEnabled |-> FALSE, rumblerEnabled |-> rumbler]
  /\ ram = ClearedRam
  /\ written = [bank \in 0 .. RamBankCount - 1 |-> 0]
  /\ thrown = FALSE

\* Mutant: the high bit lands on a bit of the low register.
CurrentRomBankShort(r) == (128 * r.romBankHigh + r.romBankLow) % 256

CurrentRomBank(r) == 256 * r.romBankHigh + r.romBankLow

\* What readRom() shows at 4000-7FFF.
SwitchedBank(r) == RomBank(CurrentRomBank(r))

\* Mutant: the motor's bit reaches the RAM bank.
RamBankValueUnmasked(r, v) == v % 32

RamBankValue(r, v) == v % (IF r.rumblerEnabled THEN 4 ELSE 16)

\* writeRom(): the addresses from 6000 on are no register.
RegsAfter(r, a, v) ==
  CASE a < RomBankRegister -> [r EXCEPT !.ramEnabled = v % 16 = 10]
    [] a \in RomBankRegister .. RomBankHighRegister - 1 -> [r EXCEPT !.romBankLow = v]
    [] a \in RomBankHighRegister .. RamBankRegister - 1 -> [r EXCEPT !.romBankHigh = v % 2]
    [] a \in RamBankRegister .. ModeRegister - 1 -> [r EXCEPT !.ramBank = RamBankValue(r, v)]
    [] OTHER -> r

WriteRom(a, v) ==
  /\ ~thrown
  /\ regs' = RegsAfter(regs, a, v)
  /\ UNCHANGED <<ram, written, thrown>>

\* readRam(), of a bank that the array has
ReadRam(r) == IF r.ramEnabled THEN ram[RamBank(r.ramBank)] ELSE OpenBus

\* A load from A000-BFFF: it changes nothing unless it throws.
LoadRam ==
  /\ ~thrown
  /\ thrown' = (regs.ramEnabled /\ ~RamFits(regs.ramBank))
  /\ UNCHANGED <<regs, ram, written>>

\* Mutant: stores alias the bank onto another one than loads.
StoredBankInverted(r) == RamBankCount - 1 - RamBank(r.ramBank)

StoredBank(r) == RamBank(r.ramBank)

WriteRam(v) ==
  /\ ~thrown
  /\ IF regs.ramEnabled /\ RamFits(regs.ramBank)
     THEN /\ ram' = [ram EXCEPT ![StoredBank(regs)] = v]
          /\ written' = [written EXCEPT ![RamBank(regs.ramBank)] = v]
     ELSE UNCHANGED <<ram, written>>
  /\ thrown' = (regs.ramEnabled /\ ~RamFits(regs.ramBank))
  /\ UNCHANGED regs

Next == \/ \E a \in Addresses, v \in Values : WriteRom(a, v)
        \/ \E v \in Bytes : WriteRam(v)
        \/ LoadRam

Spec == Init /\ [][Next]_vars

-----------------------------------------------------------------------------
(* Properties.                                                             *)

\* Whatever the registers hold, the two writes that select bank b show b at
\* 4000, bank 0 and the banks past 255 included.
EveryBankInReach ==
  \A b \in 0 .. RomBanks - 1 :
    LET r == RegsAfter(RegsAfter(regs, RomBankRegister, b % 256),
                       RomBankHighRegister, b \div 256)
    IN  SwitchedBank(r) = b

\* No access throws, since every bank a program can select lies in m_ram as long
\* as the cartridge declares no more than the array's 64 KB (RamSizeCode 4
\* declares 128); and enabled RAM reads as what was last stored in the bank,
\* whichever of its aliases selects it.
RamKeepsItsBanks ==
  /\ ~thrown
  /\ regs.ramEnabled /\ RamFits(regs.ramBank) =>
       ReadRam(regs) = written[RamBank(regs.ramBank)]
=============================================================================
