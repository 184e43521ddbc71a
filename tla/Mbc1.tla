-------------------------------- MODULE Mbc1 --------------------------------
(***************************************************************************)
(* Mbc1Mapper: the bank registers of an MBC1 cartridge, written through    *)
(* the ROM area, and the RAM they switch.                                  *)
(***************************************************************************)
EXTENDS Mapper

CONSTANTS Values   \* what a program writes to the registers

Mbc1Assumption == MapperAssumption /\ Values \subseteq 0 .. 255

VARIABLES
  regs,     \* romBankLow, bankHigh, bankingMode, ramEnabled
  ram,      \* m_ram, a cell for each bank
  written   \* history: what was last stored while the bank was to be read

vars == <<regs, ram, written>>

\* Addresses of the ROM area: the first and the last of each register.
Addresses == {0, RomBankRegister - 1, RomBankRegister, RamBankRegister - 1,
              RamBankRegister, ModeRegister - 1, ModeRegister, RomEnd - 1}

Registers == [romBankLow : 0 .. 31, bankHigh : 0 .. 3,
              bankingMode : BOOLEAN, ramEnabled : BOOLEAN]

TypeOK == regs \in Registers /\ ram \in Ram /\ written \in Ram

Init ==
  /\ regs = [romBankLow |-> 1, bankHigh |-> 0,
             bankingMode |-> FALSE, ramEnabled |-> FALSE]
  /\ ram = ClearedRam /\ written = ClearedRam

CurrentRomBank(r) == 32 * r.bankHigh + r.romBankLow

\* Mutant: the window at 0000 always shows bank 0.
FixedBankPlain(r) == 0

\* The banks readRom() shows at 0000-3FFF and at 4000-7FFF.
FixedBank(r) == RomBank(IF r.bankingMode THEN 32 * r.bankHigh ELSE 0)
SwitchedBank(r) == RomBank(CurrentRomBank(r))

\* Mutant: only a value of 0 reads back as 1, before the mask is applied.
RomBankLowMasksLate(v) == IF v = 0 THEN 1 ELSE v % 32

RomBankLow(v) == IF v % 32 = 0 THEN 1 ELSE v % 32

\* Mutant: one bit too many is kept.
BankHighUnmasked(v) == v % 8

BankHigh(v) == v % 4

\* writeRom(), as a function from the registers before to those after.
RegsAfter(r, a, v) ==
  CASE a < RomBankRegister -> [r EXCEPT !.ramEnabled =
                        IF v = 10 THEN TRUE ELSE IF v = 0 THEN FALSE ELSE @]
    [] a \in RomBankRegister .. RamBankRegister - 1 -> [r EXCEPT !.romBankLow = RomBankLow(v)]
    [] a \in RamBankRegister .. ModeRegister - 1 -> [r EXCEPT !.bankHigh = BankHigh(v)]
    [] OTHER -> [r EXCEPT !.bankingMode = v % 2 # 0]

WriteRom(a, v) == regs' = RegsAfter(regs, a, v) /\ UNCHANGED <<ram, written>>

\* The bank number readRam() and writeRam() compute, each for itself.
RawReadBank(r) == IF r.bankingMode THEN r.bankHigh ELSE 0

\* Mutant: stores use the high register in either banking mode.
RawWriteBankModeless(r) == r.bankHigh

RawWriteBank(r) == IF r.bankingMode THEN r.bankHigh ELSE 0

ReadRam(r) == IF r.ramEnabled THEN ram[RamBank(RawReadBank(r))] ELSE OpenBus

WriteRam(v) ==
  /\ IF regs.ramEnabled
     THEN /\ ram' = [ram EXCEPT ![RamBank(RawWriteBank(regs))] = v]
          /\ written' = [written EXCEPT ![RamBank(RawReadBank(regs))] = v]
     ELSE UNCHANGED <<ram, written>>
  /\ UNCHANGED regs

Next == \/ \E a \in Addresses, v \in Values : WriteRom(a, v)
        \/ \E v \in Bytes : WriteRam(v)

Spec == Init /\ [][Next]_vars

-----------------------------------------------------------------------------
(* Properties.                                                             *)

\* Whatever the registers hold, the two writes that select bank b show b at
\* 4000, or else (20, 40 and 60, which the low register cannot name, and 0)
\* banking mode shows it at 0000: no bank of the ROM is out of reach.
EveryBankInReach ==
  \A b \in 0 .. RomBanks - 1 :
    LET r == RegsAfter(RegsAfter(regs, RamBankRegister, b \div 32), RomBankRegister, b)
    IN  \/ SwitchedBank(r) = b
        \/ FixedBank(RegsAfter(r, ModeRegister, 1)) = b

\* A cartridge of 32 banks or more never shows bank 0 (20, 40, 60) at 4000.
NoBankZeroAt4000 == RomBanks % 32 = 0 => SwitchedBank(regs) % 32 # 0

\* RAM that is enabled reads as what was last stored while the same bank was
\* to be read, however the registers were switched in between: readRam() and
\* writeRam() each compute the bank, and agree.
RamKeepsItsBanks ==
  regs.ramEnabled => ReadRam(regs) = written[RamBank(RawReadBank(regs))]
=============================================================================
