-------------------------------- MODULE Mbc3 --------------------------------
(***************************************************************************)
(* Mbc3Mapper: bank registers, and a real-time clock whose registers share *)
(* the address window of the RAM.  A program selects one of them, latches  *)
(* the time with a 0 and a 1, and reads the latched copy while the clock   *)
(* runs on.  The clock itself is RealTimeClock.                            *)
(***************************************************************************)
EXTENDS Mapper

CONSTANTS
  EnableValues, BankValues, SelectValues, LatchValues, \* writes to the ROM area
  TCyclesPerSecond, SecondsMax, SecondsHard, MinutesMax, MinutesHard,
  HoursMax, HoursHard, DayLow, Written, Unset          \* see RealTimeClock

VARIABLES
  regs,          \* romBank, ramBank, ramAndTimerEnabled, selectedRtc (or
                 \* Unset), lastLatchValue
  rtcRegisters,  \* m_rtcRegisters, the latched copy
  rtc,           \* m_rtc
  ram,           \* m_ram, a cell for each bank
  chosen,        \* history: the last selection that there is
  instant        \* history: the time latched last; Unset before, and after
                 \* the program has written to a clock register

vars == <<regs, rtcRegisters, rtc, ram, chosen, instant>>

Rtc == INSTANCE RealTimeClock WITH set <- Unset, age <- 0, counted <- FALSE

Mbc3Assumption ==
  /\ MapperAssumption /\ Rtc!RealTimeClockAssumption
  /\ EnableValues \union BankValues \union SelectValues \union LatchValues \subseteq 0 .. 255

Addresses == {0, RomBankRegister - 1, RomBankRegister, RamBankRegister - 1,
              RamBankRegister, ModeRegister - 1, ModeRegister, RomEnd - 1}

ValuesFor(a) == CASE a < RomBankRegister -> EnableValues
                  [] a \in RomBankRegister .. RamBankRegister - 1 -> BankValues
                  [] a \in RamBankRegister .. ModeRegister - 1 -> SelectValues
                  [] OTHER -> LatchValues

Registers == [romBank : 0 .. 255, ramBank : 0 .. 3, ramAndTimerEnabled : BOOLEAN,
              selectedRtc : Rtc!RegisterIds \union {Unset},
              lastLatchValue : 0 .. 255]

TypeOK ==
  /\ regs \in Registers
  /\ \A i \in Rtc!RegisterIds : rtcRegisters[i] \in Rtc!Register(i)
  /\ rtc \in Rtc!Clock
  /\ ram \in Ram

\* Mutant: the clock runs on while it is copied.
LatchedLate(c) == [i \in Rtc!RegisterIds |-> Rtc!LatchValue(Rtc!AfterTCycle(c), i)]

Latched(c) == [i \in Rtc!RegisterIds |-> Rtc!LatchValue(c, i)]

Init ==
  /\ regs = [romBank |-> 1, ramBank |-> 0, ramAndTimerEnabled |-> FALSE,
             selectedRtc |-> Unset, lastLatchValue |-> 255]
  /\ rtc = Rtc!ZeroClock
  /\ rtcRegisters = Latched(rtc)
  /\ ram = ClearedRam
  /\ chosen = 0 /\ instant = Unset

-----------------------------------------------------------------------------
\* Mutant: the bank is checked for 0 before it is cut to seven bits.
RomBankValueShort(v) == IF v = 0 THEN 1 ELSE v % 128

RomBankValue(v) == IF v = 0 THEN 1 ELSE v

\* Mutant: the registers are numbered from one.
SelectionFromOne(r, v) ==
  CASE v <= 3 -> Unset [] v \in 8 .. 12 -> v - 7 [] OTHER -> r.selectedRtc

\* Mutant: selecting RAM leaves the clock selected.
SelectionKept(r, v) == IF v \in 8 .. 12 THEN v - 8 ELSE r.selectedRtc

\* A bank of RAM or a register of the clock; other values select nothing.
Selection(r, v) ==
  CASE v <= 3 -> Unset [] v \in 8 .. 12 -> v - 8 [] OTHER -> r.selectedRtc

\* writeRom(), as a function from the registers before to those after.
RegsAfter(r, a, v) ==
  CASE a < RomBankRegister -> [r EXCEPT !.ramAndTimerEnabled =
                        IF v = 10 THEN TRUE ELSE IF v = 0 THEN FALSE ELSE @]
    [] a \in RomBankRegister .. RamBankRegister - 1 -> [r EXCEPT !.romBank = RomBankValue(v)]
    [] a \in RamBankRegister .. ModeRegister - 1 -> [r EXCEPT !.ramBank = IF v <= 3 THEN v ELSE @,
                                         !.selectedRtc = Selection(r, v)]
    [] OTHER -> [r EXCEPT !.lastLatchValue = v]

Latches(a, v) == a >= ModeRegister /\ regs.lastLatchValue = 0 /\ v = 1

\* What a clock shows.
Shown(c) == <<c.seconds, c.minutes, c.hours, c.days, c.dayCarry, c.halt>>

WriteRom(a, v) ==
  /\ regs' = RegsAfter(regs, a, v)
  /\ IF Latches(a, v)
     THEN /\ rtcRegisters' = Latched(rtc)
          /\ instant' = Shown(rtc)
     ELSE UNCHANGED <<rtcRegisters, instant>>
  /\ chosen' = IF a \in RamBankRegister .. ModeRegister - 1 /\ v \in 0 .. 3 \union 8 .. 12
               THEN v ELSE chosen
  /\ UNCHANGED <<rtc, ram>>

\* What readRom() shows at 4000-7FFF.
SwitchedBank == RomBank(regs.romBank)

\* writeRam() with a clock register selected: the latched copy follows.
WriteClock ==
  /\ regs.ramAndTimerEnabled /\ regs.selectedRtc # Unset
  /\ \E v \in Rtc!Writable(regs.selectedRtc) :
       /\ rtc' = Rtc!SetRegister(rtc, regs.selectedRtc, v)
       /\ rtcRegisters' = [rtcRegisters EXCEPT
                             ![regs.selectedRtc] = Rtc!Masked(regs.selectedRtc, v)]
  /\ instant' = Unset
  /\ UNCHANGED <<regs, ram, chosen>>

WriteRam ==
  /\ regs.ramAndTimerEnabled /\ regs.selectedRtc = Unset
  /\ \E v \in Bytes : ram' = [ram EXCEPT ![RamBank(regs.ramBank)] = v]
  /\ UNCHANGED <<regs, rtcRegisters, rtc, chosen, instant>>

RunNextTCycle ==
  /\ rtc' = Rtc!AfterTCycle(rtc)
  /\ UNCHANGED <<regs, rtcRegisters, ram, chosen, instant>>

Next == \/ \E a \in Addresses : \E v \in ValuesFor(a) : WriteRom(a, v)
        \/ WriteClock \/ WriteRam \/ RunNextTCycle

Spec == Init /\ [][Next]_vars

-----------------------------------------------------------------------------
(* Properties.                                                             *)

\* The time that the five latched registers spell out.
LatchedTime ==
  LET dh == rtcRegisters[Rtc!RTC_DH]
  IN  <<rtcRegisters[Rtc!RTC_S], rtcRegisters[Rtc!RTC_M], rtcRegisters[Rtc!RTC_H],
        rtcRegisters[Rtc!RTC_DL] + dh.high * DayLow, dh.carry, dh.halt>>

\* The five registers, read one after the other while the clock runs, spell out
\* one instant: the one at which the program latched the time.
LatchIsOneInstant == instant # Unset => LatchedTime = instant

\* A step: a store reaches a clock register only when the last selection that
\* exists was that register, and a bank of RAM only when it was that bank;
\* selecting something that does not exist changes nothing.
StoreGoesWhereChosen ==
  /\ WriteClock => chosen = regs.selectedRtc + 8
  /\ WriteRam => chosen = regs.ramBank

\* The same of a whole run.
StoresGoWhereChosen == [][StoreGoesWhereChosen]_vars

\* A ROM of 256 banks never shows bank 0 at 4000.
NoBankZeroAt4000 == RomBanks = 256 => SwitchedBank # 0
=============================================================================
