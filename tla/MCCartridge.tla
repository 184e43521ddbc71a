----------------------------- MODULE MCCartridge -----------------------------
(***************************************************************************)
(* The cartridge in the slot: Mmu::m_mapper is a variant of the mappers,   *)
(* and loadRom() decides once which of them it holds.  The mappers share   *)
(* the variables below, each with its own registers; "clock" is the clock  *)
(* of an MBC3 on its own, with more values than fit beside its mapper.     *)
(*                                                                         *)
(* The run gives them the ROM and RAM of the largest cartridges; bounds    *)
(* are the values the program writes.                                      *)
(***************************************************************************)
EXTENDS Integers

CONSTANTS
  Unset,       \* no value
  Mbc1Banks, Mbc2Banks, Mbc3Banks, Mbc5Banks,  \* RomBanks of each mapper,
  Mbc1Ram, Mbc3Ram, Mbc5Ram,                   \* its RamSizeCode,
  Bytes, Mbc3Bytes,                            \* the bytes stored in its RAM,
  Mbc1Values, Mbc2Values, Mbc5Values,          \* and what it is written
  RamAddresses,                                \* see Mbc2
  EnableValues, BankValues, SelectValues, LatchValues  \* see Mbc3

CONSTANTS   \* RealTimeClock by itself, and as part of Mbc3
  TCyclesPerSecond, SecondsMax, SecondsHard, MinutesMax, MinutesHard,
  HoursMax, HoursHard, DayLow, Written,
  Mbc3Second, Mbc3SecondsMax, Mbc3SecondsHard, Mbc3MinutesMax, Mbc3MinutesHard,
  Mbc3HoursMax, Mbc3HoursHard, Mbc3DayLow, Mbc3Written

VARIABLES
  kind,     \* which alternative m_mapper holds
  regs, ram, written, thrown,                \* see Mbc1, Mbc2 and Mbc5
  rtcRegisters, rtc, chosen, instant,        \* see Mbc3
  set, age, counted                          \* see RealTimeClock

clockHistory == <<set, age, counted>>
mbc3Only == <<rtcRegisters, rtc, chosen, instant>>
vars == <<kind, regs, ram, written, thrown, mbc3Only, clockHistory>>

M1 == INSTANCE Mbc1 WITH
        RomBanks <- Mbc1Banks, RamSizeCode <- Mbc1Ram, Values <- Mbc1Values

M2 == INSTANCE Mbc2 WITH RomBanks <- Mbc2Banks, Values <- Mbc2Values

M3 == INSTANCE Mbc3 WITH
        RomBanks <- Mbc3Banks, RamSizeCode <- Mbc3Ram, Bytes <- Mbc3Bytes,
        TCyclesPerSecond <- Mbc3Second,
        SecondsMax <- Mbc3SecondsMax, SecondsHard <- Mbc3SecondsHard,
        MinutesMax <- Mbc3MinutesMax, MinutesHard <- Mbc3MinutesHard,
        HoursMax <- Mbc3HoursMax, HoursHard <- Mbc3HoursHard,
        DayLow <- Mbc3DayLow, Written <- Mbc3Written

M5 == INSTANCE Mbc5 WITH
        RomBanks <- Mbc5Banks, RamSizeCode <- Mbc5Ram, Values <- Mbc5Values

Rtc == INSTANCE RealTimeClock

\* The registers of an MBC1 name 128 banks, those of an MBC5 512; an MBC5 that
\* declares 128 KB of RAM has more than the emulator's array (see Mbc5).
ASSUME CartridgeAssumption ==
  /\ M1!Mbc1Assumption /\ M2!Mbc2Assumption /\ M3!Mbc3Assumption
  /\ M5!Mbc5Assumption /\ Rtc!RealTimeClockAssumption
  /\ Mbc1Banks <= 128 /\ Mbc5Banks <= 512 /\ Mbc5Ram # 4

NoRegisters == regs = Unset /\ ram = Unset
NoHistory == written = Unset
NoClock == rtcRegisters = Unset /\ rtc = Unset /\ chosen = Unset /\ instant = Unset
NoClockHistory == set = Unset /\ age = Unset /\ counted = Unset

\* loadRom() emplaces a mapper.
Init ==
  \/ /\ kind = "mbc1" /\ M1!Init
     /\ thrown = FALSE /\ NoClock /\ NoClockHistory
  \/ /\ kind = "mbc2" /\ M2!Init
     /\ thrown = FALSE /\ NoClock /\ NoClockHistory
  \/ /\ kind = "mbc3" /\ M3!Init
     /\ thrown = FALSE /\ NoHistory /\ NoClockHistory
  \/ /\ kind = "mbc5" /\ M5!Init
     /\ NoClock /\ NoClockHistory
  \/ /\ kind = "clock" /\ Rtc!RtcInit
     /\ thrown = FALSE /\ NoRegisters /\ NoHistory
     /\ rtcRegisters = Unset /\ chosen = Unset /\ instant = Unset

Next ==
  \/ /\ kind = "mbc1" /\ M1!Next
     /\ UNCHANGED <<kind, thrown, mbc3Only, clockHistory>>
  \/ /\ kind = "mbc2" /\ M2!Next
     /\ UNCHANGED <<kind, thrown, mbc3Only, clockHistory>>
  \/ /\ kind = "mbc3" /\ M3!Next
     /\ UNCHANGED <<kind, written, thrown, clockHistory>>
  \/ /\ kind = "mbc5" /\ M5!Next
     /\ UNCHANGED <<kind, mbc3Only, clockHistory>>
  \/ /\ kind = "clock" /\ Rtc!RtcNext
     /\ UNCHANGED <<kind, regs, ram, written, thrown, rtcRegisters, chosen, instant>>

\* Cpu::advanceHardware() keeps the T-cycles of the clock coming.
ClockTicks ==
  /\ kind = "clock" /\ Rtc!RunNextTCycle
  /\ UNCHANGED <<kind, regs, ram, written, thrown, rtcRegisters, chosen, instant>>

Spec == Init /\ [][Next]_vars /\ WF_vars(ClockTicks)

-----------------------------------------------------------------------------
(* Properties: those of the mappers, each for the cartridges it is about.  *)

TypeOK ==
  CASE kind = "mbc1" -> M1!TypeOK
    [] kind = "mbc2" -> M2!TypeOK
    [] kind = "mbc3" -> M3!TypeOK
    [] kind = "mbc5" -> M5!TypeOK
    [] kind = "clock" -> Rtc!RtcTypeOK

\* Every ROM bank can be brought into a window (Mbc1, Mbc5), and the rule that
\* a bank 0 becomes 1 holds where it should (Mbc1, Mbc2, Mbc3).
EveryBankInReach ==
  /\ kind = "mbc1" => M1!EveryBankInReach /\ M1!NoBankZeroAt4000
  /\ kind = "mbc5" => M5!EveryBankInReach
  /\ kind = "mbc2" => M2!NoBankZeroAt4000
  /\ kind = "mbc3" => M3!NoBankZeroAt4000

\* RAM reads as what was last stored in the same place, however the program
\* switched banks, modes and the enable in between (Mbc1, Mbc2, Mbc5), and no
\* bank that a program can select lies beyond the array (Mbc5, with 32 KB).
RamKeepsItsBanks ==
  /\ kind = "mbc1" => M1!RamKeepsItsBanks
  /\ kind = "mbc2" => M2!RamRepeats
  /\ kind = "mbc5" => M5!RamKeepsItsBanks

\* What a program latched is one instant, however long it takes to read (Mbc3).
LatchIsOneInstant == kind = "mbc3" => M3!LatchIsOneInstant

\* Stores to the RAM window reach the bank or the clock register that was
\* chosen last (Mbc3).
StoresGoWhereChosen == [][kind = "mbc3" => M3!StoreGoesWhereChosen]_vars

\* The seconds that the clock counts are of one length and add up to a date,
\* and a counter that was set beyond its limit never makes the next one tick;
\* until it ticks, the clock reads back what was set (RealTimeClock).
SecondsAddUp ==
  [][kind = "clock" =>
       Rtc!SecondAddsUp /\ Rtc!SecondIsWhole /\ Rtc!SetReadsBack']_vars

\* A running clock that is left alone comes to show a valid time, from any
\* value a program can have set.
BecomesValid ==
  /\ <>[][~(kind = "clock" /\ Rtc!AnyWrite)]_vars
  /\ <>[](kind = "clock" /\ ~rtc.halt)
  => <>[](kind = "clock" /\ Rtc!Valid(rtc))
=============================================================================
