---------------------------- MODULE RealTimeClock ----------------------------
(***************************************************************************)
(* Mbc3Mapper::RealTimeClock: a prescaler that counts the T-cycles of a    *)
(* second, three counters that carry into each other, and a day counter;   *)
(* and the five registers through which a program reads and sets it.       *)
(***************************************************************************)
EXTENDS Integers

CONSTANTS
  TCyclesPerSecond,       \* 4194304
  SecondsMax, SecondsHard,  \* 59 and 63: the last valid value, the last there is
  MinutesMax, MinutesHard,  \* 59 and 63
  HoursMax, HoursHard,      \* 23 and 31
  DayLow,                   \* 256: what DL counts, bit 0 of DH being the rest
  Written,                  \* the numbers a program writes to a register
  Unset                     \* no value of a register

RealTimeClockAssumption ==
  /\ TCyclesPerSecond \in Nat \ {0} /\ DayLow \in Nat \ {0}
  /\ SecondsMax \in Nat /\ SecondsHard \in Nat /\ SecondsMax < SecondsHard
  /\ MinutesMax \in Nat /\ MinutesHard \in Nat /\ MinutesMax < MinutesHard
  /\ HoursMax \in Nat /\ HoursHard \in Nat /\ HoursMax < HoursHard
  /\ Written \subseteq Nat /\ Unset \notin Nat

\* A value written to DH is the three bits that exist, to another register a
\* number: bits that do not exist are its remainder (REGISTER_MASKS).
DhBits == [high : 0 .. 1, halt : BOOLEAN, carry : BOOLEAN]

VARIABLES
  rtc,     \* the members of RealTimeClock
  set,     \* history: what the program has set a register to since the last
           \* second, or Unset
  age,     \* history: running T-cycles since the last second, or since the
           \* program has set the seconds
  counted  \* history: whether the last step counted a second

rtcVars == <<rtc, set, age, counted>>

RTC_S == 0
RTC_M == 1
RTC_H == 2
RTC_DL == 3
RTC_DH == 4
RegisterIds == 0 .. 4

Clock == [seconds : 0 .. SecondsHard, minutes : 0 .. MinutesHard,
          hours : 0 .. HoursHard, days : 0 .. 2 * DayLow - 1,
          dayCarry : BOOLEAN, halt : BOOLEAN, tCycles : 0 .. TCyclesPerSecond - 1]

Register(i) ==
  CASE i = RTC_S -> 0 .. SecondsHard
    [] i = RTC_M -> 0 .. MinutesHard
    [] i = RTC_H -> 0 .. HoursHard
    [] i = RTC_DL -> 0 .. DayLow - 1
    [] OTHER -> DhBits

RtcTypeOK ==
  /\ rtc \in Clock
  /\ \A i \in RegisterIds : set[i] = Unset \/ set[i] \in Register(i)
  /\ age \in Nat /\ counted \in BOOLEAN

ZeroClock == [seconds |-> 0, minutes |-> 0, hours |-> 0, days |-> 0,
              dayCarry |-> FALSE, halt |-> FALSE, tCycles |-> 0]

RtcInit ==
  /\ rtc = ZeroClock
  /\ set = [i \in RegisterIds |-> Unset]
  /\ age = 0 /\ counted = FALSE

-----------------------------------------------------------------------------
\* Mutant: a counter that has passed its bits stays there.
TickFieldStuck(field, validMax, hardMax) ==
  IF field = validMax THEN 0
  ELSE IF field = hardMax THEN hardMax ELSE field + 1

\* tickField(): the counter after a tick, and whether it carries.
TickField(field, validMax, hardMax) ==
  IF field = validMax \/ field = hardMax THEN 0 ELSE field + 1

\* Mutant: every rollover carries.
CarriesAlways(field, validMax, hardMax) == field \in {validMax, hardMax}

Carries(field, validMax, hardMax) == field = validMax

\* Mutant: the day counter does not come round.
NextDayUnwrapped(c) == [c EXCEPT !.days = @ + 1]

NextDay(c) ==
  IF c.days + 1 > 2 * DayLow - 1
  THEN [c EXCEPT !.days = 0, !.dayCarry = TRUE]
  ELSE [c EXCEPT !.days = @ + 1]

\* Mutant: an hour does not wait for its minutes.
NextSecondHasty(c) ==
  LET m == Carries(c.seconds, SecondsMax, SecondsHard)
      d == m /\ Carries(c.hours, HoursMax, HoursHard)
      ticked == [c EXCEPT
        !.seconds = TickField(@, SecondsMax, SecondsHard),
        !.minutes = IF m THEN TickField(@, MinutesMax, MinutesHard) ELSE @,
        !.hours = IF m THEN TickField(@, HoursMax, HoursHard) ELSE @]
  IN  IF d THEN NextDay(ticked) ELSE ticked

\* The counters after one more second.
NextSecond(c) ==
  LET m == Carries(c.seconds, SecondsMax, SecondsHard)
      h == m /\ Carries(c.minutes, MinutesMax, MinutesHard)
      d == h /\ Carries(c.hours, HoursMax, HoursHard)
      ticked == [c EXCEPT
        !.seconds = TickField(@, SecondsMax, SecondsHard),
        !.minutes = IF m THEN TickField(@, MinutesMax, MinutesHard) ELSE @,
        !.hours = IF h THEN TickField(@, HoursMax, HoursHard) ELSE @]
  IN  IF d THEN NextDay(ticked) ELSE ticked

\* Whether the next T-cycle completes a second.
CompletesSecond(c) == ~c.halt /\ c.tCycles + 1 >= TCyclesPerSecond

\* runNextTCycle(): halt freezes the prescaler with the counters.
AfterTCycle(c) ==
  IF c.halt THEN c
  ELSE IF CompletesSecond(c) THEN NextSecond([c EXCEPT !.tCycles = 0])
  ELSE [c EXCEPT !.tCycles = @ + 1]

RunNextTCycle ==
  /\ rtc' = AfterTCycle(rtc)
  /\ counted' = CompletesSecond(rtc)
  /\ set' = IF counted' THEN [i \in RegisterIds |-> Unset] ELSE set
  /\ age' = IF counted' THEN 0 ELSE IF rtc.halt THEN age ELSE age + 1

-----------------------------------------------------------------------------
\* What a value leaves in register i.
Masked(i, v) ==
  CASE i = RTC_S -> v % (SecondsHard + 1)
    [] i = RTC_M -> v % (MinutesHard + 1)
    [] i = RTC_H -> v % (HoursHard + 1)
    [] i = RTC_DL -> v % DayLow
    [] OTHER -> v

\* Mutant: DL replaces the whole day counter.
DaysAfterDlWhole(c, v) == v

DaysAfterDl(c, v) == c.days - (c.days % DayLow) + v

\* Mutant: a second written leaves the prescaler where it was.
SetRegisterRunning(c, i, v) ==
  CASE i = RTC_S -> [c EXCEPT !.seconds = Masked(i, v)]
    [] i = RTC_M -> [c EXCEPT !.minutes = Masked(i, v)]
    [] i = RTC_H -> [c EXCEPT !.hours = Masked(i, v)]
    [] i = RTC_DL -> [c EXCEPT !.days = DaysAfterDl(c, Masked(i, v))]
    [] OTHER -> [c EXCEPT !.days = (@ % DayLow) + v.high * DayLow,
                          !.halt = v.halt, !.dayCarry = v.carry]

\* The switch of Mbc3Mapper::writeRam().
SetRegister(c, i, v) ==
  CASE i = RTC_S -> [c EXCEPT !.seconds = Masked(i, v), !.tCycles = 0]
    [] i = RTC_M -> [c EXCEPT !.minutes = Masked(i, v)]
    [] i = RTC_H -> [c EXCEPT !.hours = Masked(i, v)]
    [] i = RTC_DL -> [c EXCEPT !.days = DaysAfterDl(c, Masked(i, v))]
    [] OTHER -> [c EXCEPT !.days = (@ % DayLow) + v.high * DayLow,
                          !.halt = v.halt, !.dayCarry = v.carry]

\* What a latch copies into register i.
LatchValue(c, i) ==
  CASE i = RTC_S -> c.seconds
    [] i = RTC_M -> c.minutes
    [] i = RTC_H -> c.hours
    [] i = RTC_DL -> c.days % DayLow
    [] OTHER -> [high |-> c.days \div DayLow, halt |-> c.halt, carry |-> c.dayCarry]

Writable(i) == IF i = RTC_DH THEN DhBits ELSE Written

WriteRegister(i, v) ==
  /\ v \in Writable(i)
  /\ rtc' = SetRegister(rtc, i, v)
  /\ set' = [set EXCEPT ![i] = Masked(i, v)]
  /\ age' = IF i = RTC_S THEN 0 ELSE age
  /\ counted' = FALSE

-----------------------------------------------------------------------------
(* The clock by itself: its T-cycles, and a program that sets it.          *)

AnyWrite == \E i \in RegisterIds : \E v \in Writable(i) : WriteRegister(i, v)

RtcNext == RunNextTCycle \/ AnyWrite

RtcSpec == RtcInit /\ [][RtcNext]_rtcVars

-----------------------------------------------------------------------------
(* Properties.                                                             *)

Valid(c) == c.seconds <= SecondsMax /\ c.minutes <= MinutesMax /\ c.hours <= HoursMax

\* The time a clock shows, in seconds.
Elapsed(c) ==
  c.seconds + (SecondsMax + 1) * (c.minutes + (MinutesMax + 1) *
                                  (c.hours + (HoursMax + 1) * c.days))

Period == (SecondsMax + 1) * (MinutesMax + 1) * (HoursMax + 1) * 2 * DayLow

\* A step: a second that is counted moves a valid time on by one second, and
\* sets the carry exactly when the day counter comes round; a tick never clears
\* it.  A counter out of range keeps to itself, and never makes the next tick.
SecondAddsUp ==
  counted' =>
    /\ Valid(rtc) =>
         /\ Valid(rtc')
         /\ Elapsed(rtc') = (Elapsed(rtc) + 1) % Period
         /\ rtc'.dayCarry = (rtc.dayCarry \/ Elapsed(rtc) + 1 = Period)
    /\ rtc.seconds > SecondsMax => rtc'.minutes = rtc.minutes
    /\ rtc.minutes > MinutesMax => rtc'.hours = rtc.hours
    /\ rtc.hours > HoursMax => rtc'.days = rtc.days

\* Until the clock ticks, the program reads what it has set, each register
\* masked and all of them together: the halves of the day counter, which DL and
\* DH share, do not disturb each other.
SetReadsBack ==
  \A i \in RegisterIds : set[i] # Unset => LatchValue(rtc, i) = set[i]

\* A step: between two seconds, and between setting the seconds and the next
\* one, the clock runs for exactly TCyclesPerSecond T-cycles: halting it loses
\* none and adds none, and setting another register neither.
SecondIsWhole == counted' => age = TCyclesPerSecond - 1

\* What a clock promises at each of its steps.
SecondsAddUp == [][SecondAddsUp /\ SecondIsWhole /\ SetReadsBack']_rtcVars
=============================================================================
