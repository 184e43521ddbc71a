-------------------------- MODULE CartridgeProofs --------------------------
(***************************************************************************)
(* Theorems about what can be in the cartridge slot: the mappers, for      *)
(* every size of ROM and RAM that their registers can name, and the clock  *)
(* of an MBC3, for every length of its counters.                           *)
(*                                                                         *)
(* Each mapper has an invariant of its own, which the operations on its    *)
(* registers are shown to keep; CartridgeInv is the invariant of the slot. *)
(***************************************************************************)
EXTENDS MCCartridge, TLAPS

-----------------------------------------------------------------------------
(* The counters of the clock.                                              *)

LEMMA TickFieldRange ==
  ASSUME NEW validMax \in Nat, NEW hardMax \in Nat, validMax < hardMax,
         NEW field \in 0 .. hardMax
  PROVE  /\ Rtc!TickField(field, validMax, hardMax) \in 0 .. hardMax
         /\ field <= validMax => Rtc!TickField(field, validMax, hardMax) <= validMax
         /\ field = validMax => Rtc!TickField(field, validMax, hardMax) = 0
         /\ field < validMax => Rtc!TickField(field, validMax, hardMax) = field + 1
BY DEF Rtc!TickField

\* A second, field by field.
LEMMA NextSecondFields ==
  ASSUME Rtc!RealTimeClockAssumption, NEW c \in Rtc!Clock
  PROVE  LET n == Rtc!NextSecond(c)
             m == c.seconds = SecondsMax
             h == m /\ c.minutes = MinutesMax
             d == h /\ c.hours = HoursMax
         IN  /\ n \in Rtc!Clock
             /\ n.seconds = Rtc!TickField(c.seconds, SecondsMax, SecondsHard)
             /\ n.minutes = IF m THEN Rtc!TickField(c.minutes, MinutesMax, MinutesHard)
                            ELSE c.minutes
             /\ n.hours = IF h THEN Rtc!TickField(c.hours, HoursMax, HoursHard) ELSE c.hours
             /\ n.days = IF ~d THEN c.days
                         ELSE IF c.days + 1 = 2 * DayLow THEN 0 ELSE c.days + 1
             /\ n.dayCarry <=> c.dayCarry \/ (d /\ c.days + 1 = 2 * DayLow)
             /\ n.tCycles = c.tCycles /\ n.halt = c.halt
<1> DEFINE m == Rtc!Carries(c.seconds, SecondsMax, SecondsHard)
           h == m /\ Rtc!Carries(c.minutes, MinutesMax, MinutesHard)
           d == h /\ Rtc!Carries(c.hours, HoursMax, HoursHard)
           s2 == Rtc!TickField(c.seconds, SecondsMax, SecondsHard)
           m2 == IF m THEN Rtc!TickField(c.minutes, MinutesMax, MinutesHard) ELSE c.minutes
           h2 == IF h THEN Rtc!TickField(c.hours, HoursMax, HoursHard) ELSE c.hours
           t == [c EXCEPT !.seconds = s2, !.minutes = m2, !.hours = h2]
<1>1. /\ s2 \in 0 .. SecondsHard /\ m2 \in 0 .. MinutesHard /\ h2 \in 0 .. HoursHard
  BY TickFieldRange DEF Rtc!Clock, Rtc!RealTimeClockAssumption
<1>2. /\ m <=> c.seconds = SecondsMax
      /\ h <=> m /\ c.minutes = MinutesMax
      /\ d <=> h /\ c.hours = HoursMax
  BY DEF Rtc!Carries
<1>3. Rtc!NextSecond(c) = IF d THEN Rtc!NextDay(t) ELSE t
  BY DEF Rtc!NextSecond
<1> HIDE DEF m, h, d, s2, m2, h2
<1>4. /\ t \in Rtc!Clock /\ t.seconds = s2 /\ t.minutes = m2 /\ t.hours = h2
      /\ t.days = c.days /\ t.dayCarry = c.dayCarry
      /\ t.tCycles = c.tCycles /\ t.halt = c.halt
  BY <1>1 DEF Rtc!Clock
<1> HIDE DEF t
<1>5. c.days \in 0 .. 2 * DayLow - 1 /\ 0 \in 0 .. 2 * DayLow - 1 /\ DayLow \in Nat
  BY DEF Rtc!Clock, Rtc!RealTimeClockAssumption
<1>6. CASE ~d
  BY <1>2, <1>3, <1>4, <1>6 DEF s2, m2, h2
<1>7. CASE d /\ c.days + 1 = 2 * DayLow
  <2>1. Rtc!NextSecond(c) = [t EXCEPT !.days = 0, !.dayCarry = TRUE]
    BY <1>3, <1>4, <1>5, <1>7 DEF Rtc!NextDay
  <2>2. QED
    BY <1>2, <1>4, <1>5, <1>7, <2>1 DEF Rtc!Clock, s2, m2, h2
<1>8. CASE d /\ c.days + 1 # 2 * DayLow
  <2>1. Rtc!NextSecond(c) = [t EXCEPT !.days = c.days + 1]
    BY <1>3, <1>4, <1>5, <1>8 DEF Rtc!NextDay
  <2>2. c.days + 1 \in 0 .. 2 * DayLow - 1
    BY <1>5, <1>8
  <2>3. QED
    BY <1>2, <1>4, <1>8, <2>1, <2>2 DEF Rtc!Clock, s2, m2, h2
<1>9. QED
  BY <1>6, <1>7, <1>8

LEMMA AfterTCycleType ==
  ASSUME Rtc!RealTimeClockAssumption, NEW c \in Rtc!Clock
  PROVE  Rtc!AfterTCycle(c) \in Rtc!Clock
<1> DEFINE z == [c EXCEPT !.tCycles = 0]
<1>1. z \in Rtc!Clock
  BY DEF Rtc!Clock, Rtc!RealTimeClockAssumption
<1>2. CASE c.halt
  BY <1>2 DEF Rtc!AfterTCycle
<1>3. CASE ~c.halt /\ Rtc!CompletesSecond(c)
  BY <1>1, <1>3, NextSecondFields DEF Rtc!AfterTCycle
<1>4. CASE ~c.halt /\ ~Rtc!CompletesSecond(c)
  <2>1. c.tCycles + 1 \in 0 .. TCyclesPerSecond - 1
    BY <1>4 DEF Rtc!CompletesSecond, Rtc!Clock, Rtc!RealTimeClockAssumption
  <2>2. QED
    BY <1>4, <2>1 DEF Rtc!AfterTCycle, Rtc!Clock
<1>5. QED
  BY <1>2, <1>3, <1>4

-----------------------------------------------------------------------------
(* The registers of the clock.                                             *)

\* The two halves of the day counter, put together and taken apart.
LEMMA DayHalves ==
  ASSUME NEW D \in Nat \ {0}
  PROVE  /\ \A days \in 0 .. 2 * D - 1 :
              /\ days % D \in 0 .. D - 1 /\ days \div D \in 0 .. 1
              /\ days = (days % D) + (days \div D) * D
         /\ \A low \in 0 .. D - 1, high \in 0 .. 1 :
              LET days == low + high * D
              IN  days \in 0 .. 2 * D - 1 /\ days % D = low /\ days \div D = high
<1>1. ASSUME NEW days \in 0 .. 2 * D - 1
      PROVE  /\ days % D \in 0 .. D - 1 /\ days \div D \in 0 .. 1
             /\ days = (days % D) + (days \div D) * D
  OBVIOUS
<1>2. ASSUME NEW low \in 0 .. D - 1, NEW high \in 0 .. 1
      PROVE  LET days == low + high * D
             IN  days \in 0 .. 2 * D - 1 /\ days % D = low /\ days \div D = high
  <2>1. CASE high = 0
    BY <2>1
  <2>2. CASE high = 1
    BY <2>2
  <2>3. QED
    BY <2>1, <2>2
<1>3. QED
  BY <1>1, <1>2

LEMMA MaskedType ==
  ASSUME Rtc!RealTimeClockAssumption, NEW i \in Rtc!RegisterIds, NEW v \in Rtc!Writable(i)
  PROVE  Rtc!Masked(i, v) \in Rtc!Register(i)
<1> USE DEF Rtc!RTC_S, Rtc!RTC_M, Rtc!RTC_H, Rtc!RTC_DL, Rtc!RTC_DH
<1>1. CASE i = Rtc!RTC_DH
  BY <1>1 DEF Rtc!Masked, Rtc!Register, Rtc!Writable
<1>2. CASE i # Rtc!RTC_DH
  <2>1. v \in Nat
    BY <1>2 DEF Rtc!Writable, Rtc!RealTimeClockAssumption
  <2>2. \A last \in Nat : v % (last + 1) \in 0 .. last
    BY <2>1
  <2>3. v % DayLow \in 0 .. DayLow - 1
    BY <2>1 DEF Rtc!RealTimeClockAssumption
  <2>4. /\ SecondsHard \in Nat /\ MinutesHard \in Nat /\ HoursHard \in Nat
    BY DEF Rtc!RealTimeClockAssumption
  <2>5. CASE i = Rtc!RTC_S
    BY <2>2, <2>4, <2>5 DEF Rtc!Masked, Rtc!Register
  <2>6. CASE i = Rtc!RTC_M
    BY <2>2, <2>4, <2>6 DEF Rtc!Masked, Rtc!Register
  <2>7. CASE i = Rtc!RTC_H
    BY <2>2, <2>4, <2>7 DEF Rtc!Masked, Rtc!Register
  <2>8. CASE i = Rtc!RTC_DL
    BY <2>3, <2>8 DEF Rtc!Masked, Rtc!Register
  <2>9. QED
    BY <1>2, <2>5, <2>6, <2>7, <2>8 DEF Rtc!RegisterIds
<1>3. QED
  BY <1>1, <1>2

LEMMA LatchValueType ==
  ASSUME Rtc!RealTimeClockAssumption, NEW c \in Rtc!Clock, NEW i \in Rtc!RegisterIds
  PROVE  Rtc!LatchValue(c, i) \in Rtc!Register(i)
<1> USE DEF Rtc!RTC_S, Rtc!RTC_M, Rtc!RTC_H, Rtc!RTC_DL, Rtc!RTC_DH
<1>1. /\ c.seconds \in 0 .. SecondsHard /\ c.minutes \in 0 .. MinutesHard
      /\ c.hours \in 0 .. HoursHard /\ c.dayCarry \in BOOLEAN /\ c.halt \in BOOLEAN
      /\ c.days % DayLow \in 0 .. DayLow - 1 /\ c.days \div DayLow \in 0 .. 1
  BY DayHalves DEF Rtc!Clock, Rtc!RealTimeClockAssumption
<1>2. CASE i = Rtc!RTC_DH
  BY <1>1, <1>2 DEF Rtc!LatchValue, Rtc!Register, Rtc!DhBits
<1>3. CASE i = Rtc!RTC_S
  BY <1>1, <1>3 DEF Rtc!LatchValue, Rtc!Register
<1>4. CASE i = Rtc!RTC_M
  BY <1>1, <1>4 DEF Rtc!LatchValue, Rtc!Register
<1>5. CASE i = Rtc!RTC_H
  BY <1>1, <1>5 DEF Rtc!LatchValue, Rtc!Register
<1>6. CASE i = Rtc!RTC_DL
  BY <1>1, <1>6 DEF Rtc!LatchValue, Rtc!Register
<1>7. QED
  BY <1>2, <1>3, <1>4, <1>5, <1>6 DEF Rtc!RegisterIds

\* A register that is set reads back, and the others read as before.
LEMMA SetRegisterReads ==
  ASSUME Rtc!RealTimeClockAssumption, NEW c \in Rtc!Clock, NEW i \in Rtc!RegisterIds,
         NEW v \in Rtc!Writable(i)
  PROVE  LET n == Rtc!SetRegister(c, i, v)
         IN  /\ n \in Rtc!Clock
             /\ n.tCycles = IF i = Rtc!RTC_S THEN 0 ELSE c.tCycles
             /\ \A j \in Rtc!RegisterIds :
                  Rtc!LatchValue(n, j) = IF j = i THEN Rtc!Masked(i, v) ELSE Rtc!LatchValue(c, j)
<1> DEFINE n == Rtc!SetRegister(c, i, v)
<1> USE DEF Rtc!RTC_S, Rtc!RTC_M, Rtc!RTC_H, Rtc!RTC_DL, Rtc!RTC_DH, Rtc!RegisterIds
<1>1. Rtc!Masked(i, v) \in Rtc!Register(i)
  BY MaskedType
<1>2. CASE i = Rtc!RTC_S
  <2>1. n = [c EXCEPT !.seconds = Rtc!Masked(i, v), !.tCycles = 0]
    BY <1>2 DEF Rtc!SetRegister
  <2>2. 0 \in 0 .. TCyclesPerSecond - 1 /\ Rtc!Masked(i, v) \in 0 .. SecondsHard
    BY <1>1, <1>2 DEF Rtc!Register, Rtc!RealTimeClockAssumption
  <2>3. /\ n.seconds = Rtc!Masked(i, v) /\ n.minutes = c.minutes /\ n.hours = c.hours
        /\ n.days = c.days /\ n.halt = c.halt /\ n.dayCarry = c.dayCarry
        /\ n.tCycles = 0 /\ n \in Rtc!Clock
    BY <2>1, <2>2 DEF Rtc!Clock
  <2>4. QED
    BY <1>2, <2>3 DEF Rtc!LatchValue
<1>3. CASE i = Rtc!RTC_M
  BY <1>1, <1>3 DEF Rtc!SetRegister, Rtc!Register, Rtc!Clock, Rtc!LatchValue
<1>4. CASE i = Rtc!RTC_H
  BY <1>1, <1>4 DEF Rtc!SetRegister, Rtc!Register, Rtc!Clock, Rtc!LatchValue
<1>5. c.days \in 0 .. 2 * DayLow - 1 /\ c.days % DayLow \in 0 .. DayLow - 1
      /\ c.days \div DayLow \in 0 .. 1
      /\ c.days = (c.days % DayLow) + (c.days \div DayLow) * DayLow
  BY DayHalves DEF Rtc!Clock, Rtc!RealTimeClockAssumption
<1>6. CASE i = Rtc!RTC_DL
  <2>1. n = [c EXCEPT !.days = Rtc!DaysAfterDl(c, Rtc!Masked(i, v))]
    BY <1>6 DEF Rtc!SetRegister
  <2>2. Rtc!DaysAfterDl(c, Rtc!Masked(i, v)) = Rtc!Masked(i, v) + (c.days \div DayLow) * DayLow
        /\ Rtc!Masked(i, v) \in 0 .. DayLow - 1
    BY <1>1, <1>5, <1>6 DEF Rtc!Register, Rtc!DaysAfterDl, Rtc!RealTimeClockAssumption
  <2>3. /\ n.days \in 0 .. 2 * DayLow - 1 /\ n \in Rtc!Clock
        /\ n.days % DayLow = Rtc!Masked(i, v) /\ n.days \div DayLow = c.days \div DayLow
    <3> DEFINE days == Rtc!DaysAfterDl(c, Rtc!Masked(i, v))
    <3>1. DayLow \in Nat \ {0}
      BY DEF Rtc!RealTimeClockAssumption
    <3>2. /\ days \in 0 .. 2 * DayLow - 1 /\ days % DayLow = Rtc!Masked(i, v)
          /\ days \div DayLow = c.days \div DayLow
      <4>1. \A low \in 0 .. DayLow - 1, high \in 0 .. 1 :
              LET sum == low + high * DayLow
              IN  /\ sum \in 0 .. 2 * DayLow - 1
                  /\ sum % DayLow = low /\ sum \div DayLow = high
        BY <3>1, DayHalves
      <4>2. QED
        BY <1>5, <2>2, <4>1
    <3> HIDE DEF days
    <3>3. n.days = days /\ n \in Rtc!Clock
      BY <2>1, <3>2 DEF Rtc!Clock, days
    <3>4. QED
      BY <3>2, <3>3
  <2>4. /\ n.seconds = c.seconds /\ n.minutes = c.minutes /\ n.hours = c.hours
        /\ n.halt = c.halt /\ n.dayCarry = c.dayCarry /\ n.tCycles = c.tCycles
    BY <2>1 DEF Rtc!Clock
  <2>5. QED
    BY <1>6, <2>3, <2>4 DEF Rtc!LatchValue
<1>7. CASE i = Rtc!RTC_DH
  <2>1. v \in Rtc!DhBits /\ Rtc!Masked(i, v) = v
    BY <1>7 DEF Rtc!Writable, Rtc!Masked
  <2>2. n = [c EXCEPT !.days = (@ % DayLow) + v.high * DayLow,
                      !.halt = v.halt, !.dayCarry = v.carry]
    BY <1>7 DEF Rtc!SetRegister
  <2>3. /\ v.high \in 0 .. 1 /\ v.halt \in BOOLEAN /\ v.carry \in BOOLEAN
        /\ v = [high |-> v.high, halt |-> v.halt, carry |-> v.carry]
    BY <2>1 DEF Rtc!DhBits
  <2>4. LET days == (c.days % DayLow) + v.high * DayLow
        IN  /\ days \in 0 .. 2 * DayLow - 1
            /\ days % DayLow = c.days % DayLow /\ days \div DayLow = v.high
    BY <1>5, <2>3, DayHalves DEF Rtc!RealTimeClockAssumption
  <2>5. /\ n.days % DayLow = c.days % DayLow /\ n.days \div DayLow = v.high /\ n \in Rtc!Clock
        /\ n.seconds = c.seconds /\ n.minutes = c.minutes /\ n.hours = c.hours
        /\ n.halt = v.halt /\ n.dayCarry = v.carry /\ n.tCycles = c.tCycles
    BY <2>2, <2>3, <2>4 DEF Rtc!Clock
  <2>6. QED
    BY <1>7, <2>1, <2>3, <2>5 DEF Rtc!LatchValue
<1>8. QED
  BY <1>2, <1>3, <1>4, <1>6, <1>7

-----------------------------------------------------------------------------
(* The time that the clock shows.                                          *)

\* The digit a in base A, in front of which stands the number n.
Number(a, A, n) == a + A * n

LEMMA NumberRange ==
  ASSUME NEW A \in Nat \ {0}, NEW N \in Nat \ {0},
         NEW a \in 0 .. A - 1, NEW n \in 0 .. N - 1
  PROVE  A * N \in Nat \ {0} /\ Number(a, A, n) \in 0 .. A * N - 1
<1>1. A * (n + 1) = A * n + A /\ A * n \in Nat
  OBVIOUS
<1>2. A * (n + 1) <= A * N
  <2>1. n + 1 <= N /\ n + 1 \in Nat
    OBVIOUS
  <2>2. QED
    BY <2>1
<1>3. QED
  BY <1>1, <1>2 DEF Number

LEMMA NumberNotLast ==
  ASSUME NEW A \in Nat \ {0}, NEW N \in Nat \ {0},
         NEW a \in 0 .. A - 1, NEW n \in 0 .. N - 1, ~(a = A - 1 /\ n = N - 1)
  PROVE  Number(a, A, n) \in 0 .. A * N - 2
<1>1. A * (n + 1) = A * n + A /\ A * (n + 2) = A * n + A + A /\ A * n \in Nat
  OBVIOUS
<1>2. CASE n = N - 1
  BY <1>1, <1>2 DEF Number
<1>3. CASE n # N - 1
  <2>1. A * (n + 2) <= A * N
    BY <1>3
  <2>2. QED
    BY <1>1, <1>3, <2>1 DEF Number
<1>4. QED
  BY <1>2, <1>3

LEMMA NumberLast ==
  ASSUME NEW A \in Nat \ {0}, NEW N \in Nat \ {0}
  PROVE  Number(A - 1, A, N - 1) = A * N - 1
<1>1. A * (N - 1) = A * N - A
  OBVIOUS
<1>2. QED
  BY <1>1 DEF Number

LEMMA NumberNext ==
  ASSUME NEW A \in Nat \ {0}, NEW a \in Nat, NEW n \in Nat
  PROVE  /\ Number(a + 1, A, n) = Number(a, A, n) + 1
         /\ Number(0, A, n + 1) = Number(A - 1, A, n) + 1
         /\ Number(0, A, 0) = 0
<1>1. A * (n + 1) = A * n + A /\ A * n \in Nat /\ A * 0 = 0
  OBVIOUS
<1>2. QED
  BY <1>1 DEF Number

\* A valid time moves on by a second; the last of all is followed by the first.
LEMMA SecondMovesOn ==
  ASSUME Rtc!RealTimeClockAssumption, NEW c \in Rtc!Clock, Rtc!Valid(c)
  PROVE  LET n == Rtc!NextSecond(c)
             last == Rtc!Elapsed(c) + 1 = Rtc!Period
         IN  /\ Rtc!Valid(n) /\ Rtc!Elapsed(c) \in 0 .. Rtc!Period - 1
             /\ Rtc!Elapsed(n) = IF last THEN 0 ELSE Rtc!Elapsed(c) + 1
             /\ n.dayCarry <=> c.dayCarry \/ last
<1> DEFINE n == Rtc!NextSecond(c)
           S == SecondsMax + 1  M == MinutesMax + 1  H == HoursMax + 1  D == 2 * DayLow
           days(x) == Number(x.hours, H, x.days)
           hours(x) == Number(x.minutes, M, days(x))
<1>1. /\ S \in Nat \ {0} /\ M \in Nat \ {0} /\ H \in Nat \ {0} /\ D \in Nat \ {0}
      /\ c.seconds \in 0 .. S - 1 /\ c.minutes \in 0 .. M - 1
      /\ c.hours \in 0 .. H - 1 /\ c.days \in 0 .. D - 1
  BY DEF Rtc!RealTimeClockAssumption, Rtc!Clock, Rtc!Valid
<1>2. LET m == c.seconds = S - 1
          h == m /\ c.minutes = M - 1
          d == h /\ c.hours = H - 1
      IN  /\ n.seconds = IF m THEN 0 ELSE c.seconds + 1
          /\ n.minutes = IF h THEN 0 ELSE IF m THEN c.minutes + 1 ELSE c.minutes
          /\ n.hours = IF d THEN 0 ELSE IF h THEN c.hours + 1 ELSE c.hours
          /\ n.days = IF ~d THEN c.days ELSE IF c.days = D - 1 THEN 0 ELSE c.days + 1
          /\ n.dayCarry <=> c.dayCarry \/ (d /\ c.days = D - 1)
  <2>1. /\ n.seconds = Rtc!TickField(c.seconds, SecondsMax, SecondsHard)
        /\ n.minutes = IF c.seconds = SecondsMax
                       THEN Rtc!TickField(c.minutes, MinutesMax, MinutesHard) ELSE c.minutes
        /\ n.hours = IF c.seconds = SecondsMax /\ c.minutes = MinutesMax
                     THEN Rtc!TickField(c.hours, HoursMax, HoursHard) ELSE c.hours
    BY NextSecondFields
  <2>2. /\ Rtc!TickField(c.seconds, SecondsMax, SecondsHard) =
             IF c.seconds = S - 1 THEN 0 ELSE c.seconds + 1
        /\ Rtc!TickField(c.minutes, MinutesMax, MinutesHard) =
             IF c.minutes = M - 1 THEN 0 ELSE c.minutes + 1
        /\ Rtc!TickField(c.hours, HoursMax, HoursHard) =
             IF c.hours = H - 1 THEN 0 ELSE c.hours + 1
    BY <1>1 DEF Rtc!TickField, Rtc!RealTimeClockAssumption
  <2>3. S - 1 = SecondsMax /\ M - 1 = MinutesMax /\ H - 1 = HoursMax
    BY DEF Rtc!RealTimeClockAssumption
  <2>4. c.days + 1 = 2 * DayLow <=> c.days = D - 1
    BY <1>1
  <2>5. QED
    BY <2>1, <2>2, <2>3, <2>4, NextSecondFields
<1>3. /\ Rtc!Elapsed(c) = Number(c.seconds, S, hours(c))
      /\ Rtc!Elapsed(n) = Number(n.seconds, S, hours(n))
  BY DEF Rtc!Elapsed, Number
<1>4. Rtc!Valid(n)
  BY <1>1, <1>2 DEF Rtc!Valid, Rtc!RealTimeClockAssumption
<1>5. Rtc!Period = S * (M * (H * D))
  <2>1. \A w, x, y, z \in Int : w * x * y * 2 * z = w * (x * (y * (2 * z)))
    OBVIOUS
  <2>2. QED
    BY <2>1 DEF Rtc!Period, Rtc!RealTimeClockAssumption
<1> HIDE DEF n, S, M, H, D
<1>6. /\ H * D \in Nat \ {0} /\ days(c) \in 0 .. H * D - 1
      /\ days(c) = H * D - 1 <=> c.hours = H - 1 /\ c.days = D - 1
  <2>1. H * D \in Nat \ {0} /\ days(c) \in 0 .. H * D - 1
    BY <1>1, NumberRange
  <2>2. days(c) = H * D - 1 <=> c.hours = H - 1 /\ c.days = D - 1
    <3>1. CASE c.hours = H - 1 /\ c.days = D - 1
      BY <1>1, <3>1, NumberLast
    <3>2. CASE ~(c.hours = H - 1 /\ c.days = D - 1)
      <4>1. Number(c.hours, H, c.days) \in 0 .. H * D - 2
        BY <1>1, <3>2, NumberNotLast
      <4>2. QED
        BY <3>2, <4>1, <2>1
    <3>3. QED
      BY <3>1, <3>2
  <2>3. QED
    BY <2>1, <2>2
<1>7. /\ M * (H * D) \in Nat \ {0} /\ hours(c) \in 0 .. M * (H * D) - 1
      /\ hours(c) = M * (H * D) - 1 <=> c.minutes = M - 1 /\ days(c) = H * D - 1
  <2> DEFINE N == H * D
  <2> HIDE DEF days, N
  <2>1. N \in Nat \ {0} /\ days(c) \in 0 .. N - 1
    BY <1>6 DEF N
  <2>2. M * N \in Nat \ {0} /\ hours(c) \in 0 .. M * N - 1
    BY <1>1, <2>1, NumberRange
  <2>3. hours(c) = M * N - 1 <=> c.minutes = M - 1 /\ days(c) = N - 1
    <3>1. CASE c.minutes = M - 1 /\ days(c) = N - 1
      BY <1>1, <2>1, <3>1, NumberLast
    <3>2. CASE ~(c.minutes = M - 1 /\ days(c) = N - 1)
      <4>1. Number(c.minutes, M, days(c)) \in 0 .. M * N - 2
        BY <1>1, <2>1, <3>2, NumberNotLast
      <4>2. QED
        BY <3>2, <4>1, <2>2
    <3>3. QED
      BY <3>1, <3>2
  <2>4. QED
    BY <2>2, <2>3 DEF N
<1>8. /\ Rtc!Period \in Nat \ {0} /\ Rtc!Elapsed(c) \in 0 .. Rtc!Period - 1
      /\ Rtc!Elapsed(c) = Rtc!Period - 1 <=> c.seconds = S - 1 /\ hours(c) = M * (H * D) - 1
  <2> DEFINE N == M * (H * D)
  <2> HIDE DEF hours, N
  <2>1. N \in Nat \ {0} /\ hours(c) \in 0 .. N - 1 /\ Rtc!Period = S * N
    BY <1>5, <1>7 DEF N
  <2>2. S * N \in Nat \ {0} /\ Number(c.seconds, S, hours(c)) \in 0 .. S * N - 1
    BY <1>1, <2>1, NumberRange
  <2>3. Number(c.seconds, S, hours(c)) = S * N - 1 <=> c.seconds = S - 1 /\ hours(c) = N - 1
    <3>1. CASE c.seconds = S - 1 /\ hours(c) = N - 1
      BY <1>1, <2>1, <3>1, NumberLast
    <3>2. CASE ~(c.seconds = S - 1 /\ hours(c) = N - 1)
      <4>1. Number(c.seconds, S, hours(c)) \in 0 .. S * N - 2
        BY <1>1, <2>1, <3>2, NumberNotLast
      <4>2. QED
        BY <3>2, <4>1, <2>2
    <3>3. QED
      BY <3>1, <3>2
  <2>4. QED
    BY <1>3, <2>1, <2>2, <2>3 DEF N
<1>9. Rtc!Elapsed(c) + 1 = Rtc!Period <=>
        c.seconds = S - 1 /\ c.minutes = M - 1 /\ c.hours = H - 1 /\ c.days = D - 1
  <2>1. Rtc!Elapsed(c) + 1 = Rtc!Period <=> Rtc!Elapsed(c) = Rtc!Period - 1
    BY <1>8
  <2>2. QED
    BY <1>6, <1>7, <1>8, <2>1
<1>10. /\ c.seconds # S - 1 \/ c.minutes # M - 1 => days(n) = days(c)
       /\ Rtc!Elapsed(c) + 1 = Rtc!Period => days(n) = 0
       /\ c.seconds = S - 1 /\ c.minutes = M - 1 /\ Rtc!Elapsed(c) + 1 # Rtc!Period
            => days(n) = days(c) + 1
  <2>1. CASE c.seconds # S - 1 \/ c.minutes # M - 1
    BY <1>2, <1>9, <2>1
  <2>2. CASE Rtc!Elapsed(c) + 1 = Rtc!Period
    BY <1>1, <1>2, <1>9, <2>2 DEF Number
  <2>3. CASE c.seconds = S - 1 /\ c.minutes = M - 1 /\ c.hours # H - 1
    <3>1. n.hours = c.hours + 1 /\ n.days = c.days
      BY <1>2, <2>3
    <3>2. days(n) = days(c) + 1
      BY <1>1, <3>1, NumberNext
    <3>3. QED
      BY <1>9, <2>3, <3>2
  <2>4. CASE c.seconds = S - 1 /\ c.minutes = M - 1 /\ c.hours = H - 1 /\ c.days # D - 1
    <3>1. n.hours = 0 /\ n.days = c.days + 1
      BY <1>2, <2>4
    <3>2. days(n) = days(c) + 1
      BY <1>1, <2>4, <3>1, NumberNext
    <3>3. QED
      BY <1>9, <2>4, <3>2
  <2>5. QED
    BY <1>9, <2>1, <2>2, <2>3, <2>4
<1>11. days(c) \in Nat
  BY <1>6
<1> HIDE DEF days
<1>12. /\ c.seconds # S - 1 => hours(n) = hours(c)
       /\ Rtc!Elapsed(c) + 1 = Rtc!Period => hours(n) = 0
       /\ c.seconds = S - 1 /\ Rtc!Elapsed(c) + 1 # Rtc!Period => hours(n) = hours(c) + 1
  <2>1. CASE c.seconds # S - 1
    BY <1>2, <1>9, <1>10, <2>1
  <2>2. CASE Rtc!Elapsed(c) + 1 = Rtc!Period
    BY <1>1, <1>2, <1>9, <1>10, <1>11, <2>2, NumberNext
  <2>3. CASE c.seconds = S - 1 /\ c.minutes # M - 1
    <3>1. n.minutes = c.minutes + 1 /\ days(n) = days(c)
      BY <1>2, <1>10, <2>3
    <3>2. hours(n) = hours(c) + 1
      BY <1>1, <1>11, <3>1, NumberNext
    <3>3. QED
      BY <1>9, <2>3, <3>2
  <2>4. CASE c.seconds = S - 1 /\ c.minutes = M - 1 /\ Rtc!Elapsed(c) + 1 # Rtc!Period
    <3>1. n.minutes = 0 /\ days(n) = days(c) + 1
      BY <1>2, <1>10, <2>4
    <3>2. hours(n) = hours(c) + 1
      BY <1>1, <1>11, <2>4, <3>1, NumberNext
    <3>3. QED
      BY <2>4, <3>2
  <2>5. QED
    BY <2>1, <2>2, <2>3, <2>4
<1>13. hours(c) \in Nat
  BY <1>7
<1> HIDE DEF hours
<1>14. Rtc!Elapsed(n) = IF Rtc!Elapsed(c) + 1 = Rtc!Period THEN 0 ELSE Rtc!Elapsed(c) + 1
  <2>1. CASE c.seconds # S - 1
    <3>1. n.seconds = c.seconds + 1 /\ hours(n) = hours(c) /\ Rtc!Elapsed(c) + 1 # Rtc!Period
      BY <1>2, <1>9, <1>12, <2>1
    <3>2. QED
      BY <1>1, <1>3, <1>13, <3>1, NumberNext
  <2>2. CASE c.seconds = S - 1 /\ Rtc!Elapsed(c) + 1 # Rtc!Period
    <3>1. n.seconds = 0 /\ hours(n) = hours(c) + 1
      BY <1>2, <1>12, <2>2
    <3>2. QED
      BY <1>1, <1>3, <1>13, <2>2, <3>1, NumberNext
  <2>3. CASE Rtc!Elapsed(c) + 1 = Rtc!Period
    <3>1. n.seconds = 0 /\ hours(n) = 0
      BY <1>2, <1>9, <1>12, <2>3
    <3>2. QED
      BY <1>1, <1>3, <1>13, <2>3, <3>1, NumberNext
  <2>4. QED
    BY <2>1, <2>2, <2>3
<1>15. n.dayCarry <=> c.dayCarry \/ Rtc!Elapsed(c) + 1 = Rtc!Period
  BY <1>2, <1>9
<1>16. QED
  BY <1>4, <1>8, <1>14, <1>15 DEF n

-----------------------------------------------------------------------------
(* The clock by itself.  Its histories are what the registers say: the age *)
(* of the second is the prescaler, and what has been set can be read.      *)

RegisterValues == {Unset} \union Nat \union Rtc!DhBits

ClockInv ==
  /\ Rtc!RtcTypeOK
  /\ set \in [Rtc!RegisterIds -> RegisterValues]
  /\ age = rtc.tCycles
  /\ Rtc!SetReadsBack

LEMMA ClockInit ==
  ASSUME Rtc!RealTimeClockAssumption, Rtc!RtcInit
  PROVE  ClockInv
<1>1. rtc \in Rtc!Clock /\ rtc.tCycles = 0
  BY DEF Rtc!RtcInit, Rtc!ZeroClock, Rtc!Clock, Rtc!RealTimeClockAssumption
<1>2. set \in [Rtc!RegisterIds -> RegisterValues] /\ \A i \in Rtc!RegisterIds : set[i] = Unset
  BY DEF Rtc!RtcInit, RegisterValues
<1>3. QED
  BY <1>1, <1>2 DEF Rtc!RtcInit, ClockInv, Rtc!RtcTypeOK, Rtc!SetReadsBack

\* A T-cycle that completes no second leaves what can be read as it is.
LEMMA TCycleReads ==
  ASSUME Rtc!RealTimeClockAssumption, NEW c \in Rtc!Clock, ~Rtc!CompletesSecond(c)
  PROVE  LET n == Rtc!AfterTCycle(c)
         IN  /\ n.tCycles = IF c.halt THEN c.tCycles ELSE c.tCycles + 1
             /\ \A i \in Rtc!RegisterIds : Rtc!LatchValue(n, i) = Rtc!LatchValue(c, i)
<1> DEFINE n == Rtc!AfterTCycle(c)
<1>1. CASE c.halt
  BY <1>1 DEF Rtc!AfterTCycle
<1>2. CASE ~c.halt
  <2>1. n = [c EXCEPT !.tCycles = @ + 1]
    BY <1>2 DEF Rtc!AfterTCycle
  <2>2. /\ n.seconds = c.seconds /\ n.minutes = c.minutes /\ n.hours = c.hours
        /\ n.days = c.days /\ n.dayCarry = c.dayCarry /\ n.halt = c.halt
        /\ n.tCycles = c.tCycles + 1
    BY <2>1 DEF Rtc!Clock
  <2>3. QED
    BY <1>2, <2>2 DEF Rtc!LatchValue
<1>3. QED
  BY <1>1, <1>2

LEMMA ClockStep ==
  ASSUME Rtc!RealTimeClockAssumption, ClockInv, [Rtc!RtcNext]_Rtc!rtcVars
  PROVE  ClockInv'
<1> rtc \in Rtc!Clock /\ age = rtc.tCycles /\ set \in [Rtc!RegisterIds -> RegisterValues]
    /\ Rtc!SetReadsBack
  BY DEF ClockInv, Rtc!RtcTypeOK
<1>1. CASE Rtc!RunNextTCycle
  <2>1. rtc' \in Rtc!Clock /\ rtc' = Rtc!AfterTCycle(rtc)
    BY <1>1, AfterTCycleType DEF Rtc!RunNextTCycle
  <2>2. CASE Rtc!CompletesSecond(rtc)
    <3>1. counted' /\ set' = [i \in Rtc!RegisterIds |-> Unset] /\ age' = 0
      BY <1>1, <2>2 DEF Rtc!RunNextTCycle
    <3>2. rtc' = Rtc!NextSecond([rtc EXCEPT !.tCycles = 0])
      BY <2>1, <2>2 DEF Rtc!AfterTCycle, Rtc!CompletesSecond
    <3>3. [rtc EXCEPT !.tCycles = 0] \in Rtc!Clock /\ [rtc EXCEPT !.tCycles = 0].tCycles = 0
      BY DEF Rtc!Clock, Rtc!RealTimeClockAssumption
    <3>4. rtc'.tCycles = 0
      BY <3>2, <3>3, NextSecondFields
    <3>5. counted' \in BOOLEAN
      BY <1>1 DEF Rtc!RunNextTCycle, Rtc!CompletesSecond
    <3>6. QED
      BY <2>1, <3>1, <3>4, <3>5 DEF ClockInv, Rtc!RtcTypeOK, Rtc!SetReadsBack, RegisterValues
  <2>3. CASE ~Rtc!CompletesSecond(rtc)
    <3>1. counted' = FALSE
      <4>1. counted' = Rtc!CompletesSecond(rtc) /\ Rtc!CompletesSecond(rtc) \in BOOLEAN
        BY <1>1 DEF Rtc!RunNextTCycle, Rtc!CompletesSecond
      <4>2. QED
        BY <2>3, <4>1, Zenon
    <3>2. set' = set /\ age' = IF rtc.halt THEN age ELSE age + 1
      BY <1>1, <3>1 DEF Rtc!RunNextTCycle
    <3>3. /\ rtc'.tCycles = IF rtc.halt THEN rtc.tCycles ELSE rtc.tCycles + 1
          /\ \A i \in Rtc!RegisterIds : Rtc!LatchValue(rtc', i) = Rtc!LatchValue(rtc, i)
      BY <2>1, <2>3, TCycleReads
    <3>4. rtc.tCycles \in Nat
      BY DEF Rtc!Clock, Rtc!RealTimeClockAssumption
    <3>5. age' = rtc'.tCycles /\ age' \in Nat
      BY <3>2, <3>3, <3>4
    <3>6. counted' \in BOOLEAN
      BY <3>1, Zenon
    <3>7. Rtc!RtcTypeOK'
      BY <2>1, <3>2, <3>5, <3>6 DEF ClockInv, Rtc!RtcTypeOK
    <3>8. Rtc!SetReadsBack'
      BY <3>2, <3>3 DEF Rtc!SetReadsBack
    <3>9. QED
      BY <3>2, <3>5, <3>7, <3>8 DEF ClockInv
  <2>4. QED
    BY <2>2, <2>3
<1>2. ASSUME NEW i \in Rtc!RegisterIds, NEW v \in Rtc!Writable(i), Rtc!WriteRegister(i, v)
      PROVE  ClockInv'
  <2>1. /\ rtc' = Rtc!SetRegister(rtc, i, v) /\ set' = [set EXCEPT ![i] = Rtc!Masked(i, v)]
        /\ age' = IF i = Rtc!RTC_S THEN 0 ELSE age
        /\ counted' \in BOOLEAN
    BY <1>2 DEF Rtc!WriteRegister
  <2>2. /\ rtc' \in Rtc!Clock /\ rtc'.tCycles = IF i = Rtc!RTC_S THEN 0 ELSE rtc.tCycles
        /\ \A j \in Rtc!RegisterIds :
             Rtc!LatchValue(rtc', j) = IF j = i THEN Rtc!Masked(i, v) ELSE Rtc!LatchValue(rtc, j)
    BY <2>1, SetRegisterReads
  <2>3. Rtc!Masked(i, v) \in Rtc!Register(i) /\ Rtc!Masked(i, v) \in RegisterValues
    <3>1. Rtc!Register(i) \subseteq Nat \/ Rtc!Register(i) = Rtc!DhBits
      BY DEF Rtc!Register, Rtc!RealTimeClockAssumption
    <3>2. QED
      BY <3>1, MaskedType DEF RegisterValues
  <2>4. /\ set' \in [Rtc!RegisterIds -> RegisterValues]
        /\ \A j \in Rtc!RegisterIds : set'[j] = IF j = i THEN Rtc!Masked(i, v) ELSE set[j]
    BY <2>1, <2>3
  <2>5. age' = rtc'.tCycles /\ age' \in Nat
    BY <2>1, <2>2 DEF Rtc!Clock, Rtc!RealTimeClockAssumption
  <2>6. Rtc!RtcTypeOK' /\ Rtc!SetReadsBack'
    BY <2>1, <2>2, <2>3, <2>4, <2>5 DEF ClockInv, Rtc!RtcTypeOK, Rtc!SetReadsBack
  <2>7. QED
    BY <2>4, <2>5, <2>6 DEF ClockInv
<1>3. CASE UNCHANGED Rtc!rtcVars
  BY <1>3 DEF Rtc!rtcVars, ClockInv, Rtc!RtcTypeOK, Rtc!SetReadsBack
<1>4. QED
  BY <1>1, <1>2, <1>3 DEF Rtc!RtcNext, Rtc!AnyWrite, Rtc!WriteRegister

\* A second that is counted is whole and adds up, and what was set reads back.
LEMMA ClockPromise ==
  ASSUME Rtc!RealTimeClockAssumption, ClockInv, Rtc!RtcNext
  PROVE  Rtc!SecondAddsUp /\ Rtc!SecondIsWhole /\ Rtc!SetReadsBack'
<1>1. ClockInv'
  BY ClockStep
<1>2. Rtc!SetReadsBack'
  BY <1>1 DEF ClockInv
<1>3. rtc \in Rtc!Clock /\ age = rtc.tCycles
  BY DEF ClockInv, Rtc!RtcTypeOK
<1>4. CASE counted'
  <2>1. Rtc!RunNextTCycle
    BY <1>4 DEF Rtc!RtcNext, Rtc!AnyWrite, Rtc!WriteRegister
  <2>2. Rtc!CompletesSecond(rtc) /\ rtc' = Rtc!AfterTCycle(rtc)
    BY <1>4, <2>1 DEF Rtc!RunNextTCycle
  <2>3. age = TCyclesPerSecond - 1
    BY <1>3, <2>2 DEF Rtc!CompletesSecond, Rtc!Clock, Rtc!RealTimeClockAssumption
  <2> DEFINE c == [rtc EXCEPT !.tCycles = 0]
  <2>4. /\ c \in Rtc!Clock /\ c.seconds = rtc.seconds /\ c.minutes = rtc.minutes
        /\ c.hours = rtc.hours /\ c.days = rtc.days /\ c.dayCarry = rtc.dayCarry
    BY <1>3 DEF Rtc!Clock, Rtc!RealTimeClockAssumption
  <2>5. rtc' = Rtc!NextSecond(c)
    BY <2>2 DEF Rtc!AfterTCycle, Rtc!CompletesSecond
  <2>6. Rtc!Elapsed(c) = Rtc!Elapsed(rtc) /\ Rtc!Valid(c) <=> Rtc!Valid(rtc)
    BY <2>4 DEF Rtc!Elapsed, Rtc!Valid
  <2> HIDE DEF c
  <2>7. Rtc!Valid(rtc) =>
          /\ Rtc!Valid(rtc') /\ Rtc!Elapsed(rtc') = (Rtc!Elapsed(rtc) + 1) % Rtc!Period
          /\ rtc'.dayCarry = (rtc.dayCarry \/ Rtc!Elapsed(rtc) + 1 = Rtc!Period)
    <3> SUFFICES ASSUME Rtc!Valid(rtc)
                 PROVE  /\ Rtc!Valid(rtc') /\ Rtc!Elapsed(rtc') = (Rtc!Elapsed(rtc) + 1) % Rtc!Period
                        /\ rtc'.dayCarry = (rtc.dayCarry \/ Rtc!Elapsed(rtc) + 1 = Rtc!Period)
      OBVIOUS
    <3>1. LET last == Rtc!Elapsed(c) + 1 = Rtc!Period
          IN  /\ Rtc!Valid(rtc') /\ Rtc!Elapsed(c) \in 0 .. Rtc!Period - 1
              /\ Rtc!Elapsed(rtc') = IF last THEN 0 ELSE Rtc!Elapsed(c) + 1
              /\ rtc'.dayCarry <=> c.dayCarry \/ last
      BY <2>4, <2>5, <2>6, SecondMovesOn
    <3>2. Rtc!Period \in Int
      BY DEF Rtc!Period, Rtc!RealTimeClockAssumption
    <3>3. Rtc!Elapsed(rtc') = (Rtc!Elapsed(c) + 1) % Rtc!Period
      BY <3>1, <3>2
    <3>4. rtc'.dayCarry \in BOOLEAN
      BY <1>1 DEF ClockInv, Rtc!RtcTypeOK, Rtc!Clock
    <3>5. QED
      BY <2>4, <2>6, <3>1, <3>3, <3>4
  <2>8. /\ rtc.seconds > SecondsMax => rtc'.minutes = rtc.minutes
        /\ rtc.minutes > MinutesMax => rtc'.hours = rtc.hours
        /\ rtc.hours > HoursMax => rtc'.days = rtc.days
    <3>1. /\ rtc.seconds \in Int /\ rtc.minutes \in Int /\ rtc.hours \in Int
          /\ SecondsMax \in Int /\ MinutesMax \in Int /\ HoursMax \in Int
      BY <1>3 DEF Rtc!Clock, Rtc!RealTimeClockAssumption
    <3>2. /\ rtc.seconds # SecondsMax => rtc'.minutes = rtc.minutes
          /\ rtc.minutes # MinutesMax => rtc'.hours = rtc.hours
          /\ rtc.hours # HoursMax => rtc'.days = rtc.days
      BY <2>4, <2>5, NextSecondFields
    <3>3. QED
      BY <3>1, <3>2
  <2>9. QED
    BY <1>2, <2>3, <2>7, <2>8 DEF Rtc!SecondAddsUp, Rtc!SecondIsWhole
<1>5. CASE ~counted'
  BY <1>2, <1>5 DEF Rtc!SecondAddsUp, Rtc!SecondIsWhole
<1>6. QED
  BY <1>4, <1>5

-----------------------------------------------------------------------------
(* Mbc1.  A bank's number is 32 * bankHigh + romBankLow.                   *)

Mbc1Inv == M1!TypeOK /\ regs.romBankLow # 0 /\ ram = written

\* The registers of the ROM area follow each other.
LEMMA Mbc1Area ==
  /\ M1!RomBankRegister \in Nat /\ M1!RamBankRegister \in Nat /\ M1!ModeRegister \in Nat
  /\ M1!RomBankRegister < M1!RamBankRegister /\ M1!RamBankRegister < M1!ModeRegister
BY DEF M1!RomBankRegister, M1!RamBankRegister, M1!ModeRegister

LEMMA Mbc1RegsAfter ==
  ASSUME NEW r \in M1!Registers, r.romBankLow # 0, NEW a \in Nat, NEW v \in 0 .. 255
  PROVE  /\ M1!RegsAfter(r, a, v) \in M1!Registers
         /\ M1!RegsAfter(r, a, v).romBankLow # 0
<1>1. /\ M1!RomBankLow(v) \in 1 .. 31 /\ M1!BankHigh(v) \in 0 .. 3
      /\ (v % 2 # 0) \in BOOLEAN
  BY DEF M1!RomBankLow, M1!BankHigh
<1>2. CASE a < M1!RomBankRegister
  <2> DEFINE enabled == IF v = 10 THEN TRUE ELSE IF v = 0 THEN FALSE ELSE r.ramEnabled
  <2>1. M1!RegsAfter(r, a, v) = [r EXCEPT !.ramEnabled = enabled]
    <3>1. /\ a \notin M1!RomBankRegister .. M1!RamBankRegister - 1
          /\ a \notin M1!RamBankRegister .. M1!ModeRegister - 1
      BY <1>2, Mbc1Area
    <3>2. QED
      BY <1>2, <3>1, Zenon DEF M1!RegsAfter
  <2>2. r.ramEnabled \in BOOLEAN
    BY DEF M1!Registers
  <2>3. enabled \in BOOLEAN
    BY <2>2, Zenon
  <2> HIDE DEF enabled
  <2>4. QED
    BY <2>1, <2>3 DEF M1!Registers
<1>3. CASE a \in M1!RomBankRegister .. M1!RamBankRegister - 1
  BY <1>1, <1>3, Mbc1Area DEF M1!RegsAfter, M1!Registers
<1>4. CASE a \in M1!RamBankRegister .. M1!ModeRegister - 1
  BY <1>1, <1>4, Mbc1Area DEF M1!RegsAfter, M1!Registers
<1>5. CASE M1!ModeRegister <= a
  <2>1. M1!RegsAfter(r, a, v) = [r EXCEPT !.bankingMode = (v % 2 # 0)]
    <3>1. /\ ~(a < M1!RomBankRegister)
          /\ a \notin M1!RomBankRegister .. M1!RamBankRegister - 1
          /\ a \notin M1!RamBankRegister .. M1!ModeRegister - 1
      BY <1>5, Mbc1Area
    <3>2. QED
      BY <3>1, Zenon DEF M1!RegsAfter
  <2>2. QED
    BY <1>1, <2>1 DEF M1!Registers
<1>6. QED
  BY <1>2, <1>3, <1>4, <1>5, Mbc1Area

LEMMA Mbc1Invariant ==
  ASSUME M1!Mbc1Assumption
  PROVE  /\ M1!Init => Mbc1Inv
         /\ Mbc1Inv /\ [M1!Next]_M1!vars => Mbc1Inv'
<1> USE DEF Mbc1Inv
<1>1. M1!Init => Mbc1Inv
  <2> SUFFICES ASSUME M1!Init PROVE Mbc1Inv
    OBVIOUS
  <2>1. regs \in M1!Registers /\ regs.romBankLow # 0
    BY DEF M1!Init, M1!Registers
  <2>2. ram \in M1!Ram /\ written \in M1!Ram /\ ram = written
    BY DEF M1!Init, M1!Ram, M1!ClearedRam
  <2>3. QED
    BY <2>1, <2>2 DEF M1!TypeOK
<1>2. Mbc1Inv /\ [M1!Next]_M1!vars => Mbc1Inv'
  <2> SUFFICES ASSUME Mbc1Inv, [M1!Next]_M1!vars PROVE Mbc1Inv'
    OBVIOUS
  <2>1. ASSUME NEW a \in M1!Addresses, NEW v \in Mbc1Values, M1!WriteRom(a, v)
        PROVE  Mbc1Inv'
    <3>1. a \in Nat /\ v \in 0 .. 255
      BY DEF M1!Mbc1Assumption, M1!Addresses, M1!RomBankRegister, M1!RamBankRegister,
             M1!ModeRegister, M1!RomEnd
    <3>2. QED
      BY <2>1, <3>1, Mbc1RegsAfter DEF M1!WriteRom, M1!TypeOK
  <2>2. ASSUME NEW v \in Bytes, M1!WriteRam(v)
        PROVE  Mbc1Inv'
    BY <2>2 DEF M1!WriteRam, M1!TypeOK, M1!Ram, M1!RawReadBank, M1!RawWriteBank
  <2>3. CASE UNCHANGED M1!vars
    BY <2>3 DEF M1!vars, M1!TypeOK
  <2>4. QED
    BY <2>1, <2>2, <2>3 DEF M1!Next
<1>3. QED
  BY <1>1, <1>2

\* What the two writes that select bank b, and a third, make of the registers.
LEMMA Mbc1Selects ==
  ASSUME M1!Mbc1Assumption, Mbc1Banks <= 128, Mbc1Inv, NEW b \in 0 .. Mbc1Banks - 1
  PROVE  LET r == M1!RegsAfter(M1!RegsAfter(regs, M1!RamBankRegister, b \div 32),
                               M1!RomBankRegister, b)
         IN  /\ b % 32 # 0 => M1!SwitchedBank(r) = b
             /\ b % 32 = 0 => M1!FixedBank(M1!RegsAfter(r, M1!ModeRegister, 1)) = b
<1> DEFINE high == M1!RegsAfter(regs, M1!RamBankRegister, b \div 32)
           r == M1!RegsAfter(high, M1!RomBankRegister, b)
           m == M1!RegsAfter(r, M1!ModeRegister, 1)
<1> regs \in M1!Registers /\ Mbc1Banks \in Nat
  BY DEF Mbc1Inv, M1!TypeOK, M1!Mbc1Assumption, M1!MapperAssumption
<1>1. high = [regs EXCEPT !.bankHigh = b \div 32]
  BY Mbc1Area DEF M1!RegsAfter, M1!BankHigh
<1>2. r = [high EXCEPT !.romBankLow = M1!RomBankLow(b)]
  BY Mbc1Area DEF M1!RegsAfter
<1>3. m = [r EXCEPT !.bankingMode = TRUE]
  <2>1. /\ ~(M1!ModeRegister < M1!RomBankRegister)
        /\ M1!ModeRegister \notin M1!RomBankRegister .. M1!RamBankRegister - 1
        /\ M1!ModeRegister \notin M1!RamBankRegister .. M1!ModeRegister - 1
    BY Mbc1Area
  <2>2. m = [r EXCEPT !.bankingMode = (1 % 2 # 0)]
    BY <2>1, Zenon DEF M1!RegsAfter
  <2>3. (1 % 2 # 0) = TRUE
    <3>1. 1 % 2 # 0
      OBVIOUS
    <3>2. QED
      BY <3>1, Zenon
  <2>4. QED
    BY <2>2, <2>3, Zenon
<1>4. high \in M1!Registers /\ high.bankHigh = b \div 32
  BY <1>1 DEF M1!Registers
<1>5. /\ r \in M1!Registers /\ r.bankHigh = b \div 32
      /\ b % 32 # 0 => r.romBankLow = b % 32
  BY <1>2, <1>4 DEF M1!Registers, M1!RomBankLow
<1>6. m.bankHigh = b \div 32 /\ m.bankingMode = TRUE
  BY <1>3, <1>5 DEF M1!Registers
<1>7. b % 32 # 0 => M1!SwitchedBank(r) = b
  BY <1>5 DEF M1!SwitchedBank, M1!CurrentRomBank, M1!RomBank
<1>8. b % 32 = 0 => M1!FixedBank(m) = b
  BY <1>6 DEF M1!FixedBank, M1!RomBank
<1>9. QED
  BY <1>7, <1>8

\* Every bank can be brought into a window, in any state of the registers; with
\* whole groups of 32 banks none of the four first ones shows at 4000; and RAM
\* keeps what is stored in it.
LEMMA Mbc1Good ==
  ASSUME M1!Mbc1Assumption, Mbc1Banks <= 128, Mbc1Inv
  PROVE  /\ M1!TypeOK /\ M1!EveryBankInReach
         /\ M1!NoBankZeroAt4000 /\ M1!RamKeepsItsBanks
<1>1. M1!EveryBankInReach
  BY Mbc1Selects DEF M1!EveryBankInReach
<1>2. M1!NoBankZeroAt4000
  <2> SUFFICES ASSUME Mbc1Banks % 32 = 0
               PROVE  M1!SwitchedBank(regs) % 32 # 0
    BY DEF M1!NoBankZeroAt4000
  <2>1. regs.romBankLow \in 1 .. 31 /\ regs.bankHigh \in 0 .. 3
    BY DEF Mbc1Inv, M1!TypeOK, M1!Registers
  <2>2. Mbc1Banks \in {32, 64, 96, 128}
    BY DEF M1!Mbc1Assumption, M1!MapperAssumption
  <2> DEFINE bank == 32 * regs.bankHigh + regs.romBankLow
  <2>3. bank \in Nat /\ bank % 32 # 0
    BY <2>1
  <2> HIDE DEF bank
  <2>4. /\ (bank % 32) % 32 # 0 /\ (bank % 64) % 32 # 0
        /\ (bank % 96) % 32 # 0 /\ (bank % 128) % 32 # 0
    BY <2>3
  <2>5. M1!SwitchedBank(regs) = bank % Mbc1Banks
    BY DEF M1!SwitchedBank, M1!CurrentRomBank, M1!RomBank, bank
  <2>6. QED
    BY <2>2, <2>4, <2>5
<1>3. M1!RamKeepsItsBanks
  BY DEF Mbc1Inv, M1!RamKeepsItsBanks, M1!ReadRam
<1>4. QED
  BY <1>1, <1>2, <1>3 DEF Mbc1Inv

-----------------------------------------------------------------------------
(* Mbc2.  Two addresses have one cell when they agree modulo 512.          *)

Mbc2Inv ==
  /\ M2!TypeOK /\ regs.romBank # 0
  /\ \A a \in RamAddresses : ram[M2!EffectiveRamAddress(a)] = written[a % 512]

LEMMA Mbc2RegsAfter ==
  ASSUME NEW r \in [romBank : 0 .. 15, ramEnabled : BOOLEAN], r.romBank # 0,
         NEW a \in Nat, NEW v \in 0 .. 255
  PROVE  /\ M2!RegsAfter(r, a, v) \in [romBank : 0 .. 15, ramEnabled : BOOLEAN]
         /\ M2!RegsAfter(r, a, v).romBank # 0
<1> DEFINE select == a < M2!KB16 /\ (a \div 256) % 2 = 1
           enable == a < M2!KB16 /\ (a \div 256) % 2 = 0
<1>1. M2!Bank(v) \in 1 .. 15
  BY DEF M2!Bank
<1>2. ~(select /\ enable)
  OBVIOUS
<1>3. M2!RegsAfter(r, a, v) = CASE select -> [r EXCEPT !.romBank = M2!Bank(v)]
                                [] enable -> [r EXCEPT !.ramEnabled = (v % 16 = 10)]
                                [] OTHER -> r
  BY DEF M2!RegsAfter
<1> HIDE DEF select, enable
<1>4. CASE select
  BY <1>1, <1>2, <1>3, <1>4
<1>5. CASE enable
  <2>1. M2!RegsAfter(r, a, v) = [r EXCEPT !.ramEnabled = (v % 16 = 10)]
    BY <1>2, <1>3, <1>5, Zenon
  <2>2. QED
    BY <2>1
<1>6. CASE ~select /\ ~enable
  BY <1>3, <1>6
<1>7. QED
  BY <1>4, <1>5, <1>6

LEMMA Mbc2Invariant ==
  ASSUME M2!Mbc2Assumption
  PROVE  /\ M2!Init => Mbc2Inv
         /\ Mbc2Inv /\ [M2!Next]_M2!vars => Mbc2Inv'
<1> M2!RamStart \in Nat
  BY DEF M2!RamStart
<1> RamAddresses \subseteq Nat /\ Mbc2Values \subseteq 0 .. 255
  BY DEF M2!Mbc2Assumption
<1> USE DEF Mbc2Inv
<1>1. M2!Init => Mbc2Inv
  BY DEF M2!Init, M2!TypeOK, M2!Cells
<1>2. Mbc2Inv /\ [M2!Next]_M2!vars => Mbc2Inv'
  <2> SUFFICES ASSUME Mbc2Inv, [M2!Next]_M2!vars PROVE Mbc2Inv'
    OBVIOUS
  <2>1. ASSUME NEW a \in M2!RomAddresses, NEW v \in Mbc2Values, M2!WriteRom(a, v)
        PROVE  Mbc2Inv'
    <3>1. a \in Nat /\ v \in 0 .. 255
      BY DEF M2!RomAddresses, M2!KB16
    <3>2. regs \in [romBank : 0 .. 15, ramEnabled : BOOLEAN] /\ regs.romBank # 0
      BY DEF M2!TypeOK
    <3>3. /\ regs' \in [romBank : 0 .. 15, ramEnabled : BOOLEAN] /\ regs'.romBank # 0
          /\ ram' = ram /\ written' = written
      <4>1. /\ M2!RegsAfter(regs, a, v) \in [romBank : 0 .. 15, ramEnabled : BOOLEAN]
            /\ M2!RegsAfter(regs, a, v).romBank # 0
        BY <3>1, <3>2, Mbc2RegsAfter
      <4>2. QED
        BY <2>1, <4>1 DEF M2!WriteRom
    <3>4. QED
      BY <3>3 DEF M2!TypeOK
  <2>2. ASSUME NEW a \in RamAddresses, NEW v \in Mbc2Values, M2!WriteRam(a, v)
        PROVE  Mbc2Inv'
    <3>1. CASE ~regs.ramEnabled
      BY <2>2, <3>1 DEF M2!WriteRam, M2!TypeOK
    <3>2. CASE regs.ramEnabled
      <4> DEFINE byte == v % 16
      <4>1. byte \in 0 .. 15
        OBVIOUS
      <4>2. /\ ram' = [ram EXCEPT ![M2!EffectiveRamAddress(a)] = byte]
            /\ written' = [written EXCEPT ![a % 512] = byte]
            /\ regs' = regs
        BY <2>2, <3>2 DEF M2!WriteRam, M2!StoredByte
      <4> HIDE DEF byte
      <4>3. M2!TypeOK'
        BY <4>1, <4>2 DEF M2!TypeOK
      <4>4. ASSUME NEW b \in RamAddresses
            PROVE  ram'[M2!EffectiveRamAddress(b)] = written'[b % 512]
        <5>1. M2!EffectiveRamAddress(b) \in M2!Cells
          BY DEF M2!Cells
        <5>2. M2!EffectiveRamAddress(b) = M2!EffectiveRamAddress(a) <=> b % 512 = a % 512
          BY DEF M2!EffectiveRamAddress
        <5>3. ram'[M2!EffectiveRamAddress(b)] =
                IF b % 512 = a % 512 THEN byte ELSE ram[M2!EffectiveRamAddress(b)]
          BY <4>2, <5>1, <5>2 DEF M2!TypeOK
        <5>4. written'[b % 512] = IF b % 512 = a % 512 THEN byte ELSE written[b % 512]
          <6>1. b % 512 \in {c % 512 : c \in RamAddresses}
            OBVIOUS
          <6>2. QED
            BY <4>2, <6>1 DEF M2!TypeOK
        <5>5. QED
          BY <5>3, <5>4
      <4>5. QED
        BY <4>2, <4>3, <4>4
    <3>3. QED
      BY <3>1, <3>2
  <2>3. CASE UNCHANGED M2!vars
    BY <2>3 DEF M2!vars, M2!TypeOK
  <2>4. QED
    BY <2>1, <2>2, <2>3 DEF M2!Next
<1>3. QED
  BY <1>1, <1>2

\* The largest cartridge never shows bank 0 at 4000, and the 512 half-bytes are
\* found at every address that repeats them, whichever of the addresses the
\* program stored them at.
LEMMA Mbc2Good ==
  ASSUME M2!Mbc2Assumption, Mbc2Inv
  PROVE  M2!TypeOK /\ M2!NoBankZeroAt4000 /\ M2!RamRepeats
<1>1. M2!NoBankZeroAt4000
  BY DEF Mbc2Inv, M2!TypeOK, M2!NoBankZeroAt4000, M2!SwitchedBank
<1>2. M2!RamRepeats
  <2> SUFFICES ASSUME regs.ramEnabled, NEW a \in RamAddresses
               PROVE  M2!ReadRam(a) = 240 + written[a % 512]
    BY DEF M2!RamRepeats
  <2>1. written[a % 512] \in 0 .. 15
    BY DEF Mbc2Inv, M2!TypeOK
  <2>2. QED
    BY <2>1 DEF Mbc2Inv, M2!ReadRam
<1>3. QED
  BY <1>1, <1>2 DEF Mbc2Inv

-----------------------------------------------------------------------------
(* Mbc5.  A bank's number is 256 * romBankHigh + romBankLow.               *)

Mbc5Inv ==
  /\ M5!TypeOK /\ ~thrown
  /\ \A bank \in 0 .. M5!RamBankCount - 1 : ram[bank] = written[bank]

\* The registers of the ROM area follow each other.
LEMMA Mbc5Area ==
  /\ M5!RomBankRegister \in Nat \ {0} /\ M5!RomBankHighRegister \in Nat
  /\ M5!RamBankRegister \in Nat /\ M5!ModeRegister \in Nat
  /\ M5!RomBankRegister < M5!RomBankHighRegister
  /\ M5!RomBankHighRegister < M5!RamBankRegister
  /\ M5!RamBankRegister < M5!ModeRegister
BY DEF M5!RomBankRegister, M5!RomBankHighRegister, M5!RamBankRegister, M5!ModeRegister

LEMMA Mbc5RegsAfter ==
  ASSUME NEW r \in M5!Registers, NEW a \in Nat, NEW v \in 0 .. 255
  PROVE  M5!RegsAfter(r, a, v) \in M5!Registers
<1>1. M5!RamBankValue(r, v) \in 0 .. 15 /\ v % 2 \in 0 .. 1
  BY DEF M5!RamBankValue
<1>2. CASE a < M5!RomBankRegister
  <2>1. M5!RegsAfter(r, a, v) = [r EXCEPT !.ramEnabled = (v % 16 = 10)]
    <3>1. /\ a \notin M5!RomBankRegister .. M5!RomBankHighRegister - 1
          /\ a \notin M5!RomBankHighRegister .. M5!RamBankRegister - 1
          /\ a \notin M5!RamBankRegister .. M5!ModeRegister - 1
      BY <1>2, Mbc5Area
    <3>2. QED
      BY <1>2, <3>1, Zenon DEF M5!RegsAfter
  <2>2. \A on \in BOOLEAN : [r EXCEPT !.ramEnabled = on] \in M5!Registers
    BY DEF M5!Registers
  <2>3. (v % 16 = 10) \in BOOLEAN
    OBVIOUS
  <2>4. QED
    BY <2>1, <2>2, <2>3, Zenon
<1>3. CASE a \in M5!RomBankRegister .. M5!RomBankHighRegister - 1
  BY <1>3, Mbc5Area DEF M5!RegsAfter, M5!Registers
<1>4. CASE a \in M5!RomBankHighRegister .. M5!RamBankRegister - 1
  BY <1>1, <1>4, Mbc5Area DEF M5!RegsAfter, M5!Registers
<1>5. CASE a \in M5!RamBankRegister .. M5!ModeRegister - 1
  BY <1>1, <1>5, Mbc5Area DEF M5!RegsAfter, M5!Registers
<1>6. CASE M5!ModeRegister <= a
  BY <1>6, Mbc5Area DEF M5!RegsAfter
<1>7. QED
  BY <1>2, <1>3, <1>4, <1>5, <1>6, Mbc5Area

\* Every bank that can be selected lies in the array.
LEMMA Mbc5RamFits ==
  ASSUME M5!Mbc5Assumption, Mbc5Ram # 4, M5!TypeOK
  PROVE  /\ M5!RamBankCount \in 1 .. 8
         /\ M5!RamBank(regs.ramBank) \in 0 .. M5!RamBankCount - 1
         /\ M5!RamFits(regs.ramBank)
<1>1. M5!RamBankCount \in 1 .. 8
  BY DEF M5!RamBankCount
<1>2. regs.ramBank \in Nat
  BY DEF M5!TypeOK, M5!Registers
<1>3. M5!RamBank(regs.ramBank) \in 0 .. M5!RamBankCount - 1
  BY <1>1, <1>2 DEF M5!RamBank
<1>4. QED
  BY <1>1, <1>3 DEF M5!RamFits, M5!ArrayBanks

LEMMA Mbc5Invariant ==
  ASSUME M5!Mbc5Assumption, Mbc5Ram # 4
  PROVE  /\ M5!Init => Mbc5Inv
         /\ Mbc5Inv /\ [M5!Next]_M5!vars => Mbc5Inv'
<1> USE DEF Mbc5Inv
<1> M5!RamBankCount \in 1 .. 8
  BY DEF M5!RamBankCount
<1>1. M5!Init => Mbc5Inv
  <2> SUFFICES ASSUME M5!Init PROVE Mbc5Inv
    OBVIOUS
  <2>1. regs \in M5!Registers
    BY DEF M5!Init, M5!Registers
  <2>2. /\ ram \in M5!Ram /\ written \in [0 .. M5!RamBankCount - 1 -> Bytes \union {0}]
        /\ \A bank \in 0 .. M5!RamBankCount - 1 : ram[bank] = written[bank]
    BY DEF M5!Init, M5!Ram, M5!ClearedRam, M5!ArrayBanks
  <2>3. thrown = FALSE
    BY DEF M5!Init
  <2>4. QED
    BY <2>1, <2>2, <2>3 DEF M5!TypeOK
<1>2. Mbc5Inv /\ [M5!Next]_M5!vars => Mbc5Inv'
  <2> SUFFICES ASSUME Mbc5Inv, [M5!Next]_M5!vars PROVE Mbc5Inv'
    OBVIOUS
  <2>1. ASSUME NEW a \in M5!Addresses, NEW v \in Mbc5Values, M5!WriteRom(a, v)
        PROVE  Mbc5Inv'
    <3>1. a \in Nat /\ v \in 0 .. 255
      <4>1. M5!Addresses \subseteq Nat
        <5>1. M5!RomEnd - 1 \in Nat
          BY DEF M5!RomEnd
        <5>2. QED
          BY <5>1, Mbc5Area DEF M5!Addresses
      <4>2. QED
        BY <4>1 DEF M5!Mbc5Assumption
    <3>2. regs' \in M5!Registers /\ UNCHANGED <<ram, written, thrown>>
      BY <2>1, <3>1, Mbc5RegsAfter DEF M5!WriteRom, M5!TypeOK
    <3>3. QED
      BY <3>2 DEF M5!TypeOK
  <2>2. ASSUME NEW v \in Bytes, M5!WriteRam(v)
        PROVE  Mbc5Inv'
    <3>1. /\ M5!RamFits(regs.ramBank)
          /\ M5!RamBank(regs.ramBank) \in 0 .. M5!RamBankCount - 1
      BY Mbc5RamFits
    <3>2. thrown' = FALSE /\ regs' = regs
      BY <2>2, <3>1 DEF M5!WriteRam
    <3>3. CASE ~regs.ramEnabled
      BY <2>2, <3>2, <3>3 DEF M5!WriteRam, M5!TypeOK
    <3>4. CASE regs.ramEnabled
      <4>1. /\ ram' = [ram EXCEPT ![M5!RamBank(regs.ramBank)] = v]
            /\ written' = [written EXCEPT ![M5!RamBank(regs.ramBank)] = v]
        BY <2>2, <3>1, <3>4 DEF M5!WriteRam, M5!StoredBank
      <4>2. /\ ram' \in M5!Ram
            /\ written' \in [0 .. M5!RamBankCount - 1 -> Bytes \union {0}]
            /\ \A bank \in 0 .. M5!RamBankCount - 1 : ram'[bank] = written'[bank]
        BY <3>1, <4>1 DEF M5!TypeOK, M5!Ram, M5!ArrayBanks
      <4>3. QED
        BY <3>2, <4>2 DEF M5!TypeOK
    <3>5. QED
      BY <3>3, <3>4
  <2>3. CASE M5!LoadRam
    <3>1. thrown' = FALSE
      BY <2>3, Mbc5RamFits DEF M5!LoadRam
    <3>2. QED
      BY <2>3, <3>1 DEF M5!LoadRam, M5!TypeOK
  <2>4. CASE UNCHANGED M5!vars
    BY <2>4 DEF M5!vars, M5!TypeOK
  <2>5. QED
    BY <2>1, <2>2, <2>3, <2>4 DEF M5!Next
<1>3. QED
  BY <1>1, <1>2

LEMMA Mbc5Selects ==
  ASSUME M5!Mbc5Assumption, Mbc5Banks <= 512, M5!TypeOK, NEW b \in 0 .. Mbc5Banks - 1
  PROVE  LET r == M5!RegsAfter(M5!RegsAfter(regs, M5!RomBankRegister, b % 256),
                               M5!RomBankHighRegister, b \div 256)
         IN  M5!SwitchedBank(r) = b
<1> DEFINE low == M5!RegsAfter(regs, M5!RomBankRegister, b % 256)
           r == M5!RegsAfter(low, M5!RomBankHighRegister, b \div 256)
<1> regs \in M5!Registers /\ Mbc5Banks \in Nat
  BY DEF M5!TypeOK, M5!Mbc5Assumption, M5!MapperAssumption
<1>1. low = [regs EXCEPT !.romBankLow = b % 256]
  BY Mbc5Area DEF M5!RegsAfter
<1>2. r = [low EXCEPT !.romBankHigh = (b \div 256) % 2]
  BY Mbc5Area DEF M5!RegsAfter
<1>3. low \in M5!Registers /\ low.romBankLow = b % 256
  BY <1>1 DEF M5!Registers
<1>4. r.romBankLow = b % 256 /\ r.romBankHigh = b \div 256
  BY <1>2, <1>3 DEF M5!Registers
<1>5. QED
  BY <1>4 DEF M5!SwitchedBank, M5!CurrentRomBank, M5!RomBank


\* Of a ROM of any size that nine bits can name, every bank can be brought into
\* the window, in any state of the registers; and unless the cartridge declares
\* 128 KB of RAM, which the array does not have, no access throws and RAM keeps
\* what is stored in it, with a motor or without.
LEMMA Mbc5Good ==
  ASSUME M5!Mbc5Assumption, Mbc5Banks <= 512, Mbc5Ram # 4, Mbc5Inv
  PROVE  M5!TypeOK /\ M5!EveryBankInReach /\ M5!RamKeepsItsBanks
<1>1. M5!TypeOK /\ M5!EveryBankInReach
  BY Mbc5Selects DEF Mbc5Inv, M5!EveryBankInReach
<1>2. M5!RamKeepsItsBanks
  BY Mbc5RamFits DEF Mbc5Inv, M5!RamKeepsItsBanks, M5!ReadRam
<1>3. QED
  BY <1>1, <1>2

-----------------------------------------------------------------------------
(* Mbc3.  Its clock is the RealTimeClock above.                            *)

Mbc3Inv ==
  /\ M3!TypeOK /\ regs.romBank # 0
  /\ rtcRegisters = [i \in M3!Rtc!RegisterIds |-> rtcRegisters[i]]
  /\ chosen = IF regs.selectedRtc = Unset THEN regs.ramBank ELSE regs.selectedRtc + 8
  /\ M3!LatchIsOneInstant

\* The registers of the ROM area follow each other.
LEMMA Mbc3Area ==
  /\ M3!RomBankRegister \in Nat \ {0} /\ M3!RamBankRegister \in Nat
  /\ M3!ModeRegister \in Nat /\ M3!RomEnd \in Nat
  /\ M3!RomBankRegister < M3!RamBankRegister /\ M3!RamBankRegister < M3!ModeRegister
  /\ M3!ModeRegister < M3!RomEnd
BY DEF M3!RomBankRegister, M3!RamBankRegister, M3!ModeRegister, M3!RomEnd

\* The clock of the mapper is another instance of RealTimeClock.
LEMMA Mbc3TCycleType ==
  ASSUME M3!Rtc!RealTimeClockAssumption, NEW c \in M3!Rtc!Clock
  PROVE  M3!Rtc!AfterTCycle(c) \in M3!Rtc!Clock
<1> USE DEF M3!Rtc!RealTimeClockAssumption
<1>1. \A field, last, hard \in Nat :
        last < hard /\ field <= hard => M3!Rtc!TickField(field, last, hard) \in 0 .. hard
  BY DEF M3!Rtc!TickField
<1>2. ASSUME NEW n \in M3!Rtc!Clock
      PROVE  M3!Rtc!NextSecond(n) \in M3!Rtc!Clock
  <2> DEFINE m == M3!Rtc!Carries(n.seconds, Mbc3SecondsMax, Mbc3SecondsHard)
             h == m /\ M3!Rtc!Carries(n.minutes, Mbc3MinutesMax, Mbc3MinutesHard)
             d == h /\ M3!Rtc!Carries(n.hours, Mbc3HoursMax, Mbc3HoursHard)
             s2 == M3!Rtc!TickField(n.seconds, Mbc3SecondsMax, Mbc3SecondsHard)
             m2 == IF m THEN M3!Rtc!TickField(n.minutes, Mbc3MinutesMax, Mbc3MinutesHard)
                   ELSE n.minutes
             h2 == IF h THEN M3!Rtc!TickField(n.hours, Mbc3HoursMax, Mbc3HoursHard)
                   ELSE n.hours
             t == [n EXCEPT !.seconds = s2, !.minutes = m2, !.hours = h2]
  <2>1. /\ s2 \in 0 .. Mbc3SecondsHard /\ m2 \in 0 .. Mbc3MinutesHard
        /\ h2 \in 0 .. Mbc3HoursHard
    BY <1>1 DEF M3!Rtc!Clock
  <2>2. M3!Rtc!NextSecond(n) = IF d THEN M3!Rtc!NextDay(t) ELSE t
    BY DEF M3!Rtc!NextSecond
  <2> HIDE DEF s2, m2, h2, d
  <2>3. t \in M3!Rtc!Clock
    BY <2>1 DEF M3!Rtc!Clock
  <2> HIDE DEF t
  <2>4. M3!Rtc!NextDay(t) \in M3!Rtc!Clock
    <3>1. t.days \in 0 .. 2 * Mbc3DayLow - 1 /\ 0 \in 0 .. 2 * Mbc3DayLow - 1
      BY <2>3 DEF M3!Rtc!Clock
    <3>2. CASE t.days + 1 > 2 * Mbc3DayLow - 1
      <4>1. M3!Rtc!NextDay(t) = [t EXCEPT !.days = 0, !.dayCarry = TRUE]
        BY <3>2 DEF M3!Rtc!NextDay
      <4>2. QED
        BY <2>3, <3>1, <4>1 DEF M3!Rtc!Clock
    <3>3. CASE ~(t.days + 1 > 2 * Mbc3DayLow - 1)
      <4>1. M3!Rtc!NextDay(t) = [t EXCEPT !.days = @ + 1]
        BY <3>3 DEF M3!Rtc!NextDay
      <4>2. t.days + 1 \in 0 .. 2 * Mbc3DayLow - 1
        BY <3>1, <3>3
      <4>3. QED
        BY <2>3, <4>1, <4>2 DEF M3!Rtc!Clock
    <3>4. QED
      BY <3>2, <3>3
  <2>5. QED
    BY <2>2, <2>3, <2>4
<1>3. [c EXCEPT !.tCycles = 0] \in M3!Rtc!Clock
  BY DEF M3!Rtc!Clock
<1>4. ~M3!Rtc!CompletesSecond(c) /\ ~c.halt => [c EXCEPT !.tCycles = @ + 1] \in M3!Rtc!Clock
  BY DEF M3!Rtc!CompletesSecond, M3!Rtc!Clock
<1>5. QED
  BY <1>2, <1>3, <1>4 DEF M3!Rtc!AfterTCycle

LEMMA Mbc3MaskedType ==
  ASSUME M3!Rtc!RealTimeClockAssumption, NEW i \in M3!Rtc!RegisterIds,
         NEW v \in M3!Rtc!Writable(i)
  PROVE  M3!Rtc!Masked(i, v) \in M3!Rtc!Register(i)
<1> USE DEF M3!Rtc!RTC_S, M3!Rtc!RTC_M, M3!Rtc!RTC_H, M3!Rtc!RTC_DL, M3!Rtc!RTC_DH
<1>1. CASE i = M3!Rtc!RTC_DH
  BY <1>1 DEF M3!Rtc!Masked, M3!Rtc!Register, M3!Rtc!Writable
<1>2. CASE i # M3!Rtc!RTC_DH
  <2>1. v \in Nat
    BY <1>2 DEF M3!Rtc!Writable, M3!Rtc!RealTimeClockAssumption
  <2>2. \A last \in Nat : v % (last + 1) \in 0 .. last
    BY <2>1
  <2>3. v % Mbc3DayLow \in 0 .. Mbc3DayLow - 1
    BY <2>1 DEF M3!Rtc!RealTimeClockAssumption
  <2>4. Mbc3SecondsHard \in Nat /\ Mbc3MinutesHard \in Nat /\ Mbc3HoursHard \in Nat
    BY DEF M3!Rtc!RealTimeClockAssumption
  <2>5. CASE i = M3!Rtc!RTC_S
    BY <2>2, <2>4, <2>5 DEF M3!Rtc!Masked, M3!Rtc!Register
  <2>6. CASE i = M3!Rtc!RTC_M
    BY <2>2, <2>4, <2>6 DEF M3!Rtc!Masked, M3!Rtc!Register
  <2>7. CASE i = M3!Rtc!RTC_H
    BY <2>2, <2>4, <2>7 DEF M3!Rtc!Masked, M3!Rtc!Register
  <2>8. CASE i = M3!Rtc!RTC_DL
    BY <2>3, <2>8 DEF M3!Rtc!Masked, M3!Rtc!Register
  <2>9. QED
    BY <1>2, <2>5, <2>6, <2>7, <2>8 DEF M3!Rtc!RegisterIds
<1>3. QED
  BY <1>1, <1>2

LEMMA Mbc3LatchType ==
  ASSUME M3!Rtc!RealTimeClockAssumption, NEW c \in M3!Rtc!Clock, NEW i \in M3!Rtc!RegisterIds
  PROVE  M3!Rtc!LatchValue(c, i) \in M3!Rtc!Register(i)
<1> USE DEF M3!Rtc!RTC_S, M3!Rtc!RTC_M, M3!Rtc!RTC_H, M3!Rtc!RTC_DL, M3!Rtc!RTC_DH
<1>1. /\ c.seconds \in 0 .. Mbc3SecondsHard /\ c.minutes \in 0 .. Mbc3MinutesHard
      /\ c.hours \in 0 .. Mbc3HoursHard /\ c.dayCarry \in BOOLEAN /\ c.halt \in BOOLEAN
      /\ c.days % Mbc3DayLow \in 0 .. Mbc3DayLow - 1 /\ c.days \div Mbc3DayLow \in 0 .. 1
  BY DayHalves DEF M3!Rtc!Clock, M3!Rtc!RealTimeClockAssumption
<1>2. CASE i = M3!Rtc!RTC_DH
  BY <1>1, <1>2 DEF M3!Rtc!LatchValue, M3!Rtc!Register, M3!Rtc!DhBits
<1>3. CASE i = M3!Rtc!RTC_S
  BY <1>1, <1>3 DEF M3!Rtc!LatchValue, M3!Rtc!Register
<1>4. CASE i = M3!Rtc!RTC_M
  BY <1>1, <1>4 DEF M3!Rtc!LatchValue, M3!Rtc!Register
<1>5. CASE i = M3!Rtc!RTC_H
  BY <1>1, <1>5 DEF M3!Rtc!LatchValue, M3!Rtc!Register
<1>6. CASE i = M3!Rtc!RTC_DL
  BY <1>1, <1>6 DEF M3!Rtc!LatchValue, M3!Rtc!Register
<1>7. QED
  BY <1>2, <1>3, <1>4, <1>5, <1>6 DEF M3!Rtc!RegisterIds

LEMMA Mbc3SetType ==
  ASSUME M3!Rtc!RealTimeClockAssumption, NEW c \in M3!Rtc!Clock,
         NEW i \in M3!Rtc!RegisterIds, NEW v \in M3!Rtc!Writable(i)
  PROVE  M3!Rtc!SetRegister(c, i, v) \in M3!Rtc!Clock
<1> USE DEF M3!Rtc!RTC_S, M3!Rtc!RTC_M, M3!Rtc!RTC_H, M3!Rtc!RTC_DL, M3!Rtc!RTC_DH
<1> DEFINE x == M3!Rtc!Masked(i, v)
<1>1. x \in M3!Rtc!Register(i) /\ Mbc3DayLow \in Nat \ {0} /\ Mbc3Second \in Nat \ {0}
  BY Mbc3MaskedType DEF M3!Rtc!RealTimeClockAssumption
<1>2. /\ c.days % Mbc3DayLow \in 0 .. Mbc3DayLow - 1 /\ c.days \div Mbc3DayLow \in 0 .. 1
      /\ c.days = (c.days % Mbc3DayLow) + (c.days \div Mbc3DayLow) * Mbc3DayLow
  BY <1>1, DayHalves DEF M3!Rtc!Clock
<1>3. CASE i = M3!Rtc!RTC_DL
  <2>1. x \in 0 .. Mbc3DayLow - 1
    BY <1>1, <1>3 DEF M3!Rtc!Register
  <2>2. M3!Rtc!DaysAfterDl(c, x) = x + (c.days \div Mbc3DayLow) * Mbc3DayLow
    BY <1>1, <1>2, <2>1 DEF M3!Rtc!DaysAfterDl
  <2>3. M3!Rtc!DaysAfterDl(c, x) \in 0 .. 2 * Mbc3DayLow - 1
    BY <1>1, <1>2, <2>1, <2>2, DayHalves
  <2>4. M3!Rtc!SetRegister(c, i, v) = [c EXCEPT !.days = M3!Rtc!DaysAfterDl(c, x)]
    BY <1>3 DEF M3!Rtc!SetRegister
  <2>5. QED
    BY <2>3, <2>4 DEF M3!Rtc!Clock
<1>4. CASE i = M3!Rtc!RTC_DH
  <2>1. v.high \in 0 .. 1 /\ v.halt \in BOOLEAN /\ v.carry \in BOOLEAN
    BY <1>4 DEF M3!Rtc!Writable, M3!Rtc!DhBits
  <2>2. (c.days % Mbc3DayLow) + v.high * Mbc3DayLow \in 0 .. 2 * Mbc3DayLow - 1
    BY <1>1, <1>2, <2>1, DayHalves
  <2>3. M3!Rtc!SetRegister(c, i, v) =
          [c EXCEPT !.days = (@ % Mbc3DayLow) + v.high * Mbc3DayLow,
                    !.halt = v.halt, !.dayCarry = v.carry]
    BY <1>4 DEF M3!Rtc!SetRegister
  <2>4. QED
    BY <2>1, <2>2, <2>3 DEF M3!Rtc!Clock
<1>5. CASE i = M3!Rtc!RTC_S
  <2>1. x \in 0 .. Mbc3SecondsHard /\ 0 \in 0 .. Mbc3Second - 1
    BY <1>1, <1>5 DEF M3!Rtc!Register
  <2>2. M3!Rtc!SetRegister(c, i, v) = [c EXCEPT !.seconds = x, !.tCycles = 0]
    BY <1>5 DEF M3!Rtc!SetRegister
  <2>3. QED
    BY <2>1, <2>2 DEF M3!Rtc!Clock
<1>6. CASE i = M3!Rtc!RTC_M
  BY <1>1, <1>6 DEF M3!Rtc!SetRegister, M3!Rtc!Register, M3!Rtc!Clock
<1>7. CASE i = M3!Rtc!RTC_H
  BY <1>1, <1>7 DEF M3!Rtc!SetRegister, M3!Rtc!Register, M3!Rtc!Clock
<1>8. QED
  BY <1>3, <1>4, <1>5, <1>6, <1>7 DEF M3!Rtc!RegisterIds

\* What the registers that matter here become, field by field.
LEMMA Mbc3RegsAfter ==
  ASSUME Unset \notin Nat, NEW r \in M3!Registers, r.romBank # 0,
         NEW a \in Nat, NEW v \in 0 .. 255
  PROVE  LET n == M3!RegsAfter(r, a, v)
             selects == a \in M3!RamBankRegister .. M3!ModeRegister - 1
         IN  /\ n \in M3!Registers /\ n.romBank # 0
             /\ n.ramBank = IF selects /\ v <= 3 THEN v ELSE r.ramBank
             /\ n.selectedRtc = IF selects THEN M3!Selection(r, v) ELSE r.selectedRtc
<1> DEFINE n == M3!RegsAfter(r, a, v)
<1>1. /\ r.romBank \in 1 .. 255 /\ r.ramBank \in 0 .. 3
      /\ r.ramAndTimerEnabled \in BOOLEAN
      /\ r.selectedRtc \in M3!Rtc!RegisterIds \union {Unset} /\ r.lastLatchValue \in 0 .. 255
  BY DEF M3!Registers
<1>2. CASE a < M3!RomBankRegister
  <2> DEFINE enabled == IF v = 10 THEN TRUE ELSE IF v = 0 THEN FALSE
                        ELSE r.ramAndTimerEnabled
  <2>1. n = [r EXCEPT !.ramAndTimerEnabled = enabled]
    <3>1. /\ a \notin M3!RomBankRegister .. M3!RamBankRegister - 1
          /\ a \notin M3!RamBankRegister .. M3!ModeRegister - 1
      BY <1>2, Mbc3Area
    <3>2. QED
      BY <1>2, <3>1, Zenon DEF M3!RegsAfter
  <2>2. enabled \in BOOLEAN
    BY <1>1, Zenon
  <2>3. a \notin M3!RamBankRegister .. M3!ModeRegister - 1
    BY <1>2, Mbc3Area
  <2> HIDE DEF enabled
  <2>4. /\ n \in M3!Registers /\ n.romBank = r.romBank
        /\ n.ramBank = r.ramBank /\ n.selectedRtc = r.selectedRtc
    BY <2>1, <2>2 DEF M3!Registers
  <2>5. QED
    BY <2>3, <2>4
<1>3. CASE a \in M3!RomBankRegister .. M3!RamBankRegister - 1
  <2>1. n = [r EXCEPT !.romBank = M3!RomBankValue(v)]
    BY <1>3, Mbc3Area DEF M3!RegsAfter
  <2>2. M3!RomBankValue(v) \in 1 .. 255
    BY DEF M3!RomBankValue
  <2>3. a \notin M3!RamBankRegister .. M3!ModeRegister - 1
    BY <1>3, Mbc3Area
  <2>4. /\ n \in M3!Registers /\ n.romBank # 0
        /\ n.ramBank = r.ramBank /\ n.selectedRtc = r.selectedRtc
    BY <2>1, <2>2 DEF M3!Registers
  <2>5. QED
    BY <2>3, <2>4
<1>4. CASE a \in M3!RamBankRegister .. M3!ModeRegister - 1
  <2> DEFINE bank == IF v <= 3 THEN v ELSE r.ramBank
             selected == M3!Selection(r, v)
  <2>1. n = [r EXCEPT !.ramBank = bank, !.selectedRtc = selected]
    BY <1>4, Mbc3Area DEF M3!RegsAfter
  <2>2. selected \in M3!Rtc!RegisterIds \union {Unset}
    <3>1. selected \in M3!Rtc!RegisterIds \union {Unset}
      BY <1>1 DEF M3!Selection, M3!Rtc!RegisterIds
    <3>2. QED
      BY <3>1
  <2>3. bank \in 0 .. 3
    BY <1>1
  <2> HIDE DEF bank, selected
  <2>4. n \in M3!Registers
    <3> DEFINE half == [r EXCEPT !.ramBank = bank]
    <3>1. half \in M3!Registers
      BY <2>3 DEF M3!Registers
    <3>2. n = [half EXCEPT !.selectedRtc = selected]
      BY <2>1 DEF M3!Registers
    <3> HIDE DEF half
    <3>3. QED
      BY <2>2, <3>1, <3>2 DEF M3!Registers
  <2>5. n.romBank = r.romBank /\ n.ramBank = bank /\ n.selectedRtc = selected
    BY <2>1 DEF M3!Registers
  <2>6. QED
    BY <1>4, <2>4, <2>5 DEF bank, selected
<1>5. CASE M3!ModeRegister <= a
  <2>1. n = [r EXCEPT !.lastLatchValue = v]
    BY <1>5, Mbc3Area DEF M3!RegsAfter
  <2>2. a \notin M3!RamBankRegister .. M3!ModeRegister - 1
    BY <1>5, Mbc3Area
  <2>3. /\ n \in M3!Registers /\ n.romBank = r.romBank
        /\ n.ramBank = r.ramBank /\ n.selectedRtc = r.selectedRtc
    BY <2>1 DEF M3!Registers
  <2>4. QED
    BY <2>2, <2>3
<1>6. QED
  BY <1>2, <1>3, <1>4, <1>5, Mbc3Area

\* A copy of the clock spells out the time it was taken at.
LEMMA LatchSpellsOut ==
  ASSUME M3!Rtc!RealTimeClockAssumption, NEW c \in M3!Rtc!Clock, NEW copy,
         copy = [i \in M3!Rtc!RegisterIds |-> M3!Rtc!LatchValue(c, i)]
  PROVE  <<copy[M3!Rtc!RTC_S], copy[M3!Rtc!RTC_M], copy[M3!Rtc!RTC_H],
           copy[M3!Rtc!RTC_DL] + copy[M3!Rtc!RTC_DH].high * Mbc3DayLow, copy[M3!Rtc!RTC_DH].carry,
           copy[M3!Rtc!RTC_DH].halt>> = M3!Shown(c)
<1>1. /\ copy[M3!Rtc!RTC_S] = c.seconds /\ copy[M3!Rtc!RTC_M] = c.minutes
      /\ copy[M3!Rtc!RTC_H] = c.hours /\ copy[M3!Rtc!RTC_DL] = c.days % Mbc3DayLow
      /\ copy[M3!Rtc!RTC_DH] = [high |-> c.days \div Mbc3DayLow, halt |-> c.halt,
                         carry |-> c.dayCarry]
  BY DEF M3!Rtc!LatchValue, M3!Rtc!RegisterIds, M3!Rtc!RTC_S, M3!Rtc!RTC_M, M3!Rtc!RTC_H, M3!Rtc!RTC_DL, M3!Rtc!RTC_DH
<1>2. c.days = (c.days % Mbc3DayLow) + (c.days \div Mbc3DayLow) * Mbc3DayLow
  BY DayHalves DEF M3!Rtc!Clock, M3!Rtc!RealTimeClockAssumption
<1>3. /\ copy[M3!Rtc!RTC_DH].high = c.days \div Mbc3DayLow
      /\ copy[M3!Rtc!RTC_DH].halt = c.halt /\ copy[M3!Rtc!RTC_DH].carry = c.dayCarry
  BY <1>1
<1>4. copy[M3!Rtc!RTC_DL] + copy[M3!Rtc!RTC_DH].high * Mbc3DayLow = c.days
  BY <1>1, <1>2, <1>3
<1>5. QED
  BY <1>1, <1>3, <1>4, Zenon DEF M3!Shown

LEMMA Mbc3Init ==
  ASSUME M3!Mbc3Assumption, M3!Init
  PROVE  Mbc3Inv
<1>0. M3!Rtc!RealTimeClockAssumption
  BY DEF M3!Mbc3Assumption
<1>1. regs \in M3!Registers /\ regs.romBank # 0
      /\ regs.selectedRtc = Unset /\ regs.ramBank = 0
  BY DEF M3!Init, M3!Registers
<1>2. rtc \in M3!Rtc!Clock /\ rtc \in M3!Rtc!Clock
  BY <1>0 DEF M3!Init, M3!Rtc!ZeroClock, M3!Rtc!Clock, M3!Rtc!RealTimeClockAssumption
<1>3. rtcRegisters = [i \in M3!Rtc!RegisterIds |-> M3!Rtc!LatchValue(rtc, i)]
  <2>1. rtcRegisters = [i \in M3!Rtc!RegisterIds |-> M3!Rtc!LatchValue(rtc, i)]
    BY DEF M3!Init, M3!Latched
  <2>2. M3!Rtc!RegisterIds = M3!Rtc!RegisterIds
    OBVIOUS
  <2>3. QED
    BY <2>1, <2>2, Zenon
<1>4. \A i \in M3!Rtc!RegisterIds : rtcRegisters[i] \in M3!Rtc!Register(i)
  BY <1>0, <1>2, <1>3, Mbc3LatchType
<1>5. ram \in M3!Ram
  BY DEF M3!Init, M3!Ram, M3!ClearedRam
<1>6. M3!TypeOK
  BY <1>1, <1>2, <1>4, <1>5 DEF M3!TypeOK
<1>7. chosen = 0 /\ instant = Unset
  BY DEF M3!Init
<1>8. rtcRegisters = [i \in M3!Rtc!RegisterIds |-> rtcRegisters[i]]
  BY <1>3
<1>9. QED
  BY <1>1, <1>6, <1>7, <1>8 DEF Mbc3Inv, M3!LatchIsOneInstant

LEMMA Mbc3WriteRom ==
  ASSUME M3!Mbc3Assumption, Mbc3Inv,
         NEW a \in M3!Addresses, NEW v \in M3!ValuesFor(a), M3!WriteRom(a, v)
  PROVE  Mbc3Inv'
<1>0. M3!Rtc!RealTimeClockAssumption /\ Unset \notin Nat
  BY DEF M3!Mbc3Assumption, M3!Rtc!RealTimeClockAssumption
<1>1. a \in Nat /\ v \in 0 .. 255
  <2>1. a \in Nat
    <3>1. M3!RomEnd - 1 \in Nat
      BY DEF M3!RomEnd
    <3>2. QED
      BY <3>1, Mbc3Area DEF M3!Addresses
  <2>2. v \in EnableValues \union BankValues \union SelectValues \union LatchValues
    BY DEF M3!ValuesFor
  <2>3. QED
    BY <2>1, <2>2 DEF M3!Mbc3Assumption
<1> DEFINE selects == a \in M3!RamBankRegister .. M3!ModeRegister - 1
<1>2. regs \in M3!Registers /\ regs.romBank # 0 /\ rtc \in M3!Rtc!Clock
  BY DEF Mbc3Inv, M3!TypeOK
<1>3. /\ regs' \in M3!Registers /\ regs'.romBank # 0
      /\ regs'.ramBank = IF selects /\ v <= 3 THEN v ELSE regs.ramBank
      /\ regs'.selectedRtc = IF selects THEN M3!Selection(regs, v) ELSE regs.selectedRtc
  <2> DEFINE n == M3!RegsAfter(regs, a, v)
  <2>1. /\ n \in M3!Registers /\ n.romBank # 0
        /\ n.ramBank = IF selects /\ v <= 3 THEN v ELSE regs.ramBank
        /\ n.selectedRtc = IF selects THEN M3!Selection(regs, v) ELSE regs.selectedRtc
    BY <1>0, <1>1, <1>2, Mbc3RegsAfter
  <2>2. regs' = n
    BY DEF M3!WriteRom
  <2> HIDE DEF n, selects
  <2>3. QED
    BY <2>1, <2>2
<1>4. /\ rtc' = rtc /\ ram' = ram
      /\ chosen' = IF selects /\ v \in 0 .. 3 \union 8 .. 12 THEN v ELSE chosen
  BY DEF M3!WriteRom
<1>5. chosen' = IF regs'.selectedRtc = Unset THEN regs'.ramBank ELSE regs'.selectedRtc + 8
  <2>1. chosen = IF regs.selectedRtc = Unset THEN regs.ramBank ELSE regs.selectedRtc + 8
    BY DEF Mbc3Inv
  <2>2. CASE ~selects
    BY <1>3, <1>4, <2>1, <2>2
  <2>3. CASE selects
    <3>1. CASE v <= 3
      BY <1>1, <1>3, <1>4, <2>3, <3>1 DEF M3!Selection
    <3>2. CASE v \in 8 .. 12
      <4>1. regs'.selectedRtc = v - 8 /\ chosen' = v
        BY <1>1, <1>3, <1>4, <2>3, <3>2 DEF M3!Selection
      <4>2. v - 8 # Unset
        BY <1>0, <3>2
      <4>3. QED
        BY <1>1, <4>1, <4>2
    <3>3. CASE v > 3 /\ v \notin 8 .. 12
      BY <1>1, <1>3, <1>4, <2>1, <2>3, <3>3 DEF M3!Selection
    <3>4. QED
      BY <1>1, <3>1, <3>2, <3>3
  <2>4. QED
    BY <2>2, <2>3
<1>6. /\ \A i \in M3!Rtc!RegisterIds : rtcRegisters'[i] \in M3!Rtc!Register(i)
      /\ rtcRegisters' = [i \in M3!Rtc!RegisterIds |-> rtcRegisters'[i]]
      /\ M3!LatchIsOneInstant'
  <2>1. CASE M3!Latches(a, v)
    <3>1. rtcRegisters' = [i \in M3!Rtc!RegisterIds |-> M3!Rtc!LatchValue(rtc, i)]
      <4>1. rtcRegisters' = [i \in M3!Rtc!RegisterIds |-> M3!Rtc!LatchValue(rtc, i)]
        BY <2>1 DEF M3!WriteRom, M3!Latched
      <4>2. M3!Rtc!RegisterIds = M3!Rtc!RegisterIds
        OBVIOUS
      <4>3. QED
        BY <4>1, <4>2, Zenon
    <3>2. instant' = M3!Shown(rtc)
      BY <2>1 DEF M3!WriteRom
    <3>3. M3!LatchedTime' = M3!Shown(rtc)
      <4>1. M3!LatchedTime' =
              <<rtcRegisters'[M3!Rtc!RTC_S], rtcRegisters'[M3!Rtc!RTC_M], rtcRegisters'[M3!Rtc!RTC_H],
                rtcRegisters'[M3!Rtc!RTC_DL] + rtcRegisters'[M3!Rtc!RTC_DH].high * Mbc3DayLow,
                rtcRegisters'[M3!Rtc!RTC_DH].carry, rtcRegisters'[M3!Rtc!RTC_DH].halt>>
        BY Zenon DEF M3!LatchedTime
      <4>2. QED
        BY <1>0, <1>2, <3>1, <4>1, LatchSpellsOut, Zenon
    <3>4. QED
      BY <1>0, <1>2, <3>1, <3>2, <3>3, Mbc3LatchType DEF M3!LatchIsOneInstant
  <2>2. CASE ~M3!Latches(a, v)
    <3>1. rtcRegisters' = rtcRegisters /\ instant' = instant
      BY <2>2 DEF M3!WriteRom
    <3>2. QED
      BY <3>1 DEF Mbc3Inv, M3!TypeOK, M3!LatchIsOneInstant, M3!LatchedTime
  <2>3. QED
    BY <2>1, <2>2
<1>7. M3!TypeOK'
  BY <1>2, <1>3, <1>4, <1>6 DEF Mbc3Inv, M3!TypeOK
<1>8. QED
  BY <1>3, <1>5, <1>6, <1>7 DEF Mbc3Inv

LEMMA Mbc3WriteClock ==
  ASSUME M3!Mbc3Assumption, Mbc3Inv, M3!WriteClock
  PROVE  Mbc3Inv'
<1>0. M3!Rtc!RealTimeClockAssumption
  BY DEF M3!Mbc3Assumption
<1> DEFINE i == regs.selectedRtc
<1>1. rtc \in M3!Rtc!Clock /\ i \in M3!Rtc!RegisterIds
  BY DEF M3!WriteClock, Mbc3Inv, M3!TypeOK, M3!Registers
<1>2. PICK v \in M3!Rtc!Writable(i) :
        /\ rtc' = M3!Rtc!SetRegister(rtc, i, v)
        /\ rtcRegisters' = [rtcRegisters EXCEPT ![i] = M3!Rtc!Masked(i, v)]
  <2>1. PICK v \in M3!Rtc!Writable(i) :
          /\ rtc' = M3!Rtc!SetRegister(rtc, i, v)
          /\ rtcRegisters' = [rtcRegisters EXCEPT ![i] = M3!Rtc!Masked(i, v)]
    BY Zenon DEF M3!WriteClock
  <2>2. v \in M3!Rtc!Writable(i)
    OBVIOUS
  <2>3. M3!Rtc!SetRegister(rtc, i, v) = M3!Rtc!SetRegister(rtc, i, v)
        /\ M3!Rtc!Masked(i, v) = M3!Rtc!Masked(i, v)
    BY Zenon
  <2>4. QED
    BY <2>1, <2>2, <2>3, Zenon
<1>3. rtc' \in M3!Rtc!Clock
  BY <1>0, <1>1, <1>2, Mbc3SetType
<1>4. M3!Rtc!Masked(i, v) \in M3!Rtc!Register(i)
  BY <1>0, <1>1, Mbc3MaskedType
<1>5. /\ \A j \in M3!Rtc!RegisterIds : rtcRegisters'[j] \in M3!Rtc!Register(j)
      /\ rtcRegisters' = [j \in M3!Rtc!RegisterIds |-> rtcRegisters'[j]]
  <2>1. /\ \A j \in M3!Rtc!RegisterIds : rtcRegisters[j] \in M3!Rtc!Register(j)
        /\ rtcRegisters = [j \in M3!Rtc!RegisterIds |-> rtcRegisters[j]]
    BY DEF Mbc3Inv, M3!TypeOK
  <2> HIDE DEF i
  <2>2. QED
    BY <1>1, <1>2, <1>4, <2>1
<1>6. regs' = regs /\ ram' = ram /\ chosen' = chosen /\ instant' = Unset
  BY DEF M3!WriteClock
<1>7. M3!TypeOK'
  BY <1>3, <1>5, <1>6 DEF Mbc3Inv, M3!TypeOK
<1>8. QED
  BY <1>5, <1>6, <1>7 DEF Mbc3Inv, M3!LatchIsOneInstant

LEMMA Mbc3Step ==
  ASSUME M3!Mbc3Assumption, Mbc3Inv, [M3!Next]_M3!vars
  PROVE  Mbc3Inv'
<1>1. ASSUME NEW a \in M3!Addresses, NEW v \in M3!ValuesFor(a), M3!WriteRom(a, v)
      PROVE  Mbc3Inv'
  BY <1>1, Mbc3WriteRom
<1>2. CASE M3!WriteClock
  BY <1>2, Mbc3WriteClock
<1>3. CASE M3!WriteRam
  <2>1. ram' \in M3!Ram
    <3>1. M3!RamBank(regs.ramBank) \in 0 .. M3!ArrayBanks - 1
      <4>1. regs.ramBank \in 0 .. 3
        BY DEF Mbc3Inv, M3!TypeOK, M3!Registers
      <4>2. M3!RamBankCount \in {1, 4, 8, 16}
        BY DEF M3!RamBankCount
      <4>3. QED
        BY <4>1, <4>2 DEF M3!RamBank, M3!ArrayBanks
    <3>2. PICK v \in Mbc3Bytes : ram' = [ram EXCEPT ![M3!RamBank(regs.ramBank)] = v]
      BY <1>3 DEF M3!WriteRam
    <3>3. QED
      BY <3>1, <3>2 DEF Mbc3Inv, M3!TypeOK, M3!Ram
  <2>2. /\ regs' = regs /\ rtcRegisters' = rtcRegisters /\ rtc' = rtc
        /\ chosen' = chosen /\ instant' = instant
    BY <1>3 DEF M3!WriteRam
  <2>3. QED
    BY <2>1, <2>2 DEF Mbc3Inv, M3!TypeOK, M3!LatchIsOneInstant, M3!LatchedTime
<1>4. CASE M3!RunNextTCycle
  <2>1. rtc' \in M3!Rtc!Clock
    <3>1. rtc \in M3!Rtc!Clock /\ M3!Rtc!RealTimeClockAssumption
      BY DEF Mbc3Inv, M3!TypeOK, M3!Mbc3Assumption
    <3>2. rtc' = M3!Rtc!AfterTCycle(rtc)
      BY <1>4, Zenon DEF M3!RunNextTCycle
    <3>3. QED
      BY <3>1, <3>2, Mbc3TCycleType
  <2>2. /\ regs' = regs /\ rtcRegisters' = rtcRegisters /\ ram' = ram
        /\ chosen' = chosen /\ instant' = instant
    BY <1>4 DEF M3!RunNextTCycle
  <2>3. QED
    BY <2>1, <2>2 DEF Mbc3Inv, M3!TypeOK, M3!LatchIsOneInstant, M3!LatchedTime
<1>5. CASE UNCHANGED M3!vars
  BY <1>5 DEF M3!vars, Mbc3Inv, M3!TypeOK, M3!LatchIsOneInstant, M3!LatchedTime
<1>6. QED
  BY <1>1, <1>2, <1>3, <1>4, <1>5, Zenon DEF M3!Next

\* What a program has latched is one instant, and bank 0 never shows at 4000 of
\* the largest ROM.
LEMMA Mbc3Good ==
  ASSUME Mbc3Inv
  PROVE  M3!TypeOK /\ M3!LatchIsOneInstant /\ M3!NoBankZeroAt4000
BY DEF Mbc3Inv, M3!TypeOK, M3!Registers, M3!NoBankZeroAt4000, M3!SwitchedBank, M3!RomBank

\* A store reaches the bank or the register that was chosen last.
LEMMA Mbc3Stores ==
  ASSUME Mbc3Inv
  PROVE  M3!StoreGoesWhereChosen
<1>1. chosen = IF regs.selectedRtc = Unset THEN regs.ramBank ELSE regs.selectedRtc + 8
  BY DEF Mbc3Inv
<1>2. M3!WriteClock => regs.selectedRtc # Unset
  BY DEF M3!WriteClock
<1>3. M3!WriteRam => regs.selectedRtc = Unset
  BY DEF M3!WriteRam
<1>4. QED
  BY <1>1, <1>2, <1>3 DEF M3!StoreGoesWhereChosen

-----------------------------------------------------------------------------
(* The slot: whichever mapper loadRom() has put there keeps its invariant.  *)

CartridgeInv ==
  /\ kind \in {"mbc1", "mbc2", "mbc3", "mbc5", "clock"}
  /\ kind = "mbc1" => Mbc1Inv
  /\ kind = "mbc2" => Mbc2Inv
  /\ kind = "mbc3" => Mbc3Inv
  /\ kind = "mbc5" => Mbc5Inv
  /\ kind = "clock" => ClockInv

\* A step of the slot is a step of the mapper in it.
LEMMA MapperSteps ==
  ASSUME [Next]_vars
  PROVE  /\ kind' = kind
         /\ kind = "mbc1" => [M1!Next]_M1!vars
         /\ kind = "mbc2" => [M2!Next]_M2!vars
         /\ kind = "mbc3" => [M3!Next]_M3!vars
         /\ kind = "mbc5" => [M5!Next]_M5!vars
         /\ kind = "clock" => [Rtc!RtcNext]_Rtc!rtcVars
BY DEF Next, vars, mbc3Only, clockHistory, M1!vars, M2!vars, M3!vars, M5!vars, Rtc!rtcVars

LEMMA CartridgeInductive ==
  /\ Init => CartridgeInv
  /\ CartridgeInv /\ [Next]_vars => CartridgeInv'
<1> USE CartridgeAssumption
<1>1. Init => CartridgeInv
  <2>1. M1!Init => Mbc1Inv
    BY Mbc1Invariant
  <2>2. M2!Init => Mbc2Inv
    BY Mbc2Invariant
  <2>3. M3!Init => Mbc3Inv
    BY Mbc3Init
  <2>4. M5!Init => Mbc5Inv
    BY Mbc5Invariant
  <2>5. Rtc!RtcInit => ClockInv
    BY ClockInit
  <2>6. QED
    BY <2>1, <2>2, <2>3, <2>4, <2>5 DEF Init, CartridgeInv
<1>2. ASSUME CartridgeInv, [Next]_vars
      PROVE  CartridgeInv'
  <2>1. kind' = kind
    BY <1>2, MapperSteps
  <2>2. kind = "mbc1" => Mbc1Inv'
    BY <1>2, MapperSteps, Mbc1Invariant DEF CartridgeInv
  <2>3. kind = "mbc2" => Mbc2Inv'
    BY <1>2, MapperSteps, Mbc2Invariant DEF CartridgeInv
  <2>4. kind = "mbc3" => Mbc3Inv'
    BY <1>2, MapperSteps, Mbc3Step DEF CartridgeInv
  <2>5. kind = "mbc5" => Mbc5Inv'
    BY <1>2, MapperSteps, Mbc5Invariant DEF CartridgeInv
  <2>6. kind = "clock" => ClockInv'
    BY <1>2, MapperSteps, ClockStep DEF CartridgeInv
  <2>7. QED
    BY <1>2, <2>1, <2>2, <2>3, <2>4, <2>5, <2>6 DEF CartridgeInv
<1>3. QED
  BY <1>1, <1>2

\* Registers, RAM and histories stay within their types.
THEOREM TypeCorrect == Spec => []TypeOK
<1>1. CartridgeInv => TypeOK
  BY CartridgeAssumption, Mbc1Good, Mbc2Good, Mbc3Good, Mbc5Good
     DEF CartridgeInv, ClockInv, TypeOK
<1>2. QED
  BY <1>1, CartridgeInductive, PTL DEF Spec

\* Of ROMs of all sizes that the registers can name, every bank can be brought
\* into a window, in any state of the registers, and a selected bank 0 becomes 1
\* where it should.
THEOREM BanksTheorem == Spec => []EveryBankInReach
<1>1. CartridgeInv => EveryBankInReach
  BY CartridgeAssumption, Mbc1Good, Mbc2Good, Mbc3Good, Mbc5Good
     DEF CartridgeInv, EveryBankInReach
<1>2. QED
  BY <1>1, CartridgeInductive, PTL DEF Spec

\* RAM reads as what was last stored in the same place, for RAM of all sizes
\* that the array has room for, and no access to it throws.
THEOREM RamTheorem == Spec => []RamKeepsItsBanks
<1>1. CartridgeInv => RamKeepsItsBanks
  BY CartridgeAssumption, Mbc1Good, Mbc2Good, Mbc5Good DEF CartridgeInv, RamKeepsItsBanks
<1>2. QED
  BY <1>1, CartridgeInductive, PTL DEF Spec

\* What a program has latched is one instant for as long as it takes to read,
\* while the clock runs, for all lengths of its counters.
THEOREM LatchTheorem == Spec => []LatchIsOneInstant
<1>1. CartridgeInv => LatchIsOneInstant
  BY Mbc3Good DEF CartridgeInv, LatchIsOneInstant
<1>2. QED
  BY <1>1, CartridgeInductive, PTL DEF Spec

\* Every store to the RAM window reaches the bank or the register of the clock
\* that was chosen last.
THEOREM StoreTheorem == Spec => StoresGoWhereChosen
<1>1. CartridgeInv => [kind = "mbc3" => M3!StoreGoesWhereChosen]_vars
  BY Mbc3Stores DEF CartridgeInv
<1>2. QED
  BY <1>1, CartridgeInductive, PTL DEF Spec, StoresGoWhereChosen

\* Every second that the clock counts is of one length, adds up to a date and
\* sets the carry when the days come round, for all lengths of its counters;
\* and what a program has set reads back until then.
THEOREM SecondsTheorem == Spec => SecondsAddUp
<1>1. ASSUME CartridgeInv, [Next]_vars
      PROVE  [kind = "clock" =>
                Rtc!SecondAddsUp /\ Rtc!SecondIsWhole /\ Rtc!SetReadsBack']_vars
  <2>1. CASE kind = "clock" /\ ~UNCHANGED vars
    <3>1. Rtc!RtcNext /\ ClockInv
      BY <1>1, <2>1 DEF Next, CartridgeInv
    <3>2. QED
      BY <3>1, ClockPromise, CartridgeAssumption
  <2>2. QED
    BY <2>1
<1>2. QED
  BY <1>1, CartridgeInductive, PTL DEF Spec, SecondsAddUp
=============================================================================
