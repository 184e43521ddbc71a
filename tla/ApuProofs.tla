------------------------------ MODULE ApuProofs ------------------------------
(***************************************************************************)
(* Theorems about the sound channels, for every length of a note, every    *)
(* width of a period, and every phase of the frame sequencer: channel 1    *)
(* (PulseChannel) first, then channel 3 and channel 4.  What is shown of a *)
(* channel is a predicate of its record, and each operation of the channel *)
(* keeps it.                                                               *)
(***************************************************************************)
EXTENDS MCHardware, TLAPS

-----------------------------------------------------------------------------
LEMMA Sizes ==
  /\ Steps \in Nat \ {0} /\ DivMod \in Nat \ {0}
  /\ PulseLength \in Nat \ {0} /\ WaveLength \in Nat \ {0} /\ NoiseLength \in Nat \ {0}
BY HardwareAssumption
   DEF Pulse!SoundChannelAssumption, Wave!SoundChannelAssumption, Noise!SoundChannelAssumption

-----------------------------------------------------------------------------
(* The frame sequencer.                                                    *)

LEMMA SequencerType ==
  ASSUME Steps \in Nat \ {0}, NEW s \in Pulse!Sequencer, NEW d, NEW on \in BOOLEAN
  PROVE  /\ Pulse!SequencerAfter(s, d) \in Pulse!Sequencer
         /\ Pulse!SequencerAfter(s, d).powered = s.powered
         /\ Pulse!Powered(s, on) \in Pulse!Sequencer
         /\ Pulse!Powered(s, on).powered = on
<1>1. Steps \in Nat \ {0} /\ s.step \in 0 .. Steps - 1
  BY DEF Pulse!Sequencer
<1>2. Pulse!SequencerAfter(s, d) \in Pulse!Sequencer /\ Pulse!SequencerAfter(s, d).powered = s.powered
  <2> DEFINE bit == Pulse!DivBit(d)
             step == IF Pulse!Falls(s, d) THEN (s.step + 1) % Steps ELSE s.step
  <2>1. bit \in BOOLEAN
    BY DEF Pulse!DivBit
  <2>2. step \in 0 .. Steps - 1
    BY <1>1
  <2>3. Pulse!SequencerAfter(s, d) = [s EXCEPT !.bit = bit, !.step = step]
    BY DEF Pulse!SequencerAfter
  <2> HIDE DEF bit, step
  <2>4. QED
    BY <2>1, <2>2, <2>3 DEF Pulse!Sequencer
<1>3. Pulse!Powered(s, on) \in Pulse!Sequencer /\ Pulse!Powered(s, on).powered = on
  <2> DEFINE step == IF on /\ ~s.powered THEN 0 ELSE s.step
  <2>1. step \in 0 .. Steps - 1
    BY <1>1
  <2>2. Pulse!Powered(s, on) = [s EXCEPT !.powered = on, !.step = step]
    BY DEF Pulse!Powered
  <2> HIDE DEF step
  <2>3. QED
    BY <2>1, <2>2 DEF Pulse!Sequencer
<1>4. QED
  BY <1>2, <1>3

LEMMA DivType ==
  ASSUME DivMod \in Nat \ {0}, NEW d \in 0 .. DivMod - 1
  PROVE  (d + 1) % DivMod \in 0 .. DivMod - 1
OBVIOUS

-----------------------------------------------------------------------------
(* Any channel: a record with the fields of Channel, and others.           *)

Common == {"enabled", "dac", "lengthEnabled", "remaining"}

IsChannel(c, max) ==
  /\ c = [field \in DOMAIN c |-> c[field]]
  /\ Common \subseteq DOMAIN c
  /\ c.enabled \in BOOLEAN /\ c.dac \in BOOLEAN /\ c.lengthEnabled \in BOOLEAN
  /\ c.remaining \in 0 .. max

\* A note that plays has its DAC on, and something left that will stop it.
Healthy(c, max) == IsChannel(c, max) /\ (c.enabled => c.dac /\ c.remaining > 0)

\* LengthLoaded() and Triggered() of a channel whose counter is filled with max.
Loaded(c, timer, max) == [c EXCEPT !.remaining = max - timer]
Started(c, s, max) ==
  LET started == [c EXCEPT !.enabled = c.dac]
      filled  == [started EXCEPT !.remaining = max]
  IN  IF c.remaining # 0 THEN started
      ELSE IF c.lengthEnabled /\ Pulse!WontClockLengthNext(s) THEN Pulse!ClockLength(filled)
      ELSE filled

\* The other fields are as they were.
Same(c, n) == DOMAIN n = DOMAIN c /\ \A field \in DOMAIN c \ Common : n[field] = c[field]

LEMMA SameTransitive ==
  ASSUME NEW c, NEW n, NEW m, Same(c, n), Same(n, m)
  PROVE  Same(c, m)
BY DEF Same

\* Whatever is put in these fields.
Put(c, on, dac, counts, left) ==
  [c EXCEPT !.enabled = on, !.dac = dac, !.lengthEnabled = counts, !.remaining = left]

Fields(n, on, dac, left) == n.enabled = on /\ n.dac = dac /\ n.remaining = left

LEMMA CommonPut ==
  ASSUME NEW max, NEW c, IsChannel(c, max), NEW on \in BOOLEAN, NEW dac \in BOOLEAN,
         NEW counts \in BOOLEAN, NEW left \in 0 .. max
  PROVE  /\ IsChannel(Put(c, on, dac, counts, left), max)
         /\ Same(c, Put(c, on, dac, counts, left))
         /\ Fields(Put(c, on, dac, counts, left), on, dac, left)
<1> DEFINE n == [c EXCEPT !.enabled = on, !.dac = dac, !.lengthEnabled = counts,
                          !.remaining = left]
<1>1. /\ DOMAIN n = DOMAIN c /\ n.enabled = on /\ n.dac = dac
      /\ n.lengthEnabled = counts /\ n.remaining = left
  BY DEF IsChannel, Common
<1>2. Same(c, n)
  BY DEF IsChannel, Common, Same
<1>3. n = [field \in DOMAIN n |-> n[field]]
  OBVIOUS
<1>4. QED
  BY <1>1, <1>2, <1>3 DEF IsChannel, Put, Fields

LEMMA CommonTypes ==
  ASSUME NEW max, NEW c, IsChannel(c, max)
  PROVE  /\ c.enabled \in BOOLEAN /\ c.dac \in BOOLEAN /\ c.lengthEnabled \in BOOLEAN
         /\ c.remaining \in 0 .. max
BY DEF IsChannel

LEMMA HealthyClockLength ==
  ASSUME NEW max \in Nat \ {0}, NEW c, Healthy(c, max)
  PROVE  LET n == Pulse!ClockLength(c) IN Healthy(n, max) /\ Same(c, n) /\ (n.enabled => c.enabled)
<1> IsChannel(c, max) /\ max \in Nat
  BY DEF Healthy
<1>1. CASE ~c.lengthEnabled \/ c.remaining = 0
  BY <1>1 DEF Pulse!ClockLength, Same
<1>2. CASE c.lengthEnabled /\ c.remaining # 0
  <2> DEFINE left == c.remaining - 1
             on == c.enabled /\ c.remaining > 1
             n == [c EXCEPT !.remaining = left, !.enabled = on]
             m == Put(c, on, c.dac, c.lengthEnabled, left)
  <2>1. Pulse!ClockLength(c) = n
    BY <1>2 DEF Pulse!ClockLength
  <2>2. left \in 0 .. max /\ on \in BOOLEAN /\ (on => c.enabled /\ left > 0)
    BY <1>2 DEF IsChannel
  <2> HIDE DEF left, on
  <2>3. n = m
    BY DEF IsChannel, Common, Put
  <2>4. IsChannel(m, max) /\ Same(c, m) /\ Fields(m, on, c.dac, left)
    BY <2>2, CommonPut, CommonTypes, Zenon
  <2> HIDE DEF m, n
  <2>5. QED
    BY <2>1, <2>2, <2>3, <2>4 DEF Healthy, Fields
<1>3. QED
  BY <1>1, <1>2

LEMMA HealthyLengthLoaded ==
  ASSUME NEW max \in Nat \ {0}, NEW c, Healthy(c, max), NEW timer \in 0 .. max - 1
  PROVE  LET n == Loaded(c, timer, max)
         IN  Healthy(n, max) /\ Same(c, n) /\ n.enabled = c.enabled
<1> DEFINE left == max - timer
           m == Put(c, c.enabled, c.dac, c.lengthEnabled, left)
<1> IsChannel(c, max)
  BY DEF Healthy
<1>1. left \in 0 .. max /\ left > 0
  OBVIOUS
<1>2. Loaded(c, timer, max) = [c EXCEPT !.remaining = left]
  BY DEF Loaded
<1> HIDE DEF left
<1>3. [c EXCEPT !.remaining = left] = m
  BY DEF IsChannel, Common, Put
<1>4. /\ IsChannel(m, max) /\ Same(c, m) /\ Fields(m, c.enabled, c.dac, left)
  BY <1>1, CommonPut, CommonTypes, Zenon
<1> HIDE DEF m
<1>5. QED
  BY <1>1, <1>2, <1>3, <1>4 DEF Healthy, Fields

LEMMA HealthyDacSet ==
  ASSUME NEW max, NEW c, Healthy(c, max), NEW on \in BOOLEAN
  PROVE  LET n == Pulse!DacSet(c, on) IN Healthy(n, max) /\ Same(c, n) /\ (n.enabled => c.enabled)
<1> DEFINE plays == c.enabled /\ on
           n == [c EXCEPT !.dac = on, !.enabled = plays]
           m == Put(c, plays, on, c.lengthEnabled, c.remaining)
<1> IsChannel(c, max)
  BY DEF Healthy
<1>1. plays \in BOOLEAN /\ (plays => c.enabled /\ on)
  OBVIOUS
<1>2. Pulse!DacSet(c, on) = n
  BY DEF Pulse!DacSet
<1> HIDE DEF plays
<1>3. n = m
  BY DEF IsChannel, Common, Put
<1>4. /\ IsChannel(m, max) /\ Same(c, m) /\ Fields(m, plays, on, c.remaining)
  BY <1>1, CommonPut, CommonTypes, Zenon
<1> HIDE DEF m, n
<1>5. QED
  BY <1>1, <1>2, <1>3, <1>4 DEF Healthy, Fields

LEMMA HealthyLengthSwitched ==
  ASSUME NEW max \in Nat \ {0}, NEW c, Healthy(c, max), NEW s, NEW on \in BOOLEAN
  PROVE  LET n == Pulse!LengthSwitched(c, s, on)
         IN  Healthy(n, max) /\ Same(c, n) /\ (n.enabled => c.enabled)
<1> DEFINE switched == [c EXCEPT !.lengthEnabled = on]
           m == Put(c, c.enabled, c.dac, on, c.remaining)
<1> IsChannel(c, max)
  BY DEF Healthy
<1>1. Healthy(switched, max) /\ Same(c, switched) /\ switched.enabled = c.enabled
  <2>1. switched = m
    BY DEF IsChannel, Common, Put
  <2>2. c.enabled \in BOOLEAN /\ c.dac \in BOOLEAN /\ c.remaining \in 0 .. max
    BY CommonTypes, Zenon
  <2>3. /\ IsChannel(m, max) /\ Same(c, m) /\ Fields(m, c.enabled, c.dac, c.remaining)
    BY <2>2, CommonPut, Zenon
  <2> HIDE DEF m, switched
  <2>4. QED
    BY <2>1, <2>3 DEF Healthy, Fields
<1>2. Pulse!LengthSwitched(c, s, on) \in {switched, Pulse!ClockLength(switched)}
  BY DEF Pulse!LengthSwitched
<1> HIDE DEF switched
<1>3. /\ Healthy(Pulse!ClockLength(switched), max) /\ Same(c, Pulse!ClockLength(switched))
      /\ Pulse!ClockLength(switched).enabled => c.enabled
  BY <1>1, HealthyClockLength, SameTransitive
<1>4. QED
  BY <1>1, <1>2, <1>3

LEMMA HealthyTriggered ==
  ASSUME NEW max \in Nat \ {0}, NEW c, Healthy(c, max), NEW s
  PROVE  LET n == Started(c, s, max) IN Healthy(n, max) /\ Same(c, n)
<1> IsChannel(c, max) /\ max \in Nat \ {0}
  BY DEF Healthy
<1> DEFINE started == [c EXCEPT !.enabled = c.dac]
           filled == [started EXCEPT !.remaining = max]
           m(left) == Put(c, c.dac, c.dac, c.lengthEnabled, left)
<1>1. ASSUME NEW left \in 0 .. max, left # 0
      PROVE  Healthy(m(left), max) /\ Same(c, m(left))
  <2>1. /\ IsChannel(m(left), max) /\ Same(c, m(left)) /\ Fields(m(left), c.dac, c.dac, left)
    BY CommonPut, CommonTypes, Zenon
  <2> HIDE DEF m
  <2>2. QED
    BY <1>1, <2>1 DEF Healthy, Fields
<1>2. started = m(c.remaining) /\ filled = m(max)
  BY DEF IsChannel, Common, Put
<1>3. c.remaining \in 0 .. max /\ max \in 0 .. max
  BY DEF IsChannel
<1>4. Healthy(filled, max) /\ Same(c, filled)
  BY <1>1, <1>2, <1>3
<1>5. c.remaining # 0 => Healthy(started, max) /\ Same(c, started)
  BY <1>1, <1>2, <1>3
<1>6. /\ c.remaining # 0 => Started(c, s, max) = started
      /\ c.remaining = 0 => Started(c, s, max) \in {filled, Pulse!ClockLength(filled)}
  BY DEF Started
<1> HIDE DEF started, filled
<1>7. Healthy(Pulse!ClockLength(filled), max) /\ Same(c, Pulse!ClockLength(filled))
  BY <1>4, HealthyClockLength, SameTransitive
<1>8. QED
  BY <1>4, <1>5, <1>6, <1>7

-----------------------------------------------------------------------------
(* Channel 1, as one of them.                                              *)

LEMMA PulseCommon ==
  /\ \A c, timer : Pulse!LengthLoaded(c, timer) = Loaded(c, timer, PulseLength)
  /\ \A c, s : Pulse!Triggered(c, s) = Started(c, s, PulseLength)
BY Zenon DEF Pulse!LengthLoaded, Loaded, Pulse!Triggered, Started

Sounds(c) == c \in Pulse!Pulse1 /\ (c.enabled => c.dac /\ c.remaining > 0)

PulseOthers ==
  {"period", "pace", "isIncrease", "shift", "shadowPeriod", "sweepTimer",
   "sweepEnabled", "negateModeUsed", "checked", "subtracted"}

LEMMA PulseFields ==
  ASSUME NEW c \in Pulse!Pulse1
  PROVE  IsChannel(c, PulseLength) /\ DOMAIN c = Common \union PulseOthers
<1>1. DOMAIN c = Common \union PulseOthers
  BY DEF Pulse!Pulse1, Common, PulseOthers
<1>2. c = [field \in DOMAIN c |-> c[field]]
  BY DEF Pulse!Pulse1
<1>3. QED
  BY <1>1, <1>2 DEF IsChannel, Pulse!Pulse1

LEMMA SoundsIsHealthy ==
  ASSUME NEW c \in Pulse!Pulse1
  PROVE  Sounds(c) <=> Healthy(c, PulseLength)
BY PulseFields DEF Sounds, Healthy

\* What is done to the four fields leaves a record of channel 1.
LEMMA SamePulse ==
  ASSUME NEW c \in Pulse!Pulse1, NEW n, IsChannel(n, PulseLength), Same(c, n)
  PROVE  /\ n \in Pulse!Pulse1
         /\ n.sweepEnabled = c.sweepEnabled /\ n.checked = c.checked
         /\ n.shift = c.shift /\ n.shadowPeriod = c.shadowPeriod
         /\ n.isIncrease = c.isIncrease /\ n.negateModeUsed = c.negateModeUsed
         /\ n.subtracted = c.subtracted
<1>1. DOMAIN n = Common \union PulseOthers /\ DOMAIN c = Common \union PulseOthers
  BY PulseFields DEF Same
<1>2. \A field \in PulseOthers : field \in DOMAIN c \ Common
  BY <1>1 DEF Common, PulseOthers
<1>3. \A field \in PulseOthers : n[field] = c[field]
  BY <1>2 DEF Same
<1>4. /\ n.sweepEnabled = c.sweepEnabled /\ n.checked = c.checked
      /\ n.shift = c.shift /\ n.shadowPeriod = c.shadowPeriod
      /\ n.isIncrease = c.isIncrease /\ n.negateModeUsed = c.negateModeUsed
      /\ n.subtracted = c.subtracted
  BY <1>3 DEF PulseOthers
<1>5. n.period = c.period /\ n.pace = c.pace /\ n.sweepTimer = c.sweepTimer
  BY <1>3 DEF PulseOthers
<1>6. n \in Pulse!Pulse1
  BY <1>1, <1>4, <1>5 DEF IsChannel, Common, PulseOthers, Pulse!Pulse1
<1>7. QED
  BY <1>4, <1>6

-----------------------------------------------------------------------------
(* Channel 1: what its sweep promises.                                     *)

SweepGood(c) ==
  /\ c.enabled /\ c.sweepEnabled /\ c.checked /\ c.shift # 0 => Pulse!NewPeriod(c) <= Pulse!MaxPeriod
  /\ c.enabled /\ c.negateModeUsed => ~c.isIncrease
  /\ c.subtracted => c.negateModeUsed

\* The two halves of a period, written one at a time.
LEMMA LowWritten ==
  ASSUME NEW l \in Nat \ {0}, NEW h \in Nat \ {0},
         NEW period \in 0 .. l * h - 1, NEW low \in 0 .. l - 1
  PROVE  period - (period % l) + low \in 0 .. l * h - 1
<1> DEFINE upper == period \div l
<1>1. upper \in 0 .. h - 1
  OBVIOUS
<1>2. period - (period % l) = upper * l
  OBVIOUS
<1> HIDE DEF upper
<1>3. upper * l \in Nat /\ upper * l <= l * h - l
  BY <1>1
<1>4. QED
  BY <1>2, <1>3

LEMMA HighWritten ==
  ASSUME NEW l \in Nat \ {0}, NEW h \in Nat \ {0},
         NEW period \in Nat, NEW high \in 0 .. h - 1
  PROVE  high * l + (period % l) \in 0 .. l * h - 1
<1>1. period % l \in 0 .. l - 1
  OBVIOUS
<1>2. high * l \in Nat /\ high * l <= l * h - l
  OBVIOUS
<1>3. QED
  BY <1>1, <1>2

LEMMA PeriodNat ==
  ASSUME Pulse!PulseChannelAssumption
  PROVE  Pulse!MaxPeriod \in Nat
<1>1. \A l, h \in Nat \ {0} : l * h \in Nat \ {0}
  OBVIOUS
<1>2. QED
  BY <1>1 DEF Pulse!PulseChannelAssumption, Pulse!MaxPeriod

\* The powers of two that the registers can ask for.
LEMMA PowerNat ==
  ASSUME NEW k \in 0 .. 15
  PROVE  2 ^ k \in Nat \ {0}
<1> DEFINE P(i) == 2 ^ i
<1>1. /\ P(0) = 1 /\ P(1) = 2 /\ P(2) = 4 /\ P(3) = 8 /\ P(4) = 16 /\ P(5) = 32
      /\ P(6) = 64 /\ P(7) = 128 /\ P(8) = 256 /\ P(9) = 512 /\ P(10) = 1024
      /\ P(11) = 2048 /\ P(12) = 4096 /\ P(13) = 8192 /\ P(14) = 16384
      /\ P(15) = 32768
  OBVIOUS
<1> HIDE DEF P
<1>2. k \in {0, 1, 2, 3, 4, 5, 6, 7, 8, 9, 10, 11, 12, 13, 14, 15}
  OBVIOUS
<1>3. P(k) \in Nat \ {0}
  BY <1>1, <1>2
<1>4. QED
  BY <1>3 DEF P

\* A period that is shifted right is no longer than it was.
LEMMA DeltaRange ==
  ASSUME Pulse!PulseChannelAssumption, NEW c \in Pulse!Pulse1
  PROVE  Pulse!Delta(c) \in 0 .. c.shadowPeriod /\ c.shadowPeriod \in 0 .. Pulse!MaxPeriod
<1>1. c.shadowPeriod \in 0 .. Pulse!MaxPeriod /\ Pulse!MaxPeriod \in Nat /\ c.shift \in 0 .. 7
  <2>1. c.shift \in Shifts \union {0} /\ c.shadowPeriod \in 0 .. Pulse!MaxPeriod
    BY DEF Pulse!Pulse1
  <2>2. Shifts \subseteq 0 .. 7
    BY DEF Pulse!PulseChannelAssumption
  <2>3. c.shift \in Shifts \/ c.shift = 0
    BY <2>1
  <2>4. c.shift \in 0 .. 7
    <3>1. 0 \in 0 .. 7
      OBVIOUS
    <3>2. QED
      BY <2>2, <2>3, <3>1, Zenon
  <2>5. QED
    BY <2>1, <2>4, PeriodNat
<1>2. 2 ^ c.shift \in Nat \ {0}
  <2>1. c.shift \in 0 .. 15
    BY <1>1
  <2>2. QED
    BY <2>1, PowerNat
<1>3. \A x \in Nat, p \in Nat \ {0} : x \div p \in 0 .. x
  OBVIOUS
<1>4. QED
  BY <1>1, <1>2, <1>3 DEF Pulse!Delta

LEMMA NewPeriodRange ==
  ASSUME Pulse!PulseChannelAssumption, NEW c \in Pulse!Pulse1
  PROVE  Pulse!NewPeriod(c) \in Nat
BY DeltaRange, PeriodNat DEF Pulse!NewPeriod

\* Nothing that leaves these fields alone, and starts no note, disturbs it.
LEMMA SweepKept ==
  ASSUME NEW c, SweepGood(c), NEW n, n.enabled => c.enabled,
         n.sweepEnabled = c.sweepEnabled, n.checked = c.checked, n.shift = c.shift,
         n.shadowPeriod = c.shadowPeriod, n.isIncrease = c.isIncrease,
         n.negateModeUsed = c.negateModeUsed, n.subtracted = c.subtracted
  PROVE  SweepGood(n)
<1>1. Pulse!NewPeriod(n) = Pulse!NewPeriod(c)
  BY DEF Pulse!NewPeriod, Pulse!Delta
<1>2. QED
  BY <1>1 DEF SweepGood

LEMMA PulseKept ==
  ASSUME NEW c, Sounds(c), SweepGood(c), NEW n, Healthy(n, PulseLength), Same(c, n),
         n.enabled => c.enabled
  PROVE  Sounds(n) /\ SweepGood(n)
<1>1. c \in Pulse!Pulse1 /\ IsChannel(n, PulseLength)
  BY DEF Sounds, Healthy
<1>2. Sounds(n)
  BY <1>1, SamePulse, SoundsIsHealthy
<1>3. SweepGood(n)
  BY <1>1, SamePulse, SweepKept
<1>4. QED
  BY <1>2, <1>3

\* What SweepGood says apart from the period that comes next.
NegateGood(c) ==
  /\ c.enabled /\ c.negateModeUsed => ~c.isIncrease
  /\ c.subtracted => c.negateModeUsed

\* The overflow check makes the rest true, whatever the period was.
LEMMA CalculateGood ==
  ASSUME Pulse!PulseChannelAssumption, NEW c, Sounds(c), NegateGood(c)
  PROVE  LET n == Pulse!CalculateSweepFrequency(c)
         IN  /\ Sounds(n) /\ SweepGood(n) /\ (n.enabled => c.enabled)
             /\ n.shift = c.shift
<1> c \in Pulse!Pulse1
  BY DEF Sounds
<1> DEFINE negated == c.negateModeUsed \/ ~c.isIncrease
           plays == c.enabled /\ Pulse!NewPeriod(c) <= Pulse!MaxPeriod
           past == c.subtracted \/ ~c.isIncrease
           n == [c EXCEPT !.negateModeUsed = negated, !.enabled = plays,
                          !.checked = TRUE, !.subtracted = past]
<1>1. Pulse!CalculateSweepFrequency(c) = n
  BY DEF Pulse!CalculateSweepFrequency
<1>2. c.negateModeUsed \in BOOLEAN /\ c.isIncrease \in BOOLEAN /\ c.enabled \in BOOLEAN
      /\ c.subtracted \in BOOLEAN
  BY DEF Pulse!Pulse1
<1>3. negated \in BOOLEAN /\ plays \in BOOLEAN /\ past \in BOOLEAN
  BY Zenon
<1>4. /\ plays => c.enabled /\ Pulse!NewPeriod(c) <= Pulse!MaxPeriod
      /\ plays /\ negated => ~c.isIncrease
      /\ past => negated
  BY Zenon DEF NegateGood
<1> HIDE DEF negated, plays, past
<1>5. n \in Pulse!Pulse1
  BY <1>3 DEF Pulse!Pulse1
<1>6. /\ n.enabled = plays /\ n.negateModeUsed = negated /\ n.subtracted = past
      /\ n.dac = c.dac /\ n.remaining = c.remaining /\ n.shift = c.shift
      /\ n.isIncrease = c.isIncrease /\ n.shadowPeriod = c.shadowPeriod
  BY DEF Pulse!Pulse1
<1>7. Pulse!NewPeriod(n) = Pulse!NewPeriod(c)
  BY <1>6 DEF Pulse!NewPeriod, Pulse!Delta
<1> HIDE DEF n
<1>8. SweepGood(n)
  BY <1>4, <1>6, <1>7, Zenon DEF SweepGood
<1>9. Sounds(n) /\ (n.enabled => c.enabled)
  BY <1>4, <1>5, <1>6, Zenon DEF Sounds
<1>10. QED
  BY <1>1, <1>6, <1>8, <1>9, Zenon

LEMMA SweptGood ==
  ASSUME Pulse!PulseChannelAssumption, NEW c, Sounds(c), SweepGood(c)
  PROVE  LET n == Pulse!Swept(c) IN Sounds(n) /\ SweepGood(n) /\ (n.enabled => c.enabled)
<1> DEFINE once == Pulse!CalculateSweepFrequency(c)
           onward == [once EXCEPT !.shadowPeriod = Pulse!NewPeriod(c), !.period = Pulse!NewPeriod(c)]
<1>1. Sounds(once) /\ SweepGood(once) /\ (once.enabled => c.enabled)
  BY CalculateGood DEF SweepGood, NegateGood
<1> HIDE DEF once
<1>2. CASE Pulse!NewPeriod(c) > Pulse!MaxPeriod \/ c.shift = 0
  BY <1>1, <1>2 DEF Pulse!Swept, once
<1>3. CASE ~(Pulse!NewPeriod(c) > Pulse!MaxPeriod \/ c.shift = 0)
  <2>1. Pulse!NewPeriod(c) \in 0 .. Pulse!MaxPeriod
    BY <1>3, NewPeriodRange, PeriodNat DEF Sounds
  <2>2. once \in Pulse!Pulse1
    BY <1>1 DEF Sounds
  <2>3. /\ onward \in Pulse!Pulse1 /\ onward.enabled = once.enabled /\ onward.dac = once.dac
        /\ onward.remaining = once.remaining /\ onward.negateModeUsed = once.negateModeUsed
        /\ onward.isIncrease = once.isIncrease /\ onward.subtracted = once.subtracted
    BY <2>1, <2>2 DEF Pulse!Pulse1
  <2> HIDE DEF onward
  <2>4. Sounds(onward) /\ NegateGood(onward)
    BY <1>1, <2>3 DEF Sounds, SweepGood, NegateGood
  <2>5. Pulse!Swept(c) = Pulse!CalculateSweepFrequency(onward)
    BY <1>3 DEF Pulse!Swept, onward, once
  <2>6. QED
    BY <1>1, <2>3, <2>4, <2>5, CalculateGood
<1>4. QED
  BY <1>2, <1>3

LEMMA ClockSweepGood ==
  ASSUME Pulse!PulseChannelAssumption, NEW c, Sounds(c), SweepGood(c)
  PROVE  LET n == Pulse!ClockSweep(c) IN Sounds(n) /\ SweepGood(n) /\ (n.enabled => c.enabled)
<1>1. ASSUME NEW timer \in Nat
      PROVE  LET n == [c EXCEPT !.sweepTimer = timer]
             IN  Sounds(n) /\ SweepGood(n) /\ n.enabled = c.enabled
  <2> DEFINE n == [c EXCEPT !.sweepTimer = timer]
  <2>1. n \in Pulse!Pulse1
    BY DEF Sounds, Pulse!Pulse1
  <2>2. /\ n.enabled = c.enabled /\ n.dac = c.dac /\ n.remaining = c.remaining
        /\ n.sweepEnabled = c.sweepEnabled /\ n.checked = c.checked /\ n.shift = c.shift
        /\ n.shadowPeriod = c.shadowPeriod /\ n.isIncrease = c.isIncrease
        /\ n.negateModeUsed = c.negateModeUsed /\ n.subtracted = c.subtracted
    BY DEF Sounds, Pulse!Pulse1
  <2> HIDE DEF n
  <2>3. SweepGood(n)
    BY <2>2, SweepKept
  <2>4. Sounds(n)
    BY <2>1, <2>2 DEF Sounds
  <2>5. QED
    BY <2>2, <2>3, <2>4 DEF n
<1> DEFINE timer == IF c.sweepTimer > 0 THEN c.sweepTimer - 1 ELSE 0
           reloaded == [c EXCEPT !.sweepTimer = Pulse!SweepReload(c)]
<1>2. timer \in Nat
  BY DEF Sounds, Pulse!Pulse1
<1>3. Pulse!SweepReload(c) \in Nat
  <2>1. c.pace \in Paces \/ c.pace = 0
    BY DEF Sounds, Pulse!Pulse1
  <2>2. \A pace \in Paces : pace \in Nat
    BY DEF Pulse!PulseChannelAssumption
  <2>3. PaceWhenZero \in Nat
    BY DEF Pulse!PulseChannelAssumption
  <2>4. QED
    BY <2>1, <2>2, <2>3 DEF Pulse!SweepReload
<1>4. Sounds(reloaded) /\ SweepGood(reloaded) /\ reloaded.enabled = c.enabled
  BY <1>1, <1>3
<1>5. Pulse!ClockSweep(c) \in {[c EXCEPT !.sweepTimer = timer], Pulse!Swept(reloaded), reloaded}
  BY DEF Pulse!ClockSweep
<1> HIDE DEF timer, reloaded
<1>6. CASE Pulse!ClockSweep(c) = [c EXCEPT !.sweepTimer = timer]
  BY <1>1, <1>2, <1>6
<1>7. CASE Pulse!ClockSweep(c) = Pulse!Swept(reloaded)
  BY <1>4, <1>7, SweptGood
<1>8. CASE Pulse!ClockSweep(c) = reloaded
  BY <1>4, <1>8
<1>9. QED
  BY <1>5, <1>6, <1>7, <1>8

LEMMA SweepTriggeredGood ==
  ASSUME Pulse!PulseChannelAssumption, NEW c, Sounds(c)
  PROVE  LET n == Pulse!SweepTriggered(c) IN Sounds(n) /\ SweepGood(n)
<1> c \in Pulse!Pulse1
  BY DEF Sounds
<1> DEFINE sweeps == c.pace # 0 \/ c.shift # 0
           reload == Pulse!SweepReload(c)
           started == [c EXCEPT !.shadowPeriod = c.period, !.negateModeUsed = FALSE,
                                !.sweepTimer = reload,
                                !.checked = TRUE, !.subtracted = FALSE,
                                !.sweepEnabled = sweeps]
<1>1. reload \in Nat
  <2>1. c.pace \in Paces \/ c.pace = 0
    BY DEF Pulse!Pulse1
  <2>2. \A pace \in Paces : pace \in Nat
    BY DEF Pulse!PulseChannelAssumption
  <2>3. PaceWhenZero \in Nat
    BY DEF Pulse!PulseChannelAssumption
  <2>4. QED
    BY <2>1, <2>2, <2>3 DEF Pulse!SweepReload
<1>2. Pulse!SweepTriggered(c) = IF c.shift # 0 THEN Pulse!CalculateSweepFrequency(started) ELSE started
  BY Zenon DEF Pulse!SweepTriggered
<1>3. sweeps \in BOOLEAN /\ c.period \in 0 .. Pulse!MaxPeriod
  BY DEF Pulse!Pulse1
<1> HIDE DEF sweeps, reload
<1>4. started \in Pulse!Pulse1
  BY <1>1, <1>3 DEF Pulse!Pulse1
<1>5. /\ started.negateModeUsed = FALSE /\ started.subtracted = FALSE
      /\ started.enabled = c.enabled /\ started.dac = c.dac
      /\ started.remaining = c.remaining /\ started.shift = c.shift
  BY DEF Pulse!Pulse1
<1> HIDE DEF started
<1>6. Sounds(started) /\ NegateGood(started)
  BY <1>4, <1>5 DEF Sounds, NegateGood
<1>7. CASE c.shift # 0
  BY <1>2, <1>6, <1>7, CalculateGood
<1>8. CASE c.shift = 0
  BY <1>2, <1>5, <1>6, <1>8 DEF SweepGood, NegateGood
<1>9. QED
  BY <1>7, <1>8

LEMMA NR10WrittenGood ==
  ASSUME NEW c, Sounds(c), SweepGood(c),
         NEW pace \in Paces, NEW increase \in BOOLEAN, NEW shift \in Shifts
  PROVE  LET n == Pulse!NR10Written(c, pace, increase, shift)
         IN  Sounds(n) /\ SweepGood(n) /\ (n.enabled => c.enabled)
<1> DEFINE plays == c.enabled /\ ~(~c.isIncrease /\ increase /\ c.negateModeUsed)
           n == [c EXCEPT !.pace = pace, !.isIncrease = increase, !.shift = shift,
                          !.enabled = plays, !.checked = FALSE]
<1>1. Pulse!NR10Written(c, pace, increase, shift) = n
  BY DEF Pulse!NR10Written
<1>2. c \in Pulse!Pulse1 /\ c.enabled \in BOOLEAN /\ c.isIncrease \in BOOLEAN
      /\ c.negateModeUsed \in BOOLEAN
  BY DEF Sounds, Pulse!Pulse1
<1>3. plays \in BOOLEAN /\ (plays => c.enabled)
      /\ (plays /\ c.negateModeUsed => ~increase)
  BY <1>2 DEF SweepGood
<1> HIDE DEF plays
<1>4. n \in Pulse!Pulse1
  BY <1>2, <1>3 DEF Pulse!Pulse1
<1>5. /\ n.enabled = plays /\ n.dac = c.dac /\ n.remaining = c.remaining
      /\ n.checked = FALSE /\ n.isIncrease = increase
      /\ n.negateModeUsed = c.negateModeUsed /\ n.subtracted = c.subtracted
  BY <1>2 DEF Pulse!Pulse1
<1> HIDE DEF n
<1>6. Sounds(n) /\ SweepGood(n) /\ (n.enabled => c.enabled)
  BY <1>3, <1>4, <1>5 DEF Sounds, SweepGood
<1>7. QED
  BY <1>1, <1>6

-----------------------------------------------------------------------------
(* Channel 1, its actions.                                                 *)

PulseInv ==
  /\ div \in 0 .. DivMod - 1 /\ seq \in Pulse!Sequencer
  /\ Sounds(channel) /\ SweepGood(channel)
  /\ channel.enabled => seq.powered

PulseAssumption == Pulse!SoundChannelAssumption /\ Pulse!PulseChannelAssumption

LEMMA SilentType ==
  ASSUME PulseAssumption
  PROVE  Pulse!Pulse1Silent \in Pulse!Pulse1
<1>1. PulseLength \in Nat /\ Pulse!MaxPeriod \in Nat
  BY PeriodNat DEF PulseAssumption, Pulse!SoundChannelAssumption
<1>2. QED
  BY <1>1 DEF Pulse!Pulse1Silent, Pulse!Pulse1

LEMMA PulseInit ==
  ASSUME PulseAssumption, Pulse!Init
  PROVE  PulseInv
<1>1. DivMod \in Nat \ {0} /\ Steps \in Nat \ {0}
  BY DEF PulseAssumption, Pulse!SoundChannelAssumption
<1>2. div \in 0 .. DivMod - 1 /\ seq \in Pulse!Sequencer
  BY <1>1 DEF Pulse!Init, Pulse!SequencerInit, Pulse!Sequencer
<1>3. channel \in Pulse!Pulse1
  BY SilentType DEF Pulse!Init
<1>4. channel.enabled = FALSE /\ channel.subtracted = FALSE
  BY DEF Pulse!Init, Pulse!Pulse1Silent
<1>5. QED
  BY <1>2, <1>3, <1>4 DEF PulseInv, Sounds, SweepGood

LEMMA PulseTCycle ==
  ASSUME PulseAssumption, PulseInv, Pulse!RunNextTCycle
  PROVE  PulseInv'
<1> Sounds(channel) /\ SweepGood(channel) /\ (channel.enabled => seq.powered)
  BY DEF PulseInv
<1>1. div' \in 0 .. DivMod - 1
  BY DivType, Sizes DEF PulseAssumption, PulseInv, Pulse!RunNextTCycle
<1>2. seq' \in Pulse!Sequencer /\ seq'.powered = seq.powered
  BY SequencerType, Sizes DEF PulseAssumption, PulseInv, Pulse!RunNextTCycle
<1> DEFINE swept == IF Pulse!ClocksSweep(seq) THEN Pulse!ClockSweep(channel) ELSE channel
           clocked == IF Pulse!ClocksLength(seq) THEN Pulse!ClockLength(swept) ELSE swept
<1>3. Sounds(swept) /\ SweepGood(swept) /\ (swept.enabled => channel.enabled)
  BY ClockSweepGood DEF PulseAssumption
<1> HIDE DEF swept
<1>4. Sounds(clocked) /\ SweepGood(clocked) /\ (clocked.enabled => channel.enabled)
  <2> DEFINE n == Pulse!ClockLength(swept)
  <2>1. Healthy(swept, PulseLength)
    BY <1>3, SoundsIsHealthy DEF Sounds
  <2>2. Healthy(n, PulseLength) /\ Same(swept, n) /\ (n.enabled => swept.enabled)
    BY <2>1, HealthyClockLength, Sizes DEF PulseAssumption
  <2> HIDE DEF n
  <2>3. Sounds(n) /\ SweepGood(n)
    BY <1>3, <2>2, PulseKept
  <2>4. QED
    BY <1>3, <2>2, <2>3 DEF n
<1>5. channel' = IF ~Pulse!Falls(seq, div') THEN channel ELSE clocked
  BY DEF Pulse!RunNextTCycle, swept
<1> HIDE DEF clocked
<1>6. Sounds(channel') /\ SweepGood(channel') /\ (channel'.enabled => channel.enabled)
  BY <1>4, <1>5
<1>7. QED
  BY <1>1, <1>2, <1>6 DEF PulseInv

\* A store that turns the channel into a good one, and starts no note with the
\* APU off, keeps the invariant.
LEMMA PulseConfigured ==
  ASSUME PulseInv, div' = div, seq' = seq, NEW n, channel' = n,
         Sounds(n), SweepGood(n), n.enabled => seq.powered
  PROVE  PulseInv'
BY DEF PulseInv

LEMMA PulseNR14 ==
  ASSUME PulseAssumption, PulseInv, NEW trigger \in BOOLEAN, NEW lengthOn \in BOOLEAN,
         NEW high \in 0 .. PulseHigh - 1, Pulse!WriteNR14(trigger, lengthOn, high)
  PROVE  PulseInv'
<1> Pulse!SoundChannelAssumption /\ Pulse!PulseChannelAssumption
  BY DEF PulseAssumption
<1> Sounds(channel) /\ SweepGood(channel) /\ seq.powered
  BY DEF PulseInv, Pulse!WriteNR14, Pulse!Writable
<1> DEFINE switched == Pulse!LengthSwitched(channel, seq, lengthOn)
           period == high * PulseLow + (switched.period % PulseLow)
           tuned == [switched EXCEPT !.period = period]
<1>1. Healthy(switched, PulseLength) /\ Same(channel, switched) /\ (switched.enabled => channel.enabled)
  BY HealthyLengthSwitched, Sizes, SoundsIsHealthy DEF Sounds
<1> HIDE DEF switched
<1>2. Sounds(switched) /\ SweepGood(switched)
  BY <1>1, PulseKept
<1>3. period \in 0 .. Pulse!MaxPeriod
  <2>1. PulseLow \in Nat \ {0} /\ PulseHigh \in Nat \ {0}
    BY DEF Pulse!PulseChannelAssumption
  <2>2. switched.period \in Nat
    BY <1>2, PeriodNat DEF Sounds, Pulse!Pulse1
  <2>3. QED
    BY <2>1, <2>2, HighWritten DEF Pulse!MaxPeriod
<1> HIDE DEF period
<1>4. Sounds(tuned) /\ SweepGood(tuned) /\ tuned.enabled = switched.enabled
  <2>1. tuned \in Pulse!Pulse1
    BY <1>2, <1>3 DEF Sounds, Pulse!Pulse1
  <2>2. /\ tuned.enabled = switched.enabled /\ tuned.dac = switched.dac
        /\ tuned.remaining = switched.remaining
        /\ tuned.sweepEnabled = switched.sweepEnabled
        /\ tuned.checked = switched.checked /\ tuned.shift = switched.shift
        /\ tuned.shadowPeriod = switched.shadowPeriod
        /\ tuned.isIncrease = switched.isIncrease
        /\ tuned.negateModeUsed = switched.negateModeUsed
        /\ tuned.subtracted = switched.subtracted
    BY <1>2 DEF Sounds, Pulse!Pulse1
  <2> HIDE DEF tuned
  <2>3. SweepGood(tuned)
    BY <1>2, <2>2, SweepKept
  <2>4. QED
    BY <1>2, <2>1, <2>2, <2>3 DEF Sounds
<1>5. channel' = IF trigger THEN Pulse!SweepTriggered(Pulse!Triggered(tuned, seq)) ELSE tuned
  BY Zenon DEF Pulse!WriteNR14, Pulse!NR14Written, period, switched
<1> HIDE DEF tuned
<1>6. div' = div /\ seq' = seq
  BY DEF Pulse!WriteNR14
<1>7. CASE trigger
  <2> DEFINE n == Pulse!Triggered(tuned, seq)
  <2>1. Sounds(n)
    <3>1. tuned \in Pulse!Pulse1 /\ Healthy(tuned, PulseLength)
      BY <1>4, SoundsIsHealthy DEF Sounds
    <3>2. Healthy(n, PulseLength) /\ Same(tuned, n)
      BY <3>1, HealthyTriggered, Sizes, PulseCommon
    <3>3. n \in Pulse!Pulse1
      BY <3>1, <3>2, SamePulse DEF Healthy
    <3>4. QED
      BY <3>2, <3>3, SoundsIsHealthy
  <2>2. /\ Sounds(Pulse!SweepTriggered(Pulse!Triggered(tuned, seq)))
        /\ SweepGood(Pulse!SweepTriggered(Pulse!Triggered(tuned, seq)))
    BY <2>1, SweepTriggeredGood
  <2>3. QED
    BY <1>5, <1>6, <1>7, <2>2, PulseConfigured
<1>8. CASE ~trigger
  BY <1>4, <1>5, <1>6, <1>8, PulseConfigured
<1>9. QED
  BY <1>7, <1>8

LEMMA PulseNR13 ==
  ASSUME PulseAssumption, PulseInv, NEW low \in 0 .. PulseLow - 1, Pulse!WriteNR13(low)
  PROVE  PulseInv'
<1> Sounds(channel) /\ SweepGood(channel) /\ (channel.enabled => seq.powered)
  BY DEF PulseInv
<1> DEFINE period == channel.period - (channel.period % PulseLow) + low
           n == [channel EXCEPT !.period = period]
<1>1. period \in 0 .. Pulse!MaxPeriod
  <2>1. PulseLow \in Nat \ {0} /\ PulseHigh \in Nat \ {0}
    BY DEF PulseAssumption, Pulse!PulseChannelAssumption
  <2>2. channel.period \in 0 .. PulseLow * PulseHigh - 1
    BY DEF Sounds, Pulse!Pulse1, Pulse!MaxPeriod
  <2>3. QED
    BY <2>1, <2>2, LowWritten DEF Pulse!MaxPeriod
<1>2. channel' = n /\ div' = div /\ seq' = seq
  BY DEF Pulse!WriteNR13
<1> HIDE DEF period
<1>3. n \in Pulse!Pulse1
  BY <1>1 DEF Sounds, Pulse!Pulse1
<1>4. /\ n.enabled = channel.enabled /\ n.dac = channel.dac
      /\ n.remaining = channel.remaining
      /\ n.sweepEnabled = channel.sweepEnabled /\ n.checked = channel.checked
      /\ n.shift = channel.shift /\ n.shadowPeriod = channel.shadowPeriod
      /\ n.isIncrease = channel.isIncrease
      /\ n.negateModeUsed = channel.negateModeUsed
      /\ n.subtracted = channel.subtracted
  BY DEF Sounds, Pulse!Pulse1
<1> HIDE DEF n
<1>5. Sounds(n) /\ SweepGood(n)
  BY <1>3, <1>4, SweepKept DEF Sounds
<1>6. QED
  BY <1>2, <1>4, <1>5, PulseConfigured

LEMMA PulseNR52 ==
  ASSUME PulseAssumption, PulseInv, NEW on \in BOOLEAN, Pulse!WriteNR52(on)
  PROVE  PulseInv'
<1> Sounds(channel) /\ SweepGood(channel)
  BY DEF PulseInv
<1>1. seq' \in Pulse!Sequencer /\ seq'.powered = on
  BY SequencerType, Sizes DEF PulseAssumption, PulseInv, Pulse!WriteNR52
<1>2. div' \in 0 .. DivMod - 1
  BY DEF PulseInv, Pulse!WriteNR52
<1>3. CASE on
  <2>1. channel' = channel
    BY <1>3 DEF Pulse!WriteNR52
  <2>2. QED
    BY <1>1, <1>2, <1>3, <2>1 DEF PulseInv
<1>4. CASE ~on
  <2> DEFINE left == Pulse!LengthAfterPowerOff(channel)
             n == [Pulse!Pulse1Silent EXCEPT !.remaining = left]
  <2>1. left \in 0 .. PulseLength
    BY DEF Pulse!LengthAfterPowerOff, Sounds, Pulse!Pulse1, PulseAssumption, Pulse!SoundChannelAssumption
  <2>2. channel' = n
    BY <1>4 DEF Pulse!WriteNR52
  <2> HIDE DEF left
  <2>3. n.enabled = FALSE /\ n.subtracted = FALSE
    BY DEF Pulse!Pulse1Silent
  <2>4. n \in Pulse!Pulse1
    <3>1. Pulse!Pulse1Silent \in Pulse!Pulse1
      BY SilentType
    <3>2. QED
      BY <2>1, <3>1 DEF Pulse!Pulse1
  <2> HIDE DEF n
  <2>5. Sounds(n) /\ SweepGood(n)
    BY <2>3, <2>4 DEF Sounds, SweepGood
  <2>6. QED
    BY <1>1, <1>2, <2>2, <2>3, <2>5 DEF PulseInv
<1>5. QED
  BY <1>3, <1>4

LEMMA PulseNR11 ==
  ASSUME PulseAssumption, PulseInv, NEW timer \in 0 .. PulseLength - 1, Pulse!WriteNR11(timer)
  PROVE  PulseInv'
<1> DEFINE n == Pulse!LengthLoaded(channel, timer)
<1>1. Sounds(channel) /\ SweepGood(channel) /\ Healthy(channel, PulseLength)
  BY SoundsIsHealthy DEF PulseInv, Sounds
<1>2. Healthy(n, PulseLength) /\ Same(channel, n) /\ n.enabled = channel.enabled
  BY <1>1, HealthyLengthLoaded, Sizes, PulseCommon DEF PulseAssumption
<1>3. channel' = n /\ div' = div /\ seq' = seq
  BY DEF Pulse!WriteNR11
<1> HIDE DEF n
<1>4. Sounds(n) /\ SweepGood(n)
  BY <1>1, <1>2, PulseKept
<1>5. QED
  BY <1>2, <1>3, <1>4, PulseConfigured DEF PulseInv

LEMMA PulseNR12 ==
  ASSUME PulseInv, NEW dac \in BOOLEAN, Pulse!WriteNR12(dac)
  PROVE  PulseInv'
<1> DEFINE n == Pulse!DacSet(channel, dac)
<1>1. Sounds(channel) /\ SweepGood(channel) /\ Healthy(channel, PulseLength)
  BY SoundsIsHealthy DEF PulseInv, Sounds
<1>2. Healthy(n, PulseLength) /\ Same(channel, n) /\ (n.enabled => channel.enabled)
  BY <1>1, HealthyDacSet
<1>3. channel' = n /\ div' = div /\ seq' = seq
  BY DEF Pulse!WriteNR12
<1> HIDE DEF n
<1>4. Sounds(n) /\ SweepGood(n)
  BY <1>1, <1>2, PulseKept
<1>5. QED
  BY <1>2, <1>3, <1>4, PulseConfigured DEF PulseInv

LEMMA PulseStep ==
  ASSUME PulseAssumption, PulseInv, [Pulse!Next]_Pulse!vars
  PROVE  PulseInv'
<1>1. CASE Pulse!WriteDiv
  BY <1>1 DEF Pulse!WriteDiv, PulseInv, PulseAssumption, Pulse!SoundChannelAssumption
<1>2. ASSUME NEW pace \in Paces, NEW increase \in BOOLEAN, NEW shift \in Shifts,
             Pulse!WriteNR10(pace, increase, shift)
      PROVE  PulseInv'
  <2> DEFINE n == Pulse!NR10Written(channel, pace, increase, shift)
  <2>1. Sounds(n) /\ SweepGood(n) /\ (n.enabled => channel.enabled)
    BY NR10WrittenGood DEF PulseInv
  <2>2. channel' = n /\ div' = div /\ seq' = seq
    BY <1>2 DEF Pulse!WriteNR10
  <2> HIDE DEF n
  <2>3. QED
    BY <2>1, <2>2, PulseConfigured DEF PulseInv
<1>3. CASE UNCHANGED Pulse!vars
  BY <1>3 DEF Pulse!vars, PulseInv
<1>4. QED
  BY <1>1, <1>2, <1>3, PulseTCycle, PulseNR11, PulseNR12, PulseNR13, PulseNR14, PulseNR52,
     Zenon DEF Pulse!Next, Pulse!Write

LEMMA PulseGood ==
  ASSUME PulseAssumption, PulseInv
  PROVE  /\ Pulse!TypeOK /\ Pulse!PlayingHasLength
         /\ Pulse!SweepStopsInTime /\ Pulse!SubtractionIsFinal
<1>1. Pulse!TypeOK /\ Pulse!PlayingHasLength /\ Pulse!SubtractionIsFinal
  <2>1. channel.subtracted \in BOOLEAN
    BY DEF PulseInv, Sounds, Pulse!Pulse1
  <2>2. QED
    BY <2>1 DEF PulseInv, Sounds, SweepGood, Pulse!TypeOK, Pulse!PlayingHasLength,
                Pulse!SubtractionIsFinal
<1>2. Pulse!SweepStopsInTime
  <2>1. Pulse!NewPeriod(channel) \in Nat /\ Pulse!MaxPeriod \in Nat
    BY NewPeriodRange, PeriodNat DEF PulseInv, Sounds, PulseAssumption
  <2>2. QED
    BY <2>1 DEF PulseInv, SweepGood, Pulse!SweepStopsInTime
<1>3. QED
  BY <1>1, <1>2
-----------------------------------------------------------------------------
(* Channel 3: what it shares with channel 1 is the same of both.           *)

LEMMA WaveSequencer ==
  /\ Wave!Sequencer = Pulse!Sequencer /\ Wave!SequencerInit = Pulse!SequencerInit
  /\ \A s, d : Wave!SequencerAfter(s, d) = Pulse!SequencerAfter(s, d)
  /\ \A s, on : Wave!Powered(s, on) = Pulse!Powered(s, on)
<1>1. \A s, d : Wave!Falls(s, d) <=> Pulse!Falls(s, d)
  BY DEF Wave!Falls, Pulse!Falls, Wave!DivBit, Pulse!DivBit
<1>2. \A s, d : Wave!SequencerAfter(s, d) = Pulse!SequencerAfter(s, d)
  BY <1>1, Zenon DEF Wave!SequencerAfter, Pulse!SequencerAfter, Wave!Falls, Pulse!Falls, Wave!DivBit, Pulse!DivBit
<1>3. \A s, on : Wave!Powered(s, on) = Pulse!Powered(s, on)
  BY Zenon DEF Wave!Powered, Pulse!Powered
<1>4. QED
  BY <1>2, <1>3, Zenon
     DEF Wave!Sequencer, Pulse!Sequencer,
         Wave!SequencerInit, Pulse!SequencerInit

LEMMA WaveCommon ==
  /\ \A c : Wave!ClockLength(c) = Pulse!ClockLength(c)
  /\ \A c, timer : Wave!LengthLoaded(c, timer) = Loaded(c, timer, WaveLength)
  /\ \A c, on : Wave!DacSet(c, on) = Pulse!DacSet(c, on)
  /\ \A c, s, on : Wave!LengthSwitched(c, s, on) = Pulse!LengthSwitched(c, s, on)
  /\ \A c, s : Wave!Triggered(c, s) = Started(c, s, WaveLength)
BY Zenon DEF Wave!ClockLength, Pulse!ClockLength, Wave!LengthLoaded, Loaded, Wave!DacSet, Pulse!DacSet,
   Wave!LengthSwitched, Pulse!LengthSwitched, Wave!Triggered, Started,
   Wave!WontClockLengthNext, Pulse!WontClockLengthNext

WaveOthers == {"period", "periodCounter", "waveRamIndex", "accessWindow", "hasFetched"}

LEMMA WaveFields ==
  ASSUME NEW c \in Wave!Wave
  PROVE  IsChannel(c, WaveLength) /\ DOMAIN c = Common \union WaveOthers
<1>1. DOMAIN c = Common \union WaveOthers
  BY DEF Wave!Wave, Common, WaveOthers
<1>2. c = [field \in DOMAIN c |-> c[field]]
  BY DEF Wave!Wave
<1>3. QED
  BY <1>1, <1>2 DEF IsChannel, Wave!Wave

\* What is done to the four fields leaves a record of channel 3.
LEMMA SameWave ==
  ASSUME NEW c \in Wave!Wave, NEW n, IsChannel(n, WaveLength), Same(c, n)
  PROVE  /\ n \in Wave!Wave
         /\ n.period = c.period /\ n.periodCounter = c.periodCounter
         /\ n.waveRamIndex = c.waveRamIndex /\ n.accessWindow = c.accessWindow
         /\ n.hasFetched = c.hasFetched
<1>1. DOMAIN n = Common \union WaveOthers /\ DOMAIN c = Common \union WaveOthers
  BY WaveFields DEF Same
<1>2. \A field \in WaveOthers : field \in DOMAIN c \ Common
  BY <1>1 DEF Common, WaveOthers
<1>3. \A field \in WaveOthers : n[field] = c[field]
  BY <1>2 DEF Same
<1>4. /\ n.period = c.period /\ n.periodCounter = c.periodCounter
      /\ n.waveRamIndex = c.waveRamIndex /\ n.accessWindow = c.accessWindow
      /\ n.hasFetched = c.hasFetched
  BY <1>3 DEF WaveOthers
<1>5. n \in Wave!Wave
  BY <1>1, <1>4 DEF IsChannel, Common, WaveOthers, Wave!Wave
<1>6. QED
  BY <1>4, <1>5

-----------------------------------------------------------------------------
(* Channel 3: its counter, its index, and the RAM.                         *)

WaveAssumption == Wave!SoundChannelAssumption /\ Wave!WaveChannelAssumption

LEMMA WaveNumbers ==
  ASSUME WaveAssumption
  PROVE  /\ Wave!PeriodBase \in Nat \ {0} /\ RamSize \in Nat \ {0} /\ Wave!Samples = 2 * RamSize
         /\ StartupDelay \in Nat /\ WaveLow \in Nat \ {0} /\ WaveHigh \in Nat \ {0}
         /\ Wave!PeriodBase = WaveLow * WaveHigh
         /\ Wave!Addresses = 0 .. RamSize - 1 /\ Blocked \notin Wave!Addresses /\ 0 \in Wave!Addresses
<1>1. \A l, h \in Nat \ {0} : l * h \in Nat \ {0}
  OBVIOUS
<1>2. QED
  BY <1>1 DEF WaveAssumption, Wave!WaveChannelAssumption, Wave!PeriodBase, Wave!Samples, Wave!Addresses

\* The counter is loaded with twice the distance of the period from its end.
LEMMA ReloadRange ==
  ASSUME WaveAssumption, NEW c \in Wave!Wave
  PROVE  /\ Wave!Reload(c) \in 0 .. 2 * Wave!PeriodBase - 1 + StartupDelay
         /\ Wave!Reload(c) + StartupDelay \in 0 .. 2 * Wave!PeriodBase - 1 + StartupDelay
<1>1. c.period \in 0 .. Wave!PeriodBase - 1
  BY DEF Wave!Wave
<1>2. Wave!PeriodBase \in Nat \ {0} /\ StartupDelay \in Nat
  BY WaveNumbers
<1>3. \A b, p \in Nat : p < b => 2 * (b - p) - 1 \in 0 .. 2 * b - 1
  OBVIOUS
<1>4. QED
  <2>1. Wave!Reload(c) \in 0 .. 2 * Wave!PeriodBase - 1
    BY <1>1, <1>2, <1>3 DEF Wave!Reload
  <2>2. QED
    BY <1>2, <2>1

LEMMA IndexRange ==
  ASSUME WaveAssumption, NEW c \in Wave!Wave
  PROVE  /\ c.waveRamIndex \div 2 \in Wave!Addresses
         /\ (c.waveRamIndex + 1) % Wave!Samples \in 0 .. Wave!Samples - 1
         /\ ((c.waveRamIndex + 1) \div 2) % RamSize \in Wave!Addresses
<1>1. c.waveRamIndex \in 0 .. Wave!Samples - 1
  BY DEF Wave!Wave
<1>2. \A r \in Nat \ {0} : \A i \in 0 .. 2 * r - 1 :
        /\ i \div 2 \in 0 .. r - 1
        /\ (i + 1) % (2 * r) \in 0 .. 2 * r - 1
        /\ ((i + 1) \div 2) % r \in 0 .. r - 1
  <2> SUFFICES ASSUME NEW r \in Nat \ {0}, NEW i \in 0 .. 2 * r - 1
               PROVE  /\ i \div 2 \in 0 .. r - 1
                      /\ (i + 1) % (2 * r) \in 0 .. 2 * r - 1
                      /\ ((i + 1) \div 2) % r \in 0 .. r - 1
    OBVIOUS
  <2>1. i \div 2 \in 0 .. r - 1
    OBVIOUS
  <2>2. \A n \in Nat, m \in Nat \ {0} : n % m \in 0 .. m - 1
    OBVIOUS
  <2>3. 2 * r \in Nat \ {0} /\ i + 1 \in Nat /\ (i + 1) \div 2 \in Nat
    OBVIOUS
  <2>4. QED
    BY <2>1, <2>2, <2>3
<1>3. Wave!Samples = 2 * RamSize /\ RamSize \in Nat \ {0} /\ Wave!Addresses = 0 .. RamSize - 1
  BY WaveNumbers
<1>4. QED
  BY <1>1, <1>2, <1>3

\* What a badly timed trigger copies lies in wave RAM.
LEMMA SpoiledType ==
  ASSUME WaveAssumption, NEW c \in Wave!Wave, waveRam \in [Wave!Addresses -> Bytes]
  PROVE  Wave!Spoiled(c) \in [Wave!Addresses -> Bytes]
<1> DEFINE byteIndex == ((c.waveRamIndex + 1) \div 2) % RamSize
           group == (byteIndex \div GroupSize) * GroupSize
<1>1. byteIndex \in 0 .. RamSize - 1
  BY IndexRange, WaveNumbers
<1>2. \A i \in Wave!Addresses : i < GroupSize => group + i \in Wave!Addresses
  <2>1. GroupSize \in Nat \ {0} /\ RamSize \in Nat /\ RamSize % GroupSize = 0
    BY DEF WaveAssumption, Wave!WaveChannelAssumption
  <2> HIDE DEF byteIndex
  <2> DEFINE groups == RamSize \div GroupSize
             number == byteIndex \div GroupSize
  <2>2. groups \in Nat /\ RamSize = groups * GroupSize
    BY <2>1
  <2>3. number \in Nat /\ number * GroupSize <= byteIndex
    BY <1>1, <2>1
  <2> HIDE DEF groups, number
  <2>4. number + 1 <= groups
    <3>1. number * GroupSize < groups * GroupSize
      BY <1>1, <2>1, <2>2, <2>3
    <3>2. QED
      BY <2>1, <2>2, <2>3, <3>1
  <2>5. (number + 1) * GroupSize <= groups * GroupSize
    BY <2>1, <2>2, <2>3, <2>4
  <2>6. number * GroupSize \in Nat /\ number * GroupSize + GroupSize <= RamSize
    BY <2>1, <2>2, <2>3, <2>5
  <2>7. group = number * GroupSize
    BY DEF number
  <2> HIDE DEF group
  <2>8. QED
    BY <2>1, <2>6, <2>7, WaveNumbers
<1> HIDE DEF group
<1>3. byteIndex \in Wave!Addresses
  BY <1>1, WaveNumbers
<1>4. Wave!Spoiled(c) \in {waveRam, [waveRam EXCEPT ![0] = waveRam[byteIndex]],
           [i \in Wave!Addresses |-> waveRam[IF i < GroupSize THEN group + i ELSE i]]}
  BY DEF Wave!Spoiled, group
<1> HIDE DEF byteIndex
<1>5. [waveRam EXCEPT ![0] = waveRam[byteIndex]] \in [Wave!Addresses -> Bytes]
  BY <1>3
<1>6. [i \in Wave!Addresses |-> waveRam[IF i < GroupSize THEN group + i ELSE i]]
      \in [Wave!Addresses -> Bytes]
  BY <1>2
<1>7. QED
  BY <1>4, <1>5, <1>6
-----------------------------------------------------------------------------
(* Channel 3, its actions.                                                 *)

\* A note that has fetched is at the byte it fetched last; and if the window is
\* open before the CPU has had its access, the fetch was in this T-cycle.
AtItsByte == lastFetched = channel.waveRamIndex \div 2

WaveInv ==
  /\ div \in 0 .. DivMod - 1 /\ seq \in Pulse!Sequencer
  /\ channel \in Wave!Wave /\ Healthy(channel, WaveLength)
  /\ channel.enabled => seq.powered
  /\ waveRam \in [Wave!Addresses -> Bytes]
  /\ accessed \in BOOLEAN /\ justFetched \in BOOLEAN
  /\ lastFetched \in Wave!Addresses \union {Blocked}
  /\ channel.hasFetched => AtItsByte
  /\ ~accessed /\ channel.enabled /\ channel.accessWindow => justFetched /\ AtItsByte

Quiet(c) == c \in Wave!Wave /\ Healthy(c, WaveLength) /\ c.enabled = FALSE /\ c.hasFetched = FALSE

LEMMA WaveSilentType ==
  ASSUME WaveAssumption, NEW left \in 0 .. WaveLength
  PROVE  Quiet([Wave!WaveSilent EXCEPT !.remaining = left])
<1> DEFINE n == [Wave!WaveSilent EXCEPT !.remaining = left]
<1>1. 0 \in 0 .. Wave!PeriodBase - 1 /\ 0 \in 0 .. Wave!Samples - 1
      /\ 0 \in 0 .. 2 * Wave!PeriodBase - 1 + StartupDelay
  <2>1. Wave!PeriodBase \in Nat \ {0} /\ RamSize \in Nat \ {0} /\ Wave!Samples = 2 * RamSize
        /\ StartupDelay \in Nat
    BY WaveNumbers
  <2>2. QED
    BY <2>1
<1>2. n \in Wave!Wave /\ n.enabled = FALSE /\ n.hasFetched = FALSE
  BY <1>1 DEF Wave!WaveSilent, Wave!Wave
<1> HIDE DEF n
<1>3. Quiet(n)
  BY <1>2, WaveFields DEF Quiet, Healthy
<1>4. QED
  BY <1>3 DEF n

LEMMA WaveInit ==
  ASSUME WaveAssumption, Wave!Init
  PROVE  WaveInv
<1>1. Wave!SoundChannelAssumption
  BY WaveSequencer DEF WaveAssumption
<1>2. WaveLength \in Nat /\ DivMod \in Nat \ {0} /\ Steps \in Nat \ {0}
  BY <1>1 DEF Wave!SoundChannelAssumption
<1>3. div \in 0 .. DivMod - 1 /\ seq \in Pulse!Sequencer
  BY <1>2, WaveSequencer DEF Wave!Init, Pulse!SequencerInit, Pulse!Sequencer
<1>4. Quiet(channel)
  <2>1. channel = [Wave!WaveSilent EXCEPT !.remaining = 0]
    BY DEF Wave!Init, Wave!WaveSilent
  <2>2. 0 \in 0 .. WaveLength
    BY <1>2
  <2>3. QED
    BY <2>1, <2>2, WaveSilentType
<1>5. waveRam \in [Wave!Addresses -> Bytes]
  BY DEF Wave!Init, WaveAssumption, Wave!WaveChannelAssumption
<1>6. QED
  BY <1>3, <1>4, <1>5 DEF WaveInv, Wave!Init, Quiet

\* WaveChannel::runNextTCycle(), for a channel whose counter has been clocked.
LEMMA PlayedType ==
  ASSUME WaveAssumption, NEW c \in Wave!Wave, Healthy(c, WaveLength)
  PROVE  LET n == Wave!Played(c)
         IN  /\ n \in Wave!Wave /\ Healthy(n, WaveLength) /\ n.enabled = c.enabled
             /\ ~Wave!Fetches(c) => n.waveRamIndex = c.waveRamIndex
             /\ ~Wave!Fetches(c) => n.hasFetched = c.hasFetched
             /\ ~Wave!Fetches(c) /\ n.enabled => ~n.accessWindow
<1> DEFINE reload == Wave!Reload(c)
           next == (c.waveRamIndex + 1) % Wave!Samples
           less == c.periodCounter - 1
           fetched == [c EXCEPT !.periodCounter = reload, !.accessWindow = TRUE,
                                !.hasFetched = TRUE, !.waveRamIndex = next]
           counted == [c EXCEPT !.periodCounter = less, !.accessWindow = FALSE]
<1>1. reload \in 0 .. 2 * Wave!PeriodBase - 1 + StartupDelay /\ next \in 0 .. Wave!Samples - 1
  BY ReloadRange, IndexRange
<1>2. Wave!Played(c) = IF ~c.enabled THEN c ELSE IF Wave!Fetches(c) THEN fetched ELSE counted
  BY Zenon DEF Wave!Played
<1>3. c.periodCounter # 0 => less \in 0 .. 2 * Wave!PeriodBase - 1 + StartupDelay
  <2>1. c.periodCounter \in 0 .. 2 * Wave!PeriodBase - 1 + StartupDelay
    BY DEF Wave!Wave
  <2>2. Wave!PeriodBase \in Nat /\ StartupDelay \in Nat
    BY WaveNumbers
  <2>3. QED
    BY <2>1, <2>2
<1>4. Wave!Fetches(c) <=> c.enabled /\ c.periodCounter = 0
  BY DEF Wave!Fetches
<1> HIDE DEF reload, next, less
<1>5. CASE ~c.enabled
  BY <1>2, <1>5
<1>6. CASE c.enabled /\ Wave!Fetches(c)
  <2>1. fetched \in Wave!Wave
    BY <1>1 DEF Wave!Wave
  <2>2. fetched.enabled = c.enabled /\ fetched.dac = c.dac /\ fetched.remaining = c.remaining
    BY DEF Wave!Wave
  <2> HIDE DEF fetched
  <2>3. Healthy(fetched, WaveLength)
    BY <2>1, <2>2, WaveFields DEF Healthy
  <2>4. QED
    BY <1>2, <1>6, <2>1, <2>2, <2>3
<1>7. CASE c.enabled /\ ~Wave!Fetches(c)
  <2>1. counted \in Wave!Wave
    BY <1>3, <1>4, <1>7 DEF Wave!Wave
  <2>2. /\ counted.enabled = c.enabled /\ counted.dac = c.dac
        /\ counted.remaining = c.remaining /\ counted.waveRamIndex = c.waveRamIndex
        /\ counted.hasFetched = c.hasFetched /\ counted.accessWindow = FALSE
    BY DEF Wave!Wave
  <2> HIDE DEF counted
  <2>3. Healthy(counted, WaveLength)
    BY <2>1, <2>2, WaveFields DEF Healthy
  <2>4. QED
    BY <1>2, <1>7, <2>1, <2>2, <2>3
<1>8. QED
  BY <1>5, <1>6, <1>7

LEMMA WaveTCycle ==
  ASSUME WaveAssumption, WaveInv, Wave!RunNextTCycle
  PROVE  WaveInv'
<1> DEFINE clocked == IF Wave!Falls(seq, div') /\ Wave!ClocksLength(seq)
                      THEN Wave!ClockLength(channel) ELSE channel
<1>1. div' \in 0 .. DivMod - 1
  BY DivType, Sizes DEF WaveInv, Wave!RunNextTCycle
<1>2. seq' \in Pulse!Sequencer /\ seq'.powered = seq.powered
  BY SequencerType, Sizes, WaveSequencer DEF WaveInv, Wave!RunNextTCycle
<1>3. /\ clocked \in Wave!Wave /\ Healthy(clocked, WaveLength) /\ (clocked.enabled => seq.powered)
      /\ clocked.waveRamIndex = channel.waveRamIndex
      /\ clocked.hasFetched = channel.hasFetched
  <2> DEFINE n == Pulse!ClockLength(channel)
  <2>1. Healthy(n, WaveLength) /\ Same(channel, n) /\ (n.enabled => channel.enabled)
    BY HealthyClockLength, Sizes DEF WaveInv
  <2>2. clocked \in {n, channel}
    BY WaveCommon
  <2> HIDE DEF n, clocked
  <2>3. /\ n \in Wave!Wave /\ n.waveRamIndex = channel.waveRamIndex
        /\ n.hasFetched = channel.hasFetched
    BY <2>1, SameWave DEF WaveInv, Healthy
  <2>4. QED
    BY <2>1, <2>2, <2>3 DEF WaveInv
<1>4. /\ channel' = Wave!Played(clocked) /\ justFetched' = Wave!Fetches(clocked)
      /\ lastFetched' = IF Wave!Fetches(clocked) THEN channel'.waveRamIndex \div 2
                        ELSE lastFetched
      /\ accessed' = FALSE /\ waveRam' = waveRam
  BY DEF Wave!RunNextTCycle
<1> HIDE DEF clocked
<1>5. /\ channel' \in Wave!Wave /\ Healthy(channel', WaveLength) /\ channel'.enabled = clocked.enabled
      /\ ~Wave!Fetches(clocked) => channel'.waveRamIndex = clocked.waveRamIndex
      /\ ~Wave!Fetches(clocked) => channel'.hasFetched = clocked.hasFetched
      /\ ~Wave!Fetches(clocked) /\ channel'.enabled => ~channel'.accessWindow
  BY <1>3, <1>4, PlayedType
<1>6. channel'.waveRamIndex \div 2 \in Wave!Addresses
  BY <1>5, IndexRange
<1>7. justFetched' \in BOOLEAN
  BY <1>4 DEF Wave!Fetches
<1>8. CASE Wave!Fetches(clocked)
  BY <1>1, <1>2, <1>3, <1>4, <1>5, <1>6, <1>7, <1>8 DEF WaveInv, AtItsByte
<1>9. CASE ~Wave!Fetches(clocked)
  BY <1>1, <1>2, <1>3, <1>4, <1>5, <1>7, <1>9 DEF WaveInv, AtItsByte
<1>10. QED
  BY <1>8, <1>9

\* A store that leaves the RAM and the place of the note alone.
LEMMA WaveConfigured ==
  ASSUME WaveInv, Wave!Access, NEW n, Wave!Configure(n),
         n \in Wave!Wave, Healthy(n, WaveLength), n.enabled => seq.powered,
         n.hasFetched = channel.hasFetched, n.waveRamIndex = channel.waveRamIndex
  PROVE  WaveInv'
BY DEF WaveInv, Wave!Access, Wave!Configure, AtItsByte

LEMMA WaveNR30 ==
  ASSUME WaveInv, NEW dac \in BOOLEAN, Wave!WriteNR30(dac)
  PROVE  WaveInv'
<1> DEFINE n == Pulse!DacSet(channel, dac)
<1>1. Wave!Access /\ Wave!Configure(n)
  BY WaveCommon DEF Wave!WriteNR30
<1>2. Healthy(n, WaveLength) /\ Same(channel, n) /\ (n.enabled => channel.enabled)
  BY HealthyDacSet DEF WaveInv
<1> HIDE DEF n
<1>3. /\ n \in Wave!Wave /\ n.hasFetched = channel.hasFetched
      /\ n.waveRamIndex = channel.waveRamIndex
  BY <1>2, SameWave DEF WaveInv, Healthy
<1>4. QED
  BY <1>1, <1>2, <1>3, WaveConfigured DEF WaveInv

LEMMA WaveNR31 ==
  ASSUME WaveAssumption, WaveInv, NEW timer \in 0 .. WaveLength - 1, Wave!WriteNR31(timer)
  PROVE  WaveInv'
<1> DEFINE n == Loaded(channel, timer, WaveLength)
<1>1. Wave!Access /\ Wave!Configure(n)
  BY WaveCommon DEF Wave!WriteNR31
<1>2. Healthy(n, WaveLength) /\ Same(channel, n) /\ n.enabled = channel.enabled
  BY HealthyLengthLoaded, Sizes, WaveSequencer DEF WaveInv, WaveAssumption
<1> HIDE DEF n
<1>3. /\ n \in Wave!Wave /\ n.hasFetched = channel.hasFetched
      /\ n.waveRamIndex = channel.waveRamIndex
  BY <1>2, SameWave DEF WaveInv, Healthy
<1>4. QED
  BY <1>1, <1>2, <1>3, WaveConfigured DEF WaveInv

\* Either store to the period leaves it in range, and the rest as it was.
LEMMA WaveTuned ==
  ASSUME WaveAssumption, NEW c \in Wave!Wave, Healthy(c, WaveLength), NEW period \in 0 .. Wave!PeriodBase - 1
  PROVE  LET n == [c EXCEPT !.period = period]
         IN  /\ n \in Wave!Wave /\ Healthy(n, WaveLength) /\ n.enabled = c.enabled
             /\ n.hasFetched = c.hasFetched /\ n.waveRamIndex = c.waveRamIndex
<1> DEFINE n == [c EXCEPT !.period = period]
<1>1. n \in Wave!Wave
  BY DEF Wave!Wave
<1>2. /\ n.enabled = c.enabled /\ n.dac = c.dac /\ n.remaining = c.remaining
      /\ n.hasFetched = c.hasFetched /\ n.waveRamIndex = c.waveRamIndex
  BY DEF Wave!Wave
<1> HIDE DEF n
<1>3. Healthy(n, WaveLength)
  BY <1>1, <1>2, WaveFields DEF Healthy
<1>4. QED
  BY <1>1, <1>2, <1>3 DEF n

LEMMA WaveNR33 ==
  ASSUME WaveAssumption, WaveInv, NEW low \in 0 .. WaveLow - 1, Wave!WriteNR33(low)
  PROVE  WaveInv'
<1> DEFINE period == channel.period - (channel.period % WaveLow) + low
           n == [channel EXCEPT !.period = period]
<1>1. Wave!Access /\ Wave!Configure(n)
  BY DEF Wave!WriteNR33
<1>2. WaveLow \in Nat \ {0} /\ WaveHigh \in Nat \ {0}
      /\ Wave!PeriodBase = WaveLow * WaveHigh
  BY WaveNumbers
<1>3. channel.period \in 0 .. WaveLow * WaveHigh - 1
  BY <1>2 DEF WaveInv, Wave!Wave
<1>4. period \in 0 .. Wave!PeriodBase - 1
  BY <1>2, <1>3, LowWritten
<1> HIDE DEF period
<1>5. /\ n \in Wave!Wave /\ Healthy(n, WaveLength) /\ n.enabled = channel.enabled
      /\ n.hasFetched = channel.hasFetched /\ n.waveRamIndex = channel.waveRamIndex
  BY <1>4, WaveTuned DEF WaveInv
<1> HIDE DEF n
<1>6. QED
  BY <1>1, <1>5, WaveConfigured DEF WaveInv

LEMMA WaveNR34 ==
  ASSUME WaveAssumption, WaveInv, NEW trigger \in BOOLEAN, NEW lengthOn \in BOOLEAN,
         NEW high \in 0 .. WaveHigh - 1, Wave!WriteNR34(trigger, lengthOn, high)
  PROVE  WaveInv'
<1> DEFINE switched == Pulse!LengthSwitched(channel, seq, lengthOn)
           period == high * WaveLow + (switched.period % WaveLow)
           set == [switched EXCEPT !.period = period]
<1>1. /\ switched \in Wave!Wave /\ Healthy(switched, WaveLength) /\ (switched.enabled => channel.enabled)
      /\ switched.hasFetched = channel.hasFetched
      /\ switched.waveRamIndex = channel.waveRamIndex
  <2>1. Healthy(switched, WaveLength) /\ Same(channel, switched)
        /\ (switched.enabled => channel.enabled)
    BY HealthyLengthSwitched, Sizes DEF WaveInv
  <2> HIDE DEF switched
  <2>2. QED
    BY <2>1, SameWave DEF WaveInv, Healthy
<1>2. set = Wave!NR34Set(channel, lengthOn, high)
  BY WaveCommon DEF Wave!NR34Set
<1> HIDE DEF switched
<1>3. period \in 0 .. Wave!PeriodBase - 1
  <2>1. switched.period \in Nat
    BY <1>1, WaveNumbers DEF Wave!Wave
  <2>2. WaveLow \in Nat \ {0} /\ WaveHigh \in Nat \ {0}
        /\ Wave!PeriodBase = WaveLow * WaveHigh
    BY WaveNumbers
  <2>3. QED
    BY <2>1, <2>2, HighWritten
<1> HIDE DEF period
<1>4. /\ set \in Wave!Wave /\ Healthy(set, WaveLength) /\ (set.enabled => channel.enabled)
      /\ set.hasFetched = channel.hasFetched /\ set.waveRamIndex = channel.waveRamIndex
  BY <1>1, <1>3, WaveTuned
<1> HIDE DEF set
<1>5. CASE ~trigger
  <2>1. Wave!Access /\ Wave!Configure(set)
    BY <1>2, <1>5 DEF Wave!WriteNR34
  <2>2. QED
    BY <1>4, <2>1, WaveConfigured DEF WaveInv
<1>6. CASE trigger
  <2> DEFINE started == Started(set, seq, WaveLength)
             reload == Wave!Reload(started) + StartupDelay
             n == [started EXCEPT !.waveRamIndex = 0, !.hasFetched = FALSE,
                                  !.periodCounter = reload]
  <2>1. /\ channel' = Wave!WaveRestarted(started)
        /\ waveRam' = Wave!Spoiled(set) /\ lastFetched' = Blocked /\ accessed' = TRUE
        /\ div' = div /\ seq' = seq /\ justFetched' = justFetched /\ seq.powered
    BY <1>2, <1>6, WaveCommon DEF Wave!WriteNR34, Wave!Access, Wave!Writable
  <2>2. channel' = n
    BY <2>1, Zenon DEF Wave!WaveRestarted
  <2>3. started \in Wave!Wave /\ Healthy(started, WaveLength)
    <3>1. Healthy(started, WaveLength) /\ Same(set, started)
      BY <1>4, HealthyTriggered, Sizes
    <3> HIDE DEF started
    <3>2. QED
      BY <1>4, <3>1, SameWave DEF Healthy
  <2>4. waveRam' \in [Wave!Addresses -> Bytes]
    BY <1>4, <2>1, SpoiledType DEF WaveInv
  <2>5. reload \in 0 .. 2 * Wave!PeriodBase - 1 + StartupDelay
    BY <2>3, ReloadRange
  <2>6. 0 \in 0 .. Wave!Samples - 1
    BY WaveNumbers
  <2> HIDE DEF started, reload
  <2>7. /\ n \in Wave!Wave /\ n.enabled = started.enabled /\ n.dac = started.dac
        /\ n.remaining = started.remaining /\ n.hasFetched = FALSE
    BY <2>3, <2>5, <2>6 DEF Wave!Wave
  <2> HIDE DEF n
  <2>8. Healthy(n, WaveLength)
    BY <2>3, <2>7, WaveFields DEF Healthy
  <2>9. QED
    BY <2>1, <2>2, <2>4, <2>7, <2>8 DEF WaveInv
<1>7. QED
  BY <1>5, <1>6

LEMMA WaveNR52 ==
  ASSUME WaveAssumption, WaveInv, NEW on \in BOOLEAN, Wave!WriteNR52(on)
  PROVE  WaveInv'
<1>1. seq' \in Pulse!Sequencer /\ seq'.powered = on
  BY SequencerType, Sizes, WaveSequencer DEF WaveInv, Wave!WriteNR52
<1>2. /\ div' = div /\ waveRam' = waveRam /\ accessed' = TRUE
      /\ justFetched' = justFetched /\ lastFetched' = lastFetched
  BY DEF Wave!WriteNR52, Wave!Access
<1>3. CASE on
  <2>1. channel' = channel
    BY <1>3 DEF Wave!WriteNR52
  <2>2. QED
    BY <1>1, <1>2, <1>3, <2>1 DEF WaveInv, AtItsByte
<1>4. CASE ~on
  <2> DEFINE left == Wave!LengthAfterPowerOff(channel)
  <2>1. channel' = [Wave!WaveSilent EXCEPT !.remaining = left]
    BY <1>4, WaveCommon DEF Wave!WriteNR52
  <2>2. left \in 0 .. WaveLength
    BY Sizes DEF Wave!LengthAfterPowerOff, WaveInv, Wave!Wave
  <2> HIDE DEF left
  <2>3. Quiet(channel')
    BY <2>1, <2>2, WaveSilentType
  <2>4. QED
    BY <1>1, <1>2, <2>3 DEF WaveInv, Quiet
<1>5. QED
  BY <1>3, <1>4

LEMMA WaveStep ==
  ASSUME WaveAssumption, WaveInv, [Wave!Next]_(Wave!vars)
  PROVE  WaveInv'
<1>1. CASE Wave!WriteDiv
  <2>1. 0 \in 0 .. DivMod - 1
    BY WaveSequencer DEF WaveAssumption, Wave!SoundChannelAssumption
  <2>2. QED
    BY <1>1, <2>1 DEF Wave!WriteDiv, Wave!Access, WaveInv, AtItsByte
<1>2. ASSUME NEW address \in Wave!Addresses, NEW byte \in Bytes,
             Wave!WriteWaveRam(address, byte)
      PROVE  WaveInv'
  <2>1. waveRam' \in [Wave!Addresses -> Bytes]
    BY <1>2 DEF Wave!WriteWaveRam, WaveInv
  <2>2. QED
    BY <1>2, <2>1 DEF Wave!WriteWaveRam, Wave!Access, WaveInv, AtItsByte
<1>3. CASE UNCHANGED Wave!vars
  BY <1>3 DEF Wave!vars, WaveInv, AtItsByte
<1>4. QED
  BY <1>1, <1>2, <1>3, WaveTCycle, WaveNR30, WaveNR31, WaveNR33, WaveNR34, WaveNR52,
     Zenon DEF Wave!Next, Wave!Write

LEMMA WaveGood ==
  ASSUME WaveAssumption, WaveInv
  PROVE  Wave!TypeOK /\ Wave!PlayingHasLength
BY WaveSequencer DEF WaveInv, Healthy, Wave!TypeOK, Wave!PlayingHasLength

LEMMA WaveMeets ==
  ASSUME WaveAssumption, WaveInv
  PROVE  Wave!AccessMeetsFetch
<1>1. Wave!LoadMeetsFetch
  BY DEF WaveInv, AtItsByte, Wave!LoadMeetsFetch, Wave!WaveRamRead
<1>2. Wave!StoreMeetsFetch
  <2> SUFFICES ASSUME ~WaveOnCgb, channel.enabled,
                      NEW address \in Wave!Addresses, NEW byte \in Bytes,
                      Wave!WriteWaveRam(address, byte),
                      NEW i \in Wave!Addresses, i # lastFetched
               PROVE  waveRam'[i] = waveRam[i]
    BY DEF Wave!StoreMeetsFetch
  <2>1. Wave!WaveRamWritten(address) \in {Blocked, lastFetched}
    BY DEF WaveInv, AtItsByte, Wave!WaveRamWritten
  <2>2. i # Blocked
    BY WaveNumbers
  <2>3. QED
    BY <2>1, <2>2 DEF Wave!WriteWaveRam
<1>3. QED
  BY <1>1, <1>2 DEF Wave!AccessMeetsFetch
-----------------------------------------------------------------------------
(* Channel 4: what it shares with channel 1 is the same of both.           *)

LEMMA NoiseSequencer ==
  /\ Noise!Sequencer = Pulse!Sequencer /\ Noise!SequencerInit = Pulse!SequencerInit
  /\ \A s, d : Noise!SequencerAfter(s, d) = Pulse!SequencerAfter(s, d)
  /\ \A s, on : Noise!Powered(s, on) = Pulse!Powered(s, on)
<1>1. \A s, d : Noise!SequencerAfter(s, d) = Pulse!SequencerAfter(s, d)
  BY Zenon DEF Noise!SequencerAfter, Pulse!SequencerAfter, Noise!Falls, Pulse!Falls, Noise!DivBit, Pulse!DivBit
<1>2. \A s, on : Noise!Powered(s, on) = Pulse!Powered(s, on)
  BY Zenon DEF Noise!Powered, Pulse!Powered
<1>3. QED
  BY <1>1, <1>2, Zenon
     DEF Noise!Sequencer, Pulse!Sequencer,
         Noise!SequencerInit, Pulse!SequencerInit

LEMMA NoiseCommon ==
  /\ \A c : Noise!ClockLength(c) = Pulse!ClockLength(c)
  /\ \A c, timer : Noise!LengthLoaded(c, timer) = Loaded(c, timer, NoiseLength)
  /\ \A c, on : Noise!DacSet(c, on) = Pulse!DacSet(c, on)
  /\ \A c, s, on : Noise!LengthSwitched(c, s, on) = Pulse!LengthSwitched(c, s, on)
  /\ \A c, s : Noise!Triggered(c, s) = Started(c, s, NoiseLength)
BY Zenon DEF Noise!ClockLength, Pulse!ClockLength, Noise!LengthLoaded, Loaded, Noise!DacSet, Pulse!DacSet,
   Noise!LengthSwitched, Pulse!LengthSwitched, Noise!Triggered, Started,
   Noise!WontClockLengthNext, Pulse!WontClockLengthNext

NoiseOthers == {"clockShift", "narrowLfsr", "clockDivider", "periodCounter", "lfsr"}

LEMMA NoiseFields ==
  ASSUME NEW c \in Noise!Noise
  PROVE  IsChannel(c, NoiseLength) /\ DOMAIN c = Common \union NoiseOthers
<1>1. DOMAIN c = Common \union NoiseOthers
  BY DEF Noise!Noise, Common, NoiseOthers
<1>2. c = [field \in DOMAIN c |-> c[field]]
  BY DEF Noise!Noise
<1>3. QED
  BY <1>1, <1>2 DEF IsChannel, Noise!Noise

\* What is done to the four fields leaves a record of channel 4.
LEMMA SameNoise ==
  ASSUME NEW c \in Noise!Noise, NEW n, IsChannel(n, NoiseLength), Same(c, n)
  PROVE  n \in Noise!Noise /\ n.narrowLfsr = c.narrowLfsr /\ n.lfsr = c.lfsr
<1>1. DOMAIN n = Common \union NoiseOthers /\ DOMAIN c = Common \union NoiseOthers
  BY NoiseFields DEF Same
<1>2. \A field \in NoiseOthers : field \in DOMAIN c \ Common
  BY <1>1 DEF Common, NoiseOthers
<1>3. \A field \in NoiseOthers : n[field] = c[field]
  BY <1>2 DEF Same
<1>4. /\ n.clockShift = c.clockShift /\ n.narrowLfsr = c.narrowLfsr
      /\ n.clockDivider = c.clockDivider /\ n.periodCounter = c.periodCounter
      /\ n.lfsr = c.lfsr
  BY <1>3 DEF NoiseOthers
<1>5. n \in Noise!Noise
  BY <1>1, <1>4 DEF IsChannel, Common, NoiseOthers, Noise!Noise
<1>6. QED
  BY <1>4, <1>5

-----------------------------------------------------------------------------
(* Channel 4: its shift register, with the widths that it has.             *)

NoiseAssumption ==
  /\ Noise!SoundChannelAssumption /\ Noise!NoiseChannelAssumption
  /\ LfsrBits = 15 /\ NarrowBits = 7

\* A register from which a shift does not lead to zero, in the mode it is in.
Runs(c) == c.lfsr # 0 /\ (c.narrowLfsr => c.lfsr % 128 # 0)

LEMMA Powers ==
  ASSUME NoiseAssumption
  PROVE  /\ 2 ^ LfsrBits = 32768 /\ 2 ^ (LfsrBits - 1) = 16384
         /\ 2 ^ (NarrowBits - 1) = 64
<1>1. LfsrBits = 15 /\ LfsrBits - 1 = 14 /\ NarrowBits - 1 = 6
  BY DEF NoiseAssumption
<1>2. 2 ^ 15 = 32768 /\ 2 ^ 14 = 16384 /\ 2 ^ 6 = 64
  OBVIOUS
<1>3. QED
  BY <1>1, <1>2

\* One shift, of all 15 bits and of the lower 7.
LEMMA WideShift ==
  ASSUME NEW x \in Nat, x < 32768, NEW feedback \in 0 .. 1,
         feedback = ((x % 2) + ((x \div 2) % 2)) % 2
  PROVE  /\ x \div 2 + feedback * 16384 \in Nat
         /\ x \div 2 + feedback * 16384 < 32768
         /\ x # 0 => x \div 2 + feedback * 16384 # 0
<1>1. x \div 2 \in Nat /\ x \div 2 < 16384 /\ x = 2 * (x \div 2) + (x % 2) /\ x % 2 \in 0 .. 1
  OBVIOUS
<1>2. CASE x = 1
  BY <1>2
<1>3. CASE x # 1
  BY <1>1, <1>3
<1>4. QED
  BY <1>2, <1>3

LEMMA NarrowShift ==
  ASSUME NEW x \in Nat, x < 32768, NEW feedback \in 0 .. 1,
         feedback = ((x % 2) + ((x \div 2) % 2)) % 2,
         NEW s \in Nat, s < 32768, s = x \div 2 + feedback * 16384
  PROVE  LET n == s + (feedback - ((s \div 64) % 2)) * 64
         IN  /\ n \in Nat /\ n < 32768
             /\ x % 128 # 0 => n % 128 # 0 /\ n # 0
<1> DEFINE half == x \div 2
           top == s \div 128
           bit == (s \div 64) % 2
           low == s % 64
           n == s + (feedback - bit) * 64
<1>1. top \in Nat /\ top < 256 /\ bit \in 0 .. 1 /\ low \in Nat /\ low < 64
      /\ s = 128 * top + 64 * bit + low
  OBVIOUS
<1>2. low = half % 64
  OBVIOUS
<1>3. x % 128 = 2 * (half % 64) + (x % 2) /\ x % 2 \in 0 .. 1
  OBVIOUS
<1>4. low = 0 => half % 2 = 0
  BY <1>2
<1> HIDE DEF top, bit, low, half
<1>5. n = 128 * top + 64 * feedback + low
  BY <1>1
<1>6. 64 * feedback + low \in Nat /\ 64 * feedback + low < 128
  BY <1>1
<1>7. n \in Nat /\ n < 32768 /\ n % 128 = 64 * feedback + low
  BY <1>1, <1>5, <1>6
<1>8. x % 128 # 0 /\ feedback = 0 => low # 0
  BY <1>2, <1>3, <1>4 DEF half
<1> HIDE DEF n
<1>9. x % 128 # 0 => n % 128 # 0 /\ n # 0
  BY <1>1, <1>7, <1>8
<1>10. QED
  BY <1>7, <1>9 DEF n, bit

LEMMA ShiftedRuns ==
  ASSUME NoiseAssumption, NEW c \in Noise!Noise
  PROVE  /\ Noise!Shifted(c) \in 0 .. 2 ^ LfsrBits - 1
         /\ Runs(c) => Noise!Shifted(c) # 0
         /\ Runs(c) /\ c.narrowLfsr => Noise!Shifted(c) % 128 # 0
<1> DEFINE x == c.lfsr
           feedback == ((x % 2) + ((x \div 2) % 2)) % 2
           s == (x \div 2) + feedback * 16384
           n == s + (feedback - ((s \div 64) % 2)) * 64
<1>1. x \in Nat /\ x < 32768
  BY Powers DEF Noise!Noise
<1>2. \A v \in Nat : Noise!Bit(v, 0) = v % 2 /\ Noise!Bit(v, 1) = (v \div 2) % 2
  <2>1. 2 ^ 0 = 1 /\ 2 ^ 1 = 2
    OBVIOUS
  <2>2. \A v \in Nat : v \div 1 = v
    OBVIOUS
  <2>3. QED
    BY <2>1, <2>2 DEF Noise!Bit
<1>3. \A v : Noise!Bit(v, NarrowBits - 1) = (v \div 64) % 2
  BY Powers DEF Noise!Bit
<1>4. feedback \in 0 .. 1
  BY <1>1
<1>5. Noise!Shifted(c) = IF c.narrowLfsr THEN n ELSE s
  BY <1>1, <1>2, <1>3, Powers DEF Noise!Shifted
<1> HIDE DEF x
<1>6. s \in Nat /\ s < 32768 /\ (x # 0 => s # 0)
  <2> HIDE DEF feedback
  <2>1. feedback = ((x % 2) + ((x \div 2) % 2)) % 2
    BY DEF feedback
  <2>2. QED
    BY <1>1, <1>4, <2>1, WideShift
<1>7. n \in Nat /\ n < 32768 /\ (x % 128 # 0 => n % 128 # 0 /\ n # 0)
  <2> HIDE DEF feedback
  <2>1. feedback = ((x % 2) + ((x \div 2) % 2)) % 2
    BY DEF feedback
  <2> HIDE DEF s
  <2>2. s = (x \div 2) + feedback * 16384
    BY DEF s
  <2>3. QED
    BY <1>1, <1>4, <1>6, <2>1, <2>2, NarrowShift
<1> HIDE DEF n, s, feedback
<1>8. Noise!Shifted(c) \in 0 .. 2 ^ LfsrBits - 1
  BY <1>5, <1>6, <1>7, Powers
<1>9. QED
  BY <1>5, <1>6, <1>7, <1>8 DEF Runs, x

LEMMA NoiseReload ==
  ASSUME NoiseAssumption, NEW c \in Noise!Noise
  PROVE  Noise!Reload(c) \in 0 .. CounterMod - 1
<1>1. Noise!Divisor(c.clockDivider) \in Nat
  <2>1. c.clockDivider \in 0 .. 7 /\ DivisorUnit \in Nat
    BY DEF Noise!Noise, NoiseAssumption, Noise!NoiseChannelAssumption
  <2>2. QED
    BY <2>1 DEF Noise!Divisor
<1>2. 2 ^ c.clockShift \in Nat
  <2>1. c.clockShift \in 0 .. 15
    BY DEF Noise!Noise, NoiseAssumption, Noise!NoiseChannelAssumption
  <2>2. QED
    BY <2>1, PowerNat
<1>3. Noise!Period(c) \in Nat
  BY <1>1, <1>2 DEF Noise!Period
<1>4. CounterMod \in Nat \ {0}
  BY DEF NoiseAssumption, Noise!NoiseChannelAssumption
<1>5. QED
  BY <1>3, <1>4 DEF Noise!Reload

-----------------------------------------------------------------------------
(* Channel 4, its actions.                                                 *)

NoiseInv ==
  /\ div \in 0 .. DivMod - 1 /\ seq \in Pulse!Sequencer
  /\ channel \in Noise!Noise /\ Healthy(channel, NoiseLength)
  /\ channel.enabled => seq.powered
  /\ narrowed \in BOOLEAN
  /\ channel.enabled /\ ~narrowed => Runs(channel)

LEMMA NoiseSilentType ==
  ASSUME NoiseAssumption, NEW left \in 0 .. NoiseLength
  PROVE  LET n == [Noise!NoiseSilent EXCEPT !.remaining = left]
         IN  n \in Noise!Noise /\ Healthy(n, NoiseLength) /\ ~n.enabled
<1> DEFINE n == [Noise!NoiseSilent EXCEPT !.remaining = left]
<1>1. 0 \in ClockShifts /\ 0 \in Dividers /\ 0 \in 0 .. CounterMod - 1
      /\ 0 \in 0 .. 2 ^ LfsrBits - 1
  BY Powers DEF NoiseAssumption, Noise!NoiseChannelAssumption
<1>2. n \in Noise!Noise /\ n.enabled = FALSE
  BY <1>1 DEF Noise!NoiseSilent, Noise!Noise
<1> HIDE DEF n
<1>3. Healthy(n, NoiseLength)
  BY <1>2, NoiseFields DEF Healthy
<1>4. QED
  BY <1>2, <1>3 DEF n

LEMMA NoiseInit ==
  ASSUME NoiseAssumption, Noise!Init
  PROVE  NoiseInv
<1>1. NoiseLength \in Nat /\ DivMod \in Nat \ {0} /\ Steps \in Nat \ {0}
  BY NoiseSequencer DEF NoiseAssumption, Noise!SoundChannelAssumption
<1>2. div \in 0 .. DivMod - 1 /\ seq \in Pulse!Sequencer
  BY <1>1, NoiseSequencer DEF Noise!Init, Pulse!SequencerInit, Pulse!Sequencer
<1>3. channel = [Noise!NoiseSilent EXCEPT !.remaining = 0] /\ 0 \in 0 .. NoiseLength
  BY <1>1 DEF Noise!Init, Noise!NoiseSilent
<1>4. channel \in Noise!Noise /\ Healthy(channel, NoiseLength) /\ ~channel.enabled
  BY <1>3, NoiseSilentType
<1>5. QED
  BY <1>2, <1>4 DEF NoiseInv, Noise!Init

\* NoiseChannel::runNextTCycle(), for a channel whose counter has been clocked.
LEMMA NoisePlayed ==
  ASSUME NoiseAssumption, NEW c \in Noise!Noise, Healthy(c, NoiseLength)
  PROVE  LET n == Noise!Played(c)
         IN  /\ n \in Noise!Noise /\ Healthy(n, NoiseLength) /\ n.enabled = c.enabled
             /\ Runs(c) => Runs(n)
<1> DEFINE reload == Noise!Reload(c)
           next == Noise!Shifted(c)
           less == c.periodCounter - 1
           onward == [c EXCEPT !.periodCounter = reload, !.lfsr = next]
           counted == [c EXCEPT !.periodCounter = less]
<1>1. /\ reload \in 0 .. CounterMod - 1 /\ next \in 0 .. 2 ^ LfsrBits - 1
      /\ Runs(c) => next # 0
      /\ Runs(c) /\ c.narrowLfsr => next % 128 # 0
  BY NoiseReload, ShiftedRuns
<1>2. Noise!Played(c) = IF ~c.enabled THEN c ELSE IF c.periodCounter = 0 THEN onward ELSE counted
  BY Zenon DEF Noise!Played
<1>3. c.periodCounter # 0 => less \in 0 .. CounterMod - 1
  <2>1. c.periodCounter \in 0 .. CounterMod - 1 /\ CounterMod \in Nat
    BY DEF Noise!Noise, NoiseAssumption, Noise!NoiseChannelAssumption
  <2>2. QED
    BY <2>1
<1> HIDE DEF reload, next, less
<1>4. CASE ~c.enabled
  BY <1>2, <1>4
<1>5. CASE c.enabled /\ c.periodCounter = 0
  <2>1. /\ onward \in Noise!Noise /\ onward.enabled = c.enabled /\ onward.dac = c.dac
        /\ onward.remaining = c.remaining /\ onward.narrowLfsr = c.narrowLfsr
        /\ onward.lfsr = next
    BY <1>1 DEF Noise!Noise
  <2> HIDE DEF onward
  <2>2. Healthy(onward, NoiseLength)
    BY <2>1, NoiseFields DEF Healthy
  <2>3. Runs(c) => Runs(onward)
    BY <1>1, <2>1 DEF Runs
  <2>4. QED
    BY <1>2, <1>5, <2>1, <2>2, <2>3
<1>6. CASE c.enabled /\ c.periodCounter # 0
  <2>1. /\ counted \in Noise!Noise /\ counted.enabled = c.enabled /\ counted.dac = c.dac
        /\ counted.remaining = c.remaining /\ counted.narrowLfsr = c.narrowLfsr
        /\ counted.lfsr = c.lfsr
    BY <1>3, <1>6 DEF Noise!Noise
  <2> HIDE DEF counted
  <2>2. Healthy(counted, NoiseLength)
    BY <2>1, NoiseFields DEF Healthy
  <2>3. Runs(c) => Runs(counted)
    BY <2>1 DEF Runs
  <2>4. QED
    BY <1>2, <1>6, <2>1, <2>2, <2>3
<1>7. QED
  BY <1>4, <1>5, <1>6

\* What is done to the four fields keeps a note going.
LEMMA NoiseKept ==
  ASSUME NEW c \in Noise!Noise, NEW n, Healthy(n, NoiseLength), Same(c, n)
  PROVE  n \in Noise!Noise /\ (Runs(c) => Runs(n))
<1>1. n \in Noise!Noise /\ n.narrowLfsr = c.narrowLfsr /\ n.lfsr = c.lfsr
  BY SameNoise DEF Healthy
<1>2. QED
  BY <1>1 DEF Runs

LEMMA NoiseTCycle ==
  ASSUME NoiseAssumption, NoiseInv, Noise!RunNextTCycle
  PROVE  NoiseInv'
<1> DEFINE clocked == IF Noise!Falls(seq, div') /\ Noise!ClocksLength(seq)
                      THEN Noise!ClockLength(channel) ELSE channel
<1>1. div' \in 0 .. DivMod - 1
  BY DivType, Sizes DEF NoiseInv, Noise!RunNextTCycle
<1>2. seq' \in Pulse!Sequencer /\ seq'.powered = seq.powered
  BY SequencerType, Sizes, NoiseSequencer DEF NoiseInv, Noise!RunNextTCycle
<1>3. /\ clocked \in Noise!Noise /\ Healthy(clocked, NoiseLength) /\ (clocked.enabled => channel.enabled)
      /\ Runs(channel) => Runs(clocked)
  <2> DEFINE n == Pulse!ClockLength(channel)
  <2>1. Healthy(n, NoiseLength) /\ Same(channel, n) /\ (n.enabled => channel.enabled)
    BY HealthyClockLength, Sizes DEF NoiseInv
  <2>2. clocked \in {n, channel}
    BY NoiseCommon
  <2> HIDE DEF n, clocked
  <2>3. n \in Noise!Noise /\ (Runs(channel) => Runs(n))
    BY <2>1, NoiseKept DEF NoiseInv
  <2>4. QED
    BY <2>1, <2>2, <2>3 DEF NoiseInv
<1>4. channel' = Noise!Played(clocked) /\ narrowed' = narrowed
  BY DEF Noise!RunNextTCycle
<1> HIDE DEF clocked
<1>5. /\ channel' \in Noise!Noise /\ Healthy(channel', NoiseLength) /\ channel'.enabled = clocked.enabled
      /\ Runs(clocked) => Runs(channel')
  BY <1>3, <1>4, NoisePlayed
<1>6. QED
  BY <1>1, <1>2, <1>3, <1>4, <1>5 DEF NoiseInv

\* A store after which the channel is a good one.
LEMMA NoiseConfigured ==
  ASSUME NoiseInv, NEW n, Noise!Configure(n), n \in Noise!Noise, Healthy(n, NoiseLength),
         n.enabled => seq.powered, narrowed' \in BOOLEAN,
         n.enabled /\ ~narrowed' => Runs(n)
  PROVE  NoiseInv'
BY DEF NoiseInv, Noise!Configure

LEMMA NoiseNR42 ==
  ASSUME NoiseInv, NEW dac \in BOOLEAN, Noise!WriteNR42(dac)
  PROVE  NoiseInv'
<1> DEFINE n == Pulse!DacSet(channel, dac)
<1>1. Noise!Configure(n) /\ narrowed' = narrowed
  BY NoiseCommon DEF Noise!WriteNR42
<1>2. Healthy(n, NoiseLength) /\ Same(channel, n) /\ (n.enabled => channel.enabled)
  BY HealthyDacSet DEF NoiseInv
<1> HIDE DEF n
<1>3. n \in Noise!Noise /\ (Runs(channel) => Runs(n))
  BY <1>2, NoiseKept DEF NoiseInv
<1>4. QED
  BY <1>1, <1>2, <1>3, NoiseConfigured DEF NoiseInv

LEMMA NoiseNR41 ==
  ASSUME NoiseAssumption, NoiseInv, NEW timer \in 0 .. NoiseLength - 1, Noise!WriteNR41(timer)
  PROVE  NoiseInv'
<1> DEFINE n == Loaded(channel, timer, NoiseLength)
<1>1. Noise!Configure(n) /\ narrowed' = narrowed
  BY NoiseCommon DEF Noise!WriteNR41
<1>2. Healthy(n, NoiseLength) /\ Same(channel, n) /\ n.enabled = channel.enabled
  BY HealthyLengthLoaded, Sizes, NoiseSequencer DEF NoiseInv, NoiseAssumption
<1> HIDE DEF n
<1>3. n \in Noise!Noise /\ (Runs(channel) => Runs(n))
  BY <1>2, NoiseKept DEF NoiseInv
<1>4. QED
  BY <1>1, <1>2, <1>3, NoiseConfigured DEF NoiseInv

LEMMA NoiseNR43 ==
  ASSUME NoiseInv, NEW clockShift \in ClockShifts, NEW narrow \in BOOLEAN,
         NEW clockDivider \in Dividers, Noise!WriteNR43(clockShift, narrow, clockDivider)
  PROVE  NoiseInv'
<1> DEFINE n == [channel EXCEPT !.clockShift = clockShift, !.narrowLfsr = narrow,
                                !.clockDivider = clockDivider]
<1>1. Noise!Configure(n) /\ narrowed' = (narrowed \/ (narrow /\ ~channel.narrowLfsr))
  BY DEF Noise!WriteNR43
<1>2. /\ n \in Noise!Noise /\ n.enabled = channel.enabled /\ n.dac = channel.dac
      /\ n.remaining = channel.remaining /\ n.lfsr = channel.lfsr
      /\ n.narrowLfsr = narrow
  BY DEF NoiseInv, Noise!Noise
<1> HIDE DEF n
<1>3. Healthy(n, NoiseLength)
  BY <1>2, NoiseFields DEF NoiseInv, Healthy
<1>4. narrowed' \in BOOLEAN
  BY <1>1, Zenon DEF NoiseInv
<1>5. ~narrowed' => ~narrowed /\ (narrow => channel.narrowLfsr)
  BY <1>1
<1>6. n.enabled /\ ~narrowed' => Runs(n)
  BY <1>2, <1>5 DEF NoiseInv, Runs
<1>7. QED
  BY <1>1, <1>2, <1>3, <1>4, <1>6, NoiseConfigured DEF NoiseInv

LEMMA NoiseNR44 ==
  ASSUME NoiseAssumption, NoiseInv, NEW trigger \in BOOLEAN, NEW lengthOn \in BOOLEAN,
         Noise!WriteNR44(trigger, lengthOn)
  PROVE  NoiseInv'
<1> DEFINE switched == Pulse!LengthSwitched(channel, seq, lengthOn)
           started == Started(switched, seq, NoiseLength)
           ones == 2 ^ LfsrBits - 1
           n == [started EXCEPT !.lfsr = ones]
<1>1. /\ Noise!Configure(IF trigger THEN n ELSE switched)
      /\ narrowed' = (narrowed /\ ~trigger) /\ seq.powered
  BY NoiseCommon DEF Noise!WriteNR44, Noise!NR44Written, Noise!Writable
<1>2. Healthy(switched, NoiseLength) /\ Same(channel, switched) /\ (switched.enabled => channel.enabled)
  BY HealthyLengthSwitched, Sizes DEF NoiseInv
<1>3. Healthy(started, NoiseLength) /\ Same(switched, started)
  BY <1>2, HealthyTriggered, Sizes
<1> HIDE DEF switched, started
<1>4. switched \in Noise!Noise /\ (Runs(channel) => Runs(switched))
  BY <1>2, NoiseKept DEF NoiseInv
<1>5. started \in Noise!Noise
  BY <1>3, <1>4, NoiseKept
<1>6. narrowed' \in BOOLEAN
  BY <1>1, Zenon DEF NoiseInv
<1>7. CASE ~trigger
  BY <1>1, <1>2, <1>4, <1>6, <1>7, NoiseConfigured DEF NoiseInv
<1>8. CASE trigger
  <2>1. ones \in 0 .. 2 ^ LfsrBits - 1 /\ ones # 0 /\ ones % 128 # 0
    BY Powers
  <2> HIDE DEF ones
  <2>2. /\ n \in Noise!Noise /\ n.enabled = started.enabled /\ n.dac = started.dac
        /\ n.remaining = started.remaining /\ n.lfsr = ones
    BY <1>5, <2>1 DEF Noise!Noise
  <2> HIDE DEF n
  <2>3. Healthy(n, NoiseLength) /\ Runs(n)
    BY <1>3, <2>1, <2>2, NoiseFields DEF Healthy, Runs
  <2>4. QED
    BY <1>1, <1>6, <1>8, <2>2, <2>3, NoiseConfigured
<1>9. QED
  BY <1>7, <1>8

LEMMA NoiseNR52 ==
  ASSUME NoiseAssumption, NoiseInv, NEW on \in BOOLEAN, Noise!WriteNR52(on)
  PROVE  NoiseInv'
<1>1. seq' \in Pulse!Sequencer /\ seq'.powered = on
  BY SequencerType, Sizes, NoiseSequencer DEF NoiseInv, Noise!WriteNR52
<1>2. div' = div /\ narrowed' = narrowed
  BY DEF Noise!WriteNR52
<1>3. CASE on
  <2>1. channel' = channel
    BY <1>3 DEF Noise!WriteNR52
  <2>2. QED
    BY <1>1, <1>2, <1>3, <2>1 DEF NoiseInv
<1>4. CASE ~on
  <2> DEFINE left == Noise!LengthAfterPowerOff(channel)
  <2>1. channel' = [Noise!NoiseSilent EXCEPT !.remaining = left]
    BY <1>4, NoiseCommon DEF Noise!WriteNR52
  <2>2. left \in 0 .. NoiseLength
    BY Sizes DEF Noise!LengthAfterPowerOff, NoiseInv, Noise!Noise
  <2> HIDE DEF left
  <2>3. channel' \in Noise!Noise /\ Healthy(channel', NoiseLength) /\ ~channel'.enabled
    BY <2>1, <2>2, NoiseSilentType
  <2>4. QED
    BY <1>1, <1>2, <2>3 DEF NoiseInv
<1>5. QED
  BY <1>3, <1>4

LEMMA NoiseStep ==
  ASSUME NoiseAssumption, NoiseInv, [Noise!Next]_(Noise!vars)
  PROVE  NoiseInv'
<1>1. CASE Noise!WriteDiv
  <2>1. 0 \in 0 .. DivMod - 1
    BY NoiseSequencer DEF NoiseAssumption, Noise!SoundChannelAssumption
  <2>2. QED
    BY <1>1, <2>1 DEF Noise!WriteDiv, NoiseInv
<1>2. CASE UNCHANGED Noise!vars
  BY <1>2 DEF Noise!vars, NoiseInv
<1>3. QED
  BY <1>1, <1>2, NoiseTCycle, NoiseNR41, NoiseNR42, NoiseNR43, NoiseNR44, NoiseNR52,
     Zenon DEF Noise!Next, Noise!Write

LEMMA NoiseGood ==
  ASSUME NoiseAssumption, NoiseInv
  PROVE  Noise!TypeOK /\ Noise!PlayingHasLength /\ Noise!NoiseNeverFreezes
BY NoiseSequencer
   DEF NoiseInv, Healthy, Runs, Noise!TypeOK, Noise!PlayingHasLength, Noise!NoiseNeverFreezes

-----------------------------------------------------------------------------
(* The three channels in the machine.                                      *)

LEMMA ChannelAssumptions ==
  /\ PulseAssumption /\ WaveAssumption
  /\ LfsrBits = 15 /\ NarrowBits = 7 => NoiseAssumption
BY HardwareAssumption DEF PulseAssumption, WaveAssumption, NoiseAssumption

\* A behaviour is about one part.
LEMMA KindStays == [Next]_vars => kind' = kind
BY DEF Next, vars, ButFrame, ButLine, ButPulse, ButWave, ButNoise, ButTransfers, ButArithmetic

SweepInv == kind = "pulse" => PulseInv
FetchInv == kind = "wave" => WaveInv
FreezeInv == kind = "noise" => NoiseInv

LEMMA SweepInductive ==
  /\ Init => SweepInv
  /\ SweepInv /\ [Next]_vars => SweepInv'
<1>1. ASSUME Init, kind = "pulse"
      PROVE  PulseInv
  BY <1>1, PulseInit, ChannelAssumptions DEF Init
<1>2. ASSUME SweepInv, [Next]_vars, kind = "pulse"
      PROVE  PulseInv'
  <2>1. [Pulse!Next]_Pulse!vars
    BY <1>2 DEF Next, vars, soundVars, Pulse!vars
  <2>2. QED
    BY <1>2, <2>1, PulseStep, ChannelAssumptions DEF SweepInv
<1>3. QED
  BY <1>1, <1>2, KindStays DEF SweepInv

LEMMA FetchInductive ==
  /\ Init => FetchInv
  /\ FetchInv /\ [Next]_vars => FetchInv'
<1>1. ASSUME Init, kind = "wave"
      PROVE  WaveInv
  BY <1>1, WaveInit, ChannelAssumptions DEF Init
<1>2. ASSUME FetchInv, [Next]_vars, kind = "wave"
      PROVE  WaveInv'
  <2>1. [Wave!Next]_(Wave!vars)
    BY <1>2 DEF Next, vars, soundVars, waveVars, Wave!vars
  <2>2. QED
    BY <1>2, <2>1, WaveStep, ChannelAssumptions DEF FetchInv
<1>3. QED
  BY <1>1, <1>2, KindStays DEF FetchInv

LEMMA FreezeInductive ==
  ASSUME LfsrBits = 15, NarrowBits = 7
  PROVE  /\ Init => FreezeInv
         /\ FreezeInv /\ [Next]_vars => FreezeInv'
<1>1. ASSUME Init, kind = "noise"
      PROVE  NoiseInv
  BY <1>1, NoiseInit, ChannelAssumptions DEF Init
<1>2. ASSUME FreezeInv, [Next]_vars, kind = "noise"
      PROVE  NoiseInv'
  <2>1. [Noise!Next]_(Noise!vars)
    BY <1>2 DEF Next, vars, soundVars, Noise!vars
  <2>2. QED
    BY <1>2, <2>1, NoiseStep, ChannelAssumptions DEF FreezeInv
<1>3. QED
  BY <1>1, <1>2, KindStays DEF FreezeInv

\* The sweep of channel 1 stops its note before the period overflows, whatever
\* is written in either half of the period and for all widths of it; and one
\* that has subtracted never adds.
THEOREM SweepTheorem == Spec => []SweepStopsInTime
<1>1. SweepInv => SweepStopsInTime
  BY PulseGood, ChannelAssumptions DEF SweepInv, SweepStopsInTime
<1>2. QED
  BY <1>1, SweepInductive, PTL DEF Spec

\* Whatever the program writes, on a DMG the CPU gets at wave RAM in the T-cycle
\* of a fetch only, and at the byte fetched, for every period and every size of
\* wave RAM.
THEOREM FetchTheorem == Spec => AccessesMeetFetches
<1>1. FetchInv /\ [Next]_vars => [kind = "wave" => Wave!AccessMeetsFetch]_vars
  BY WaveMeets, ChannelAssumptions DEF FetchInv
<1>2. QED
  BY <1>1, FetchInductive, PTL DEF Spec, AccessesMeetFetches

\* The 15 bits of the shift register of a note never come to zero, in either
\* mode, unless narrow mode was switched on in its middle.
THEOREM FreezeTheorem ==
  ASSUME LfsrBits = 15, NarrowBits = 7
  PROVE  Spec => []NoiseNeverFreezes
<1>1. FreezeInv => NoiseNeverFreezes
  BY NoiseGood, ChannelAssumptions DEF FreezeInv, NoiseNeverFreezes
<1>2. QED
  BY <1>1, FreezeInductive, PTL DEF Spec

\* A note of any channel that plays has its DAC on, the APU on, and something
\* left of its length counter, for every length and every phase of the frame
\* sequencer.
THEOREM PlayingTheorem ==
  ASSUME LfsrBits = 15, NarrowBits = 7
  PROVE  Spec => []PlayingHasLength
<1>1. SweepInv /\ FetchInv /\ FreezeInv => PlayingHasLength
  BY PulseGood, WaveGood, NoiseGood, ChannelAssumptions
     DEF SweepInv, FetchInv, FreezeInv, PlayingHasLength
<1>2. QED
  BY <1>1, SweepInductive, FetchInductive, FreezeInductive, PTL DEF Spec
=============================================================================
