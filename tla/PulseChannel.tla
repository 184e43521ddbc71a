---------------------------- MODULE PulseChannel ----------------------------
(***************************************************************************)
(* Channel 1 of the APU: length counter and frequency sweep, under every   *)
(* sequence of stores to NR10..NR14, NR52 and DIV.  (Channel 2 is the same *)
(* without NR10.)  One step is a T-cycle of the APU or a store.            *)
(***************************************************************************)
EXTENDS SoundChannel

CONSTANTS
  PeriodLow,        \* values of NR13 (256)
  PeriodHigh,       \* values of the low bits of NR14 (8)
  Shifts, Paces,    \* what the program writes to NR10
  PaceWhenZero      \* what the sweep timer is loaded with for pace 0 (8)

PulseChannelAssumption ==
  /\ PeriodLow \in Nat \ {0} /\ PeriodHigh \in Nat \ {0}
  /\ Shifts \subseteq 0 .. 7 /\ Paces \subseteq 0 .. 7
  /\ PaceWhenZero \in Nat \ {0}

VARIABLES
  div,      \* Mmu::m_divCounter, up to the bit that is watched
  seq,      \* the frame sequencer
  channel   \* m_pulse1

vars == <<div, seq, channel>>

MaxPeriod == PeriodLow * PeriodHigh - 1

Pulse1 ==
  [enabled : BOOLEAN, dac : BOOLEAN, lengthEnabled : BOOLEAN,
   remaining : 0 .. MaxLength,
   period : 0 .. MaxPeriod,
   pace : Paces \union {0}, isIncrease : BOOLEAN, shift : Shifts \union {0},
   shadowPeriod : 0 .. MaxPeriod,
   sweepTimer : Nat, sweepEnabled : BOOLEAN, negateModeUsed : BOOLEAN,
   checked : BOOLEAN,     \* history: NR10 is what the last overflow check used
   subtracted : BOOLEAN]  \* history: the sweep of this note has subtracted

\* PulseChannel1{}
Pulse1Silent ==
  [enabled |-> FALSE, dac |-> FALSE, lengthEnabled |-> FALSE, remaining |-> 0,
   period |-> 0, pace |-> 0, isIncrease |-> FALSE, shift |-> 0,
   shadowPeriod |-> 0, sweepTimer |-> 0, sweepEnabled |-> FALSE,
   negateModeUsed |-> FALSE, checked |-> FALSE, subtracted |-> FALSE]

TypeOK ==
  /\ div \in 0 .. DivMod - 1
  /\ seq \in Sequencer
  /\ channel \in Pulse1

Init == div = 0 /\ seq = SequencerInit /\ channel = Pulse1Silent

-----------------------------------------------------------------------------
Delta(c) == c.shadowPeriod \div 2 ^ c.shift

NewPeriod(c) ==
  IF c.isIncrease THEN c.shadowPeriod + Delta(c) ELSE c.shadowPeriod - Delta(c)

\* Mutant: subtracting leaves no trace.
CalculateSweepForgets(c) ==
  [c EXCEPT !.enabled = @ /\ NewPeriod(c) <= MaxPeriod,
            !.checked = TRUE, !.subtracted = @ \/ ~c.isIncrease]

\* calculateSweepFrequency(): besides NewPeriod, what it does to the channel.
CalculateSweepFrequency(c) ==
  [c EXCEPT !.negateModeUsed = @ \/ ~c.isIncrease,
            !.enabled = @ /\ NewPeriod(c) <= MaxPeriod,
            !.checked = TRUE, !.subtracted = @ \/ ~c.isIncrease]

SweepReload(c) == IF c.pace # 0 THEN c.pace ELSE PaceWhenZero

\* Mutant: the period that comes next is not looked at.
SweptOnce(c) ==
  LET once == CalculateSweepFrequency(c)
  IN  IF NewPeriod(c) > MaxPeriod \/ c.shift = 0 THEN once
      ELSE [once EXCEPT !.shadowPeriod = NewPeriod(c), !.period = NewPeriod(c)]

\* An iteration of the sweep: the new period, and a second check.
Swept(c) ==
  LET once == CalculateSweepFrequency(c)
  IN  IF NewPeriod(c) > MaxPeriod \/ c.shift = 0 THEN once
      ELSE CalculateSweepFrequency(
             [once EXCEPT !.shadowPeriod = NewPeriod(c), !.period = NewPeriod(c)])

ClockSweep(c) ==
  LET timer    == IF c.sweepTimer > 0 THEN c.sweepTimer - 1 ELSE 0
      reloaded == [c EXCEPT !.sweepTimer = SweepReload(c)]
  IN  IF timer # 0 THEN [c EXCEPT !.sweepTimer = timer]
      ELSE IF c.sweepEnabled /\ c.pace # 0 THEN Swept(reloaded)
      ELSE reloaded

\* NR14 bit 7, the part of channel 1.
SweepTriggered(c) ==
  LET started == [c EXCEPT !.shadowPeriod = c.period, !.negateModeUsed = FALSE,
                           !.sweepTimer = SweepReload(c),
                           !.checked = TRUE, !.subtracted = FALSE,
                           !.sweepEnabled = c.pace # 0 \/ c.shift # 0]
  IN  IF c.shift # 0 THEN CalculateSweepFrequency(started) ELSE started

-----------------------------------------------------------------------------
(* Actions.                                                                *)

\* Mmu::runNextTCycle() counts the divider, Apu::runNextTCycle() watches it.
RunNextTCycle ==
  /\ div' = (div + 1) % DivMod
  /\ seq' = SequencerAfter(seq, div')
  /\ channel' =
       IF ~Falls(seq, div') THEN channel
       ELSE LET swept == IF ClocksSweep(seq) THEN ClockSweep(channel) ELSE channel
            IN  IF ClocksLength(seq) THEN ClockLength(swept) ELSE swept

\* A store to DIV, or a speed switch.
WriteDiv == div' = 0 /\ UNCHANGED <<seq, channel>>

\* Mutant: leaving subtraction is not noticed.
NR10WrittenQuietly(c, pace, increase, shift) ==
  [c EXCEPT !.pace = pace, !.isIncrease = increase, !.shift = shift,
            !.checked = FALSE]

NR10Written(c, pace, increase, shift) ==
  [c EXCEPT !.pace = pace, !.isIncrease = increase, !.shift = shift,
            !.enabled = @ /\ ~(~c.isIncrease /\ increase /\ c.negateModeUsed),
            !.checked = FALSE]

WriteNR10(pace, increase, shift) ==
  /\ Writable(seq)
  /\ channel' = NR10Written(channel, pace, increase, shift)
  /\ UNCHANGED <<div, seq>>

WriteNR11(timer) ==
  /\ LengthWritable(seq)
  /\ channel' = LengthLoaded(channel, timer)
  /\ UNCHANGED <<div, seq>>

WriteNR12(dac) ==
  /\ Writable(seq)
  /\ channel' = DacSet(channel, dac)
  /\ UNCHANGED <<div, seq>>

WriteNR13(low) ==
  /\ Writable(seq)
  /\ channel' = [channel EXCEPT !.period = @ - (@ % PeriodLow) + low]
  /\ UNCHANGED <<div, seq>>

\* NR14: the counter's switch, the upper bits of the period, and a note.
NR14Written(c, s, trigger, lengthOn, high) ==
  LET switched == LengthSwitched(c, s, lengthOn)
      tuned    == [switched EXCEPT !.period = high * PeriodLow + (@ % PeriodLow)]
  IN  IF trigger THEN SweepTriggered(Triggered(tuned, s)) ELSE tuned

WriteNR14(trigger, lengthOn, high) ==
  /\ Writable(seq)
  /\ channel' = NR14Written(channel, seq, trigger, lengthOn, high)
  /\ UNCHANGED <<div, seq>>

WriteNR52(on) ==
  /\ seq' = Powered(seq, on)
  /\ channel' = IF on THEN channel
                ELSE [Pulse1Silent EXCEPT !.remaining = LengthAfterPowerOff(channel)]
  /\ UNCHANGED div

Write ==
  \/ WriteDiv
  \/ \E on \in BOOLEAN : WriteNR52(on) \/ WriteNR12(on)
  \/ \E pace \in Paces, increase \in BOOLEAN, shift \in Shifts :
       WriteNR10(pace, increase, shift)
  \/ \E timer \in 0 .. MaxLength - 1 : WriteNR11(timer)
  \/ \E low \in 0 .. PeriodLow - 1 : WriteNR13(low)
  \/ \E trigger, lengthOn \in BOOLEAN, high \in 0 .. PeriodHigh - 1 :
       WriteNR14(trigger, lengthOn, high)

Next == RunNextTCycle \/ Write

Spec == Init /\ [][Next]_vars

-----------------------------------------------------------------------------
(* Properties.                                                             *)

\* A note that plays has something left that will stop it, its DAC on and the
\* APU on, whatever was written and clocked in between.
PlayingHasLength ==
  channel.enabled => channel.dac /\ channel.remaining > 0 /\ seq.powered

\* The period that the sweep would come to next is one that the 11 bits hold,
\* for as long as the channel plays and NR10 is what the last check saw.
SweepStopsInTime ==
  channel.enabled /\ channel.sweepEnabled /\ channel.checked /\ channel.shift # 0
  => NewPeriod(channel) \in 0 .. MaxPeriod

\* A sweep that has subtracted since its note began never adds while it plays,
\* whenever NR10 was written.
SubtractionIsFinal == channel.enabled /\ channel.isIncrease => ~channel.subtracted
=============================================================================
