---------------------------- MODULE SoundChannel ----------------------------
(***************************************************************************)
(* What the four channels of the APU have in common: the frame sequencer   *)
(* of Apu::runNextTCycle(), and the switch, DAC and length counter of a    *)
(* channel, with the parts of Apu::writeRegister() that deal with them.    *)
(*                                                                         *)
(* A channel is a record with (at least) the fields of Channel.  Volume,   *)
(* duty, panning and samples only reach the mixer and are left out; of an  *)
(* envelope remains whether it turns the DAC on (isDacEnabled()).          *)
(***************************************************************************)
EXTENDS Integers

CONSTANTS
  MaxLength,  \* ticks of the length counter: 64, and 256 for channel 3
  Steps,      \* steps of the frame sequencer (8)
  DivMod,     \* the divider counts modulo DivMod, and the sequencer
              \* watches its upper half (bit 12, so 8192)
  IsCgbHardware

SoundChannelAssumption ==
  /\ MaxLength \in Nat \ {0}
  /\ Steps \in Nat \ {0} /\ Steps % 4 = 0
  /\ DivMod \in Nat \ {0} /\ DivMod % 2 = 0
  /\ IsCgbHardware \in BOOLEAN

Sequencer == [powered : BOOLEAN, bit : BOOLEAN, step : 0 .. Steps - 1]

SequencerInit == [powered |-> FALSE, bit |-> FALSE, step |-> 0]

DivBit(div) == div >= DivMod \div 2

\* The bit of the divider has fallen: the sequencer takes a step.
Falls(s, div) == s.powered /\ s.bit /\ ~DivBit(div)

\* The bit is followed even while the APU is off, the step is not.
SequencerAfter(s, div) ==
  [s EXCEPT !.bit = DivBit(div),
            !.step = IF Falls(s, div) THEN (@ + 1) % Steps ELSE @]

ClocksLength(s) == s.step % 2 = 0
ClocksSweep(s) == s.step % 4 = 2

\* frameSequencerWontClockLengthNext()
WontClockLengthNext(s) == s.step % 2 # 0

\* NR52 bit 7.  Only switching on touches the step.
Powered(s, on) ==
  [s EXCEPT !.powered = on, !.step = IF on /\ ~s.powered THEN 0 ELSE @]

-----------------------------------------------------------------------------
Channel == [enabled : BOOLEAN, dac : BOOLEAN, lengthEnabled : BOOLEAN,
            remaining : 0 .. MaxLength]

\* Mutant: a counter at zero is taken for one that has not been started.
ClockLengthLate(c) ==
  IF ~c.lengthEnabled \/ c.remaining = 0 THEN c
  ELSE [c EXCEPT !.remaining = @ - 1]

ClockLength(c) ==
  IF ~c.lengthEnabled \/ c.remaining = 0 THEN c
  ELSE [c EXCEPT !.remaining = @ - 1, !.enabled = @ /\ c.remaining > 1]

\* NR11, NR21, NR31, NR41
LengthLoaded(c, timer) == [c EXCEPT !.remaining = MaxLength - timer]

\* Mutant: a channel plays on without its DAC.
DacSetOnly(c, on) == [c EXCEPT !.dac = on]

\* NR12, NR22, NR42 and NR30
DacSet(c, on) == [c EXCEPT !.dac = on, !.enabled = @ /\ on]

\* NRx4 bit 6: switching the counter on in the wrong half of its period
\* clocks it at once.
LengthSwitched(c, s, on) ==
  LET switched == [c EXCEPT !.lengthEnabled = on]
  IN  IF on /\ ~c.lengthEnabled /\ WontClockLengthNext(s)
      THEN ClockLength(switched) ELSE switched

\* Mutant: the counter of a new note is not refilled.
TriggeredUnfilled(c, s) == [c EXCEPT !.enabled = c.dac]

\* NRx4 bit 7: a new note, whose counter is refilled if it has run out.
Triggered(c, s) ==
  LET started == [c EXCEPT !.enabled = c.dac]
      filled  == [started EXCEPT !.remaining = MaxLength]
  IN  IF c.remaining # 0 THEN started
      ELSE IF c.lengthEnabled /\ WontClockLengthNext(s) THEN ClockLength(filled)
      ELSE filled

\* What is left of the counter when NR52 switches the APU off.
LengthAfterPowerOff(c) == IF IsCgbHardware THEN 0 ELSE c.remaining

\* Mmu::writeByte(): which of the registers take a store while it is off.
Writable(s) == s.powered
LengthWritable(s) == s.powered \/ ~IsCgbHardware
=============================================================================
