---------------------------- MODULE NoiseChannel ----------------------------
(***************************************************************************)
(* Channel 4 of the APU: the noise is bit 0 of a shift register that is    *)
(* clocked every divisor * 2^clockShift T-cycles.  One step is a T-cycle   *)
(* of the APU or a store.                                                  *)
(***************************************************************************)
EXTENDS SoundChannel

CONSTANTS
  LfsrBits,     \* bits of the shift register (15)
  NarrowBits,   \* bits that count in narrow mode (7)
  DivisorUnit,  \* smallest divisor (8)
  Dividers,     \* what the program writes to NR43 bits 0-2
  ClockShifts,  \* what the program writes to NR43 bits 4-7
  CounterMod    \* values of the period counter (2^16)

NoiseChannelAssumption ==
  /\ NarrowBits \in Nat \ {0} /\ LfsrBits \in Nat /\ NarrowBits < LfsrBits
  /\ DivisorUnit \in Nat \ {0}
  /\ 0 \in Dividers /\ Dividers \subseteq 0 .. 7
  /\ 0 \in ClockShifts /\ ClockShifts \subseteq 0 .. 15
  /\ CounterMod \in Nat \ {0}

VARIABLES
  div, seq,  \* see PulseChannel
  channel,   \* m_noise
  narrowed   \* history: narrow mode was switched on in the middle of a note

vars == <<div, seq, channel, narrowed>>

Noise ==
  [enabled : BOOLEAN, dac : BOOLEAN, lengthEnabled : BOOLEAN,
   remaining : 0 .. MaxLength,
   clockShift : ClockShifts, narrowLfsr : BOOLEAN, clockDivider : Dividers,
   periodCounter : 0 .. CounterMod - 1, lfsr : 0 .. 2 ^ LfsrBits - 1]

\* NoiseChannel{}
NoiseSilent ==
  [enabled |-> FALSE, dac |-> FALSE, lengthEnabled |-> FALSE, remaining |-> 0,
   clockShift |-> 0, narrowLfsr |-> FALSE, clockDivider |-> 0,
   periodCounter |-> 0, lfsr |-> 0]

TypeOK ==
  /\ div \in 0 .. DivMod - 1
  /\ seq \in Sequencer
  /\ channel \in Noise
  /\ narrowed \in BOOLEAN

Init == div = 0 /\ seq = SequencerInit /\ channel = NoiseSilent /\ narrowed = FALSE

-----------------------------------------------------------------------------
\* divisorTable
Divisor(n) == IF n = 0 THEN DivisorUnit ELSE 2 * DivisorUnit * n

Period(c) == Divisor(c.clockDivider) * 2 ^ c.clockShift

\* The counter is 16 bits wide.
Reload(c) == (Period(c) - 1) % CounterMod

Bit(value, i) == (value \div 2 ^ i) % 2

\* The XOR of the two lowest bits is shifted in at the top, and in narrow mode
\* at NarrowBits as well.
Shifted(c) ==
  LET feedback == (Bit(c.lfsr, 0) + Bit(c.lfsr, 1)) % 2
      shifted  == c.lfsr \div 2 + feedback * 2 ^ (LfsrBits - 1)
      narrow   == NarrowBits - 1
  IN  IF c.narrowLfsr
      THEN shifted + (feedback - Bit(shifted, narrow)) * 2 ^ narrow
      ELSE shifted

\* NoiseChannel::runNextTCycle()
Played(c) ==
  IF ~c.enabled THEN c
  ELSE IF c.periodCounter = 0
  THEN [c EXCEPT !.periodCounter = Reload(c), !.lfsr = Shifted(c)]
  ELSE [c EXCEPT !.periodCounter = @ - 1]

-----------------------------------------------------------------------------
(* Actions.                                                                *)

RunNextTCycle ==
  /\ div' = (div + 1) % DivMod
  /\ seq' = SequencerAfter(seq, div')
  /\ channel' = Played(IF Falls(seq, div') /\ ClocksLength(seq)
                       THEN ClockLength(channel) ELSE channel)
  /\ UNCHANGED narrowed

\* A store that sets the channel to what it says.
Configure(to) == channel' = to /\ UNCHANGED <<div, seq>>

WriteDiv == div' = 0 /\ UNCHANGED <<seq, channel, narrowed>>

WriteNR41(timer) ==
  /\ LengthWritable(seq) /\ Configure(LengthLoaded(channel, timer))
  /\ UNCHANGED narrowed

WriteNR42(dac) ==
  /\ Writable(seq) /\ Configure(DacSet(channel, dac))
  /\ UNCHANGED narrowed

WriteNR43(clockShift, narrow, clockDivider) ==
  /\ Writable(seq)
  /\ Configure([channel EXCEPT !.clockShift = clockShift, !.narrowLfsr = narrow,
                               !.clockDivider = clockDivider])
  /\ narrowed' = (narrowed \/ (narrow /\ ~channel.narrowLfsr))

\* Mutant: a note goes on from where the register is.
NR44WrittenUnreset(c, s, trigger, lengthOn) ==
  LET switched == LengthSwitched(c, s, lengthOn)
  IN  IF trigger THEN Triggered(switched, s) ELSE switched

\* NR44: the counter's switch, and a note, for which the register is all ones.
NR44Written(c, s, trigger, lengthOn) ==
  LET switched == LengthSwitched(c, s, lengthOn)
  IN  IF trigger THEN [Triggered(switched, s) EXCEPT !.lfsr = 2 ^ LfsrBits - 1]
      ELSE switched

WriteNR44(trigger, lengthOn) ==
  /\ Writable(seq) /\ Configure(NR44Written(channel, seq, trigger, lengthOn))
  /\ narrowed' = (narrowed /\ ~trigger)

WriteNR52(on) ==
  /\ seq' = Powered(seq, on)
  /\ channel' = IF on THEN channel
                ELSE [NoiseSilent EXCEPT !.remaining = LengthAfterPowerOff(channel)]
  /\ UNCHANGED <<div, narrowed>>

Write ==
  \/ WriteDiv
  \/ \E on \in BOOLEAN : WriteNR52(on) \/ WriteNR42(on)
  \/ \E timer \in 0 .. MaxLength - 1 : WriteNR41(timer)
  \/ \E clockShift \in ClockShifts, narrow \in BOOLEAN, clockDivider \in Dividers :
       WriteNR43(clockShift, narrow, clockDivider)
  \/ \E trigger, lengthOn \in BOOLEAN : WriteNR44(trigger, lengthOn)

Next == RunNextTCycle \/ Write

Spec == Init /\ [][Next]_vars

-----------------------------------------------------------------------------
(* Properties.                                                             *)

\* A note that plays has something left that will stop it (see PulseChannel).
PlayingHasLength ==
  channel.enabled => channel.dac /\ channel.remaining > 0 /\ seq.powered

\* A note never comes to the register of all zeros, from which no shift leads
\* away, unless narrow mode was switched on in its middle.
NoiseNeverFreezes == channel.enabled /\ ~narrowed => channel.lfsr # 0
=============================================================================
