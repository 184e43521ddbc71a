---------------------------- MODULE WaveChannel -----------------------------
(***************************************************************************)
(* Channel 3 of the APU plays the wave RAM, which the CPU may read and     *)
(* write at the same time: on a DMG only in the T-cycles in which the      *)
(* channel is at it, and a new note begun one T-cycle before a fetch       *)
(* spoils its first bytes.                                                 *)
(*                                                                         *)
(* One step is a T-cycle of the APU or a store of the CPU; between two     *)
(* accesses there is at least one T-cycle (there are four).                *)
(***************************************************************************)
EXTENDS SoundChannel

CONSTANTS
  RamSize,        \* bytes of wave RAM (16), two samples each
  GroupSize,      \* bytes that a badly timed trigger copies (4)
  PeriodLow,      \* values of NR33 (256)
  PeriodHigh,     \* values of the low bits of NR34 (8)
  StartupDelay,   \* T-cycles a new note waits before its first fetch (5)
  Bytes,          \* what the program stores to wave RAM
  Blocked         \* what a load reads that is not let through (0xFF)

WaveChannelAssumption ==
  /\ GroupSize \in Nat \ {0} /\ RamSize \in Nat /\ RamSize > GroupSize
  /\ RamSize % GroupSize = 0
  /\ PeriodLow \in Nat \ {0} /\ PeriodHigh \in Nat \ {0}
  /\ StartupDelay \in Nat
  /\ 0 \in Bytes /\ Blocked \notin Bytes \union (0 .. RamSize - 1)

VARIABLES
  div, seq,     \* see PulseChannel
  channel,      \* m_wave
  waveRam,      \* its configuration.waveRam
  accessed,     \* the CPU has had its access in this T-cycle
  justFetched,  \* history: this T-cycle fetched a byte
  lastFetched   \* history: byte that the note fetched last, or Blocked

vars == <<div, seq, channel, waveRam, accessed, justFetched, lastFetched>>

PeriodBase == PeriodLow * PeriodHigh
Addresses == 0 .. RamSize - 1
Samples == 2 * RamSize

Wave ==
  [enabled : BOOLEAN, dac : BOOLEAN, lengthEnabled : BOOLEAN,
   remaining : 0 .. MaxLength, period : 0 .. PeriodBase - 1,
   periodCounter : 0 .. 2 * PeriodBase - 1 + StartupDelay,
   waveRamIndex : 0 .. Samples - 1,
   accessWindow : BOOLEAN, hasFetched : BOOLEAN]

\* WaveChannel{}
WaveSilent ==
  [enabled |-> FALSE, dac |-> FALSE, lengthEnabled |-> FALSE, remaining |-> 0,
   period |-> 0, periodCounter |-> 0, waveRamIndex |-> 0,
   accessWindow |-> FALSE, hasFetched |-> FALSE]

TypeOK ==
  /\ div \in 0 .. DivMod - 1
  /\ seq \in Sequencer
  /\ channel \in Wave
  /\ waveRam \in [Addresses -> Bytes]
  /\ accessed \in BOOLEAN /\ justFetched \in BOOLEAN
  /\ lastFetched \in Addresses \union {Blocked}

Init ==
  /\ div = 0 /\ seq = SequencerInit
  /\ channel = WaveSilent
  /\ waveRam = [i \in Addresses |-> 0]
  /\ accessed = FALSE /\ justFetched = FALSE /\ lastFetched = Blocked

-----------------------------------------------------------------------------
Reload(c) == 2 * (PeriodBase - c.period) - 1

\* A T-cycle that fetches the next sample.
Fetches(c) == c.enabled /\ c.periodCounter = 0

\* Mutant: the window stays open until the next fetch.
PlayedWindowOpen(c) ==
  IF ~c.enabled THEN c
  ELSE IF Fetches(c)
  THEN [c EXCEPT !.periodCounter = Reload(c), !.accessWindow = TRUE,
                 !.hasFetched = TRUE, !.waveRamIndex = (@ + 1) % Samples]
  ELSE [c EXCEPT !.periodCounter = @ - 1]

\* WaveChannel::runNextTCycle()
Played(c) ==
  IF ~c.enabled THEN c
  ELSE IF Fetches(c)
  THEN [c EXCEPT !.periodCounter = Reload(c), !.accessWindow = TRUE,
                 !.hasFetched = TRUE, !.waveRamIndex = (@ + 1) % Samples]
  ELSE [c EXCEPT !.periodCounter = @ - 1, !.accessWindow = FALSE]

\* What a load from address reads: readWaveRam()
WaveRamRead(address) ==
  IF ~channel.enabled THEN waveRam[address]
  ELSE IF ~IsCgbHardware /\ ~channel.accessWindow THEN Blocked
  ELSE waveRam[channel.waveRamIndex \div 2]

\* The byte a store to address goes to, if it is let through: writeWaveRam()
WaveRamWritten(address) ==
  IF ~channel.enabled THEN address
  ELSE IF ~IsCgbHardware /\ ~(channel.periodCounter = 2 /\ channel.hasFetched)
  THEN Blocked
  ELSE channel.waveRamIndex \div 2

\* What a new note makes of wave RAM: on a DMG, one T-cycle before a fetch,
\* the group that is about to be played is copied to the first one.
Spoiled(c) ==
  LET byteIndex == ((c.waveRamIndex + 1) \div 2) % RamSize
      group     == (byteIndex \div GroupSize) * GroupSize
  IN  IF IsCgbHardware \/ ~Fetches(c) THEN waveRam
      ELSE IF byteIndex < GroupSize THEN [waveRam EXCEPT ![0] = waveRam[byteIndex]]
      ELSE [i \in Addresses |-> waveRam[IF i < GroupSize THEN group + i ELSE i]]

\* Mutant: what the note before has fetched lets stores through.
WaveRestartedWarm(c) ==
  [c EXCEPT !.waveRamIndex = 0, !.periodCounter = Reload(c) + StartupDelay]

\* NR34 bit 7, the part of channel 3.
WaveRestarted(c) ==
  [c EXCEPT !.waveRamIndex = 0, !.hasFetched = FALSE,
            !.periodCounter = Reload(c) + StartupDelay]

-----------------------------------------------------------------------------
(* Actions.                                                                *)

RunNextTCycle ==
  /\ div' = (div + 1) % DivMod
  /\ seq' = SequencerAfter(seq, div')
  /\ LET clocked == IF Falls(seq, div') /\ ClocksLength(seq)
                    THEN ClockLength(channel) ELSE channel
     IN  /\ channel' = Played(clocked)
         /\ justFetched' = Fetches(clocked)
         /\ lastFetched' = IF Fetches(clocked) THEN channel'.waveRamIndex \div 2
                           ELSE lastFetched
  /\ accessed' = FALSE
  /\ UNCHANGED waveRam

Access == ~accessed /\ accessed' = TRUE

\* A store to a register of the channel that starts no note.
Configure(to) == channel' = to /\ UNCHANGED <<div, seq, waveRam, justFetched, lastFetched>>

WriteDiv ==
  /\ Access /\ div' = 0
  /\ UNCHANGED <<seq, channel, waveRam, justFetched, lastFetched>>

WriteNR30(dac) == Access /\ Writable(seq) /\ Configure(DacSet(channel, dac))

WriteNR31(timer) ==
  Access /\ LengthWritable(seq) /\ Configure(LengthLoaded(channel, timer))

WriteNR33(low) ==
  /\ Access /\ Writable(seq)
  /\ Configure([channel EXCEPT !.period = @ - (@ % PeriodLow) + low])

\* NR34 up to the trigger bit.
NR34Set(c, lengthOn, high) ==
  [LengthSwitched(c, seq, lengthOn) EXCEPT !.period = high * PeriodLow + (@ % PeriodLow)]

WriteNR34(trigger, lengthOn, high) ==
  /\ Access /\ Writable(seq)
  /\ LET set == NR34Set(channel, lengthOn, high)
     IN  IF ~trigger THEN Configure(set)
         ELSE /\ channel' = WaveRestarted(Triggered(set, seq))
              /\ waveRam' = Spoiled(set)
              /\ lastFetched' = Blocked
              /\ UNCHANGED <<div, seq, justFetched>>

WriteNR52(on) ==
  /\ Access
  /\ seq' = Powered(seq, on)
  /\ channel' = IF on THEN channel
                ELSE [WaveSilent EXCEPT !.remaining = LengthAfterPowerOff(channel)]
  /\ UNCHANGED <<div, waveRam, justFetched, lastFetched>>

WriteWaveRam(address, byte) ==
  /\ Access
  /\ waveRam' = [i \in Addresses |->
                   IF i = WaveRamWritten(address) THEN byte ELSE waveRam[i]]
  /\ UNCHANGED <<div, seq, channel, justFetched, lastFetched>>

Write ==
  \/ WriteDiv
  \/ \E on \in BOOLEAN : WriteNR52(on) \/ WriteNR30(on)
  \/ \E timer \in 0 .. MaxLength - 1 : WriteNR31(timer)
  \/ \E low \in 0 .. PeriodLow - 1 : WriteNR33(low)
  \/ \E trigger, lengthOn \in BOOLEAN, high \in 0 .. PeriodHigh - 1 :
       WriteNR34(trigger, lengthOn, high)
  \/ \E address \in Addresses, byte \in Bytes : WriteWaveRam(address, byte)

Next == RunNextTCycle \/ Write

Spec == Init /\ [][Next]_vars

-----------------------------------------------------------------------------
(* Properties.                                                             *)

\* A note that plays has something left that will stop it (see PulseChannel).
PlayingHasLength ==
  channel.enabled => channel.dac /\ channel.remaining > 0 /\ seq.powered

\* While a note plays on a DMG, a load is let through in the T-cycle of a fetch
\* only, and reads the byte fetched, ...
LoadMeetsFetch ==
  ~IsCgbHardware /\ channel.enabled /\ ~accessed =>
    \A address \in Addresses :
      WaveRamRead(address) # Blocked =>
        justFetched /\ WaveRamRead(address) = waveRam[lastFetched]

\* ... and a store changes no other byte than the one this note fetched last.
StoreMeetsFetch ==
  ~IsCgbHardware /\ channel.enabled
  /\ (\E address \in Addresses, byte \in Bytes : WriteWaveRam(address, byte))
  => \A i \in Addresses : i # lastFetched => waveRam'[i] = waveRam[i]

\* Both together, ...
AccessMeetsFetch == LoadMeetsFetch /\ StoreMeetsFetch

\* ... at every step.
AccessesMeetFetches == [][AccessMeetsFetch]_vars
=============================================================================
