---------------------------- MODULE SessionProofs ----------------------------
(***************************************************************************)
(* Theorems about Session, for every set of mappers and number of frames.  *)
(*                                                                         *)
(* OneMachine is nearly inductive.  What it lacks is that the session's    *)
(* ROM is never one that the mode rejects, so that a mapper put in place   *)
(* by a rejected loadRom() is never taken for the session's own; and that  *)
(* what was saved on the session's machine still is a state of it.         *)
(***************************************************************************)
EXTENDS Session, TLAPS

LoadedRoms == [mapper : Layouts, cgb : CgbFlags]

\* The mode admits the ROM of the session.
Admitted == romBytes # None => Compatible(model, romBytes)

\* What the session's machine looks like when it is whole.
WholeState(origin, parts) ==
  origin.rom # None =>
    \E frames \in 0 .. MaxFrames :
      parts = Everywhere([rom |-> origin.rom, hw |-> origin.hw, frames |-> frames])

SavedIsWhole ==
  saved # None /\ saved.origin # None =>
    /\ saved.layout = LayoutOf(saved.origin.rom)
    /\ WholeState(saved.origin, saved.state)

IInv == TypeOK /\ Admitted /\ SavedIsWhole /\ OneMachine

-----------------------------------------------------------------------------
\* A ROM that loadRom() does not reject has a mapper that there is.
LEMMA SupportedRoms ==
  ASSUME NEW rom \in Roms, Supported(rom)
  PROVE  rom \in LoadedRoms
BY DEF Roms, Supported, Unsupported, LoadedRoms

LEMMA RomsOfMoments == LoadedRoms \subseteq Roms
BY DEF LoadedRoms, Roms

LEMMA HardwareType ==
  ASSUME NEW mode, NEW rom
  PROVE  HardwareFor(mode, rom) \in HardwareModes
BY DEF HardwareFor, HardwareModes

LEMMA FreshType ==
  ASSUME NEW mode, NEW rom \in LoadedRoms
  PROVE  Fresh(mode, rom) \in Moments
BY HardwareType, RomsOfMoments, SessionAssumption DEF Fresh, Moments

LEMMA EverywhereType ==
  ASSUME NEW moment \in Moments \union {Garbled}
  PROVE  Everywhere(moment) \in States
BY DEF Everywhere, States

LEMMA OwnType ==
  ASSUME TypeOK
  PROVE  Own \in Origins
<1>1. Hardware \in HardwareModes
  BY HardwareType DEF Hardware, HardwareModes
<1>2. romBytes \in Roms \union {None}
  BY RomsOfMoments DEF TypeOK, LoadedRoms
<1>3. QED
  BY <1>1, <1>2 DEF Own, Origins

\* The parts that are read back from the backup are all of them: however far a
\* load had come, what it leaves is the state before it.
LEMMA BackupRestores ==
  ASSUME TypeOK, NEW read
  PROVE  Restored(read, state) = state
<1>1. \A part \in Parts : Position[part] <= 6
  BY DEF Parts, Position
<1>2. state \in [Parts -> Moments \union {Garbled}]
  BY DEF TypeOK, States
<1>3. QED
  BY <1>1, <1>2 DEF Restored, Deserialized

LEMMA DataReadType ==
  ASSUME TypeOK, saved # None
  PROVE  DataRead \in States
BY DEF TypeOK, Saves, States, DataRead

-----------------------------------------------------------------------------
LEMMA InitInv == Init => IInv
<1>1. SUFFICES ASSUME Init PROVE IInv
  OBVIOUS
<1>2. [rom |-> None, hw |-> "Dmg", frames |-> 0] \in Moments
  BY SessionAssumption DEF Moments, HardwareModes
<1>3. TypeOK
  BY <1>1, <1>2, EverywhereType DEF Init, TypeOK, Results
<1>4. Admitted /\ SavedIsWhole /\ OneMachine
  BY <1>1 DEF Init, Admitted, SavedIsWhole, OneMachine
<1>5. QED
  BY <1>3, <1>4 DEF IInv

\* What a call that may end in reset() makes of the session: it is rejected and
\* changes nothing, the program ends, or every part starts anew.
Outcome ==
  /\ UNCHANGED saved
  /\ \/ result' = "rejected" /\ UNCHANGED machine
     \/ /\ result' = "aborted" /\ UNCHANGED <<mapper, state, foreign>>
        /\ model' \in Modes /\ romBytes' \in LoadedRoms \union {None}
        /\ Admitted'
     \/ /\ result' = "ok" /\ foreign' = FALSE
        /\ model' \in Modes /\ romBytes' \in LoadedRoms /\ mapper' = romBytes'
        /\ Compatible(model', romBytes')
        /\ state' = Everywhere(Fresh(model', romBytes'))

LEMMA LoadRomOutcome ==
  ASSUME TypeOK, NEW rom \in Roms, LoadRom(rom)
  PROVE  Outcome
<1>1. CASE ~Supported(rom)
  BY <1>1 DEF LoadRom, Reject, Outcome
<1>2. CASE Supported(rom)
  <2>1. /\ UNCHANGED <<saved, model>> /\ Compatible(model, rom)
        /\ romBytes' = rom /\ rom \in LoadedRoms /\ ResetWith(model, rom)
    BY <1>2, SupportedRoms DEF LoadRom
  <2>2. model \in Modes
    BY DEF TypeOK
  <2>3. QED
    BY <2>1, <2>2 DEF Outcome, ResetWith, Admitted
<1>3. QED
  BY <1>1, <1>2

LEMMA ResetOutcome ==
  ASSUME TypeOK, Admitted, Reset
  PROVE  Outcome
<1>1. /\ model \in Modes /\ romBytes \in LoadedRoms \union {None}
      /\ UNCHANGED <<model, romBytes, saved>> /\ ResetWith(model, romBytes)
  BY DEF TypeOK, LoadedRoms, Reset
<1>2. QED
  BY <1>1 DEF Outcome, ResetWith, Admitted

LEMMA SetModeOutcome ==
  ASSUME TypeOK, NEW mode \in Modes, SetMode(mode)
  PROVE  Outcome
<1>1. romBytes \in LoadedRoms \union {None}
  BY DEF TypeOK, LoadedRoms
<1>2. CASE romBytes = None \/ ~Compatible(mode, romBytes)
  BY <1>2 DEF SetMode, Reject, Outcome
<1>3. CASE ~(romBytes = None \/ ~Compatible(mode, romBytes))
  <2>1. /\ UNCHANGED <<saved, romBytes>>
        /\ model' = mode /\ ResetWith(mode, romBytes)
    BY <1>3 DEF SetMode
  <2>2. QED
    BY <1>1, <1>3, <2>1 DEF Outcome, ResetWith
<1>4. QED
  BY <1>2, <1>3

LEMMA OutcomeInv ==
  ASSUME IInv, Running, Outcome
  PROVE  IInv'
<1>1. TypeOK /\ foreign \in BOOLEAN /\ state \in States
  BY DEF IInv, TypeOK
<1>2. SavedIsWhole'
  BY DEF IInv, SavedIsWhole, WholeState, Outcome
<1>3. CASE result' = "rejected" /\ UNCHANGED machine
  BY <1>2, <1>3
     DEF IInv, TypeOK, Admitted, OneMachine, Outcome, machine, Results, Running, Hardware
<1>4. CASE /\ result' = "aborted" /\ UNCHANGED <<mapper, state, foreign>>
           /\ model' \in Modes /\ romBytes' \in LoadedRoms \union {None}
           /\ Admitted'
  <2>1. TypeOK'
    BY <1>1, <1>4 DEF TypeOK, Outcome, LoadedRoms, Results
  <2>2. OneMachine'
    BY <1>4 DEF OneMachine, Running
  <2>3. QED
    BY <1>2, <1>4, <2>1, <2>2 DEF IInv
<1>5. CASE /\ result' = "ok" /\ foreign' = FALSE
           /\ model' \in Modes /\ romBytes' \in LoadedRoms /\ mapper' = romBytes'
           /\ Compatible(model', romBytes')
           /\ state' = Everywhere(Fresh(model', romBytes'))
  <2>1. state' \in States
    BY <1>5, FreshType, EverywhereType
  <2>2. foreign' \in BOOLEAN
    BY <1>5, Zenon
  <2>3. TypeOK'
    BY <1>1, <1>5, <2>1, <2>2 DEF TypeOK, Outcome, LoadedRoms, Results
  <2>4. ASSUME romBytes' # None
        PROVE  state' = Everywhere([rom |-> romBytes', hw |-> Hardware', frames |-> 0])
    BY <1>5, <2>4 DEF Hardware, Fresh
  <2>5. OneMachine'
    BY <2>4, SessionAssumption DEF OneMachine
  <2>6. Admitted'
    BY <1>5 DEF Admitted
  <2>7. QED
    BY <1>2, <2>3, <2>5, <2>6 DEF IInv
<1>6. QED
  BY <1>3, <1>4, <1>5 DEF Outcome

-----------------------------------------------------------------------------
(* The other calls.                                                        *)

\* A mapper that was put in place for a rejected ROM is not the session's.
LEMMA RejectForModeInv ==
  ASSUME IInv, NEW rom \in Roms, RejectForMode(rom)
  PROVE  IInv'
<1>1. /\ UNCHANGED <<model, romBytes, saved, foreign>> /\ result' = "rejected"
      /\ mapper' = rom /\ rom \in LoadedRoms /\ ~Compatible(model, rom)
      /\ state' = [state EXCEPT !["mapper"] = Fresh(model, rom)]
  BY SupportedRoms DEF RejectForMode, Reject
<1>2. state' \in States
  BY <1>1, FreshType DEF IInv, TypeOK, States
<1>3. TypeOK'
  BY <1>1, <1>2 DEF IInv, TypeOK, LoadedRoms, Results
<1>4. Admitted' /\ SavedIsWhole'
  BY <1>1 DEF IInv, Admitted, SavedIsWhole, WholeState
<1>5. romBytes' # None => mapper' # romBytes'
  BY <1>1 DEF IInv, Admitted
<1>6. OneMachine'
  BY <1>5 DEF OneMachine
<1>7. QED
  BY <1>3, <1>4, <1>6 DEF IInv

LEMMA FrameInv ==
  ASSUME IInv, RunNextFrame
  PROVE  IInv'
<1>1. /\ UNCHANGED <<model, romBytes, mapper, saved, foreign>> /\ Running
      /\ Hardware' = Hardware /\ result' \in Results
  BY DEF RunNextFrame, Hardware, Results
<1>2. Admitted' /\ SavedIsWhole'
  BY <1>1 DEF IInv, Admitted, SavedIsWhole, WholeState
<1>3. "cpu" \in Parts
  BY DEF Parts, Position
<1>4. CASE mapper = None /\ UNCHANGED state
  BY <1>1, <1>2, <1>4 DEF IInv, TypeOK, OneMachine
<1>5. CASE /\ Fits
           /\ state' = Everywhere([state["cpu"] EXCEPT !.frames = @ + 1])
  <2>1. /\ state["cpu"] \in Moments /\ state["cpu"].frames < MaxFrames
    BY <1>3, <1>5 DEF IInv, TypeOK, States, Fits, RunNextFrame, FramesOf
  <2>2. state["cpu"].frames + 1 \in 0 .. MaxFrames
    BY <2>1, SessionAssumption DEF Moments
  <2>3. [state["cpu"] EXCEPT !.frames = @ + 1] \in Moments
    BY <2>1, <2>2 DEF Moments
  <2>4. state' \in States
    BY <1>5, <2>3, EverywhereType
  <2>5. TypeOK'
    BY <1>1, <2>4 DEF IInv, TypeOK
  <2>6. ASSUME romBytes # None, mapper = romBytes, ~foreign
        PROVE  \E frames \in 0 .. MaxFrames :
                 state' = Everywhere([rom |-> romBytes, hw |-> Hardware, frames |-> frames])
    <3>1. PICK frames \in 0 .. MaxFrames :
            state = Everywhere([rom |-> romBytes, hw |-> Hardware, frames |-> frames])
      BY <1>1, <2>6 DEF IInv, OneMachine
    <3>2. state["cpu"] = [rom |-> romBytes, hw |-> Hardware, frames |-> frames]
      BY <1>3, <3>1 DEF Everywhere
    <3>3. [state["cpu"] EXCEPT !.frames = @ + 1]
            = [rom |-> romBytes, hw |-> Hardware, frames |-> frames + 1]
      BY <3>2
    <3>4. frames + 1 \in 0 .. MaxFrames
      BY <2>2, <3>2
    <3>5. QED
      BY <1>5, <3>3, <3>4
  <2>7. OneMachine'
    BY <1>1, <2>6 DEF OneMachine
  <2>8. QED
    BY <1>2, <2>5, <2>7 DEF IInv
<1>6. CASE /\ ~(Fits /\ state["cpu"].hw = Hardware) /\ mapper # None
           /\ state' = Everywhere(Garbled)
  <2>1. TypeOK'
    BY <1>1, <1>6, EverywhereType DEF IInv, TypeOK
  <2>2. ASSUME romBytes # None, mapper = romBytes, ~foreign
        PROVE  FALSE
    <3>1. PICK frames \in 0 .. MaxFrames :
            state = Everywhere([rom |-> romBytes, hw |-> Hardware, frames |-> frames])
      BY <1>1, <2>2 DEF IInv, OneMachine
    <3>2. state["cpu"] = [rom |-> romBytes, hw |-> Hardware, frames |-> frames]
      BY <1>3, <3>1 DEF Everywhere
    <3>3. Own \in Origins
      BY OwnType DEF IInv
    <3>4. state["cpu"] \in Moments
      BY <3>2, <3>3 DEF Own, Origins, Moments
    <3>5. Fits
      BY <2>2, <3>1, <3>2, <3>4, MarkersAssumption DEF Fits
    <3>6. QED
      BY <1>6, <3>2, <3>5
  <2>3. OneMachine'
    BY <1>1, <2>2 DEF OneMachine
  <2>4. QED
    BY <1>2, <2>1, <2>3 DEF IInv
<1>7. QED
  BY <1>4, <1>5, <1>6 DEF RunNextFrame

LEMMA SaveInv ==
  ASSUME IInv, SaveState
  PROVE  IInv'
<1>1. /\ UNCHANGED <<model, romBytes, mapper, state, foreign>>
      /\ result' = "ok" /\ Running
      /\ saved' = [layout |-> LayoutOf(mapper), state |-> state,
                   origin |-> IF mapper = romBytes /\ ~foreign THEN Own ELSE None]
  BY DEF SaveState, machine
<1>2. LayoutOf(mapper) \in Layouts \union {None}
  BY DEF IInv, TypeOK, LayoutOf
<1>3. TypeOK'
  BY <1>1, <1>2, OwnType DEF IInv, TypeOK, Saves, Results
<1>4. Admitted' /\ OneMachine'
  BY <1>1 DEF IInv, Admitted, OneMachine, Hardware, Running
<1>5. ASSUME saved'.origin # None
      PROVE  saved'.layout = LayoutOf(romBytes) /\ saved'.origin = Own /\ saved'.state = state
             /\ mapper = romBytes /\ ~foreign
  BY <1>1, <1>5
<1>6. Own.rom = romBytes /\ Own.hw = Hardware
  BY DEF Own
<1>7. SavedIsWhole'
  BY <1>1, <1>5, <1>6 DEF IInv, OneMachine, SavedIsWhole, WholeState
<1>8. QED
  BY <1>3, <1>4, <1>7 DEF IInv

\* A load that is rejected leaves every part as it was.
LEMMA RejectedLoad ==
  ASSUME TypeOK, LoadState \/ LoadStateTruncated, result' = "rejected"
  PROVE  /\ Running /\ state' = state
         /\ UNCHANGED <<model, romBytes, mapper, saved, foreign>>
BY BackupRestores DEF LoadState, LoadStateTruncated

LEMMA LoadInv ==
  ASSUME IInv, LoadState \/ LoadStateTruncated
  PROVE  IInv'
<1>1. CASE result' = "rejected"
  BY <1>1, RejectedLoad
     DEF IInv, TypeOK, Results, Admitted, SavedIsWhole, WholeState, OneMachine,
         Running, Hardware
<1>2. CASE result' # "rejected"
  <2>1. /\ Running /\ saved # None /\ result' = "ok"
        /\ state' = DataRead /\ foreign' = (saved.origin # Own)
        /\ UNCHANGED <<model, romBytes, mapper, saved>>
    BY <1>2 DEF LoadState, LoadStateTruncated, Reject
  <2>2. foreign' \in BOOLEAN
    BY <2>1, Zenon
  <2>3. TypeOK'
    BY <2>1, <2>2, DataReadType DEF IInv, TypeOK, Results
  <2>4. Admitted' /\ SavedIsWhole' /\ Hardware' = Hardware
    BY <2>1 DEF IInv, Admitted, SavedIsWhole, WholeState, Hardware
  <2>5. ASSUME romBytes # None, mapper = romBytes, saved.origin = Own
        PROVE  \E frames \in 0 .. MaxFrames :
                 state' = Everywhere([rom |-> romBytes, hw |-> Hardware, frames |-> frames])
    <3>1. saved.origin # None /\ Own.rom = romBytes /\ Own.hw = Hardware
      <4>1. Own \in Origins
        BY OwnType DEF IInv
      <4>2. QED
        BY <2>5, <4>1, MarkersAssumption DEF Own
    <3>2. saved.layout = LayoutOf(mapper) /\ WholeState(Own, saved.state)
      BY <2>1, <2>5, <3>1 DEF IInv, SavedIsWhole
    <3>3. state' = saved.state
      BY <2>1, <3>2 DEF DataRead
    <3>4. QED
      BY <2>5, <3>1, <3>2, <3>3 DEF WholeState
  <2>6. OneMachine'
    BY <2>1, <2>4, <2>5 DEF OneMachine
  <2>7. QED
    BY <2>3, <2>4, <2>6 DEF IInv
<1>3. QED
  BY <1>1, <1>2

LEMMA InvStep ==
  ASSUME IInv, [Next]_vars
  PROVE  IInv'
<1>1. ASSUME NEW rom \in Roms, LoadRom(rom) PROVE IInv'
  BY <1>1, LoadRomOutcome, OutcomeInv DEF IInv, LoadRom
<1>2. ASSUME NEW rom \in Roms, RejectForMode(rom) PROVE IInv'
  BY <1>2, RejectForModeInv
<1>3. CASE Reset
  BY <1>3, ResetOutcome, OutcomeInv DEF IInv, Reset
<1>4. ASSUME NEW mode \in Modes, SetMode(mode) PROVE IInv'
  BY <1>4, SetModeOutcome, OutcomeInv DEF IInv, SetMode
<1>5. CASE RunNextFrame
  BY <1>5, FrameInv
<1>6. CASE SaveState
  BY <1>6, SaveInv
<1>7. CASE LoadState \/ LoadStateTruncated
  BY <1>7, LoadInv
<1>8. CASE UNCHANGED vars
  BY <1>8 DEF vars, IInv, TypeOK, Admitted, SavedIsWhole, WholeState, OneMachine,
              Running, Hardware
<1>9. QED
  BY <1>1, <1>2, <1>3, <1>4, <1>5, <1>6, <1>7, <1>8 DEF Next

LEMMA Invariant == Spec => []IInv
BY InitInv, InvStep, PTL DEF Spec

-----------------------------------------------------------------------------
\* Type correctness (Session's TypeOK): whatever is called, loaded and
\* rejected, the session holds a ROM that has a mapper, and no part runs past
\* the frames it may.
THEOREM TypeCorrect == Spec => []TypeOK
<1>1. IInv => TypeOK
  BY DEF IInv
<1>2. QED
  BY <1>1, Invariant, PTL

\* As long as what is loaded was saved on the session's own machine, and no ROM
\* has been rejected for its mode since the last reset, CPU, MMU, mapper, PPU and
\* APU are at one moment of the session's ROM, on the hardware its mode calls
\* for, after every sequence of GameBoy's calls.
THEOREM OneMachineTheorem == Spec => []OneMachine
<1>1. IInv => OneMachine
  BY DEF IInv
<1>2. QED
  BY <1>1, Invariant, PTL

\* Whatever GameBoy::loadRom(), setMode() or loadState() rejects leaves ROM,
\* mode and all parts of the state as they were, but for the mapper, which a ROM
\* that is rejected for its mode replaces; for loadState(), that is what reading
\* the backup undoes.
THEOREM RejectedTheorem == Spec => RejectedChangesNothing
<1> DEFINE Kept ==
      /\ UNCHANGED <<model, romBytes, foreign>>
      /\ \A part \in Parts \ {"mapper"} : state'[part] = state[part]
      /\ UNCHANGED <<mapper, state>> \/ \E rom \in Roms : RejectForMode(rom)
<1>1. ASSUME IInv, [Next]_vars, result' = "rejected"
      PROVE  Kept
  <2>1. ASSUME UNCHANGED machine PROVE Kept
    BY <2>1 DEF machine
  <2>2. CASE Outcome
    BY <1>1, <2>1, <2>2 DEF Outcome
  <2>3. CASE LoadState \/ LoadStateTruncated
    BY <1>1, <2>1, <2>3, RejectedLoad DEF IInv, machine
  <2>4. ASSUME NEW rom \in Roms, RejectForMode(rom) PROVE Kept
    <3>1. /\ UNCHANGED <<model, romBytes, foreign>>
          /\ state' = [state EXCEPT !["mapper"] = Fresh(model, rom)]
      BY <2>4 DEF RejectForMode
    <3>2. \A part \in Parts \ {"mapper"} : state'[part] = state[part]
      BY <1>1, <3>1 DEF IInv, TypeOK, States
    <3>3. QED
      BY <2>4, <3>1, <3>2
  <2>5. CASE RunNextFrame \/ SaveState
    BY <1>1, <2>5 DEF RunNextFrame, SaveState
  <2>6. CASE UNCHANGED vars
    BY <2>1, <2>6 DEF vars, machine
  <2>7. QED
    BY <1>1, <2>2, <2>3, <2>4, <2>5, <2>6, LoadRomOutcome, ResetOutcome, SetModeOutcome
       DEF IInv, Next
<1>2. IInv /\ [Next]_vars => [result' = "rejected" => Kept]_vars
  BY <1>1
<1>3. QED
  BY <1>2, Invariant, PTL DEF Spec, RejectedChangesNothing
=============================================================================
