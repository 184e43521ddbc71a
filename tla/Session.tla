------------------------------- MODULE Session -------------------------------
(***************************************************************************)
(* GameBoy: what its caller does to a session.  Load a ROM, change the     *)
(* mode, reset, run a frame, save a state and load one back, each of them  *)
(* accepted or rejected, in any order.                                     *)
(*                                                                         *)
(* The machine is reduced to the moment that each part of its state        *)
(* belongs to: which ROM, on which hardware, how many calls of             *)
(* runNextFrame() after the reset (what the buttons did is left out).  The *)
(* mapper is a part of its own: its registers, RAM and clock are read and  *)
(* written in the middle of the Mmu's state, and loadRom() replaces it     *)
(* alone.  A save state holds a moment for each part; loading one reads    *)
(* them in turn, and may run out of data before any of them.               *)
(***************************************************************************)
EXTENDS Integers

CONSTANTS
  Layouts,    \* the mappers of the ROMs; each serializes a body of its own
  MaxFrames,  \* bound: calls of runNextFrame() after a reset
  None,       \* no ROM, no saved state
  Garbled     \* state of no moment: read from the wrong place, or run on from
              \* parts that do not belong together

ASSUME SessionAssumption == MaxFrames \in Nat

\* A ROM is what loadRom() reads of its header.  The mapper it asks for may
\* not be one there is (nor its size one that fits a mapper).
Unsupported == "unsupported"
CgbFlags == {"no", "supported", "required"}
Roms == [mapper : Layouts \union {Unsupported}, cgb : CgbFlags]

Modes == {"Auto", "Dmg", "Cgb"}
HardwareModes == {"Dmg", "CgbCompatibility", "CgbNative"}

\* The parts of a save state, in the order in which they are read: Cpu, Mmu up
\* to VRAM, its mapper, Mmu from WRAM on, Ppu, Apu.
Position == [cpu |-> 1, mmu |-> 2, mapper |-> 3, memory |-> 4, ppu |-> 5, apu |-> 6]
Parts == DOMAIN Position

VARIABLES
  model,     \* m_model
  romBytes,  \* m_romBytes: the ROM of the session
  mapper,    \* Mmu::m_mapper: the ROM that the program is read from
  state,     \* the moment that each part of the state belongs to
  saved,     \* what the caller has saved, or None
  result,    \* what the last call returned; "failed" is a frame's error
  foreign    \* history: whether the last state loaded since the reset was
             \* saved on another machine than the session's own

vars == <<model, romBytes, mapper, state, saved, result, foreign>>
machine == <<model, romBytes, mapper, state, foreign>>

Moments == [rom : Roms \union {None}, hw : HardwareModes, frames : 0 .. MaxFrames]
States == [Parts -> Moments \union {Garbled}]

\* `origin` is a history: the machine that was saved, None if it was no whole one.
Origins == [rom : Roms \union {None}, hw : HardwareModes]
Saves == [layout : Layouts \union {None}, state : States,
          origin : Origins \union {None}]

\* None and Garbled are no data.
ASSUME MarkersAssumption == Garbled \notin Moments /\ None \notin Origins

Results == {"ok", "rejected", "failed", "aborted", "thrown"}
Running == result \notin {"aborted", "thrown"}

\* Mutant: any cartridge type is given a mapper.
SupportedAlways(rom) == rom \in Roms

Supported(rom) == rom.mapper # Unsupported

TypeOK ==
  /\ model \in Modes
  /\ romBytes \in [mapper : Layouts, cgb : CgbFlags] \union {None}
  /\ mapper \in [mapper : Layouts, cgb : CgbFlags] \union {None}
  /\ state \in States
  /\ (saved = None \/ saved \in Saves)
  /\ result \in Results /\ foreign \in BOOLEAN

Everywhere(moment) == [part \in Parts |-> moment]

Init ==
  /\ model \in Modes
  /\ romBytes = None /\ mapper = None
  /\ state = Everywhere([rom |-> None, hw |-> "Dmg", frames |-> 0])
  /\ saved = None
  /\ result = "ok" /\ foreign = FALSE

-----------------------------------------------------------------------------
\* checkModeCompatible()
Compatible(mode, rom) == ~(mode = "Dmg" /\ rom.cgb = "required")

\* The hardware mode initializeFromRom() chooses.
HardwareFor(mode, rom) ==
  CASE mode = "Dmg" \/ (mode = "Auto" /\ rom.cgb = "no") -> "Dmg"
    [] mode # "Dmg" /\ rom.cgb # "no" -> "CgbNative"
    [] OTHER -> "CgbCompatibility"

Hardware == IF romBytes = None THEN "Dmg" ELSE HardwareFor(model, romBytes)

Fresh(mode, rom) == [rom |-> rom, hw |-> HardwareFor(mode, rom), frames |-> 0]

\* reset(), with what m_model and m_romBytes are by then: every component is
\* constructed anew, and initializeFromRom() must not fail.
ResetWith(mode, rom) ==
  IF rom = None \/ ~Compatible(mode, rom)
  THEN result' = "aborted" /\ UNCHANGED <<mapper, state, foreign>>
  ELSE /\ mapper' = rom
       /\ state' = Everywhere(Fresh(mode, rom))
       /\ foreign' = FALSE
       /\ result' = "ok"

Reject == result' = "rejected"

\* loadRom() of a ROM that the mode does not admit: Mmu::loadRom() has emplaced
\* its mapper, with new registers, RAM and clock, before the mode is checked.
RejectForMode(rom) ==
  /\ Running
  /\ Supported(rom) /\ ~Compatible(model, rom)
  /\ mapper' = rom
  /\ state' = [state EXCEPT !["mapper"] = Fresh(model, rom)]
  /\ Reject /\ UNCHANGED <<model, romBytes, saved, foreign>>

\* loadRom() of any other.
LoadRom(rom) ==
  /\ Running
  /\ \/ ~Supported(rom) /\ Reject /\ UNCHANGED machine
     \/ /\ Supported(rom) /\ Compatible(model, rom)
        /\ romBytes' = rom
        /\ ResetWith(model, rom) /\ UNCHANGED model
  /\ UNCHANGED saved

Reset ==
  /\ Running
  /\ ResetWith(model, romBytes)
  /\ UNCHANGED <<model, romBytes, saved>>

\* Mutant: the mode is stored before it is checked.
SetModeEarly(mode) ==
  /\ Running
  /\ model' = mode
  /\ IF romBytes = None \/ ~Compatible(mode, romBytes)
     THEN Reject /\ UNCHANGED <<romBytes, mapper, state, foreign>>
     ELSE ResetWith(mode, romBytes) /\ UNCHANGED romBytes
  /\ UNCHANGED saved

SetMode(mode) ==
  /\ Running
  /\ IF romBytes = None \/ ~Compatible(mode, romBytes)
     THEN Reject /\ UNCHANGED machine
     ELSE model' = mode /\ ResetWith(mode, romBytes) /\ UNCHANGED romBytes
  /\ UNCHANGED saved

-----------------------------------------------------------------------------
FramesOf(moment) == IF moment = Garbled THEN 0 ELSE moment.frames

\* All parts are at one moment of the ROM that the mapper reads.
Fits ==
  /\ state["cpu"] # Garbled /\ state["cpu"].rom = mapper
  /\ state = Everywhere(state["cpu"])

\* runNextFrame() returns a frame, or, where the program comes to an opcode that
\* there is not, an error after a part of one: either way the parts have moved
\* on together.  Parts that do not fit make something of no moment, and may
\* throw; so may a state that is still in the boot ROM of other hardware.
\* Without a ROM the first fetch throws.
RunNextFrame ==
  /\ Running
  /\ \A part \in Parts : FramesOf(state[part]) < MaxFrames
  /\ \/ mapper = None /\ result' = "thrown" /\ UNCHANGED state
     \/ /\ mapper # None /\ Fits
        /\ state' = Everywhere([state["cpu"] EXCEPT !.frames = @ + 1])
        /\ result' \in {"ok", "failed"}
     \/ /\ mapper # None /\ ~(Fits /\ state["cpu"].hw = Hardware)
        /\ state' = Everywhere(Garbled)
        /\ result' \in {"ok", "failed", "thrown"}
  /\ UNCHANGED <<model, romBytes, mapper, saved, foreign>>

LayoutOf(rom) == IF rom = None THEN None ELSE rom.mapper

\* The session's own machine, as its ROM and its mode call for it.
Own == [rom |-> romBytes, hw |-> Hardware]

SaveState ==
  /\ Running
  /\ saved' = [layout |-> LayoutOf(mapper), state |-> state,
               origin |-> IF mapper = romBytes /\ ~foreign THEN Own ELSE None]
  /\ result' = "ok"
  /\ UNCHANGED machine

\* deserializeComponents(), reading n parts before the data runs out.
Deserialized(before, data, n) ==
  [part \in Parts |-> IF Position[part] <= n THEN data[part] ELSE before[part]]

\* Mutant: what has been read stays when the data runs out.
RestoredNot(read, backup) == read

\* All parts are read back from the backup.
Restored(read, backup) == Deserialized(read, backup, 6)

\* Data whose mapper is not this session's is read at the wrong place from the
\* mapper's body on.
DataRead ==
  IF saved.layout = LayoutOf(mapper) THEN saved.state
  ELSE [part \in Parts |-> IF Position[part] < Position["mapper"]
                          THEN saved.state[part] ELSE Garbled]

\* loadState() of the whole of what was saved.  Misread, it may run out.
LoadState ==
  /\ Running /\ saved # None
  /\ \/ /\ state' = DataRead
        /\ foreign' = (saved.origin # Own)
        /\ result' = "ok"
     \/ /\ saved.layout # LayoutOf(mapper)
        /\ \E n \in 2 .. 5 : state' = Restored(Deserialized(state, DataRead, n), state)
        /\ Reject /\ UNCHANGED foreign
  /\ UNCHANGED <<model, romBytes, mapper, saved>>

\* loadState() of the front part of it, or of something else.
LoadStateTruncated ==
  /\ Running /\ saved # None
  /\ \E n \in 0 .. 5 : state' = Restored(Deserialized(state, DataRead, n), state)
  /\ Reject
  /\ UNCHANGED <<model, romBytes, mapper, saved, foreign>>

Next == \/ \E rom \in Roms : LoadRom(rom) \/ RejectForMode(rom)
        \/ Reset
        \/ \E mode \in Modes : SetMode(mode)
        \/ RunNextFrame
        \/ SaveState \/ LoadState \/ LoadStateTruncated

Spec == Init /\ [][Next]_vars

-----------------------------------------------------------------------------
(* Properties.                                                             *)

\* The machine is the one the session asked for, and every part of its state is
\* at the same moment of the session's ROM on the hardware that its mode and ROM
\* call for: as long as what was loaded since the reset was saved on such a
\* machine (of this session or of an earlier one, frames that failed, rejected
\* loads and other sessions in between), and no ROM has been rejected for its
\* mode since.
OneMachine ==
  Running /\ romBytes # None /\ mapper = romBytes /\ ~foreign =>
    \E frames \in 0 .. MaxFrames :
      state = Everywhere([rom |-> romBytes, hw |-> Hardware, frames |-> frames])

\* A call that is rejected changes neither the session's ROM and mode nor any
\* part of the state, however far it had come; one that is rejected for the mode
\* of its ROM replaces the mapper, and no other part.  (A frame that fails is
\* not rejected: the part of it that was run stays.)
RejectedChangesNothing ==
  [][result' = "rejected" =>
       /\ UNCHANGED <<model, romBytes, foreign>>
       /\ \A part \in Parts \ {"mapper"} : state'[part] = state[part]
       /\ UNCHANGED <<mapper, state>> \/ \E rom \in Roms : RejectForMode(rom)]_vars

\* tests/gameboy_test.cpp:127: loadRom() that rejects a ROM leaves a running
\* session untouched, its cartridge included.
RejectedRomUntouched ==
  [][result' = "rejected" /\ romBytes # None => UNCHANGED <<mapper, state>>]_vars
=============================================================================
