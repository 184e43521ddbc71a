------------------------------ MODULE CpuTimer ------------------------------
(***************************************************************************)
(* The CPU's T-cycle synchronisation and the timer it drives.              *)
(*                                                                         *)
(* Mmu keeps two copies of the 16-bit divider.  m_divCounter is stepped by *)
(* runNextTCycle(), once per CPU T-cycle.  m_timerDivCounter is stepped by *)
(* runTimerTo(), which Cpu::advanceHardware() calls after each batch of    *)
(* T-cycles and which may run a little ahead of the divider, so that a bus *)
(* access sees the timer at the end of its M-cycle.  TIMA, its reload and  *)
(* its interrupt hang off the second copy.  The two must not drift apart,  *)
(* and the second must never be asked to catch up with a point behind it:  *)
(* the loop of runTimerTo() would then go round the whole 16-bit range.    *)
(*                                                                         *)
(* One iteration of either loop is a step here, and so is each bus access. *)
(* How an instruction spaces its accesses is taken from CpuTiming.  The    *)
(* words that LD (a16),SP, pushes, calls and interrupt dispatches store    *)
(* unsynchronised may hit any two adjacent registers.  The program itself  *)
(* is assumed not to be fetched from the timer registers.                  *)
(***************************************************************************)
EXTENDS CpuTiming

CONSTANTS
  DivMod,    \* number of values of the divider (65536)
  TimaMax,   \* largest value of TIMA and TMA (255)
  Masks,     \* weights of the divider bits TAC can select (8, 32, 128, 512)
  IsCgb      \* whether the hardware has KEY1 and so can switch speed

\* An upper bound of the T-cycles one instruction synchronises, an interrupt
\* dispatch and the timer's lead included.
MaxSync == DispatchTCycles + 4 * 6 + 2

ASSUME CpuTimerAssumption ==
  /\ DivMod \in Nat /\ DivMod > MaxSync
  /\ TimaMax \in Nat
  /\ Masks \subseteq Nat \ {0}
  /\ Masks # {}
  /\ IsCgb \in BOOLEAN

\* The divider bits are neither the lowest two nor any above the divider.
ASSUME MasksAssumption == \A m \in Masks : m % 4 = 0 /\ DivMod % (2 * m) = 0

VARIABLES
  div,        \* m_divCounter
  timerDiv,   \* m_timerDivCounter
  tima, tma,  \* FF05, FF06
  tac,        \* FF07: is the timer on, and which divider bit it watches
  reload,     \* m_timerReloadTCycles
  reloaded,   \* m_timerReloadedThisCycle
  timerIF,    \* bit 2 of IF
  doubleSpeed, prepared, \* m_doubleSpeed, m_speedSwitchPrepared
  phase,      \* m_doubleSpeedPhase
  stage,      \* where runNextInstruction() is: between instructions, behind
              \* an interrupt dispatch, in advanceHardware(), at an access
  left,       \* T-cycles advanceHardware() has, or will have, to run
  ahead,      \* timerAheadTCycles of the current advanceHardware()
  rest, accesses, \* what remains of the instruction, see CpuTiming
  writes      \* whether it stores at its last access, or has stored a word
              \* to a register below

timerVars == <<tima, tma, tac, reload, reloaded>>
speedVars == <<doubleSpeed, prepared, phase>>
cpuVars   == <<stage, left, ahead, rest, accesses, writes>>
vars == <<div, timerDiv, timerVars, timerIF, speedVars, cpuVars>>

Tac == [on : BOOLEAN, mask : Masks]

TypeOK ==
  /\ div \in 0 .. DivMod - 1
  /\ timerDiv \in 0 .. DivMod - 1
  /\ tima \in 0 .. TimaMax
  /\ tma \in 0 .. TimaMax
  /\ tac \in Tac
  /\ reload \in 0 .. 4
  /\ reloaded \in BOOLEAN
  /\ timerIF \in BOOLEAN
  /\ doubleSpeed \in BOOLEAN
  /\ prepared \in BOOLEAN
  /\ phase \in BOOLEAN
  /\ stage \in {"boundary", "vector", "sync", "access"}
  /\ left \in 0 .. MaxSync
  /\ ahead \in 0 .. 2
  /\ rest \in 0 .. 4
  /\ accesses \in 0 .. 2
  /\ writes \in BOOLEAN

Init ==
  /\ div = 0 /\ timerDiv = 0
  /\ tima = 0 /\ tma = 0
  /\ tac \in {t \in Tac : ~t.on}
  /\ reload = 0 /\ reloaded = FALSE /\ timerIF = FALSE
  /\ doubleSpeed = FALSE /\ prepared = FALSE /\ phase = FALSE
  /\ stage = "boundary"
  /\ left = 0 /\ ahead = 0 /\ rest = 0 /\ accesses = 0 /\ writes = FALSE

-----------------------------------------------------------------------------
(* The timer.                                                              *)

\* Mutant: the wrap-around comes one value late.
WrapLate(n) == IF n > DivMod THEN n - DivMod ELSE n

\* A sum of two numbers below DivMod, as 16-bit arithmetic leaves it.
Wrap(n) == IF n >= DivMod THEN n - DivMod ELSE n

\* The input of the falling-edge detector, for a given TAC and divider.
TimerInput(t, d) == t.on /\ (d \div t.mask) % 2 = 1

ReloadDelay == 4

\* Mutant: an overflow does not start the delayed reload.
IncrementTimerNoReload(edge, count, delay) ==
  /\ tima' = IF ~edge THEN count ELSE IF count = TimaMax THEN 0 ELSE count + 1
  /\ reload' = delay

\* incrementTimer(), when the detector saw a falling edge.
IncrementTimer(edge, count, delay) ==
  /\ tima' = IF ~edge THEN count ELSE IF count = TimaMax THEN 0 ELSE count + 1
  /\ reload' = IF edge /\ count = TimaMax THEN ReloadDelay ELSE delay

\* One iteration of runTimerTo(): first the delayed reload, then the edge.
RunTimer ==
  LET fires == reload = 1
      count == IF fires THEN tma ELSE tima
      delay == IF reload > 0 THEN reload - 1 ELSE 0
      next  == Wrap(timerDiv + 1)
  IN  /\ reloaded' = fires
      /\ timerIF' = (timerIF \/ fires)
      /\ timerDiv' = next
      /\ IncrementTimer(TimerInput(tac, timerDiv) /\ ~TimerInput(tac, next),
                        count, delay)

-----------------------------------------------------------------------------
(* Cpu::advanceHardware().                                                 *)

\* Mutant: the phase toggles at either speed.
RunNextTCycleFreePhase ==
  /\ stage = "sync" /\ left > 0
  /\ left' = left - 1
  /\ div' = Wrap(div + 1)
  /\ phase' = ~phase
  /\ UNCHANGED <<timerDiv, timerVars, timerIF, doubleSpeed, prepared,
                 stage, ahead, rest, accesses, writes>>

\* One iteration of its loop: the MMU, and on base-clock cycles PPU and APU.
RunNextTCycle ==
  /\ stage = "sync" /\ left > 0
  /\ left' = left - 1
  /\ div' = Wrap(div + 1)
  /\ phase' = (doubleSpeed /\ ~phase)
  /\ UNCHANGED <<timerDiv, timerVars, timerIF, doubleSpeed, prepared,
                 stage, ahead, rest, accesses, writes>>

\* Where the call to runTimerTo() that ends advanceHardware() stops.
Target == Wrap(div + ahead)

RunTimerTo ==
  /\ stage = "sync" /\ left = 0 /\ timerDiv # Target
  /\ RunTimer
  /\ UNCHANGED <<div, tma, tac, speedVars, cpuVars>>

\* advanceHardware() returns, to the handler or to runNextInstruction().
Synced ==
  /\ stage = "sync" /\ left = 0 /\ timerDiv = Target
  /\ stage' = IF accesses > 0 THEN "access" ELSE "boundary"
  /\ UNCHANGED <<div, timerDiv, timerVars, timerIF, speedVars,
                 left, ahead, rest, accesses, writes>>

-----------------------------------------------------------------------------
(* Unsynchronised words: both bytes are stored with no T-cycle in between. *)

\* Any value written to DIV clears both dividers: a falling edge if the
\* watched bit was set.
SetDiv ==
  /\ div' = 0 /\ timerDiv' = 0
  /\ IncrementTimer(TimerInput(tac, timerDiv), tima, reload)
  /\ UNCHANGED <<tma, tac, reloaded>>

\* TIMA overwrites what the store to DIV made of it, unless it is ignored.
SetDivTima(v) ==
  /\ div' = 0 /\ timerDiv' = 0
  /\ IF reloaded THEN IncrementTimer(TimerInput(tac, timerDiv), tima, reload)
                 ELSE tima' = v /\ reload' = 0
  /\ UNCHANGED <<tma, tac, reloaded>>

SetTimaTma(v, w) ==
  /\ tma' = w
  /\ IF reloaded THEN tima' = w /\ UNCHANGED reload ELSE tima' = v /\ reload' = 0
  /\ UNCHANGED <<div, timerDiv, tac, reloaded>>

\* What a store of t to TAC makes of a TIMA of `count`.
SetTac(t, count) ==
  /\ tac' = t
  /\ IncrementTimer(TimerInput(tac, timerDiv) /\ ~TimerInput(t, timerDiv),
                    count, reload)
  /\ UNCHANGED <<div, timerDiv, reloaded>>

SetTmaTac(w, t) == tma' = w /\ SetTac(t, IF reloaded THEN w ELSE tima)

\* Two adjacent addresses of which one at least is a register of the timer.
TimerWord ==
  \/ SetDiv
  \/ \E v \in 0 .. TimaMax : SetDivTima(v)
  \/ \E v, w \in 0 .. TimaMax : SetTimaTma(v, w)
  \/ \E w \in 0 .. TimaMax, t \in Tac : SetTmaTac(w, t)
  \/ \E t \in Tac : SetTac(t, tima) /\ UNCHANGED tma

\* A word that hits a register of the timer, IF or KEY1; `flag` is bit 2 of IF
\* before it.
RegisterWord(flag) ==
  /\ writes' = TRUE
  /\ \/ TimerWord /\ timerIF' = flag /\ UNCHANGED speedVars
     \/ timerIF' \in BOOLEAN /\ UNCHANGED <<div, timerDiv, timerVars, speedVars>>
     \/ /\ IsCgb /\ prepared' \in BOOLEAN /\ timerIF' = flag
        /\ UNCHANGED <<div, timerDiv, timerVars, doubleSpeed, phase>>

OtherWord(flag) ==
  /\ writes' = FALSE /\ timerIF' = flag
  /\ UNCHANGED <<div, timerDiv, timerVars, speedVars>>

-----------------------------------------------------------------------------
(* Instructions.                                                           *)

\* handleInterrupts(): the dispatch of this source or of another clears its
\* bit of IF, stores the return address and adds to the cycle count.
HandleInterrupts ==
  /\ stage = "boundary"
  /\ stage' = "vector"
  /\ left' = DispatchTCycles
  /\ \E flag \in {timerIF, FALSE} : RegisterWord(flag) \/ OtherWord(flag)
  /\ UNCHANGED <<ahead, rest, accesses>>

\* runNextInstruction() up to the first synchronisation of the handler.  Idle
\* M-cycles (HALT, a CPU stalled by DMA) have the timing of NOP.
Fetch(t) ==
  /\ stage \in {"boundary", "vector"}
  /\ stage' = "sync"
  /\ left' = left + t.first
  /\ ahead' = t.ahead /\ rest' = t.rest /\ accesses' = t.accesses

RunInstruction ==
  \/ \E t \in INSTRUCTIONS :
       /\ Fetch(t) /\ writes' = t.writes
       /\ UNCHANGED <<div, timerDiv, timerVars, timerIF, speedVars>>
  \/ \E t \in WORD_STORES : Fetch(t) /\ RegisterWord(timerIF)

\* Mmu::switchSpeed(), called by STOP: m_divCounter is reset, and
\* m_timerDivCounter is not.
SwitchSpeed ==
  /\ doubleSpeed' = ~doubleSpeed
  /\ prepared' = FALSE
  /\ phase' = FALSE
  /\ div' = 0
  /\ UNCHANGED timerDiv

\* A STOP at an interrupt vector switches before the dispatch is synchronised.
Stop ==
  /\ Fetch(Unsynced(1)) /\ writes' = FALSE
  /\ prepared
  /\ SwitchSpeed
  /\ UNCHANGED <<timerVars, timerIF>>

\* After an access the handler synchronises again, for its second access or
\* because runNextInstruction() completes the M-cycles it returned.
AfterAccess ==
  /\ stage = "access"
  /\ stage' = "sync"
  /\ left' = rest /\ rest' = 0 /\ ahead' = 0
  /\ accesses' = accesses - 1
  /\ UNCHANGED writes

\* A load, or a store to an address that is none of the registers below.
OtherAccess ==
  /\ AfterAccess
  /\ UNCHANGED <<div, timerDiv, timerVars, timerIF, speedVars>>

Store == stage = "access" /\ accesses = 1 /\ writes

WriteDiv == Store /\ AfterAccess /\ SetDiv /\ UNCHANGED <<timerIF, speedVars>>

WriteTac(t) ==
  /\ Store /\ AfterAccess
  /\ SetTac(t, tima)
  /\ UNCHANGED <<tma, timerIF, speedVars>>

\* Mutant: the store does not call off a pending reload.
WriteTimaKeepsReload(v) ==
  /\ Store /\ AfterAccess
  /\ tima' = IF reloaded THEN tima ELSE v
  /\ UNCHANGED <<reload, div, timerDiv, tma, tac, reloaded, timerIF, speedVars>>

\* Ignored in the cycle of a reload; otherwise it calls off a pending one.
WriteTima(v) ==
  /\ Store /\ AfterAccess
  /\ IF reloaded THEN UNCHANGED <<tima, reload>> ELSE tima' = v /\ reload' = 0
  /\ UNCHANGED <<div, timerDiv, tma, tac, reloaded, timerIF, speedVars>>

\* Mutant: TIMA keeps the value it was reloaded with.
WriteTmaOnly(v) ==
  /\ Store /\ AfterAccess
  /\ tma' = v
  /\ UNCHANGED <<tima, div, timerDiv, tac, reload, reloaded, timerIF, speedVars>>

\* In the cycle of a reload TIMA takes the value being written to TMA.
WriteTma(v) ==
  /\ Store /\ AfterAccess
  /\ tma' = v
  /\ tima' = IF reloaded THEN v ELSE tima
  /\ UNCHANGED <<div, timerDiv, tac, reload, reloaded, timerIF, speedVars>>

WriteIF(b) ==
  /\ Store /\ AfterAccess
  /\ timerIF' = b
  /\ UNCHANGED <<div, timerDiv, timerVars, speedVars>>

WriteKey1(b) ==
  /\ Store /\ AfterAccess
  /\ prepared' = (IF IsCgb THEN b ELSE prepared)
  /\ UNCHANGED <<div, timerDiv, timerVars, timerIF, doubleSpeed, phase>>

WriteRegister ==
  \/ WriteDiv
  \/ \E t \in Tac : WriteTac(t)
  \/ \E v \in 0 .. TimaMax : WriteTima(v) \/ WriteTma(v)
  \/ \E b \in BOOLEAN : WriteIF(b) \/ WriteKey1(b)

Next ==
  \/ HandleInterrupts
  \/ RunInstruction
  \/ Stop
  \/ RunNextTCycle
  \/ RunTimerTo
  \/ Synced
  \/ OtherAccess
  \/ WriteRegister

Spec == Init /\ [][Next]_vars

\* Cpu::runNextInstruction() never waits: once the front end runs frames, some
\* step of the machine is always taken.
FairSpec == Spec /\ WF_vars(Next)

-----------------------------------------------------------------------------
(* Properties.                                                             *)

\* Steps from one value of the divider to another.
Distance(from, to) == IF to >= from THEN to - from ELSE to - from + DivMod

\* Iterations runTimerTo() will have made when the current advanceHardware()
\* returns.
Owed == Distance(timerDiv, Wrap(div + left + ahead))

\* The timer is never run past the point the current advanceHardware() has to
\* reach, nor is it ever further behind it than one instruction: runTimerTo()
\* stops where it should instead of going round the 16-bit range.
CatchUpBounded == Owed <= MaxSync

\* TIMA one tick on.
Succ(value) == IF value = TimaMax THEN 0 ELSE value + 1

\* Whatever the program sees of the timer, between instructions or at a bus
\* access, shows TIMA at 0 while its reload is pending: the ticks that stores
\* to DIV and TAC can add in those four cycles, also by unsynchronised words
\* right behind a store, are overwritten by the reload and show nowhere.  In
\* the cycle of the reload TIMA follows TMA through any store to either, but for
\* the one tick of a store that makes a falling edge.
ReloadIsClean ==
  stage \in {"boundary", "access"} =>
    /\ reload > 0 => tima = 0
    /\ reloaded => tima \in {tma, Succ(tma)}

\* In double speed PPU and APU take every second T-cycle, and an instruction
\* always starts on the same half, whatever speed the previous one ran at.
PhaseRestartsWithInstruction ==
  /\ phase => doubleSpeed
  /\ stage = "boundary" => ~phase

\* If the program leaves the timer on and in the end stores nothing, but for
\* words that hit none of these registers, the interrupt keeps being requested,
\* however often it is dispatched: no reload is lost and no catch-up is endless.
TimerKeepsFiring == <>[](tac.on /\ ~writes) => []<>timerIF
=============================================================================
