--------------------------- MODULE CpuTimerProofs ---------------------------
(***************************************************************************)
(* Type correctness of CpuTimer, that instructions restart the double-     *)
(* speed phase, that the timer's divider stays in step with the divider of *)
(* the MMU on hardware without a speed switch, and that an overflow of     *)
(* TIMA is followed by its reload and nothing else that could be seen.     *)
(*                                                                         *)
(* The last rests on two distances: in time, synchronised stores are two   *)
(* M-cycles apart at least (GoodTiming), and a falling edge of a divider   *)
(* bit is followed by none for as long as its low bits are clear           *)
(* (LowCalm), whichever bit TAC is made to select.  Behind an              *)
(* unsynchronised word anything may have become of TIMA, but then there is *)
(* time for the reload before the program looks at it again (Pushed).      *)
(***************************************************************************)
EXTENDS CpuTimer, TLAPS

-----------------------------------------------------------------------------
(* What the timings of all handlers of the dispatch table have in common.  *)

\* What a timing of the dispatch table guarantees to advanceHardware(): the
\* last access is not followed by fewer T-cycles than the timer was run ahead,
\* the whole instruction is a number of M-cycles, and a handler that stores does
\* so at the end of its second M-cycle at the earliest.
GoodTiming(t) ==
  /\ t.first \in 1 .. 24
  /\ t.ahead \in 0 .. 2
  /\ t.rest \in 0 .. 4
  /\ t.accesses \in 0 .. 2
  /\ t.writes \in BOOLEAN
  /\ t.ahead <= t.rest
  /\ (t.first + t.rest) % 2 = 0
  /\ t.accesses = 0 => t.rest = 0 /\ t.ahead = 0
  /\ t.writes => t.first + t.ahead >= 8

\* Every handler's timings are of that kind.
LEMMA TimingsAreGood == \A t \in INSTRUCTIONS : GoodTiming(t)
<1>1. \A c \in 1 .. 6 : GoodTiming(Unsynced(c))
  BY DEF GoodTiming, Unsynced, Timing
<1>2. /\ \A c \in 2 .. 4 : GoodTiming(LoadAt(c))
      /\ \A c \in 2 .. 4 : GoodTiming(StoreAt(c))
  BY DEF GoodTiming, LoadAt, StoreAt, Timing
<1>3. /\ GoodTiming(EarlyStoreAt(2))
      /\ GoodTiming(EarlyStoreAt(3))
      /\ GoodTiming(EarlyLoadAt(3))
      /\ GoodTiming(ModifyAt(3))
      /\ GoodTiming(ModifyAt(4))
  BY DEF GoodTiming, EarlyStoreAt, EarlyLoadAt, ModifyAt, Timing
<1>4. \A t \in UNION {nop, halt, jpcc, retcc, ldRRd16, jrcc, di, ei, reti, rst,
                      stop, callcc, pushr16, popr16, incdecr16, aluD8} :
        GoodTiming(t)
  BY <1>1 DEF nop, halt, jpcc, retcc, ldRRd16, jrcc, di, ei, reti, rst, stop,
              callcc, pushr16, popr16, incdecr16, aluD8
<1>5. \A t \in UNION {rotateA, addhlr16, jphl, ldA16Sp, addSpHlE8, ldSpHl,
                      daaCplScfCcf} : GoodTiming(t)
  BY <1>1 DEF rotateA, addhlr16, jphl, ldA16Sp, addSpHlE8, ldSpHl, daaCplScfCcf
<1>6. \A t \in UNION {ldhlia, ldbcdea, ldRd8, ldaa16, aluR8} : GoodTiming(t)
  BY <1>1, <1>2 DEF ldhlia, ldbcdea, ldRd8, ldaa16, aluR8
<1>7. /\ \A t \in ldRR : GoodTiming(t)
      /\ \A t \in ldhca : GoodTiming(t)
      /\ \A t \in cbPrefixed : GoodTiming(t)
  BY <1>1, <1>2, <1>3 DEF ldRR, ldhca, cbPrefixed
<1>8. /\ \A t \in incr8 : GoodTiming(t)
      /\ \A t \in decr8 : GoodTiming(t)
      /\ \A t \in ldha8 : GoodTiming(t)
  BY <1>1, <1>3 DEF incr8, decr8, ldha8
<1>9. QED
  BY <1>4, <1>5, <1>6, <1>7, <1>8 DEF INSTRUCTIONS

-----------------------------------------------------------------------------
(* The control state of an instruction, common to both kinds of hardware.  *)

SyncInv ==
  /\ left + ahead <= MaxSync
  /\ ahead <= rest
  /\ accesses = 0 => rest = 0 /\ ahead = 0
  /\ stage \in {"boundary", "access"} => left = 0
  /\ stage = "vector" => left = DispatchTCycles
  /\ stage \in {"boundary", "vector"} => accesses = 0
  /\ stage = "access" => accesses > 0

\* The phase is the parity of the T-cycles the instruction still has to run.
PhaseInv ==
  /\ phase => doubleSpeed /\ (left + rest) % 2 = 1
  /\ doubleSpeed /\ (left + rest) % 2 = 1 => phase

CpuInv == TypeOK /\ SyncInv /\ PhaseInv

LEMMA InitCpuInv == Init => CpuInv
<1>1. MaxSync = 46
  BY DEF MaxSync, DispatchTCycles
<1>2. Init => TypeOK
  <2>1. 0 \in 0 .. DivMod - 1 /\ 0 \in 0 .. TimaMax
    BY CpuTimerAssumption, <1>1
  <2>2. Init => tac \in Tac
    BY DEF Init
  <2>3. Init => /\ reloaded \in BOOLEAN /\ timerIF \in BOOLEAN
                /\ doubleSpeed \in BOOLEAN /\ prepared \in BOOLEAN
                /\ phase \in BOOLEAN /\ writes \in BOOLEAN
    BY Zenon DEF Init
  <2>4. QED
    BY <1>1, <2>1, <2>2, <2>3 DEF Init, TypeOK
<1>3. Init => SyncInv
  BY <1>1 DEF Init, SyncInv
<1>4. Init => PhaseInv
  BY DEF Init, PhaseInv
<1>5. QED
  BY <1>2, <1>3, <1>4 DEF CpuInv

LEMMA WrapType ==
  ASSUME NEW n \in Nat, n < 2 * DivMod
  PROVE  Wrap(n) \in 0 .. DivMod - 1
BY CpuTimerAssumption DEF Wrap

LEMMA IncrementTimerType ==
  ASSUME NEW edge \in BOOLEAN, NEW count \in 0 .. TimaMax, NEW delay \in 0 .. 4,
         IncrementTimer(edge, count, delay)
  PROVE  tima' \in 0 .. TimaMax /\ reload' \in 0 .. 4
BY CpuTimerAssumption DEF IncrementTimer, ReloadDelay

LEMMA TimerInputType == \A t \in Tac, d \in Nat : TimerInput(t, d) \in BOOLEAN
BY DEF TimerInput, Tac

-----------------------------------------------------------------------------
(* Every step preserves the control invariant.                             *)

\* The type of what a store can change.
RegistersOK ==
  /\ div \in 0 .. DivMod - 1 /\ timerDiv \in 0 .. DivMod - 1
  /\ tima \in 0 .. TimaMax /\ tma \in 0 .. TimaMax /\ tac \in Tac
  /\ reload \in 0 .. 4 /\ reloaded \in BOOLEAN /\ timerIF \in BOOLEAN
  /\ prepared \in BOOLEAN

LEMMA TimerWordType ==
  ASSUME RegistersOK, TimerWord, timerIF' \in BOOLEAN, prepared' \in BOOLEAN
  PROVE  RegistersOK'
<1>1. 0 \in 0 .. DivMod - 1
  BY CpuTimerAssumption DEF MaxSync, DispatchTCycles
<1>2. CASE SetDiv
  <2>1. tima' \in 0 .. TimaMax /\ reload' \in 0 .. 4
    BY <1>2, IncrementTimerType, TimerInputType DEF SetDiv, RegistersOK
  <2>2. QED
    BY <1>1, <1>2, <2>1 DEF SetDiv, RegistersOK
<1>3. ASSUME NEW v \in 0 .. TimaMax, SetDivTima(v)
      PROVE  RegistersOK'
  <2>1. tima' \in 0 .. TimaMax /\ reload' \in 0 .. 4
    BY <1>3, IncrementTimerType, TimerInputType DEF SetDivTima, RegistersOK
  <2>2. QED
    BY <1>1, <1>3, <2>1 DEF SetDivTima, RegistersOK
<1>4. ASSUME NEW v \in 0 .. TimaMax, NEW w \in 0 .. TimaMax, SetTimaTma(v, w)
      PROVE  RegistersOK'
  BY <1>4 DEF SetTimaTma, RegistersOK
<1>5. ASSUME NEW t \in Tac, NEW count \in 0 .. TimaMax, SetTac(t, count),
             tma' \in 0 .. TimaMax
      PROVE  RegistersOK'
  <2>1. tima' \in 0 .. TimaMax /\ reload' \in 0 .. 4
    BY <1>5, IncrementTimerType, TimerInputType DEF SetTac, RegistersOK
  <2>2. QED
    BY <1>5, <2>1 DEF SetTac, RegistersOK
<1>6. ASSUME NEW w \in 0 .. TimaMax, NEW t \in Tac, SetTmaTac(w, t)
      PROVE  RegistersOK'
  <2>1. (IF reloaded THEN w ELSE tima) \in 0 .. TimaMax
    BY DEF RegistersOK
  <2>2. QED
    BY <1>5, <1>6, <2>1 DEF SetTmaTac
<1>7. ASSUME NEW t \in Tac, SetTac(t, tima), UNCHANGED tma
      PROVE  RegistersOK'
  BY <1>5, <1>7 DEF RegistersOK
<1>8. QED
  BY <1>2, <1>3, <1>4, <1>6, <1>7 DEF TimerWord

LEMMA WordType ==
  ASSUME CpuInv, NEW flag \in BOOLEAN, RegisterWord(flag) \/ OtherWord(flag)
  PROVE  RegistersOK' /\ writes' \in BOOLEAN /\ UNCHANGED <<doubleSpeed, phase>>
<1>1. RegistersOK
  BY DEF CpuInv, TypeOK, RegistersOK
<1>2. CASE OtherWord(flag)
  BY <1>1, <1>2 DEF OtherWord, RegistersOK, timerVars, speedVars
<1>3. CASE RegisterWord(flag)
  <2>1. writes' \in BOOLEAN /\ UNCHANGED <<doubleSpeed, phase>>
    BY <1>3, Zenon DEF RegisterWord, speedVars
  <2>2. CASE TimerWord /\ timerIF' = flag /\ UNCHANGED speedVars
    <3>1. timerIF' \in BOOLEAN /\ prepared' \in BOOLEAN
      BY <1>1, <2>2 DEF RegistersOK, speedVars
    <3>2. QED
      BY <1>1, <2>1, <2>2, <3>1, TimerWordType
  <2>3. CASE timerIF' \in BOOLEAN /\ UNCHANGED <<div, timerDiv, timerVars, speedVars>>
    BY <1>1, <2>1, <2>3 DEF RegistersOK, timerVars, speedVars
  <2>4. CASE /\ IsCgb /\ prepared' \in BOOLEAN /\ timerIF' = flag
             /\ UNCHANGED <<div, timerDiv, timerVars, doubleSpeed, phase>>
    BY <1>1, <2>1, <2>4 DEF RegistersOK, timerVars
  <2>5. QED
    BY <1>3, <2>2, <2>3, <2>4 DEF RegisterWord
<1>4. QED
  BY <1>2, <1>3

LEMMA HandleInterruptsCpuInv ==
  ASSUME CpuInv, HandleInterrupts
  PROVE  CpuInv'
<1>1. MaxSync = 46 /\ DispatchTCycles = 20
  BY DEF MaxSync, DispatchTCycles
<1>2. RegistersOK' /\ writes' \in BOOLEAN /\ UNCHANGED <<doubleSpeed, phase>>
  <2>1. PICK flag \in {timerIF, FALSE} : RegisterWord(flag) \/ OtherWord(flag)
    BY DEF HandleInterrupts
  <2>2. flag \in BOOLEAN
    BY DEF CpuInv, TypeOK
  <2>3. QED
    BY <2>1, <2>2, WordType
<1>3. /\ stage = "boundary" /\ stage' = "vector" /\ left' = 20
      /\ UNCHANGED <<ahead, rest, accesses>>
  BY <1>1 DEF HandleInterrupts
<1>4. accesses = 0 /\ rest = 0 /\ ahead = 0 /\ left = 0 /\ ~phase
  BY <1>3 DEF CpuInv, TypeOK, SyncInv, PhaseInv
<1>5. TypeOK'
  BY <1>1, <1>2, <1>3 DEF CpuInv, TypeOK, RegistersOK
<1>6. SyncInv'
  BY <1>1, <1>3, <1>4 DEF SyncInv
<1>7. PhaseInv'
  <2>1. (left' + rest') % 2 # 1
    BY <1>3, <1>4
  <2>2. QED
    BY <1>2, <1>4, <2>1, Zenon DEF PhaseInv
<1>8. QED
  BY <1>5, <1>6, <1>7 DEF CpuInv

\* The state of the double-speed clock between instructions.
Resting == phase = FALSE /\ doubleSpeed \in BOOLEAN

\* The common part of every instruction.
LEMMA FetchControl ==
  ASSUME CpuInv, NEW t \in INSTRUCTIONS, Fetch(t)
  PROVE  /\ stage' = "sync"
         /\ left' \in 0 .. MaxSync /\ ahead' \in 0 .. 2 /\ rest' \in 0 .. 4
         /\ accesses' \in 0 .. 2 /\ (left' + rest') % 2 # 1
         /\ SyncInv'
<1>1. GoodTiming(t)
  BY TimingsAreGood
<1>2. MaxSync = 46 /\ DispatchTCycles = 20
  BY DEF MaxSync, DispatchTCycles
<1>3. left \in {0, 20}
  BY <1>2 DEF CpuInv, SyncInv, Fetch
<1>4. /\ left' \in 0 .. MaxSync /\ ahead' \in 0 .. 2 /\ rest' \in 0 .. 4
      /\ accesses' \in 0 .. 2 /\ stage' = "sync"
  BY <1>1, <1>2, <1>3 DEF Fetch, GoodTiming
<1>5. SyncInv'
  BY <1>1, <1>2, <1>3 DEF Fetch, GoodTiming, SyncInv
<1>6. (left' + rest') % 2 # 1
  BY <1>1, <1>3 DEF Fetch, GoodTiming
<1>7. QED
  BY <1>4, <1>5, <1>6, Zenon

LEMMA FetchCpuInv ==
  ASSUME CpuInv, NEW t \in INSTRUCTIONS, Fetch(t), RegistersOK',
         writes' \in BOOLEAN, Resting'
  PROVE  CpuInv'
<1>1. SyncInv' /\ (left' + rest') % 2 # 1
  BY FetchControl
<1>2. PhaseInv'
  BY <1>1, Zenon DEF PhaseInv, Resting
<1>3. /\ left' \in 0 .. MaxSync /\ ahead' \in 0 .. 2 /\ rest' \in 0 .. 4
      /\ accesses' \in 0 .. 2
  BY FetchControl, Zenon
<1>4. stage' \in {"boundary", "vector", "sync", "access"}
  BY FetchControl, Zenon
<1>5. TypeOK'
  <2>1. phase' \in BOOLEAN /\ doubleSpeed' \in BOOLEAN
    BY Zenon DEF Resting
  <2>2. QED
    BY <1>3, <1>4, <2>1 DEF CpuInv, TypeOK, RegistersOK
<1>6. QED
  BY <1>1, <1>2, <1>5 DEF CpuInv

\* Between instructions the phase is at rest.
LEMMA FetchPhase ==
  ASSUME CpuInv, NEW t, Fetch(t)
  PROVE  Resting
<1>1. left \in {0, 20} /\ rest = 0
  BY DEF CpuInv, TypeOK, SyncInv, Fetch, DispatchTCycles
<1>2. (left + rest) % 2 # 1
  BY <1>1
<1>3. ~phase
  BY <1>2, Zenon DEF CpuInv, PhaseInv
<1>4. phase \in BOOLEAN /\ doubleSpeed \in BOOLEAN
  BY DEF CpuInv, TypeOK
<1>5. QED
  BY <1>3, <1>4, Zenon DEF Resting

LEMMA WordStoresAreInstructions == WORD_STORES \subseteq INSTRUCTIONS
BY DEF WORD_STORES, INSTRUCTIONS

LEMMA RunInstructionCpuInv ==
  ASSUME CpuInv, RunInstruction
  PROVE  CpuInv'
<1>1. ASSUME NEW t \in INSTRUCTIONS, Fetch(t), writes' = t.writes,
             UNCHANGED <<div, timerDiv, timerVars, timerIF, speedVars>>
      PROVE  CpuInv'
  <2>1. RegistersOK'
    BY <1>1 DEF CpuInv, TypeOK, RegistersOK, timerVars, speedVars
  <2>2. writes' \in BOOLEAN
    BY <1>1, TimingsAreGood DEF GoodTiming
  <2>3. Resting'
    <3>1. UNCHANGED <<phase, doubleSpeed>>
      BY <1>1 DEF speedVars
    <3>2. QED
      BY <1>1, <3>1, FetchPhase, Zenon DEF Resting
  <2>4. QED
    BY <1>1, <2>1, <2>2, <2>3, FetchCpuInv
<1>2. ASSUME NEW t \in WORD_STORES, Fetch(t), RegisterWord(timerIF)
      PROVE  CpuInv'
  <2>1. timerIF \in BOOLEAN
    BY DEF CpuInv, TypeOK
  <2>2. RegistersOK' /\ writes' \in BOOLEAN /\ UNCHANGED <<doubleSpeed, phase>>
    BY <1>2, <2>1, WordType
  <2>3. Resting'
    BY <1>2, <2>2, FetchPhase, Zenon DEF Resting
  <2>4. QED
    BY <1>2, <2>2, <2>3, FetchCpuInv, WordStoresAreInstructions
<1>3. QED
  BY <1>1, <1>2 DEF RunInstruction

LEMMA StopCpuInv ==
  ASSUME CpuInv, Stop
  PROVE  CpuInv'
<1>1. Unsynced(1) \in INSTRUCTIONS
  BY DEF INSTRUCTIONS, nop
<1>2. 0 \in 0 .. DivMod - 1
  BY CpuTimerAssumption DEF MaxSync, DispatchTCycles
<1>3. RegistersOK'
  BY <1>2 DEF CpuInv, TypeOK, RegistersOK, Stop, SwitchSpeed, timerVars
<1>4. writes' \in BOOLEAN /\ Resting'
  BY Zenon DEF Stop, SwitchSpeed, Resting
<1>5. QED
  BY <1>1, <1>3, <1>4, FetchCpuInv DEF Stop

LEMMA RunNextTCycleCpuInv ==
  ASSUME CpuInv, RunNextTCycle
  PROVE  CpuInv'
<1>1. MaxSync = 46
  BY DEF MaxSync, DispatchTCycles
<1>2. div' \in 0 .. DivMod - 1
  BY <1>1, WrapType, CpuTimerAssumption DEF CpuInv, TypeOK, RunNextTCycle
<1>3. TypeOK'
  <2>1. left' \in 0 .. MaxSync
    BY <1>1 DEF CpuInv, TypeOK, RunNextTCycle
  <2>2. phase' \in BOOLEAN
    BY DEF RunNextTCycle
  <2>3. QED
    BY <1>2, <2>1, <2>2 DEF CpuInv, TypeOK, RunNextTCycle, timerVars
<1>4. (left' + rest') % 2 = 1 <=> (left + rest) % 2 = 0
  BY DEF CpuInv, TypeOK, RunNextTCycle
<1>5. (left + rest) % 2 \in {0, 1}
  BY DEF CpuInv, TypeOK
<1>6. PhaseInv'
  <2>1. (left + rest) % 2 = 0 <=> ~((left + rest) % 2 = 1)
    BY <1>5
  <2>2. phase' <=> doubleSpeed' /\ ~phase
    BY Zenon DEF RunNextTCycle
  <2>3. doubleSpeed => (phase <=> (left + rest) % 2 = 1)
    BY Zenon DEF CpuInv, PhaseInv
  <2>4. doubleSpeed' <=> doubleSpeed
    BY Zenon DEF RunNextTCycle
  <2>5. QED
    BY <1>4, <2>1, <2>2, <2>3, <2>4, Zenon DEF PhaseInv
<1>7. SyncInv'
  BY <1>1 DEF CpuInv, TypeOK, SyncInv, RunNextTCycle
<1>8. QED
  BY <1>3, <1>6, <1>7 DEF CpuInv

LEMMA RunTimerToCpuInv ==
  ASSUME CpuInv, RunTimerTo
  PROVE  CpuInv'
<1>1. MaxSync = 46
  BY DEF MaxSync, DispatchTCycles
<1>2. timerDiv' \in 0 .. DivMod - 1
  BY <1>1, WrapType, CpuTimerAssumption DEF CpuInv, TypeOK, RunTimerTo, RunTimer
<1>3. tima' \in 0 .. TimaMax /\ reload' \in 0 .. 4
  <2> DEFINE count == IF reload = 1 THEN tma ELSE tima
             delay == IF reload > 0 THEN reload - 1 ELSE 0
             edge  == TimerInput(tac, timerDiv)
                        /\ ~TimerInput(tac, Wrap(timerDiv + 1))
  <2>1. count \in 0 .. TimaMax /\ delay \in 0 .. 4 /\ edge \in BOOLEAN
    BY DEF CpuInv, TypeOK
  <2>2. IncrementTimer(edge, count, delay)
    BY DEF RunTimerTo, RunTimer
  <2> HIDE DEF count, delay, edge
  <2>3. QED
    BY <2>1, <2>2, IncrementTimerType
<1>4. reloaded' \in BOOLEAN /\ timerIF' \in BOOLEAN
  BY DEF RunTimerTo, RunTimer, CpuInv, TypeOK
<1>5. TypeOK'
  BY <1>2, <1>3, <1>4 DEF CpuInv, TypeOK, RunTimerTo, speedVars, cpuVars
<1>6. SyncInv' /\ PhaseInv'
  BY DEF CpuInv, SyncInv, PhaseInv, RunTimerTo, speedVars, cpuVars
<1>7. QED
  BY <1>5, <1>6 DEF CpuInv


\* The common part of every bus access.
LEMMA AfterAccessCpuInv ==
  ASSUME CpuInv, AfterAccess
  PROVE  /\ left' \in 0 .. 4 /\ rest' = 0 /\ ahead' = 0
         /\ accesses' \in 0 .. 1 /\ writes' \in BOOLEAN
         /\ stage' = "sync"
         /\ left' + rest' = left + rest
BY DEF CpuInv, TypeOK, SyncInv, AfterAccess

\* A bus access that leaves the speed alone and whose effect on the timer is
\* well typed.
LEMMA AccessCpuInv ==
  ASSUME CpuInv, AfterAccess,
         div' \in 0 .. DivMod - 1, timerDiv' \in 0 .. DivMod - 1,
         tima' \in 0 .. TimaMax, tma' \in 0 .. TimaMax, tac' \in Tac,
         reload' \in 0 .. 4, reloaded' \in BOOLEAN, timerIF' \in BOOLEAN,
         prepared' \in BOOLEAN, UNCHANGED <<doubleSpeed, phase>>
  PROVE  CpuInv'
<1>1. MaxSync = 46
  BY DEF MaxSync, DispatchTCycles
<1>2. TypeOK'
  BY <1>1, AfterAccessCpuInv DEF CpuInv, TypeOK
<1>3. SyncInv'
  BY <1>1, AfterAccessCpuInv DEF SyncInv
<1>4. PhaseInv'
  BY AfterAccessCpuInv, Zenon DEF CpuInv, PhaseInv
<1>5. QED
  BY <1>2, <1>3, <1>4 DEF CpuInv

LEMMA WriteRegisterCpuInv ==
  ASSUME CpuInv, WriteRegister
  PROVE  CpuInv'
<1> USE DEF CpuInv
<1>1. CASE WriteDiv
  <2>1. 0 \in 0 .. DivMod - 1
    BY CpuTimerAssumption DEF MaxSync, DispatchTCycles
  <2>2. tima' \in 0 .. TimaMax /\ reload' \in 0 .. 4
    BY <1>1, IncrementTimerType, TimerInputType DEF WriteDiv, SetDiv, TypeOK
  <2>3. QED
    BY <1>1, <2>1, <2>2, AccessCpuInv DEF WriteDiv, SetDiv, TypeOK, speedVars
<1>2. ASSUME NEW t \in Tac, WriteTac(t)
      PROVE  CpuInv'
  <2>1. tima' \in 0 .. TimaMax /\ reload' \in 0 .. 4
    BY <1>2, IncrementTimerType, TimerInputType DEF WriteTac, SetTac, TypeOK
  <2>2. QED
    BY <1>2, <2>1, AccessCpuInv DEF WriteTac, SetTac, TypeOK, speedVars
<1>3. ASSUME NEW v \in 0 .. TimaMax, WriteTima(v)
      PROVE  CpuInv'
  BY <1>3, AccessCpuInv DEF WriteTima, TypeOK, speedVars
<1>4. ASSUME NEW v \in 0 .. TimaMax, WriteTma(v)
      PROVE  CpuInv'
  BY <1>4, AccessCpuInv DEF WriteTma, TypeOK, speedVars
<1>5. ASSUME NEW b \in BOOLEAN, WriteIF(b)
      PROVE  CpuInv'
  BY <1>5, AccessCpuInv DEF WriteIF, TypeOK, speedVars, timerVars
<1>6. ASSUME NEW b \in BOOLEAN, WriteKey1(b)
      PROVE  CpuInv'
  BY <1>6, AccessCpuInv DEF WriteKey1, TypeOK, timerVars
<1>7. QED
  BY <1>1, <1>2, <1>3, <1>4, <1>5, <1>6 DEF WriteRegister

LEMMA NextCpuInv == CpuInv /\ [Next]_vars => CpuInv'
<1> SUFFICES ASSUME CpuInv, [Next]_vars
             PROVE  CpuInv'
  OBVIOUS
<1>0. CASE HandleInterrupts
  BY <1>0, HandleInterruptsCpuInv
<1>1. CASE RunInstruction
  BY <1>1, RunInstructionCpuInv
<1>2. CASE Stop
  BY <1>2, StopCpuInv
<1>3. CASE RunNextTCycle
  BY <1>3, RunNextTCycleCpuInv
<1>4. CASE RunTimerTo
  BY <1>4, RunTimerToCpuInv
<1>5. CASE Synced
  BY <1>5 DEF Synced, CpuInv, TypeOK, SyncInv, PhaseInv, timerVars, speedVars
<1>6. CASE OtherAccess
  BY <1>6, AccessCpuInv
     DEF OtherAccess, CpuInv, TypeOK, timerVars, speedVars
<1>7. CASE WriteRegister
  BY <1>7, WriteRegisterCpuInv
<1>8. CASE UNCHANGED vars
  BY <1>8 DEF vars, timerVars, speedVars, cpuVars, CpuInv, TypeOK, SyncInv,
              PhaseInv
<1>9. QED
  BY <1>0, <1>1, <1>2, <1>3, <1>4, <1>5, <1>6, <1>7, <1>8 DEF Next

-----------------------------------------------------------------------------
(* The two dividers, on hardware that cannot switch speed.                 *)

\* Three facts about 16-bit distances.
LEMMA DistanceOf ==
  ASSUME NEW d \in 0 .. DivMod - 1, NEW a \in 0 .. MaxSync, NEW b \in 0 .. a
  PROVE  Distance(Wrap(d + b), Wrap(d + a)) = a - b
BY CpuTimerAssumption DEF Distance, Wrap, MaxSync, DispatchTCycles

LEMMA WrapShift ==
  ASSUME NEW d \in 0 .. DivMod - 1, NEW a \in 1 .. MaxSync
  PROVE  Wrap(Wrap(d + 1) + (a - 1)) = Wrap(d + a)
BY CpuTimerAssumption DEF Wrap, MaxSync, DispatchTCycles

LEMMA DistanceStep ==
  ASSUME NEW from \in 0 .. DivMod - 1, NEW to \in 0 .. DivMod - 1, from # to
  PROVE  Distance(Wrap(from + 1), to) = Distance(from, to) - 1
BY CpuTimerAssumption DEF Distance, Wrap, MaxSync, DispatchTCycles

\* Between instructions the two dividers agree, and at a bus access the timer
\* is exactly as far ahead as the handler asked for.
DividersAgree ==
  /\ stage \in {"boundary", "vector"} => timerDiv = div
  /\ stage = "access" => timerDiv = Target

\* Inductive together with CpuInv: CatchUpBounded alone does not say how far
\* the timer may be ahead when a handler starts its next synchronisation.
LeadInv == CatchUpBounded /\ DividersAgree /\ ~prepared

LEMMA InitLeadInv == Init => LeadInv
<1> SUFFICES ASSUME Init
             PROVE  LeadInv
  OBVIOUS
<1>1. DivMod \in Nat /\ DivMod > 0 /\ MaxSync = 46
  BY CpuTimerAssumption DEF MaxSync, DispatchTCycles
<1>2. Wrap(0) = 0 /\ Distance(0, 0) = 0
  BY <1>1 DEF Wrap, Distance
<1>3. CatchUpBounded
  BY <1>1, <1>2 DEF Init, CatchUpBounded, Owed
<1>4. DividersAgree /\ ~prepared
  BY DEF Init, DividersAgree
<1>5. QED
  BY <1>3, <1>4 DEF LeadInv

\* While the dividers agree, what is owed is what is to be run.
LEMMA OwesWhatIsLeft ==
  ASSUME NEW d \in 0 .. DivMod - 1, NEW l \in Nat, NEW a \in Nat, l + a <= MaxSync
  PROVE  Distance(d, Wrap(d + l + a)) = l + a
<1> DEFINE n == l + a
<1>1. MaxSync = 46
  BY DEF MaxSync, DispatchTCycles
<1>2. Wrap(d + 0) = d
  BY CpuTimerAssumption, <1>1 DEF Wrap
<1>3. n \in 0 .. MaxSync /\ 0 \in 0 .. n
  BY <1>1
<1>4. d + l + a = d + n
  OBVIOUS
<1> HIDE DEF n
<1>5. Distance(Wrap(d + 0), Wrap(d + n)) = n - 0
  BY <1>3, DistanceOf
<1>6. n - 0 = n
  BY <1>1, <1>3
<1>7. QED
  BY <1>2, <1>4, <1>5, <1>6 DEF n

\* A word leaves the dividers as they are or clears both.
LEMMA WordAgrees ==
  ASSUME timerDiv = div, NEW flag, RegisterWord(flag) \/ OtherWord(flag)
  PROVE  timerDiv' = div'
BY DEF RegisterWord, OtherWord, TimerWord, SetDiv, SetDivTima, SetTimaTma, SetTac, SetTmaTac

\* A dispatch owes its T-cycles.
LEMMA DispatchOwes ==
  ASSUME CpuInv, DividersAgree, HandleInterrupts
  PROVE  Owed' = 20 /\ timerDiv' = div'
<1>1. MaxSync = 46 /\ DispatchTCycles = 20
  BY DEF MaxSync, DispatchTCycles
<1>2. timerDiv' = div'
  BY WordAgrees DEF HandleInterrupts, DividersAgree
<1>3. left' = 20 /\ ahead' = 0
  BY <1>1 DEF HandleInterrupts, CpuInv, SyncInv
<1>4. div' \in 0 .. DivMod - 1
  BY HandleInterruptsCpuInv DEF CpuInv, TypeOK
<1>5. Distance(div', Wrap(div' + left' + ahead')) = 20
  BY <1>1, <1>3, <1>4, OwesWhatIsLeft
<1>6. QED
  BY <1>2, <1>5 DEF Owed

\* An instruction owes what its timing and the dispatch before it take.
LEMMA InstructionOwes ==
  ASSUME CpuInv, DividersAgree, NEW t \in INSTRUCTIONS, Fetch(t),
         timerDiv' = div', div' \in 0 .. DivMod - 1
  PROVE  /\ Owed' = left + t.first + t.ahead
         /\ Owed' \in 0 .. MaxSync /\ left \in {0, 20}
<1>1. MaxSync = 46 /\ DispatchTCycles = 20 /\ GoodTiming(t)
  BY TimingsAreGood DEF MaxSync, DispatchTCycles
<1>2. left \in {0, 20}
  BY <1>1 DEF CpuInv, SyncInv, Fetch
<1>3. left' = left + t.first /\ ahead' = t.ahead
  BY DEF Fetch
<1>4. left' \in Nat /\ ahead' \in Nat /\ left' + ahead' <= MaxSync
  BY <1>1, <1>2, <1>3 DEF GoodTiming
<1>5. Owed' = left' + ahead'
  <2>1. Distance(div', Wrap(div' + left' + ahead')) = left' + ahead'
    BY <1>4, OwesWhatIsLeft
  <2>2. QED
    BY <2>1 DEF Owed
<1>6. QED
  BY <1>1, <1>2, <1>3, <1>4, <1>5 DEF GoodTiming

\* Every step of RunInstruction is that of an instruction, or of one that stores
\* a word.
LEMMA RunInstructionOwes ==
  ASSUME CpuInv, DividersAgree, RunInstruction
  PROVE  \E t \in INSTRUCTIONS :
           /\ Fetch(t) /\ Owed' = left + t.first + t.ahead
           /\ Owed' \in 0 .. MaxSync /\ left \in {0, 20} /\ GoodTiming(t)
           /\ \/ /\ writes' = t.writes
                 /\ UNCHANGED <<div, timerDiv, timerVars, timerIF, speedVars>>
              \/ t \in WORD_STORES /\ RegisterWord(timerIF)
<1>1. div' \in 0 .. DivMod - 1
  BY RunInstructionCpuInv DEF CpuInv, TypeOK
<1>2. PICK t \in INSTRUCTIONS :
        /\ Fetch(t)
        /\ \/ /\ writes' = t.writes
              /\ UNCHANGED <<div, timerDiv, timerVars, timerIF, speedVars>>
           \/ t \in WORD_STORES /\ RegisterWord(timerIF)
  BY WordStoresAreInstructions DEF RunInstruction
<1>3. timerDiv = div
  BY <1>2 DEF Fetch, DividersAgree
<1>4. timerDiv' = div'
  BY <1>2, <1>3, WordAgrees
<1>5. QED
  BY <1>1, <1>2, <1>4, InstructionOwes, TimingsAreGood

\* Without a speed switch nothing prepares one.
LEMMA WordPrepares ==
  ASSUME ~IsCgb, NEW flag, RegisterWord(flag) \/ OtherWord(flag)
  PROVE  prepared' = prepared
BY DEF RegisterWord, OtherWord, speedVars

LEMMA HandleInterruptsLeadInv ==
  ASSUME ~IsCgb, CpuInv, LeadInv, HandleInterrupts
  PROVE  LeadInv'
<1>1. Owed' = 20 /\ timerDiv' = div' /\ MaxSync = 46
  BY DispatchOwes DEF LeadInv, MaxSync, DispatchTCycles
<1>2. prepared' = prepared /\ stage' = "vector"
  BY WordPrepares DEF HandleInterrupts
<1>3. QED
  BY <1>1, <1>2 DEF LeadInv, CatchUpBounded, DividersAgree, MaxSync, DispatchTCycles

LEMMA RunInstructionLeadInv ==
  ASSUME ~IsCgb, CpuInv, LeadInv, RunInstruction
  PROVE  LeadInv'
<1>1. Owed' \in 0 .. MaxSync /\ stage' = "sync"
  BY RunInstructionOwes DEF LeadInv, Fetch
<1>2. prepared' = prepared
  BY WordPrepares DEF RunInstruction, speedVars
<1>3. QED
  BY <1>1, <1>2 DEF LeadInv, CatchUpBounded, DividersAgree, MaxSync, DispatchTCycles

\* A T-cycle is taken off what is left, and puts the target off.
LEMMA RunNextTCycleOwes ==
  ASSUME CpuInv, RunNextTCycle
  PROVE  Owed' = Owed
<1>1. MaxSync = 46
  BY DEF MaxSync, DispatchTCycles
<1>2. /\ div \in 0 .. DivMod - 1 /\ left + ahead \in 1 .. MaxSync
      /\ left \in Nat /\ ahead \in Nat
      /\ left' = left - 1 /\ ahead' = ahead /\ div' = Wrap(div + 1)
      /\ timerDiv' = timerDiv
  BY <1>1 DEF CpuInv, TypeOK, SyncInv, RunNextTCycle
<1>3. Wrap(Wrap(div + 1) + ((left + ahead) - 1)) = Wrap(div + (left + ahead))
  BY <1>2, WrapShift
<1>4. Wrap(div + 1) \in Nat
  BY <1>1, <1>2, WrapType, CpuTimerAssumption
<1>5. Wrap(div' + left' + ahead') = Wrap(div + left + ahead)
  <2>1. div' + left' + ahead' = Wrap(div + 1) + ((left + ahead) - 1)
    BY <1>2, <1>4
  <2>2. div + left + ahead = div + (left + ahead)
    BY <1>2
  <2>3. QED
    BY <1>3, <2>1, <2>2
<1>6. QED
  BY <1>2, <1>5 DEF Owed

LEMMA RunNextTCycleLeadInv ==
  ASSUME CpuInv, LeadInv, RunNextTCycle
  PROVE  LeadInv'
<1>1. CatchUpBounded'
  BY RunNextTCycleOwes DEF LeadInv, CatchUpBounded, MaxSync
<1>2. DividersAgree' /\ ~prepared'
  BY DEF RunNextTCycle, DividersAgree, LeadInv
<1>3. QED
  BY <1>1, <1>2 DEF LeadInv

LEMMA RunTimerToOwes ==
  ASSUME CpuInv, RunTimerTo
  PROVE  Owed' = Owed - 1 /\ Owed \in Int
<1>1. MaxSync = 46
  BY DEF MaxSync, DispatchTCycles
<1>2. /\ div \in 0 .. DivMod - 1 /\ timerDiv \in 0 .. DivMod - 1
      /\ ahead \in 0 .. 2 /\ left = 0
      /\ div' = div /\ left' = left /\ ahead' = ahead
      /\ timerDiv' = Wrap(timerDiv + 1) /\ timerDiv # Wrap(div + ahead)
  BY DEF CpuInv, TypeOK, RunTimerTo, RunTimer, Target, cpuVars
<1>3. div + left + ahead = div + ahead
  BY <1>2
<1>4. Wrap(div + ahead) \in 0 .. DivMod - 1
  BY <1>1, <1>2, WrapType, CpuTimerAssumption
<1>5. Distance(timerDiv, Wrap(div + ahead)) \in Int
  BY <1>2, <1>4, CpuTimerAssumption DEF Distance
<1>6. QED
  BY <1>2, <1>3, <1>4, <1>5, DistanceStep DEF Owed

LEMMA RunTimerToLeadInv ==
  ASSUME CpuInv, LeadInv, RunTimerTo
  PROVE  LeadInv'
<1>1. MaxSync = 46
  BY DEF MaxSync, DispatchTCycles
<1>2. CatchUpBounded'
  BY <1>1, RunTimerToOwes DEF LeadInv, CatchUpBounded, MaxSync
<1>3. DividersAgree' /\ ~prepared'
  BY DEF RunTimerTo, DividersAgree, LeadInv, speedVars, cpuVars
<1>4. QED
  BY <1>2, <1>3 DEF LeadInv

\* An access that leaves both dividers alone.
LEMMA AccessLeadInv ==
  ASSUME CpuInv, LeadInv, AfterAccess, UNCHANGED <<div, timerDiv>>, ~prepared'
  PROVE  LeadInv'
<1>1. MaxSync = 46
  BY DEF MaxSync, DispatchTCycles
<1>2. /\ div \in 0 .. DivMod - 1 /\ rest \in 0 .. 4 /\ ahead \in 0 .. rest
      /\ left' = rest /\ ahead' = 0 /\ timerDiv = Wrap(div + ahead)
  BY DEF CpuInv, TypeOK, SyncInv, AfterAccess, LeadInv, DividersAgree, Target
<1>3. Owed' = rest - ahead
  <2>1. Distance(Wrap(div + ahead), Wrap(div + rest)) = rest - ahead
    BY <1>1, <1>2, DistanceOf
  <2>2. div + rest + 0 = div + rest
    BY <1>2
  <2>3. QED
    BY <1>2, <2>1, <2>2 DEF Owed
<1>4. CatchUpBounded'
  BY <1>1, <1>2, <1>3 DEF CatchUpBounded, MaxSync
<1>5. DividersAgree'
  BY DEF AfterAccess, DividersAgree
<1>6. QED
  BY <1>4, <1>5 DEF LeadInv

\* A write of DIV takes the timer's lead back, which is as well: both dividers
\* are zero.
LEMMA WriteDivLeadInv ==
  ASSUME CpuInv, LeadInv, WriteDiv
  PROVE  LeadInv'
<1>1. MaxSync = 46
  BY DEF MaxSync, DispatchTCycles
<1>2. /\ rest \in 0 .. 4 /\ left' = rest /\ ahead' = 0
      /\ div' = 0 /\ timerDiv' = 0
  BY DEF CpuInv, TypeOK, WriteDiv, SetDiv, AfterAccess
<1>3. Owed' = rest
  <2>1. 0 \in 0 .. DivMod - 1 /\ Wrap(0 + 0) = 0
    BY <1>1, CpuTimerAssumption DEF Wrap
  <2>2. Distance(Wrap(0 + 0), Wrap(0 + rest)) = rest - 0
    BY <1>1, <1>2, <2>1, DistanceOf
  <2>3. 0 + rest + 0 = 0 + rest /\ rest - 0 = rest
    BY <1>2
  <2>4. QED
    BY <1>2, <2>1, <2>2, <2>3 DEF Owed
<1>4. CatchUpBounded'
  BY <1>1, <1>2, <1>3 DEF CatchUpBounded, MaxSync
<1>5. DividersAgree' /\ ~prepared'
  BY DEF WriteDiv, AfterAccess, DividersAgree, LeadInv, speedVars
<1>6. QED
  BY <1>4, <1>5 DEF LeadInv

LEMMA SyncedAgrees ==
  ASSUME CpuInv, Synced
  PROVE  DividersAgree'
<1>1. /\ left = 0 /\ timerDiv = Target /\ accesses \in 0 .. 2
      /\ accesses = 0 => ahead = 0
      /\ div \in 0 .. DivMod - 1
  BY DEF Synced, CpuInv, TypeOK, SyncInv
<1>2. accesses = 0 => Target = div
  BY <1>1, CpuTimerAssumption DEF Target, Wrap, MaxSync, DispatchTCycles
<1>3. QED
  BY <1>1, <1>2 DEF Synced, DividersAgree, Target

LEMMA NextLeadInv ==
  ASSUME ~IsCgb, CpuInv, LeadInv, [Next]_vars
  PROVE  LeadInv'
<1>0. CASE HandleInterrupts
  BY <1>0, HandleInterruptsLeadInv
<1>1. CASE RunInstruction
  BY <1>1, RunInstructionLeadInv
<1>2. CASE Stop
  BY <1>2 DEF Stop, LeadInv
<1>3. CASE RunNextTCycle
  BY <1>3, RunNextTCycleLeadInv
<1>4. CASE RunTimerTo
  BY <1>4, RunTimerToLeadInv
<1>5. CASE Synced
  <2>1. Owed' = Owed /\ prepared' = prepared
    BY <1>5 DEF Synced, Owed, speedVars
  <2>2. QED
    BY <1>5, <2>1, SyncedAgrees DEF LeadInv, CatchUpBounded, MaxSync
<1>6. CASE OtherAccess
  BY <1>6, AccessLeadInv DEF OtherAccess, LeadInv, speedVars
<1>7. CASE WriteRegister
  <2>1. CASE WriteDiv
    BY <2>1, WriteDivLeadInv
  <2>2. ASSUME NEW t \in Tac, WriteTac(t)
        PROVE  LeadInv'
    BY <2>2, AccessLeadInv DEF WriteTac, SetTac, LeadInv, speedVars
  <2>3. ASSUME NEW v \in 0 .. TimaMax, WriteTima(v) \/ WriteTma(v)
        PROVE  LeadInv'
    BY <2>3, AccessLeadInv DEF WriteTima, WriteTma, LeadInv, speedVars
  <2>4. ASSUME NEW b \in BOOLEAN, WriteIF(b)
        PROVE  LeadInv'
    BY <2>4, AccessLeadInv DEF WriteIF, LeadInv, speedVars
  <2>5. ASSUME NEW b \in BOOLEAN, WriteKey1(b)
        PROVE  LeadInv'
    BY <2>5, AccessLeadInv DEF WriteKey1, LeadInv
  <2>6. QED
    BY <1>7, <2>1, <2>2, <2>3, <2>4, <2>5 DEF WriteRegister
<1>8. CASE UNCHANGED vars
  BY <1>8 DEF vars, speedVars, cpuVars, LeadInv, CatchUpBounded, Owed,
              DividersAgree, Target
<1>9. QED
  BY <1>0, <1>1, <1>2, <1>3, <1>4, <1>5, <1>6, <1>7, <1>8 DEF Next

-----------------------------------------------------------------------------
(* The bits of the divider that the timer watches.                         *)

LEMMA Divides ==
  ASSUME NEW d \in Int, NEW w \in Nat \ {0}
  PROVE  /\ d = w * (d \div w) + (d % w) /\ d % w \in 0 .. w - 1 /\ d \div w \in Int
OBVIOUS

LEMMA Remainder ==
  ASSUME NEW w \in Nat \ {0}, NEW q \in Int, NEW r \in 0 .. w - 1
  PROVE  (w * q + r) % w = r /\ (w * q + r) \div w = q
<1> DEFINE d == w * q + r
           p == d \div w
           s == d % w
<1>1. d \in Int /\ w * q \in Int
  OBVIOUS
<1>2. d = w * p + s /\ s \in 0 .. w - 1 /\ p \in Int
  BY <1>1, Divides
<1>3. w * q + r = w * p + s
  BY <1>2
<1> HIDE DEF d, p, s
<1>4. w * (q - p) = s - r
  BY <1>2, <1>3
<1>5. q - p = 0
  <2>1. CASE q - p >= 1
    <3>1. w * (q - p) >= w
      BY <1>2, <2>1
    <3>2. QED
      BY <1>2, <1>4, <3>1
  <2>2. CASE q - p <= -1
    <3>1. w * (q - p) <= -w
      BY <1>2, <2>2
    <3>2. QED
      BY <1>2, <1>4, <3>1
  <2>3. QED
    BY <1>2, <2>1, <2>2
<1>6. p = q /\ s = r
  BY <1>2, <1>4, <1>5
<1>7. QED
  BY <1>6 DEF d, p, s

\* The bit of weight m, by the remainder.
LEMMA BitOf ==
  ASSUME NEW m \in Nat \ {0}, NEW d \in Nat
  PROVE  /\ (d \div m) % 2 = 1 <=> d % (2 * m) >= m
         /\ d % (2 * m) \in 0 .. (2 * m) - 1
<1> DEFINE q == d \div (2 * m)
           r == d % (2 * m)
<1>1. 2 * m \in Nat \ {0} /\ d \in Int
  OBVIOUS
<1>2. d = (2 * m) * q + r /\ r \in 0 .. (2 * m) - 1 /\ q \in Int
  BY <1>1, Divides
<1> HIDE DEF q, r
<1>3. CASE r < m
  <2>1. d = m * (2 * q) + r /\ 2 * q \in Int /\ r \in 0 .. m - 1
    BY <1>2, <1>3
  <2>2. d \div m = 2 * q
    BY <2>1, Remainder
  <2>3. (d \div m) % 2 = 0
    BY <1>2, <2>2
  <2>4. QED
    BY <1>2, <1>3, <2>3 DEF r
<1>4. CASE ~(r < m)
  <2>1. d = m * (2 * q + 1) + (r - m) /\ 2 * q + 1 \in Int /\ r - m \in 0 .. m - 1
    BY <1>2, <1>4
  <2>2. d \div m = 2 * q + 1
    BY <2>1, Remainder
  <2>3. (d \div m) % 2 = 1
    BY <1>2, <2>2
  <2>4. QED
    BY <1>2, <1>4, <2>3 DEF r
<1>5. QED
  BY <1>3, <1>4

\* Remainders go round as the divider does.
LEMMA NextRemainder ==
  ASSUME NEW w \in Nat \ {0}, DivMod % w = 0, NEW d \in 0 .. DivMod - 1
  PROVE  Wrap(d + 1) % w = IF d % w = w - 1 THEN 0 ELSE (d % w) + 1
<1> DEFINE n == DivMod \div w
           q == d \div w
           r == d % w
<1>1. DivMod \in Int /\ DivMod > 0 /\ d \in Int
  BY CpuTimerAssumption DEF MaxSync, DispatchTCycles
<1>2. d = w * q + r /\ r \in 0 .. w - 1 /\ q \in Int
  BY <1>1, Divides
<1>3. DivMod = w * n /\ n \in Int
  BY <1>1, Divides
<1>4. 0 % w = 0
  <2>1. 0 = w * 0 + 0 /\ 0 \in 0 .. w - 1
    OBVIOUS
  <2>2. QED
    BY <2>1, Remainder
<1> HIDE DEF n, q, r
<1>5. CASE r = w - 1
  <2>1. d + 1 = w * (q + 1) + 0
    BY <1>2, <1>5
  <2>2. 0 \in 0 .. w - 1 /\ q + 1 \in Int
    BY <1>2
  <2>3. (d + 1) % w = 0
    <3>1. (w * (q + 1) + 0) % w = 0
      BY <2>2, Remainder, Zenon
    <3>2. QED
      BY <2>1, <3>1, Zenon
  <2>4. Wrap(d + 1) = d + 1 \/ Wrap(d + 1) = 0
    BY <1>1 DEF Wrap
  <2>5. QED
    BY <1>4, <1>5, <2>3, <2>4 DEF r
<1>6. CASE r # w - 1
  <2>1. d + 1 = w * q + (r + 1) /\ r + 1 \in 0 .. w - 1
    BY <1>2, <1>6
  <2>2. (d + 1) % w = r + 1
    <3>1. (w * q + (r + 1)) % w = r + 1
      BY <1>2, <2>1, Remainder, Zenon
    <3>2. QED
      BY <2>1, <3>1, Zenon
  <2>3. d + 1 # DivMod
    <3>1. SUFFICES ASSUME d + 1 = DivMod
                   PROVE  FALSE
      OBVIOUS
    <3>2. d + 1 = w * n + 0 /\ 0 \in 0 .. w - 1
      BY <1>3, <3>1
    <3>3. (d + 1) % w = 0
      BY <1>3, <3>2, Remainder
    <3>4. QED
      BY <1>2, <2>2, <3>3
  <2>4. Wrap(d + 1) = d + 1
    BY <1>1, <2>3 DEF Wrap
  <2>5. QED
    BY <1>6, <2>2, <2>4 DEF r
<1>7. QED
  BY <1>5, <1>6

\* What a multiple of eight leaves of a number, it leaves its last three bits.
LEMMA LastBits ==
  ASSUME NEW w \in Nat \ {0}, w % 8 = 0, NEW d \in Nat
  PROVE  (d % w) % 8 = d % 8
<1> DEFINE q == d \div w
           r == d % w
           j == w \div 8
           i == r \div 8
           k == r % 8
<1>1. d = w * q + r /\ r \in 0 .. w - 1 /\ q \in Int
  BY Divides
<1>2. w = 8 * j /\ j \in Int
  OBVIOUS
<1>3. r = 8 * i + k /\ k \in 0 .. 7 /\ i \in Int
  BY <1>1
<1> HIDE DEF q, r, j, i, k
<1>4. d = 8 * (j * q + i) + k
  <2>1. w * q = 8 * (j * q) /\ j * q \in Int
    BY <1>1, <1>2
  <2>2. QED
    BY <1>1, <1>3, <2>1
<1>5. j * q + i \in Int
  BY <1>1, <1>2, <1>3
<1>6. d % 8 = k
  BY <1>3, <1>4, <1>5, Remainder
<1>7. QED
  BY <1>6 DEF r, k

-----------------------------------------------------------------------------
(* The delayed reload.                                                     *)

LEMMA MaskRange ==
  ASSUME NEW m \in Masks
  PROVE  /\ m \in Nat \ {0} /\ m >= 4 /\ 2 * m \in Nat \ {0}
         /\ (2 * m) % 8 = 0 /\ DivMod % (2 * m) = 0 /\ m % 8 \in {0, 4}
<1>1. m \in Nat \ {0} /\ m % 4 = 0 /\ DivMod % (2 * m) = 0
  BY CpuTimerAssumption, MasksAssumption
<1>2. QED
  BY <1>1

LEMMA Eights ==
  DivMod % 8 = 0
<1>1. PICK m \in Masks : TRUE
  BY CpuTimerAssumption
<1>2. /\ 2 * m \in Nat \ {0} /\ (2 * m) % 8 = 0 /\ DivMod % (2 * m) = 0 /\ DivMod \in Nat
  BY <1>1, MaskRange, CpuTimerAssumption
<1>3. (DivMod % (2 * m)) % 8 = DivMod % 8
  BY <1>2, LastBits
<1>4. QED
  BY <1>2, <1>3

LEMMA InputOf ==
  ASSUME NEW t \in Tac, NEW d \in 0 .. DivMod - 1
  PROVE  /\ TimerInput(t, d) <=> t.on /\ d % (2 * t.mask) >= t.mask
         /\ d % (2 * t.mask) \in 0 .. (2 * t.mask) - 1
         /\ (d % (2 * t.mask)) % 8 = d % 8
         /\ Wrap(d + 1) \in 0 .. DivMod - 1
         /\ Wrap(d + 1) % (2 * t.mask) =
              IF d % (2 * t.mask) = (2 * t.mask) - 1 THEN 0 ELSE (d % (2 * t.mask)) + 1
<1>1. t.mask \in Masks /\ d \in Nat
  BY DEF Tac
<1>2. /\ t.mask \in Nat \ {0} /\ 2 * t.mask \in Nat \ {0}
      /\ (2 * t.mask) % 8 = 0 /\ DivMod % (2 * t.mask) = 0
  BY <1>1, MaskRange
<1>3. /\ (d \div t.mask) % 2 = 1 <=> d % (2 * t.mask) >= t.mask
      /\ d % (2 * t.mask) \in 0 .. (2 * t.mask) - 1
  BY <1>1, <1>2, BitOf
<1>4. (d % (2 * t.mask)) % 8 = d % 8
  BY <1>1, <1>2, LastBits
<1>5. Wrap(d + 1) % (2 * t.mask) =
        IF d % (2 * t.mask) = (2 * t.mask) - 1 THEN 0 ELSE (d % (2 * t.mask)) + 1
  BY <1>2, NextRemainder
<1>6. Wrap(d + 1) \in 0 .. DivMod - 1
  BY CpuTimerAssumption DEF Wrap, MaxSync, DispatchTCycles
<1>7. QED
  BY <1>3, <1>4, <1>5, <1>6 DEF TimerInput

\* The detector sees no falling edge in the next n iterations.
CalmFor(t, d, n) == t.on => (d % (2 * t.mask)) + n < 2 * t.mask

Falls(t, d) == TimerInput(t, d) /\ ~TimerInput(t, Wrap(d + 1))

LEMMA CalmStep ==
  ASSUME NEW t \in Tac, NEW d \in 0 .. DivMod - 1, NEW n \in 1 .. 4,
         CalmFor(t, d, n)
  PROVE  ~Falls(t, d) /\ CalmFor(t, Wrap(d + 1), n - 1)
<1> DEFINE m == t.mask
           r == d % (2 * t.mask)
           s == Wrap(d + 1) % (2 * t.mask)
<1>1. CASE ~t.on
  BY <1>1 DEF Falls, CalmFor, TimerInput
<1>2. CASE t.on
  <2>1. m \in Nat /\ m >= 4 /\ r \in 0 .. (2 * m) - 1 /\ r + n < 2 * m
    BY <1>2, InputOf, MaskRange DEF Tac, CalmFor
  <2>2. s = IF r = (2 * m) - 1 THEN 0 ELSE r + 1
    BY InputOf
  <2>3. /\ TimerInput(t, d) <=> r >= m
        /\ TimerInput(t, Wrap(d + 1)) <=> s >= m
    BY <1>2, InputOf
  <2> HIDE DEF m, r, s
  <2>4. s = r + 1
    BY <2>1, <2>2
  <2>5. ~Falls(t, d)
    BY <2>1, <2>3, <2>4 DEF Falls
  <2>6. s + (n - 1) < 2 * m
    BY <2>1, <2>4
  <2>7. QED
    BY <2>5, <2>6 DEF CalmFor, m, s
<1>3. QED
  BY <1>1, <1>2

\* Behind a falling edge the watched bit and those below it are clear.
LEMMA AfterFall ==
  ASSUME NEW t \in Tac, NEW d \in 0 .. DivMod - 1, Falls(t, d)
  PROVE  /\ Wrap(d + 1) % 8 = 0 /\ ~TimerInput(t, Wrap(d + 1))
         /\ CalmFor(t, Wrap(d + 1), 4)
<1> DEFINE m == t.mask
           r == d % (2 * t.mask)
           s == Wrap(d + 1) % (2 * t.mask)
<1>1. m \in Nat /\ m >= 4 /\ r \in 0 .. (2 * m) - 1
  BY InputOf, MaskRange DEF Tac
<1>2. s = IF r = (2 * m) - 1 THEN 0 ELSE r + 1
  BY InputOf
<1>3. t.on /\ r >= m /\ ~(s >= m)
  BY InputOf DEF Falls
<1>4. s % 8 = Wrap(d + 1) % 8
  BY InputOf
<1> HIDE DEF m, r, s
<1>5. s = 0
  BY <1>1, <1>2, <1>3
<1>6. s + 4 < 2 * m
  BY <1>1, <1>5
<1>7. QED
  BY <1>4, <1>5, <1>6 DEF Falls, CalmFor, m, s

\* A clear bit stays clear while the last three bits are below four, and does
\* not fall; nor does the bit of any other TAC.
LEMMA LowCalm ==
  ASSUME NEW t \in Tac, NEW d \in 0 .. DivMod - 1, NEW n \in 1 .. 4,
         d % 8 = 4 - n
  PROVE  /\ CalmFor(t, d, n)
         /\ ~TimerInput(t, d) /\ n > 1 => ~TimerInput(t, Wrap(d + 1))
<1> DEFINE m == t.mask
           r == d % (2 * t.mask)
           s == Wrap(d + 1) % (2 * t.mask)
<1>1. m \in Nat /\ m >= 4 /\ r \in 0 .. (2 * m) - 1 /\ (2 * m) % 8 = 0 /\ m % 8 \in {0, 4}
  BY InputOf, MaskRange DEF Tac
<1>2. r % 8 = 4 - n
  BY InputOf
<1>3. s = IF r = (2 * m) - 1 THEN 0 ELSE r + 1
  BY InputOf
<1>4. /\ TimerInput(t, d) <=> t.on /\ r >= m
      /\ TimerInput(t, Wrap(d + 1)) <=> t.on /\ s >= m
  BY InputOf
<1> HIDE DEF m, r, s
<1>5. r + n < 2 * m
  BY <1>1, <1>2
<1>6. n > 1 /\ r < m => s < m
  BY <1>1, <1>2, <1>3
<1>7. CalmFor(t, d, n)
  BY <1>5 DEF CalmFor, m, r
<1>8. QED
  BY <1>1, <1>3, <1>4, <1>6, <1>7

LEMMA ClearCalm ==
  ASSUME NEW t \in Tac, NEW d \in 0 .. DivMod - 1, ~TimerInput(t, d),
         NEW n \in 0 .. 4
  PROVE  CalmFor(t, d, n)
<1>1. t.mask \in Nat /\ t.mask >= 4
  BY MaskRange DEF Tac
<1>2. /\ d % (2 * t.mask) \in 0 .. (2 * t.mask) - 1
      /\ t.on => ~(d % (2 * t.mask) >= t.mask)
  BY InputOf
<1>3. QED
  BY <1>1, <1>2 DEF CalmFor

-----------------------------------------------------------------------------
(* The delayed reload, on both kinds of hardware.                          *)

AgreeInv == CpuInv /\ DividersAgree

\* A speed switch parts the dividers, and the synchronisation of its STOP
\* brings them together again.
LEMMA NextAgrees == AgreeInv /\ [Next]_vars => AgreeInv'
<1> SUFFICES ASSUME AgreeInv, [Next]_vars
             PROVE  DividersAgree'
  BY NextCpuInv DEF AgreeInv
<1>1. CASE stage' = "sync"
  BY <1>1 DEF DividersAgree
<1>2. CASE HandleInterrupts
  <2>1. timerDiv' = div' /\ stage' = "vector"
    BY <1>2, DispatchOwes DEF AgreeInv, HandleInterrupts
  <2>2. QED
    BY <2>1 DEF DividersAgree
<1>3. CASE Synced
  BY <1>3, SyncedAgrees DEF AgreeInv
<1>4. CASE UNCHANGED vars
  BY <1>4 DEF vars, cpuVars, AgreeInv, DividersAgree, Target
<1>5. RunInstruction \/ Stop \/ RunNextTCycle \/ RunTimerTo \/ OtherAccess \/ WriteRegister
      => stage' = "sync"
  BY DEF RunInstruction, Fetch, Stop, RunNextTCycle, RunTimerTo, OtherAccess, WriteRegister,
         AfterAccess, cpuVars, WriteDiv, WriteTac, WriteTima, WriteTma, WriteIF, WriteKey1
<1>6. QED
  BY <1>1, <1>2, <1>3, <1>4, <1>5 DEF Next

\* The instruction does not store before n more iterations of runTimerTo().
NoStoreFor(n) == writes /\ accesses > 0 => n <= Owed

\* A reload is pending because the detector saw a falling edge less than four
\* iterations ago.  Either it was the divider's own, and the low bits of the
\* divider tell how long ago; or it was that of a store, and the next store is
\* an instruction away.
Window ==
  /\ reload > 0 =>
       /\ tima = 0 /\ CalmFor(tac, timerDiv, reload)
       /\ \/ NoStoreFor(reload)
          \/ timerDiv % 8 = 4 - reload /\ ~TimerInput(tac, timerDiv) /\ ~reloaded
  /\ reloaded => \/ tima = tma
                 \/ tima = Succ(tma) /\ NoStoreFor(1)

\* Behind an unsynchronised word TIMA may have ticked once too often, but it is
\* reloaded before the next access, and a reload that overflows at once too.
Pushed ==
  /\ stage \in {"vector", "sync"}
  /\ stage = "vector" => writes
  /\ reload + 4 <= Owed

ReloadInv == Window \/ Pushed

\* When the dividers agree, as between instructions and at a store, nothing is
\* owed but what is still to be run.
LEMMA AccessOwes ==
  ASSUME AgreeInv, stage = "access"
  PROVE  Owed = 0 /\ timerDiv \in 0 .. DivMod - 1
<1>1. /\ left = 0 /\ div \in 0 .. DivMod - 1 /\ ahead \in 0 .. 2 /\ timerDiv = Wrap(div + ahead)
      /\ timerDiv \in 0 .. DivMod - 1
  BY DEF AgreeInv, CpuInv, TypeOK, SyncInv, DividersAgree, Target
<1>2. div + left + ahead = div + ahead
  BY <1>1
<1>3. Owed = Distance(timerDiv, timerDiv)
  BY <1>1, <1>2 DEF Owed
<1>4. QED
  BY <1>1, <1>3 DEF Distance

\* Steps that leave the timer alone and bring no store nearer.
LEMMA ReloadKept ==
  ASSUME Window, reload \in 0 .. 4, UNCHANGED <<timerDiv, timerVars>>,
         \A n \in 1 .. 4 : NoStoreFor(n) => (NoStoreFor(n))'
  PROVE  Window'
BY DEF Window, CalmFor, TimerInput, Succ, timerVars

LEMMA HandleInterruptsReload ==
  ASSUME AgreeInv, ReloadInv, HandleInterrupts
  PROVE  ReloadInv'
<1>1. Owed' = 20 /\ stage = "boundary" /\ stage' = "vector"
  BY DispatchOwes DEF AgreeInv, HandleInterrupts
<1>2. reload \in 0 .. 4 /\ reload' \in 0 .. 4 /\ accesses' = 0
  BY <1>1, HandleInterruptsCpuInv DEF AgreeInv, CpuInv, TypeOK, SyncInv
<1>3. PICK flag \in {timerIF, FALSE} : RegisterWord(flag) \/ OtherWord(flag)
  BY DEF HandleInterrupts
<1>4. CASE RegisterWord(flag)
  <2>1. writes' = TRUE
    BY <1>4 DEF RegisterWord
  <2>2. reload' + 4 <= Owed'
    <3>1. \A n \in 0 .. 4 : n + 4 <= 20
      OBVIOUS
    <3>2. QED
      BY <1>1, <1>2, <3>1, Zenon
  <2>3. stage' \in {"vector", "sync"}
    BY <1>1, Zenon
  <2>4. QED
    BY <2>1, <2>2, <2>3, Zenon DEF ReloadInv, Pushed
<1>5. CASE OtherWord(flag)
  <2>1. Window /\ UNCHANGED <<timerDiv, timerVars>>
    BY <1>1, <1>5 DEF OtherWord, ReloadInv, Pushed
  <2>2. \A n \in 1 .. 4 : (NoStoreFor(n))'
    BY <1>2 DEF NoStoreFor
  <2>3. QED
    BY <1>2, <2>1, <2>2, ReloadKept DEF ReloadInv
<1>6. QED
  BY <1>3, <1>4, <1>5

LEMMA FetchReload ==
  ASSUME AgreeInv, ReloadInv, RunInstruction
  PROVE  ReloadInv'
<1>1. PICK t \in INSTRUCTIONS :
        /\ Fetch(t) /\ Owed' = left + t.first + t.ahead
        /\ Owed' \in 0 .. MaxSync /\ left \in {0, 20} /\ GoodTiming(t)
        /\ \/ /\ writes' = t.writes
              /\ UNCHANGED <<div, timerDiv, timerVars, timerIF, speedVars>>
           \/ t \in WORD_STORES /\ RegisterWord(timerIF)
  BY RunInstructionOwes DEF AgreeInv
<1>2. reload \in 0 .. 4 /\ reload' \in 0 .. 4 /\ stage' = "sync"
  BY <1>1, RunInstructionCpuInv DEF AgreeInv, CpuInv, TypeOK, Fetch
<1>3. CASE t \in WORD_STORES
  <2>1. t.first >= 16
    BY <1>3 DEF WORD_STORES, ldA16Sp, pushr16, rst, callcc, Unsynced, Timing
  <2>2. Owed' >= 8
    BY <1>1, <2>1 DEF GoodTiming
  <2>3. QED
    BY <1>2, <1>1, <2>2 DEF ReloadInv, Pushed, MaxSync, DispatchTCycles
<1>4. CASE writes' = t.writes /\ UNCHANGED <<div, timerDiv, timerVars, timerIF, speedVars>>
  <2>1. CASE Window
    <3>1. writes' => Owed' >= 8
      BY <1>1, <1>4 DEF GoodTiming
    <3>2. \A n \in 1 .. 4 : (NoStoreFor(n))'
      BY <1>1, <3>1 DEF NoStoreFor, MaxSync, DispatchTCycles
    <3>3. QED
      BY <1>2, <1>4, <2>1, <3>2, ReloadKept DEF ReloadInv
  <2>2. CASE Pushed
    <3>1. left = 20
      BY <1>1, <2>2 DEF Pushed, Fetch, AgreeInv, CpuInv, SyncInv, DispatchTCycles
    <3>2. Owed' >= 8
      BY <1>1, <3>1 DEF GoodTiming
    <3>3. QED
      BY <1>1, <1>2, <3>2 DEF ReloadInv, Pushed, MaxSync, DispatchTCycles
  <2>3. QED
    BY <2>1, <2>2 DEF ReloadInv
<1>5. QED
  BY <1>1, <1>3, <1>4

\* Behind a word time passes as it does elsewhere; when TIMA overflows or is
\* reloaded, the window is a window again.
LEMMA RunTimerToPushed ==
  ASSUME AgreeInv, Pushed, RunTimerTo
  PROVE  ReloadInv'
<1> DEFINE next == Wrap(timerDiv + 1)
           fall == Falls(tac, timerDiv)
           count == IF reload = 1 THEN tma ELSE tima
           delay == IF reload > 0 THEN reload - 1 ELSE 0
<1>1. /\ timerDiv \in 0 .. DivMod - 1 /\ tac \in Tac /\ reload \in 0 .. 4
      /\ tima \in 0 .. TimaMax /\ tma \in 0 .. TimaMax
  BY DEF AgreeInv, CpuInv, TypeOK
<1>2. /\ timerDiv' = next /\ (reloaded' <=> reload = 1) /\ UNCHANGED <<tma, tac>>
      /\ tima' = IF ~fall THEN count ELSE IF count = TimaMax THEN 0 ELSE count + 1
      /\ reload' = IF fall /\ count = TimaMax THEN 4 ELSE delay
  BY Zenon DEF RunTimerTo, RunTimer, IncrementTimer, ReloadDelay, Falls
<1>3. /\ Owed' = Owed - 1 /\ Owed \in Int /\ reload + 4 <= Owed
      /\ stage = "sync" /\ stage' = "sync"
  BY RunTimerToOwes DEF AgreeInv, RunTimerTo, cpuVars, Pushed
<1>4. CASE fall /\ count = TimaMax
  <2>1. /\ next % 8 = 0 /\ ~TimerInput(tac, next) /\ CalmFor(tac, next, 4)
    BY <1>1, <1>4, AfterFall
  <2>2. tac' = tac /\ timerDiv' = next
    BY <1>2
  <2>3. tima' = 0 /\ reload' = 4 /\ (reloaded' => tma' = TimaMax /\ 4 <= Owed')
    <3> HIDE DEF fall, next
    <3>1. QED
      BY <1>1, <1>2, <1>3, <1>4
  <2> HIDE DEF next, fall, count, delay
  <2>4. timerDiv' % 8 = 4 - reload' /\ ~TimerInput(tac', timerDiv')
        /\ CalmFor(tac', timerDiv', reload')
    BY <2>1, <2>2, <2>3
  <2>5. Owed' \in Int
    BY <1>3
  <2>6. reloaded' => NoStoreFor(4)' /\ NoStoreFor(1)' /\ tima' = Succ(tma')
    BY <2>3, <2>5 DEF NoStoreFor, Succ
  <2>7. CASE reloaded'
    BY <2>3, <2>4, <2>6, <2>7 DEF ReloadInv, Window, CalmFor, TimerInput
  <2>8. CASE ~reloaded'
    BY <2>3, <2>4, <2>8 DEF ReloadInv, Window, CalmFor, TimerInput
  <2>9. QED
    BY <2>7, <2>8
<1>5. CASE ~(fall /\ count = TimaMax)
  <2> HIDE DEF fall, next
  <2>1. reload' = delay
    BY <1>2, <1>5
  <2>2. CASE reload > 1
    <3>1. reload' + 4 <= Owed'
      BY <1>1, <1>3, <2>1, <2>2
    <3>2. QED
      BY <1>3, <3>1 DEF ReloadInv, Pushed
  <2>3. CASE reload = 1
    <3>1. reload' = 0 /\ (tima' = tma' \/ tima' = Succ(tma'))
      BY <1>1, <1>2, <1>5, <2>1, <2>3 DEF Succ
    <3>2. NoStoreFor(1)'
      BY <1>1, <1>3, <2>3 DEF NoStoreFor
    <3>3. QED
      BY <3>1, <3>2 DEF ReloadInv, Window
  <2>4. CASE reload = 0
    <3>1. reload' = 0 /\ ~reloaded'
      BY <1>2, <2>1, <2>4
    <3>2. QED
      BY <3>1 DEF ReloadInv, Window
  <2>5. QED
    BY <1>1, <2>2, <2>3, <2>4
<1>6. QED
  BY <1>4, <1>5

\* An iteration of runTimerTo() that neither reloads nor sees an edge only lets
\* time pass; the reload meets no edge; and one of a full TIMA starts it.
LEMMA RunTimerToReload ==
  ASSUME AgreeInv, Window, RunTimerTo
  PROVE  Window'
<1> DEFINE next == Wrap(timerDiv + 1)
           fall == Falls(tac, timerDiv)
           count == IF reload = 1 THEN tma ELSE tima
           delay == IF reload > 0 THEN reload - 1 ELSE 0
<1>1. /\ timerDiv \in 0 .. DivMod - 1 /\ tac \in Tac /\ reload \in 0 .. 4
      /\ tima \in 0 .. TimaMax /\ tma \in 0 .. TimaMax
  BY DEF AgreeInv, CpuInv, TypeOK
<1>2. /\ timerDiv' = next /\ (reloaded' <=> reload = 1) /\ UNCHANGED <<tma, tac>>
      /\ tima' = IF ~fall THEN count ELSE IF count = TimaMax THEN 0 ELSE count + 1
      /\ reload' = IF fall /\ count = TimaMax THEN 4 ELSE delay
  BY Zenon DEF RunTimerTo, RunTimer, IncrementTimer, ReloadDelay, Falls
<1>3. Owed' = Owed - 1 /\ Owed \in Int /\ UNCHANGED <<writes, accesses>>
  BY RunTimerToOwes DEF AgreeInv, RunTimerTo, cpuVars
<1>4. CASE reload > 1
  <2>1. tima = 0 /\ CalmFor(tac, timerDiv, reload)
    BY <1>1, <1>4 DEF Window
  <2>2. ~fall /\ CalmFor(tac, next, reload - 1)
    <3>1. reload \in 1 .. 4
      BY <1>1, <1>4
    <3>2. QED
      BY <1>1, <2>1, <3>1, CalmStep, Zenon
  <2> HIDE DEF fall
  <2>3. tima' = 0 /\ reload' = reload - 1 /\ ~reloaded'
    BY <1>1, <1>2, <1>4, <2>1, <2>2
  <2>4. NoStoreFor(reload) => (NoStoreFor(reload))'
    <3>1. NoStoreFor(reload) => (writes' /\ accesses' > 0 => reload - 1 <= Owed')
      BY <1>1, <1>3 DEF NoStoreFor
    <3>2. QED
      BY <2>3, <3>1 DEF NoStoreFor
  <2>5. ASSUME timerDiv % 8 = 4 - reload, ~TimerInput(tac, timerDiv)
        PROVE  next % 8 = 4 - (reload - 1) /\ ~TimerInput(tac, next)
    <3>1. next % 8 = (timerDiv % 8) + 1
      <4>1. next % 8 = IF timerDiv % 8 = 8 - 1 THEN 0 ELSE (timerDiv % 8) + 1
        BY <1>1, Eights, NextRemainder, 8 \in Nat \ {0}
      <4>2. QED
        BY <1>1, <1>4, <2>5, <4>1
    <3>2. reload \in 1 .. 4
      BY <1>1, <1>4
    <3>3. ~TimerInput(tac, next)
      BY <1>1, <1>4, <2>5, <3>2, LowCalm
    <3>4. QED
      BY <1>1, <2>5, <3>1, <3>3
  <2>6. tac' = tac /\ timerDiv' = next
    BY <1>2
  <2> HIDE DEF next
  <2>7. CalmFor(tac', timerDiv', reload')
    BY <2>2, <2>3, <2>6
  <2>8. \/ (NoStoreFor(reload))'
        \/ timerDiv' % 8 = 4 - reload' /\ ~TimerInput(tac', timerDiv') /\ ~reloaded'
    <3>1. \/ NoStoreFor(reload)
          \/ timerDiv % 8 = 4 - reload /\ ~TimerInput(tac, timerDiv)
      BY <1>1, <1>4 DEF Window
    <3>2. CASE NoStoreFor(reload)
      BY <2>4, <3>2
    <3>3. CASE timerDiv % 8 = 4 - reload /\ ~TimerInput(tac, timerDiv)
      BY <2>3, <2>5, <2>6, <3>3
    <3>4. QED
      BY <3>1, <3>2, <3>3
  <2>9. QED
    BY <2>3, <2>7, <2>8 DEF Window, CalmFor, TimerInput
<1>5. CASE reload = 1
  <2>1. ~fall
    <3>1. CalmFor(tac, timerDiv, 1)
      BY <1>5 DEF Window
    <3>2. QED
      BY <1>1, <3>1, CalmStep, 1 \in 1 .. 4
  <2> HIDE DEF fall
  <2>2. tima' = tma' /\ reload' = 0
    BY <1>2, <1>5, <2>1
  <2>3. QED
    BY <2>2 DEF Window
<1>6. CASE reload = 0
  <2>1. ~reloaded'
    BY <1>2, <1>6
  <2>2. CASE fall /\ tima = TimaMax
    <3>1. tima' = 0 /\ reload' = 4
      <4> HIDE DEF fall
      <4>1. QED
        BY <1>2, <1>6, <2>2
    <3>2. /\ next % 8 = 0 /\ ~TimerInput(tac, next) /\ CalmFor(tac, next, 4)
      BY <1>1, <2>2, AfterFall
    <3>3. tac' = tac /\ timerDiv' = next
      BY <1>2
    <3> HIDE DEF next
    <3>4. timerDiv' % 8 = 4 - reload' /\ ~TimerInput(tac', timerDiv')
          /\ CalmFor(tac', timerDiv', reload')
      BY <3>1, <3>2, <3>3
    <3>5. QED
      BY <2>1, <3>1, <3>4 DEF Window, CalmFor, TimerInput
  <2>3. CASE ~(fall /\ tima = TimaMax)
    <3> HIDE DEF fall
    <3>1. reload' = 0
      BY <1>2, <1>6, <2>3
    <3>2. QED
      BY <2>1, <3>1 DEF Window
  <2>4. QED
    BY <2>2, <2>3
<1>7. QED
  BY <1>1, <1>4, <1>5, <1>6

\* What a store finds: whatever reload is pending came from the divider, and
\* TIMA is still what it was reloaded with.
LEMMA AtStore ==
  ASSUME AgreeInv, Window, stage = "access", accesses > 0, writes
  PROVE  /\ reload > 0 => /\ tima = 0 /\ CalmFor(tac, timerDiv, reload) /\ ~reloaded
                          /\ timerDiv % 8 = 4 - reload /\ ~TimerInput(tac, timerDiv)
         /\ reloaded => tima = tma
<1>1. Owed = 0 /\ reload \in 0 .. 4
  BY AccessOwes DEF AgreeInv, CpuInv, TypeOK
<1>2. \A n \in 1 .. 4 : ~NoStoreFor(n)
  BY <1>1 DEF NoStoreFor
<1>3. QED
  BY <1>1, <1>2 DEF Window

\* A store is the last access of its instruction.
LEMMA StoreIsLast ==
  ASSUME AgreeInv, Store, AfterAccess
  PROVE  /\ \A n : (NoStoreFor(n))'
         /\ stage = "access" /\ accesses > 0 /\ writes
         /\ timerDiv \in 0 .. DivMod - 1 /\ tac \in Tac /\ reload \in 0 .. 4
         /\ tima \in 0 .. TimaMax /\ tma \in 0 .. TimaMax
BY DEF Store, AfterAccess, NoStoreFor, AgreeInv, CpuInv, TypeOK

LEMMA WriteDivReload ==
  ASSUME AgreeInv, Window, WriteDiv
  PROVE  Window'
<1>1. /\ timerDiv' = 0 /\ UNCHANGED <<tma, tac, reloaded>> /\ Store /\ AfterAccess
      /\ IncrementTimer(TimerInput(tac, timerDiv), tima, reload)
  BY DEF WriteDiv, SetDiv
<1>2. /\ \A n : (NoStoreFor(n))'
      /\ tac \in Tac /\ reload \in 0 .. 4
  BY <1>1, StoreIsLast
<1>3. /\ reload > 0 => tima = 0 /\ ~reloaded /\ ~TimerInput(tac, timerDiv)
      /\ reloaded => tima = tma
  BY <1>1, AtStore, StoreIsLast
<1>4. /\ reload' > 0 => tima' = 0
      /\ reload' \in 0 .. 4
      /\ reloaded' => tima' = tma' \/ tima' = Succ(tma')
  BY <1>1, <1>2, <1>3 DEF IncrementTimer, ReloadDelay, Succ
<1>5. CalmFor(tac', timerDiv', reload')
  <2>1. tac.mask \in Nat /\ tac.mask >= 4
    BY <1>2, MaskRange DEF Tac
  <2>2. 0 % (2 * tac.mask) = 0
    BY <2>1
  <2>3. QED
    BY <1>1, <1>4, <2>1, <2>2 DEF CalmFor
<1>6. QED
  BY <1>2, <1>4, <1>5 DEF Window, CalmFor, Succ

LEMMA WriteTacReload ==
  ASSUME AgreeInv, Window, NEW t \in Tac, WriteTac(t)
  PROVE  Window'
<1> DEFINE edge == TimerInput(tac, timerDiv) /\ ~TimerInput(t, timerDiv)
<1>1. /\ tac' = t /\ UNCHANGED <<timerDiv, tma, reloaded>> /\ Store /\ AfterAccess
      /\ IncrementTimer(edge, tima, reload)
  BY DEF WriteTac, SetTac
<1>2. /\ \A n : (NoStoreFor(n))'
      /\ timerDiv \in 0 .. DivMod - 1 /\ reload \in 0 .. 4
  BY <1>1, StoreIsLast
<1>3. /\ reload > 0 => /\ tima = 0 /\ ~reloaded /\ ~TimerInput(tac, timerDiv)
                       /\ timerDiv % 8 = 4 - reload
      /\ reloaded => tima = tma
  BY <1>1, AtStore, StoreIsLast
<1>4. /\ reload' > 0 => tima' = 0
      /\ reload' \in 0 .. 4
      /\ reloaded' => tima' = tma' \/ tima' = Succ(tma')
      /\ reload' > 0 => reload' = reload \/ (edge /\ reload' = 4)
      /\ edge => ~TimerInput(t, timerDiv)
  <2> DEFINE input == TimerInput(tac, timerDiv)
             other == TimerInput(t, timerDiv)
  <2>1. /\ tima' = IF ~(input /\ ~other) THEN tima
                   ELSE IF tima = TimaMax THEN 0 ELSE tima + 1
        /\ reload' = IF input /\ ~other /\ tima = TimaMax THEN 4 ELSE reload
    BY <1>1, Zenon DEF IncrementTimer, ReloadDelay
  <2>2. reload > 0 => tima = 0 /\ ~reloaded /\ ~input
    BY <1>3
  <2> HIDE DEF input, other
  <2>3. QED
    BY <1>1, <1>2, <1>3, <2>1, <2>2 DEF Succ, input, other
<1>5. reload' > 0 => CalmFor(t, timerDiv, reload')
  <2>1. CASE reload > 0
    <3>1. CalmFor(t, timerDiv, reload)
      BY <1>2, <1>3, <2>1, LowCalm
    <3>2. reload' > 0 => reload' = reload
      BY <1>3, <1>4, <2>1
    <3>3. QED
      BY <3>1, <3>2
  <2>2. CASE ~(reload > 0)
    <3>1. reload' > 0 => ~TimerInput(t, timerDiv)
      BY <1>2, <1>4, <2>2
    <3>2. QED
      BY <1>2, <1>4, <3>1, ClearCalm
  <2>3. QED
    BY <2>1, <2>2
<1>6. QED
  BY <1>1, <1>2, <1>4, <1>5 DEF Window, CalmFor, Succ

LEMMA WriteTimaReload ==
  ASSUME AgreeInv, Window, NEW v \in 0 .. TimaMax, WriteTima(v) \/ WriteTma(v)
  PROVE  Window'
<1>1. Store /\ AfterAccess
  BY DEF WriteTima, WriteTma
<1>2. \A n : (NoStoreFor(n))'
  BY <1>1, StoreIsLast
<1>3. /\ reload > 0 => tima = 0 /\ ~reloaded /\ CalmFor(tac, timerDiv, reload)
      /\ reloaded => tima = tma
  BY <1>1, AtStore, StoreIsLast
<1>4. /\ reload' > 0 => tima' = 0 /\ reload' = reload
      /\ reloaded' => tima' = tma'
      /\ UNCHANGED <<timerDiv, tac>>
  BY <1>3 DEF WriteTima, WriteTma
<1>5. QED
  BY <1>2, <1>3, <1>4 DEF Window, CalmFor

\* Accesses that leave the timer alone.
LEMMA AccessReload ==
  ASSUME AgreeInv, Window, AfterAccess, UNCHANGED <<timerDiv, timerVars>>
  PROVE  Window'
<1>1. Owed = 0 /\ reload \in 0 .. 4
  BY AccessOwes DEF AfterAccess, AgreeInv, CpuInv, TypeOK
<1>2. accesses \in 0 .. 2 /\ accesses' = accesses - 1 /\ writes' = writes
  BY DEF AfterAccess, AgreeInv, CpuInv, TypeOK
<1>3. \A n \in 1 .. 4 : NoStoreFor(n) => (NoStoreFor(n))'
  BY <1>1, <1>2 DEF NoStoreFor
<1>4. QED
  BY <1>1, <1>3, ReloadKept

\* Behind a word the synchronisation is not over.
LEMMA SyncedOwes ==
  ASSUME AgreeInv, Synced
  PROVE  Owed = 0
<1>1. /\ left = 0 /\ div \in 0 .. DivMod - 1 /\ ahead \in 0 .. 2 /\ timerDiv = Wrap(div + ahead)
  BY DEF AgreeInv, CpuInv, TypeOK, Synced, Target
<1>2. div + left + ahead = div + ahead
  BY <1>1
<1>3. Owed = Distance(timerDiv, timerDiv) /\ timerDiv \in Int
  BY <1>1, <1>2 DEF Owed, AgreeInv, CpuInv, TypeOK
<1>4. QED
  BY <1>3 DEF Distance

\* Only a STOP behind a dispatch that has stored its word to the registers can
\* take away the time that the reload needs.
LEMMA NextReload ==
  ASSUME AgreeInv, ReloadInv, [Next]_vars,
         ~(Stop /\ stage = "vector" /\ writes)
  PROVE  ReloadInv'
<1>1. reload \in 0 .. 4
  BY DEF AgreeInv, CpuInv, TypeOK
<1>0. stage = "access" \/ (stage = "vector" /\ ~writes) \/ stage = "boundary" => Window
  BY DEF ReloadInv, Pushed
<1>2. CASE RunInstruction
  BY <1>2, FetchReload
<1>11. CASE HandleInterrupts
  BY <1>11, HandleInterruptsReload
<1>3. CASE Stop
  <2>1. Window
    BY <1>0, <1>3 DEF Stop, Fetch
  <2>2. accesses' = 0 /\ UNCHANGED <<timerDiv, timerVars>>
    BY <1>3 DEF Stop, Fetch, SwitchSpeed, Unsynced, Timing
  <2>3. \A n \in 1 .. 4 : (NoStoreFor(n))'
    BY <2>2 DEF NoStoreFor
  <2>4. QED
    BY <1>1, <2>1, <2>2, <2>3, ReloadKept DEF ReloadInv
<1>4. CASE RunNextTCycle
  <2>1. Owed' = Owed
    BY <1>4, RunNextTCycleOwes DEF AgreeInv
  <2>2. CASE Window
    <3>1. \A n \in 1 .. 4 : NoStoreFor(n) => (NoStoreFor(n))'
      BY <1>4, <2>1 DEF NoStoreFor, RunNextTCycle
    <3>2. QED
      BY <1>1, <1>4, <2>2, <3>1, ReloadKept DEF RunNextTCycle, ReloadInv
  <2>3. CASE Pushed
    BY <1>4, <2>1, <2>3 DEF RunNextTCycle, ReloadInv, Pushed, timerVars
  <2>4. QED
    BY <2>2, <2>3 DEF ReloadInv
<1>5. CASE RunTimerTo
  BY <1>5, RunTimerToReload, RunTimerToPushed DEF ReloadInv
<1>6. CASE Synced
  <2>1. Window
    BY <1>1, <1>6, SyncedOwes DEF ReloadInv, Pushed
  <2>2. \A n \in 1 .. 4 : NoStoreFor(n) => (NoStoreFor(n))'
    BY <1>6 DEF NoStoreFor, Owed, Synced
  <2>3. QED
    BY <1>1, <1>6, <2>1, <2>2, ReloadKept DEF Synced, ReloadInv
<1>7. CASE OtherAccess
  BY <1>0, <1>7, AccessReload DEF OtherAccess, AfterAccess, ReloadInv
<1>8. CASE WriteRegister
  <2>1. Window
    BY <1>0, <1>8 DEF WriteRegister, WriteDiv, WriteTac, WriteTima, WriteTma, WriteIF, WriteKey1,
                      Store
  <2>2. ASSUME NEW b \in BOOLEAN, WriteIF(b) \/ WriteKey1(b)
        PROVE  Window'
    BY <2>1, <2>2, AccessReload DEF WriteIF, WriteKey1
  <2>3. QED
    BY <1>8, <2>1, <2>2, WriteDivReload, WriteTacReload, WriteTimaReload
       DEF WriteRegister, ReloadInv
<1>9. CASE UNCHANGED vars
  <2>1. Owed' = Owed
    BY <1>9 DEF Owed, vars, cpuVars
  <2>2. CASE Window
    <3>1. \A n \in 1 .. 4 : NoStoreFor(n) => (NoStoreFor(n))'
      BY <1>9, <2>1 DEF NoStoreFor, vars, cpuVars
    <3>2. QED
      BY <1>1, <1>9, <2>2, <3>1, ReloadKept DEF vars, ReloadInv
  <2>3. CASE Pushed
    BY <1>9, <2>1, <2>3 DEF vars, cpuVars, timerVars, ReloadInv, Pushed
  <2>4. QED
    BY <2>2, <2>3 DEF ReloadInv
<1>10. QED
  BY <1>2, <1>3, <1>4, <1>5, <1>6, <1>7, <1>8, <1>9, <1>11 DEF Next

-----------------------------------------------------------------------------
(* The theorems.                                                           *)

\* The specification keeps its types: in particular no instruction of the
\* dispatch table, with an interrupt dispatch in front of it, synchronises
\* more T-cycles than MaxSync.
THEOREM TypeCorrect == Spec => []TypeOK
<1>1. CpuInv => TypeOK
  BY DEF CpuInv
<1>2. QED
  BY <1>1, InitCpuInv, NextCpuInv, PTL DEF Spec

\* Whatever speed switches the program makes, every instruction starts on the
\* same half of the double-speed clock (Cpu::m_doubleSpeedPhase).
THEOREM PhaseTheorem == Spec => []PhaseRestartsWithInstruction
<1>1. CpuInv => PhaseRestartsWithInstruction
  BY DEF CpuInv, TypeOK, SyncInv, PhaseInv, PhaseRestartsWithInstruction
<1>2. QED
  BY <1>1, InitCpuInv, NextCpuInv, PTL DEF Spec

\* On hardware without a speed switch runTimerTo() never has to go round its
\* 16-bit counter, whatever instructions run, wherever interrupts are
\* dispatched and whenever DIV is written.
THEOREM CatchUpTheorem == ASSUME ~IsCgb PROVE Spec => []CatchUpBounded
<1>1. CpuInv /\ LeadInv /\ [Next]_vars => CpuInv' /\ LeadInv'
  BY NextCpuInv, NextLeadInv
<1>2. LeadInv => CatchUpBounded
  BY DEF LeadInv
<1>3. QED
  BY <1>1, <1>2, InitCpuInv, InitLeadInv, PTL DEF Spec

LEMMA InitReload == Init => AgreeInv /\ ReloadInv
<1>1. Init => DividersAgree /\ ReloadInv
  BY DEF Init, DividersAgree, ReloadInv, Window
<1>2. QED
  BY <1>1, InitCpuInv DEF AgreeInv

\* Where the program can see the timer, the reload is in its window.
LEMMA ReloadShows == ReloadInv => ReloadIsClean
BY DEF ReloadInv, Window, Pushed, ReloadIsClean

\* Without a speed switch, for every width of the divider and of TIMA: whenever
\* the program can look, TIMA reads 0 while its reload is pending, and in the
\* cycle of the reload it is TMA, but for the one tick that a store to DIV or TAC
\* can add; also if the stack, or LD (a16),SP, points at the timer.
THEOREM ReloadTheorem == ASSUME ~IsCgb PROVE Spec => []ReloadIsClean
<1> DEFINE IInv == CpuInv /\ LeadInv /\ ReloadInv
<1>1. Init => IInv
  BY InitCpuInv, InitLeadInv, InitReload
<1>2. IInv /\ [Next]_vars => IInv'
  <2> SUFFICES ASSUME IInv, [Next]_vars
               PROVE  IInv'
    OBVIOUS
  <2>1. CpuInv' /\ LeadInv'
    BY NextCpuInv, NextLeadInv
  <2>2. AgreeInv /\ ~Stop
    BY DEF AgreeInv, LeadInv, Stop
  <2>3. QED
    BY <2>1, <2>2, NextReload
<1>3. IInv => ReloadIsClean
  BY ReloadShows
<1>4. QED
  BY <1>1, <1>2, <1>3, PTL DEF Spec

\* The same on either kind of hardware, whatever speed switches are made, as long
\* as no dispatch pushes its return address onto the registers: behind one that
\* does, a STOP at the vector can bring the next access nearer than the reload.
THEOREM ReloadCgbTheorem ==
  Spec /\ [][HandleInterrupts => ~writes']_vars => []ReloadIsClean
<1> DEFINE Quiet == stage = "vector" => ~writes
           IInv == AgreeInv /\ ReloadInv /\ Quiet
<1>1. Init => IInv
  BY InitReload DEF Init
<1>2. IInv /\ [Next]_vars /\ [HandleInterrupts => ~writes']_vars => IInv'
  <2> SUFFICES ASSUME IInv, [Next]_vars, [HandleInterrupts => ~writes']_vars
               PROVE  IInv'
    OBVIOUS
  <2>1. AgreeInv' /\ ReloadInv'
    BY NextAgrees, NextReload
  <2>2. Quiet'
    <3>1. CASE HandleInterrupts
      <4>1. vars' # vars
        BY <3>1 DEF HandleInterrupts, vars, cpuVars
      <4>2. QED
        BY <3>1, <4>1
    <3>2. CASE UNCHANGED vars
      BY <3>2 DEF vars, cpuVars
    <3>3. RunInstruction \/ Stop \/ RunNextTCycle \/ RunTimerTo \/ Synced \/ OtherAccess
            \/ WriteRegister => stage' # "vector"
      BY DEF RunInstruction, Fetch, Stop, RunNextTCycle, RunTimerTo, Synced, OtherAccess,
             WriteRegister, AfterAccess, cpuVars, WriteDiv, WriteTac, WriteTima, WriteTma,
             WriteIF, WriteKey1
    <3>4. QED
      BY <3>1, <3>2, <3>3 DEF Next
  <2>3. QED
    BY <2>1, <2>2
<1>3. IInv => ReloadIsClean
  BY ReloadShows
<1>4. QED
  BY <1>1, <1>2, <1>3, PTL DEF Spec
=============================================================================
