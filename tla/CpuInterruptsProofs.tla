------------------------ MODULE CpuInterruptsProofs ------------------------
(***************************************************************************)
(* Theorems about CpuInterrupts, for every set of interrupt sources.       *)
(*                                                                         *)
(* That a handler runs masked is not inductive: an EI in flight would set  *)
(* IME whatever the handler does.  What makes it inductive is that no EI   *)
(* is in flight while IME is set, so that a dispatch starts with none;     *)
(* this is where a program that has executed EI redundantly is excluded.   *)
(*                                                                         *)
(* What EI, DI and the HALT bug promise rests on a fact about every        *)
(* program: the delay is 1 after an EI and 0 otherwise (DelayFollowsEi).   *)
(***************************************************************************)
EXTENDS CpuInterrupts, TLAPS

\* No EI is in flight while interrupts are on, or in a handler that has not
\* executed one.
NoEiInFlight == ~redundantEi /\ (ime \/ masked) => imeEnableDelay = 0

IInv == TypeOK /\ NoEiInFlight /\ HandlerRunsMasked

-----------------------------------------------------------------------------
\* A dispatch takes a source out of IF and adds none.
LEMMA AcknowledgedType ==
  ASSUME TypeOK
  PROVE  Acknowledged \subseteq Sources
BY DEF TypeOK, Acknowledged

\* The countdown keeps the delay of EI between 0 and 2.
LEMMA CountDownType ==
  ASSUME TypeOK, NEW op \in Ops, CountDown(op)
  PROVE  imeEnableDelay' \in 0 .. 2 /\ ime' \in BOOLEAN
<1>1. DelayAfter(op) \in 0 .. 2
  BY DEF TypeOK, DelayAfter
<1>2. imeEnableDelay' \in 0 .. 2
  BY <1>1 DEF CountDown
<1>3. ImeAfter(op) \in BOOLEAN
  BY Zenon DEF TypeOK, ImeAfter
<1>4. ime' \in BOOLEAN
  BY <1>3, Zenon DEF CountDown
<1>5. QED
  BY <1>2, <1>4

LEMMA ExecuteType ==
  ASSUME TypeOK, NEW op \in Ops, Execute(op)
  PROVE  TypeOK'
<1>1. requested' \subseteq Sources /\ enabled' \subseteq Sources
  BY AcknowledgedType DEF TypeOK, Execute
<1>2. imeEnableDelay' \in 0 .. 2 /\ ime' \in BOOLEAN
  BY CountDownType DEF Execute
<1>3. halted' \in BOOLEAN /\ haltBugPending' \in BOOLEAN
  BY Zenon DEF Execute, Halt
<1>4. running' \in BOOLEAN
  BY Zenon DEF TypeOK, Execute
<1>5. ops' \in Ops \X Ops
  BY DEF TypeOK, Execute
<1>6. masked' \in BOOLEAN /\ redundantEi' \in BOOLEAN
  BY Zenon DEF Execute
<1>7. QED
  BY <1>1, <1>2, <1>3, <1>4, <1>5, <1>6 DEF TypeOK

LEMMA InitType == Init => TypeOK
<1>1. SUFFICES ASSUME Init PROVE TypeOK
  OBVIOUS
<1>2. /\ ime \in BOOLEAN /\ halted \in BOOLEAN /\ haltBugPending \in BOOLEAN
      /\ running \in BOOLEAN /\ masked \in BOOLEAN /\ redundantEi \in BOOLEAN
  BY <1>1, Zenon DEF Init
<1>3. ops \in Ops \X Ops
  BY <1>1 DEF Init, Ops
<1>4. /\ requested \subseteq Sources /\ enabled \subseteq Sources
      /\ imeEnableDelay \in 0 .. 2
  BY <1>1 DEF Init
<1>5. QED
  BY <1>2, <1>3, <1>4 DEF TypeOK

LEMMA TypeStep ==
  ASSUME TypeOK, [Next]_vars
  PROVE  TypeOK'
<1>1. CASE Idle
  BY <1>1 DEF TypeOK, Idle, vars
<1>2. ASSUME NEW op \in Ops, Execute(op) PROVE TypeOK'
  BY <1>2, ExecuteType
<1>3. CASE UnimplementedOpcode
  <2>1. requested' \subseteq Sources
    BY <1>3, AcknowledgedType DEF UnimplementedOpcode
  <2>2. ime' \in BOOLEAN /\ masked' \in BOOLEAN
    BY <1>3, Zenon DEF UnimplementedOpcode
  <2>3. QED
    BY <1>3, <2>1, <2>2 DEF TypeOK, UnimplementedOpcode
<1>4. CASE Raise
  BY <1>4 DEF TypeOK, Raise
<1>5. CASE Reset
  <2>1. ime' \in BOOLEAN /\ halted' \in BOOLEAN /\ haltBugPending' \in BOOLEAN
        /\ running' \in BOOLEAN /\ masked' \in BOOLEAN /\ redundantEi' \in BOOLEAN
    BY <1>5, Zenon DEF Reset
  <2>2. ops' \in Ops \X Ops
    BY <1>5 DEF Reset, Ops
  <2>3. requested' \subseteq Sources /\ enabled' \subseteq Sources
        /\ imeEnableDelay' \in 0 .. 2
    BY <1>5 DEF Reset
  <2>4. QED
    BY <2>1, <2>2, <2>3 DEF TypeOK
<1>6. CASE UNCHANGED vars
  BY <1>6 DEF TypeOK, vars
<1>7. QED
  BY <1>1, <1>2, <1>3, <1>4, <1>5, <1>6 DEF Next, RunNextInstruction

\* Type correctness (CpuInterrupts' TypeOK): IF and IE hold known sources and
\* the delay of EI never leaves 0 .. 2, so its decrement never wraps.
THEOREM TypeCorrect == Spec => []TypeOK
BY InitType, TypeStep, PTL DEF Spec

-----------------------------------------------------------------------------
\* The step that matters: an instruction of a program without redundant EI.
LEMMA ExecuteMasked ==
  ASSUME IInv, NEW op \in Ops, Execute(op), ~redundantEi'
  PROVE  NoEiInFlight' /\ HandlerRunsMasked'
<1>1. ~redundantEi
  BY Zenon DEF Execute
<1>2. CASE op = "ei"
  <2>1. ~(ime /\ ~Dispatches)
    BY <1>2, Zenon DEF Execute
  <2>2. DelayAfter(op) = 2 /\ ~ImeAfter(op)
    BY <1>2, <2>1 DEF DelayAfter, ImeAfter
  <2>3. DelayAfter(op) # 1
    BY <2>2
  <2>4. ~ime'
    BY <2>2, <2>3, Zenon DEF Execute, CountDown
  <2>5. ~masked'
    BY <1>2, Zenon DEF Execute
  <2>6. QED
    BY <2>4, <2>5 DEF NoEiInFlight, HandlerRunsMasked
<1>3. CASE op \in {"di", "reti"}
  <2>1. imeEnableDelay' = 0
    BY <1>3 DEF Execute, CountDown, DelayAfter
  <2>2. op = "di" => ~ime'
    BY <1>3 DEF Execute, CountDown, DelayAfter, ImeAfter
  <2>3. op = "reti" => ~masked'
    BY DEF Execute
  <2>4. QED
    BY <1>3, <2>1, <2>2, <2>3 DEF NoEiInFlight, HandlerRunsMasked
<1>4. CASE op \notin {"ei", "di", "reti"}
  <2>1. /\ DelayAfter(op) = imeEnableDelay
        /\ ImeAfter(op) = (ime /\ ~Dispatches)
        /\ masked' = (masked \/ Dispatches)
    BY <1>4 DEF Execute, DelayAfter, ImeAfter
  <2>2. CASE imeEnableDelay = 0
    <3>1. imeEnableDelay' = 0 /\ ime' = (ime /\ ~Dispatches)
      BY <2>1, <2>2 DEF Execute, CountDown
    <3>2. QED
      BY <1>1, <2>1, <3>1 DEF IInv, NoEiInFlight, HandlerRunsMasked
  <2>3. CASE imeEnableDelay # 0
    <3>1. ~ime /\ ~masked
      BY <1>1, <2>3 DEF IInv, NoEiInFlight
    <3>2. ~masked'
      BY <2>1, <3>1 DEF Dispatches
    <3>3. imeEnableDelay \in 1 .. 2
      BY <2>3 DEF IInv, TypeOK
    <3>4. imeEnableDelay = 1 => imeEnableDelay' = 0
      BY <2>1 DEF Execute, CountDown
    <3>5. imeEnableDelay = 2 => ~ime'
      <4>1. 2 # 1
        OBVIOUS
      <4>2. QED
        BY <2>1, <3>1, <4>1, Zenon DEF Execute, CountDown
    <3>6. QED
      BY <3>2, <3>3, <3>4, <3>5 DEF NoEiInFlight, HandlerRunsMasked
  <2>4. QED
    BY <2>2, <2>3
<1>5. QED
  BY <1>2, <1>3, <1>4

LEMMA MaskedStep ==
  ASSUME IInv, [Next]_vars
  PROVE  IInv'
<1>1. TypeOK'
  BY TypeStep DEF IInv
<1>2. NoEiInFlight' /\ HandlerRunsMasked'
  <2>1. CASE Idle
    BY <2>1 DEF IInv, NoEiInFlight, HandlerRunsMasked, Idle, vars
  <2>2. ASSUME NEW op \in Ops, Execute(op)
        PROVE  NoEiInFlight' /\ HandlerRunsMasked'
    <3>1. CASE redundantEi'
      BY <3>1 DEF NoEiInFlight, HandlerRunsMasked
    <3>2. CASE ~redundantEi'
      BY <2>2, <3>2, ExecuteMasked
    <3>3. QED
      BY <3>1, <3>2
  <2>3. CASE UnimplementedOpcode
    BY <2>3 DEF IInv, NoEiInFlight, HandlerRunsMasked, UnimplementedOpcode,
                Dispatches
  <2>4. CASE Raise
    BY <2>4 DEF IInv, NoEiInFlight, HandlerRunsMasked, Raise
  <2>5. CASE Reset
    BY <2>5 DEF NoEiInFlight, HandlerRunsMasked, Reset
  <2>6. CASE UNCHANGED vars
    BY <2>6 DEF IInv, NoEiInFlight, HandlerRunsMasked, vars
  <2>7. QED
    BY <2>1, <2>2, <2>3, <2>4, <2>5, <2>6 DEF Next, RunNextInstruction
<1>3. QED
  BY <1>1, <1>2 DEF IInv

\* In a program that has not executed EI redundantly no interrupt can be
\* dispatched in a handler (Cpu::handleInterrupts()) before the handler itself
\* executes EI or RETI.
THEOREM MaskedTheorem == Spec => []HandlerRunsMasked
<1>1. Init => IInv
  BY InitType DEF Init, IInv, NoEiInFlight, HandlerRunsMasked
<1>2. IInv /\ [Next]_vars => IInv'
  BY MaskedStep
<1>3. IInv => HandlerRunsMasked
  BY DEF IInv
<1>4. QED
  BY <1>1, <1>2, <1>3, PTL DEF Spec

-----------------------------------------------------------------------------
(* EI, DI and the HALT bug.                                                *)

\* Between two instructions the delay is running exactly behind an EI.
DelayFollowsEi == imeEnableDelay = IF ops[2] = "ei" THEN 1 ELSE 0

\* The HALT bug is pending only behind a HALT, with IME clear unless an EI in
\* front of that HALT has just set it.
HaltBugBehindHalt == haltBugPending => ops[2] = "halt" /\ (ops[1] = "ei" \/ ~ime)

EiInv ==
  /\ TypeOK
  /\ DelayFollowsEi
  /\ EiDelayIsOneInstruction
  /\ HaltBugBehindHalt

\* The countdown sets IME only at the instruction behind an EI, or for RETI.
LEMMA CountDownSetsIme ==
  ASSUME EiInv, NEW op \in Ops, Execute(op)
  PROVE  /\ ops'[1] = ops[2] /\ ops'[2] = op
         /\ imeEnableDelay' = IF op = "ei" THEN 1 ELSE 0
         /\ op = "di" => ~ime'
         /\ op = "ei" /\ ~(ime /\ ~Dispatches) => ~ime'
         /\ ops[2] = "ei" /\ op \notin {"ei", "di"} => ime'
         /\ ops[2] # "ei" /\ op # "reti" /\ ~(ime /\ ~Dispatches) => ~ime'
<1>1. ops'[1] = ops[2] /\ ops'[2] = op
  BY DEF Execute
<1>2. imeEnableDelay = IF ops[2] = "ei" THEN 1 ELSE 0
  BY DEF EiInv, DelayFollowsEi
<1>3. DelayAfter(op) = CASE op = "ei" -> 2 [] op \in {"di", "reti"} -> 0
                         [] OTHER -> IF ops[2] = "ei" THEN 1 ELSE 0
  BY <1>2 DEF DelayAfter
<1>4. imeEnableDelay' = IF op = "ei" THEN 1 ELSE 0
  BY <1>3 DEF Execute, CountDown
<1>5. (DelayAfter(op) = 1) <=> (ops[2] = "ei" /\ op \notin {"ei", "di", "reti"})
  BY <1>3
<1>6. ime' = IF DelayAfter(op) = 1 THEN TRUE ELSE ImeAfter(op)
  BY DEF Execute, CountDown
<1>7. op = "di" => ~ime'
  BY <1>5, <1>6 DEF ImeAfter
<1>8. op = "reti" => ime'
  BY <1>5, <1>6 DEF ImeAfter
<1>9. op # "reti" /\ ~(ime /\ ~Dispatches) => ~ImeAfter(op)
  BY DEF ImeAfter
<1>10. ops[2] = "ei" /\ op \notin {"ei", "di"} => ime'
  BY <1>5, <1>6, <1>8
<1>11. op = "ei" /\ ~(ime /\ ~Dispatches) => ~ime'
  BY <1>5, <1>6, <1>9
<1>12. ops[2] # "ei" /\ op # "reti" /\ ~(ime /\ ~Dispatches) => ~ime'
  BY <1>5, <1>6, <1>9
<1>13. QED
  BY <1>1, <1>4, <1>7, <1>10, <1>11, <1>12

LEMMA ExecuteEi ==
  ASSUME EiInv, NEW op \in Ops, Execute(op)
  PROVE  DelayFollowsEi' /\ EiDelayIsOneInstruction' /\ HaltBugBehindHalt'
<1>1. DelayFollowsEi'
  BY CountDownSetsIme DEF DelayFollowsEi
<1>2. ASSUME ~redundantEi'
      PROVE  EiTakesEffect' /\ (ops'[2] = "ei" => ~ime')
  <2>1. op = "ei" => ~(ime /\ ~Dispatches) /\ ~(imeEnableDelay > 0)
    BY <1>2, Zenon DEF Execute
  <2>2. op = "ei" => ops[2] # "ei"
    BY <2>1 DEF EiInv, DelayFollowsEi
  <2>3. EiTakesEffect'
    BY <2>2, CountDownSetsIme DEF EiTakesEffect
  <2>4. ops'[2] = "ei" => ~ime'
    BY <2>1, CountDownSetsIme
  <2>5. QED
    BY <2>3, <2>4
<1>3. ops'[2] = "di" => ~ime' /\ imeEnableDelay' = 0
  BY CountDownSetsIme
<1>4. HaltBugBehindHalt'
  <2>1. haltBugPending' => op = "halt" /\ ~(ime /\ ~Dispatches)
    BY Zenon DEF Execute, Halt, HaltFails
  <2>2. QED
    BY <2>1, CountDownSetsIme DEF HaltBugBehindHalt
<1>5. QED
  BY <1>1, <1>2, <1>3, <1>4 DEF EiDelayIsOneInstruction

LEMMA EiStep ==
  ASSUME EiInv, [Next]_vars
  PROVE  EiInv'
<1>1. TypeOK'
  BY TypeStep DEF EiInv
<1>2. DelayFollowsEi' /\ EiDelayIsOneInstruction' /\ HaltBugBehindHalt'
  <2> USE DEF EiInv, DelayFollowsEi, EiDelayIsOneInstruction, EiTakesEffect,
              HaltBugBehindHalt
  <2>1. CASE Idle
    BY <2>1 DEF Idle, vars
  <2>2. ASSUME NEW op \in Ops, Execute(op)
        PROVE  DelayFollowsEi' /\ EiDelayIsOneInstruction' /\ HaltBugBehindHalt'
    BY <2>2, ExecuteEi
  <2>3. CASE UnimplementedOpcode
    BY <2>3 DEF UnimplementedOpcode
  <2>4. CASE Raise
    BY <2>4 DEF Raise
  <2>5. CASE Reset
    BY <2>5 DEF Reset
  <2>6. CASE UNCHANGED vars
    BY <2>6 DEF vars
  <2>7. QED
    BY <2>1, <2>2, <2>3, <2>4, <2>5, <2>6 DEF Next, RunNextInstruction
<1>3. QED
  BY <1>1, <1>2 DEF EiInv

LEMMA EiInvariant == Spec => []EiInv
<1>1. Init => EiInv
  <2>1. Init => TypeOK
    BY InitType
  <2>2. Init => DelayFollowsEi /\ EiDelayIsOneInstruction /\ HaltBugBehindHalt
    BY DEF Init, DelayFollowsEi, EiDelayIsOneInstruction, EiTakesEffect,
           HaltBugBehindHalt
  <2>3. QED
    BY <2>1, <2>2 DEF EiInv
<1>2. EiInv /\ [Next]_vars => EiInv'
  BY EiStep
<1>3. QED
  BY <1>1, <1>2, PTL DEF Spec

\* EI takes effect exactly behind the instruction that follows it in every
\* program that executes no redundant EI, and a DI cancels it in every program
\* (Cpu::ei(), Cpu::di(), the end of Cpu::runNextInstruction()).
THEOREM EiDelayTheorem == Spec => []EiDelayIsOneInstruction
<1>1. EiInv => EiDelayIsOneInstruction
  BY DEF EiInv
<1>2. QED
  BY <1>1, EiInvariant, PTL

\* No interrupt is dispatched between a HALT that triggers the HALT bug and the
\* instruction the bug executes twice, in any program, unless an EI directly in
\* front of the HALT takes effect there (Cpu::halt()).
THEOREM HaltBugTheorem == Spec => []HaltBugHitsNextInstruction
<1>1. EiInv => HaltBugHitsNextInstruction
  <2>1. SUFFICES ASSUME EiInv, haltBugPending, ops # <<"ei", "halt">>
                 PROVE  ~ime
    BY DEF HaltBugHitsNextInstruction, Dispatches
  <2>2. ops = <<ops[1], ops[2]>>
    BY <2>1 DEF EiInv, TypeOK
  <2>3. QED
    BY <2>1, <2>2 DEF EiInv, HaltBugBehindHalt
<1>2. QED
  BY <1>1, EiInvariant, PTL
=============================================================================
