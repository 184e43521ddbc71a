--------------------------- MODULE CpuInterrupts ---------------------------
(***************************************************************************)
(* Interrupts as Cpu::runNextInstruction() handles them: the dispatch, the *)
(* one-instruction delay of EI, HALT and the HALT bug.                     *)
(*                                                                         *)
(* A step of the CPU is one call of runNextInstruction(); hardware raises  *)
(* requests between the calls (everything it raises in the middle of one   *)
(* is raised before or after the single access the call makes to IF).      *)
(* Instructions that touch none of this state are all "other".             *)
(***************************************************************************)
EXTENDS Integers, FiniteSets

CONSTANT Sources   \* the interrupt sources, lowest number served first (0 .. 4)

ASSUME CpuInterruptsAssumption == Sources \subseteq Nat /\ IsFiniteSet(Sources)

VARIABLES
  requested, enabled,  \* IF and IE, as sets of sources
  ime,                 \* m_ime
  imeEnableDelay,      \* m_imeEnableDelay
  halted,              \* m_halted
  haltBugPending,      \* m_haltBugPending
  running,             \* no runNextInstruction() has returned an error yet
  ops,     \* history: the last two instructions executed
  masked,  \* history: a dispatch, and no EI or RETI since
  redundantEi  \* history: whether the program has executed an EI with IME set
               \* or being set

vars == <<requested, enabled, ime, imeEnableDelay, halted, haltBugPending,
          running, ops, masked, redundantEi>>

Ops == {"other", "halt", "di", "ei", "reti", "writeIF", "writeIE"}

TypeOK ==
  /\ requested \subseteq Sources /\ enabled \subseteq Sources
  /\ ime \in BOOLEAN /\ halted \in BOOLEAN
  /\ imeEnableDelay \in 0 .. 2
  /\ haltBugPending \in BOOLEAN /\ running \in BOOLEAN
  /\ ops \in Ops \X Ops
  /\ masked \in BOOLEAN /\ redundantEi \in BOOLEAN

Init ==
  /\ requested = {} /\ enabled = {}
  /\ ime = FALSE /\ imeEnableDelay = 0
  /\ halted = FALSE /\ haltBugPending = FALSE
  /\ running = TRUE
  /\ ops = <<"other", "other">> /\ masked = FALSE /\ redundantEi = FALSE

-----------------------------------------------------------------------------
Lowest(S) == CHOOSE s \in S : \A t \in S : s <= t

\* interruptRequestPending()
Pending == requested \cap enabled

\* Whether handleInterrupts() dispatches, and what IF is afterwards.
Dispatches == ime /\ Pending # {}

\* Mutant: the search for the source starts at the wrong end.
AcknowledgedLast ==
  IF Dispatches THEN requested \ {CHOOSE s \in Pending : \A t \in Pending : t <= s}
                ELSE requested

Acknowledged == IF Dispatches THEN requested \ {Lowest(Pending)} ELSE requested

\* Mutant: a halted CPU only wakes up for an interrupt it can dispatch.
AwakeToDispatch == running /\ (halted => Dispatches)

\* A halted CPU stays so until a request is pending, whether or not IME is set.
Awake == running /\ (halted => Pending # {})

Idle == running /\ ~Awake /\ UNCHANGED vars

-----------------------------------------------------------------------------
(* The handlers.  Each leaves IME and the delay as it sets them, before     *)
(* runNextInstruction() counts the delay down.                             *)

\* Mutant: DI leaves an EI that has not taken effect yet alone.
DelayAfterKeepingEi(op) ==
  CASE op = "ei" -> 2 [] op = "reti" -> 0 [] OTHER -> imeEnableDelay

\* Mutant: EI takes effect at once.
DelayAfterShort(op) ==
  CASE op = "ei" -> 1 [] op \in {"di", "reti"} -> 0 [] OTHER -> imeEnableDelay

DelayAfter(op) ==
  CASE op = "ei" -> 2 [] op \in {"di", "reti"} -> 0 [] OTHER -> imeEnableDelay

ImeAfter(op) ==
  CASE op = "di" -> FALSE [] op = "reti" -> TRUE [] OTHER -> ime /\ ~Dispatches

\* halt(): with IME clear and a request pending the CPU does not halt, and the
\* next instruction is executed with PC one too low.
HaltFails == ~(ime /\ ~Dispatches) /\ Acknowledged \cap enabled # {}

\* Mutant: the HALT bug stays pending after it hit an instruction.
HaltBugKept(op) ==
  /\ halted' = (op = "halt" /\ ~HaltFails)
  /\ haltBugPending' = (haltBugPending \/ (op = "halt" /\ HaltFails))

Halt(op) ==
  /\ halted' = (op = "halt" /\ ~HaltFails)
  /\ haltBugPending' = (op = "halt" /\ HaltFails)

\* Mutant: the dispatch does not clear IME.
CountDownLeavingIme(op) ==
  /\ imeEnableDelay' = IF DelayAfter(op) > 0 THEN DelayAfter(op) - 1 ELSE 0
  /\ ime' = IF DelayAfter(op) = 1 THEN TRUE
            ELSE CASE op = "di" -> FALSE [] op = "reti" -> TRUE [] OTHER -> ime

\* Mutant: the countdown does not stop at zero.
CountDownPastZero(op) ==
  /\ imeEnableDelay' = DelayAfter(op) - 1
  /\ ime' = IF DelayAfter(op) = 1 THEN TRUE ELSE ImeAfter(op)

\* The end of runNextInstruction().
CountDown(op) ==
  /\ imeEnableDelay' = IF DelayAfter(op) > 0 THEN DelayAfter(op) - 1 ELSE 0
  /\ ime' = IF DelayAfter(op) = 1 THEN TRUE ELSE ImeAfter(op)

Execute(op) ==
  /\ Awake
  /\ Halt(op)
  /\ CountDown(op)
  /\ CASE op = "writeIF" -> requested' \in SUBSET Sources /\ UNCHANGED enabled
       [] op = "writeIE" -> enabled' \in SUBSET Sources /\ requested' = Acknowledged
       [] OTHER -> requested' = Acknowledged /\ UNCHANGED enabled
  /\ ops' = <<ops[2], op>>
  /\ masked' = (op \notin {"ei", "reti"} /\ (masked \/ Dispatches))
  /\ redundantEi' = (redundantEi \/
        (op = "ei" /\ ((ime /\ ~Dispatches) \/ imeEnableDelay > 0)))
  /\ UNCHANGED running

\* An opcode without a handler: an error is returned after the dispatch, and
\* the front end gives the session up.
UnimplementedOpcode ==
  /\ Awake
  /\ running' = FALSE /\ halted' = FALSE
  /\ ime' = (ime /\ ~Dispatches)
  /\ requested' = Acknowledged
  /\ masked' = (masked \/ Dispatches)
  /\ UNCHANGED <<enabled, imeEnableDelay, haltBugPending, ops, redundantEi>>

\* GameBoy::reset() builds a new Cpu and clears the registers of the MMU.
Reset ==
  /\ requested' = {} /\ enabled' = {}
  /\ ime' = FALSE /\ imeEnableDelay' = 0
  /\ halted' = FALSE /\ haltBugPending' = FALSE
  /\ running' = TRUE
  /\ ops' = <<"other", "other">> /\ masked' = FALSE /\ redundantEi' = FALSE

\* PPU, timer and serial port set their bit of IF.
Raise ==
  /\ running
  /\ \E s \in Sources \ requested : requested' = requested \union {s}
  /\ UNCHANGED <<enabled, ime, imeEnableDelay, halted, haltBugPending, running,
                 ops, masked, redundantEi>>

RunNextInstruction == Idle \/ (\E op \in Ops : Execute(op)) \/ UnimplementedOpcode

Next == RunNextInstruction \/ Raise \/ Reset

Spec == Init /\ [][Next]_vars

\* The front end keeps calling runNextInstruction(); that hardware raises
\* anything is not promised.
FairSpec == Spec /\ WF_vars(RunNextInstruction)

-----------------------------------------------------------------------------
(* Properties.                                                             *)

\* Once a handler has been dispatched interrupts stay off until the program
\* itself executes EI or RETI: no second handler is nested into the first, as
\* long as the program executes no redundant EI.
HandlerRunsMasked == masked /\ ~redundantEi => ~ime

\* Interrupts are on once the instruction following an EI has completed,
\* whatever that instruction is (cpu.cpp, ei()); only a DI cancels the EI.
EiTakesEffect == running /\ ops[1] = "ei" /\ ops[2] # "di" => ime

\* In a program without redundant EI, EI takes effect exactly then: not before
\* the instruction following it, and not later.  In any program DI, directly
\* after an EI too, lets no interrupt in and leaves none to be let in.
EiDelayIsOneInstruction ==
  /\ ~redundantEi => EiTakesEffect /\ (ops[2] = "ei" => ~ime)
  /\ ops[2] = "di" => ~ime /\ imeEnableDelay = 0

\* The instruction the HALT bug makes execute twice is the one behind HALT: no
\* interrupt is dispatched before it, unless an EI directly in front of the
\* HALT takes effect there.
HaltBugHitsNextInstruction ==
  haltBugPending /\ ops # <<"ei", "halt">> => ~Dispatches

\* A halted CPU wakes up for any enabled request: with IME clear it goes on
\* behind the HALT, with IME set it enters the handler (which may itself begin
\* with a HALT).
HaltWakes ==
  /\ (halted /\ ~ime /\ Pending # {}) ~> ~halted
  /\ (halted /\ ime /\ Pending # {}) ~> (~halted \/ ~ime)

\* The highest-priority source is served if it stays enabled and the program
\* keeps opening the interrupt window without writing IF.
HighestIsServed ==
  LET top == Lowest(Sources)
  IN  (/\ <>[](top \in enabled /\ running)
       /\ []<>ime
       /\ <>[](ops[2] # "writeIF"))
      => (top \in requested ~> top \notin requested)
=============================================================================
