------------------------------ MODULE CpuTiming ------------------------------
(***************************************************************************)
(* When the instructions of src/src/cpu.cpp touch the bus.                 *)
(*                                                                         *)
(* runNextInstruction() executes a handler as one C++ call, but a handler  *)
(* that accesses memory calls advanceHardware() first, so that the rest of *)
(* the machine is brought up to the T-cycle of the access.  What matters   *)
(* of a handler here is therefore:                                         *)
(*   first  - T-cycles from the start of the instruction to its first      *)
(*            synchronised access, or to its end when it makes none;       *)
(*   ahead  - how many T-cycles the timer is run beyond that point (the    *)
(*            second argument of advanceHardware());                       *)
(*   rest   - T-cycles from the first access to the end;                   *)
(*   accesses - synchronised accesses (0, 1, or 2 for read-modify-write);  *)
(*   writes - whether the last of them is a store.                         *)
(* What the handler computes is left out, and so are the words that some   *)
(* handlers store as they start, without bringing the machine up: the      *)
(* modules that own the registers such a word can hit store it (see        *)
(* WORD_STORES).                                                           *)
(***************************************************************************)
EXTENDS Integers

Timing(first, ahead, rest, accesses, writes) ==
  [first |-> first, ahead |-> ahead, rest |-> rest,
   accesses |-> accesses, writes |-> writes]

\* A handler of `cycles` M-cycles with no synchronised access.
Unsynced(cycles) == Timing(4 * cycles, 0, 0, 0, FALSE)

\* The read, or the write, happens at the end of the instruction.
LoadAt(cycles)  == Timing(4 * cycles, 0, 0, 1, FALSE)
StoreAt(cycles) == Timing(4 * cycles, 0, 0, 1, TRUE)

\* Mutant: a store moved to the end of its M-cycle that still runs the timer
\* one T-cycle ahead.
EarlyStoreMoved(cycles) == Timing(4 * cycles, 1, 0, 1, TRUE)

\* The bus is sampled, or driven, before the last M-cycle is over, with the
\* timer already at its end.
EarlyLoadAt(cycles)  == Timing(4 * cycles - 2, 2, 2, 1, FALSE)
EarlyStoreAt(cycles) == Timing(4 * cycles - 1, 1, 1, 1, TRUE)

\* A read, and one M-cycle later a write at the end of the instruction.
ModifyAt(cycles) == Timing(4 * (cycles - 1), 0, 4, 2, TRUE)

-----------------------------------------------------------------------------
(* One set per handler of the dispatch table: the timings it can have.     *)

nop       == {Unsynced(1)}
halt      == {Unsynced(1)}
jpcc      == {Unsynced(4), Unsynced(3)}
retcc     == {Unsynced(4), Unsynced(5), Unsynced(2)}
ldRRd16   == {Unsynced(3)}
ldRR      == {Unsynced(1), LoadAt(2), EarlyStoreAt(2)}
ldRd8     == {Unsynced(2), StoreAt(3)}
ldhlia    == {LoadAt(2), StoreAt(2)}
ldbcdea   == {LoadAt(2), StoreAt(2)}
incr8     == {Unsynced(1), ModifyAt(3)}
decr8     == {Unsynced(1), ModifyAt(3)}
jrcc      == {Unsynced(3), Unsynced(2)}
di        == {Unsynced(1)}
ei        == {Unsynced(1)}
reti      == {Unsynced(4)}
rst       == {Unsynced(4)}
stop      == {Unsynced(1)}
ldaa16    == {LoadAt(4), StoreAt(4)}
ldha8     == {EarlyLoadAt(3), EarlyStoreAt(3)}
ldhca     == {LoadAt(2), StoreAt(2), EarlyStoreAt(2)}
callcc    == {Unsynced(6), Unsynced(3)}
pushr16   == {Unsynced(4)}
popr16    == {Unsynced(3)}
incdecr16 == {Unsynced(2)}
aluR8     == {Unsynced(1), LoadAt(2)}
aluD8     == {Unsynced(2)}
cbPrefixed == {Unsynced(2), LoadAt(3), ModifyAt(4)}
rotateA   == {Unsynced(1)}
addhlr16  == {Unsynced(2)}
jphl      == {Unsynced(1)}
ldA16Sp   == {Unsynced(5)}
addSpHlE8 == {Unsynced(4), Unsynced(3)}
ldSpHl    == {Unsynced(2)}
daaCplScfCcf == {Unsynced(1)}

\* Every timing the dispatch table can produce.
INSTRUCTIONS ==
  UNION {nop, halt, jpcc, retcc, ldRRd16, ldRR, ldRd8, ldhlia, ldbcdea, incr8,
         decr8, jrcc, di, ei, reti, rst, stop, ldaa16, ldha8, ldhca, callcc,
         pushr16, popr16, incdecr16, aluR8, aluD8, cbPrefixed, rotateA,
         addhlr16, jphl, ldA16Sp, addSpHlE8, ldSpHl, daaCplScfCcf}

\* The handlers that begin with Mmu::writeWord(): two stores to adjacent
\* addresses, made at the start of the instruction with no T-cycle before,
\* between or behind them.  A CALL that is not taken stores nothing.
WORD_STORES == UNION {ldA16Sp, pushr16, rst, callcc \ {Unsynced(3)}}

\* The M-cycles handleInterrupts() adds, once it has stored the word of the
\* return address, before the handler of the instruction at the vector runs:
\* nothing is synchronised in between.
DispatchTCycles == 20
=============================================================================
