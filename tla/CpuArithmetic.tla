---------------------------- MODULE CpuArithmetic ----------------------------
(***************************************************************************)
(* The arithmetic of the CPU on its accumulator: every instruction that    *)
(* reads or sets a flag, as a function of A and F, in any order in which a *)
(* program may have them.                                                  *)
(*                                                                         *)
(* What an instruction leaves in a register other than A is the value of   *)
(* an operator, and not kept.  Addresses, which registers are read, and    *)
(* when, are left out (see CpuTiming).                                     *)
(***************************************************************************)
EXTENDS Integers

CONSTANTS
  Operands,   \* the bytes a program computes with
  HighBytes   \* high bytes of the words in SumsAgree

CpuArithmeticAssumption == Operands \subseteq 0 .. 255 /\ HighBytes \subseteq 0 .. 255

VARIABLES
  a,    \* the accumulator
  f,    \* the flags that are set
  sum   \* history: the decimal sum, or difference, that the program is at

vars == <<a, f, sum>>

Flags == {"Z", "N", "H", "C"}
On(flag, condition) == IF condition THEN {flag} ELSE {}
Carry(flags) == IF "C" \in flags THEN 1 ELSE 0

\* stage: "binary", after an addition or subtraction of two decimal bytes, the
\* result of which is value; "decimal", after the DAA behind it; "carry", when
\* the carry of the bytes before is all that is left; or "none".
Sum == [stage : {"binary", "decimal", "carry", "none"}, value : -100 .. 199,
        carried : 0 .. 1]
NoSum == [stage |-> "none", value |-> 0, carried |-> 0]
OnlyCarry(c) == [stage |-> "carry", value |-> 0, carried |-> c]

TypeOK == a \in 0 .. 255 /\ f \subseteq Flags /\ sum \in Sum

Init == a = 0 /\ f = {} /\ sum = NoSum

-----------------------------------------------------------------------------
(* The instructions, as functions of their operands and the flags.         *)

Result(value, flags) ==
  [a |-> value % 256, f |-> flags \union On("Z", value % 256 = 0)]

\* A byte as the set of its bits that are set.
Bits(x) == {n \in 0 .. 7 : (x \div 2 ^ n) % 2 = 1}
Bit(n, bits) == IF n \in bits THEN 2 ^ n ELSE 0
Byte(bits) ==
  Bit(0, bits) + Bit(1, bits) + Bit(2, bits) + Bit(3, bits)
  + Bit(4, bits) + Bit(5, bits) + Bit(6, bits) + Bit(7, bits)

\* Mutant: the carry is left out of the half carry.
AddHalfShort(x, y, c) ==
  Result(x + y + c, On("H", (x % 16) + (y % 16) > 15) \union On("C", x + y + c >= 256))

\* ADD and ADC
Add(x, y, c) ==
  Result(x + y + c, On("H", (x % 16) + (y % 16) + c > 15) \union On("C", x + y + c >= 256))

\* SUB, SBC and CP
Subtract(x, y, c) ==
  Result(x - (y + c), {"N"} \union On("H", x % 16 < (y % 16) + c) \union On("C", x < y + c))

AluOps == {"add", "adc", "sub", "sbc", "and", "xor", "or", "cp"}

\* applyAluOp()
ApplyAluOp(op, x, y, flags) ==
  CASE op = "add" -> Add(x, y, 0)
    [] op = "adc" -> Add(x, y, Carry(flags))
    [] op = "sub" -> Subtract(x, y, 0)
    [] op = "sbc" -> Subtract(x, y, Carry(flags))
    [] op = "and" -> Result(Byte(Bits(x) \intersect Bits(y)), {"H"})
    [] op = "xor" -> Result(Byte((Bits(x) \union Bits(y)) \ (Bits(x) \intersect Bits(y))), {})
    [] op = "or"  -> Result(Byte(Bits(x) \union Bits(y)), {})
    [] op = "cp"  -> [Subtract(x, y, 0) EXCEPT !.a = x]

Inc8(x, flags) == Result(x + 1, (flags \intersect {"C"}) \union On("H", x % 16 = 15))
Dec8(x, flags) ==
  Result(x - 1, (flags \intersect {"C"}) \union {"N"} \union On("H", x % 16 = 0))

\* Mutant: the low half is adjusted for its value only.
DaaByValue(x, flags) ==
  LET full == "C" \in flags \/ x > 153
      half == x % 16 > 9
      adjust == (IF full THEN 96 ELSE 0) + (IF half THEN 6 ELSE 0)
  IN  IF "N" \in flags
      THEN Result(x - ((96 * Carry(flags)) + (IF "H" \in flags THEN 6 ELSE 0)),
                  flags \intersect {"N", "C"})
      ELSE Result(x + adjust, On("C", full))

Daa(x, flags) ==
  LET full == "C" \in flags \/ x > 153
      half == "H" \in flags \/ x % 16 > 9
      adjust == (IF full THEN 96 ELSE 0) + (IF half THEN 6 ELSE 0)
  IN  IF "N" \in flags
      THEN Result(x - ((96 * Carry(flags)) + (IF "H" \in flags THEN 6 ELSE 0)),
                  flags \intersect {"N", "C"})
      ELSE Result(x + adjust, On("C", full))

Cpl(x, flags) == [a |-> 255 - x, f |-> (flags \intersect {"Z", "C"}) \union {"N", "H"}]
Scf(flags) == (flags \intersect {"Z"}) \union {"C"}
Ccf(flags) == (flags \intersect {"Z"}) \union On("C", "C" \notin flags)

ShiftOps == {"rlc", "rrc", "rl", "rr", "sla", "sra", "swap", "srl"}

\* The bit that is shifted out.
ShiftedOut(op, x) ==
  CASE op \in {"rlc", "rl", "sla"} -> x \div 128
    [] op \in {"rrc", "rr", "sra", "srl"} -> x % 2
    [] op = "swap" -> 0

\* Mutant: RR takes in the bit it shifts out.
ShiftedRound(op, x, c) ==
  CASE op = "rlc" -> ((2 * x) % 256) + (x \div 128)
    [] op = "rrc" -> (x \div 2) + (128 * (x % 2))
    [] op = "rl"  -> ((2 * x) % 256) + c
    [] op = "rr"  -> (x \div 2) + (128 * (x % 2))
    [] op = "sla" -> (2 * x) % 256
    [] op = "sra" -> (x \div 2) + (128 * (x \div 128))
    [] op = "swap" -> (16 * (x % 16)) + (x \div 16)
    [] op = "srl" -> x \div 2

Shifted(op, x, c) ==
  CASE op = "rlc" -> ((2 * x) % 256) + (x \div 128)
    [] op = "rrc" -> (x \div 2) + (128 * (x % 2))
    [] op = "rl"  -> ((2 * x) % 256) + c
    [] op = "rr"  -> (x \div 2) + (128 * c)
    [] op = "sla" -> (2 * x) % 256
    [] op = "sra" -> (x \div 2) + (128 * (x \div 128))
    [] op = "swap" -> (16 * (x % 16)) + (x \div 16)
    [] op = "srl" -> x \div 2

\* The rotate and shift group of cbPrefixed()
CbShift(op, x, flags) ==
  Result(Shifted(op, x, Carry(flags)), On("C", ShiftedOut(op, x) = 1))

\* BIT
CbBit(n, x, flags) ==
  (flags \intersect {"C"}) \union {"H"} \union On("Z", n \notin Bits(x))

\* RLCA, RRCA, RLA and RRA: Zero stays clear.
RotateA(op, x, flags) ==
  [a |-> Shifted(op, x, Carry(flags)), f |-> On("C", ShiftedOut(op, x) = 1)]

\* ADD HL,rr
AddHl(hl, word, flags) ==
  [hl |-> (hl + word) % 65536,
   f  |-> (flags \intersect {"Z"}) \union On("H", (hl % 4096) + (word % 4096) > 4095)
          \union On("C", hl + word >= 65536)]

\* Mutant: the flags of ADD SP are those of a word.
AddSpWide(sp, byte) ==
  LET offset == IF byte >= 128 THEN byte - 256 ELSE byte
  IN  [sp |-> (sp + offset) % 65536,
       f  |-> On("H", (sp % 4096) + byte > 4095) \union On("C", sp + byte >= 65536)]

\* ADD SP,e8 and LD HL,SP+e8
AddSp(sp, byte) ==
  LET offset == IF byte >= 128 THEN byte - 256 ELSE byte
  IN  [sp |-> (sp + offset) % 65536,
       f  |-> On("H", (sp % 16) + (byte % 16) > 15) \union On("C", (sp % 256) + byte >= 256)]

-----------------------------------------------------------------------------
(* Actions: one for each of the handlers that touch A or F.                *)

IsDecimal(x) == x % 16 < 10 /\ x < 160
Decimal(x) == (10 * (x \div 16)) + (x % 16)
ToDecimal(n) == (16 * ((n % 100) \div 10)) + (n % 10)

KnowsCarry == sum.stage \in {"decimal", "carry"}

\* History of an instruction of applyAluOp().
Counted(op, y) ==
  CASE op \in {"and", "xor", "or"} -> OnlyCarry(0)
    [] op \in {"add", "adc", "sub", "sbc"} /\ IsDecimal(a) /\ IsDecimal(y)
         /\ (op \in {"adc", "sbc"} => KnowsCarry) ->
         [stage   |-> "binary",
          value   |-> CASE op = "add" -> Decimal(a) + Decimal(y)
                        [] op = "adc" -> Decimal(a) + Decimal(y) + sum.carried
                        [] op = "sub" -> Decimal(a) - Decimal(y)
                        [] op = "sbc" -> Decimal(a) - Decimal(y) - sum.carried,
          carried |-> 0]
    [] OTHER -> NoSum

\* aluR8() and aluD8()
Alu(op, y) ==
  LET r == ApplyAluOp(op, a, y, f)
  IN  a' = r.a /\ f' = r.f /\ sum' = Counted(op, y)

\* A load of A, POP AF aside: the flags stay.
LdA(value) ==
  /\ a' = value /\ UNCHANGED f
  /\ sum' = IF KnowsCarry THEN OnlyCarry(sum.carried) ELSE NoSum

PopAf(value, flags) == a' = value /\ f' = flags /\ sum' = OnlyCarry(Carry(flags))

\* INC and DEC of A, or of anything else (x): the carry stays.
IncDecA ==
  /\ \E r \in {Inc8(a, f), Dec8(a, f)} : a' = r.a /\ f' = r.f
  /\ sum' = IF KnowsCarry THEN OnlyCarry(sum.carried) ELSE NoSum

IncDecOther(x) ==
  /\ \E r \in {Inc8(x, f), Dec8(x, f)} : f' = r.f
  /\ sum' = IF KnowsCarry THEN sum ELSE NoSum
  /\ UNCHANGED a

DaaA ==
  /\ LET r == Daa(a, f) IN a' = r.a /\ f' = r.f
  /\ sum' = IF sum.stage # "binary" THEN NoSum
            ELSE [sum EXCEPT !.stage = "decimal",
                             !.carried = IF sum.value \in 0 .. 99 THEN 0 ELSE 1]

CplA ==
  /\ LET r == Cpl(a, f) IN a' = r.a /\ f' = r.f
  /\ sum' = IF KnowsCarry THEN OnlyCarry(sum.carried) ELSE NoSum

ScfCcf ==
  /\ \/ f' = Scf(f) /\ sum' = OnlyCarry(1)
     \/ f' = Ccf(f) /\ sum' = IF KnowsCarry THEN OnlyCarry(1 - sum.carried) ELSE NoSum
  /\ UNCHANGED a

RotateOrShiftA ==
  /\ \/ \E op \in {"rlc", "rrc", "rl", "rr"} :
          LET r == RotateA(op, a, f) IN a' = r.a /\ f' = r.f
     \/ \E op \in ShiftOps : LET r == CbShift(op, a, f) IN a' = r.a /\ f' = r.f
  /\ sum' = NoSum

CbBitA ==
  /\ \E n \in 0 .. 7 : f' = CbBit(n, a, f)
  /\ sum' = IF KnowsCarry THEN sum ELSE NoSum
  /\ UNCHANGED a

AddWords ==
  /\ \E h \in HighBytes, y \in Operands :
       \/ f' = AddHl(256 * h, 256 * y, f).f
       \/ f' = AddSp(h, y).f
  /\ sum' = NoSum /\ UNCHANGED a

Next ==
  \/ \E op \in AluOps, y \in Operands : Alu(op, y)
  \/ \E value \in Operands : LdA(value) \/ IncDecOther(value)
  \/ \E value \in Operands, flags \in {{}, {"C"}, Flags} : PopAf(value, flags)
  \/ IncDecA \/ DaaA \/ CplA \/ ScfCcf \/ RotateOrShiftA \/ CbBitA \/ AddWords

Spec == Init /\ [][Next]_vars

-----------------------------------------------------------------------------
(* Properties.                                                             *)

\* A program that adds or subtracts decimal numbers of several bytes, DAA
\* behind each ADD, ADC, SUB or SBC, gets their decimal digits and carry,
\* whatever else it does to A and to counters between two bytes.
DecimalsAddUp ==
  /\ sum.stage = "decimal" => a = ToDecimal(sum.value)
  /\ KnowsCarry => Carry(f) = sum.carried

\* The wide instructions do what their bytes would: ADD HL is ADD and ADC,
\* doubling is SLA and RL, halving SRL and RR, ADD SP is ADD and ADC of the
\* sign, each with the carries of its last byte; CP sets the flags of SUB.
SumsAgree ==
  /\ \A h, yh \in HighBytes, yl \in Operands :
       LET wide == AddHl((256 * h) + a, (256 * yh) + yl, f)
           low  == ApplyAluOp("add", a, yl, f)
           high == ApplyAluOp("adc", h, yh, low.f)
       IN  /\ wide.hl = (256 * high.a) + low.a
           /\ wide.f = (f \intersect {"Z"}) \union (high.f \intersect {"H", "C"})
  /\ \A h \in HighBytes :
       LET hl   == (256 * h) + a
           low  == CbShift("sla", a, f)
           high == CbShift("rl", h, low.f)
           top  == CbShift("srl", h, f)
           rest == CbShift("rr", a, top.f)
       IN  /\ AddHl(hl, hl, f).hl = (256 * high.a) + low.a
           /\ ("C" \in AddHl(hl, hl, f).f) = ("C" \in high.f)
           /\ hl \div 2 = (256 * top.a) + rest.a /\ Carry(rest.f) = a % 2
  /\ \A h \in HighBytes, y \in Operands :
       LET wide == AddSp((256 * h) + a, y)
           low  == ApplyAluOp("add", a, y, f)
           high == ApplyAluOp("adc", h, IF y >= 128 THEN 255 ELSE 0, low.f)
       IN  /\ wide.sp = (256 * high.a) + low.a
           /\ wide.f = low.f \intersect {"H", "C"}
  /\ \A y \in Operands :
       /\ ApplyAluOp("cp", a, y, f) = [ApplyAluOp("sub", a, y, f) EXCEPT !.a = a]
       /\ ApplyAluOp("add", ApplyAluOp("sub", a, y, f).a, y, f).a = a
  /\ Shifted("rl", a, Carry(f)) = ApplyAluOp("adc", a, a, f).a
  /\ Shifted("swap", a, 0) =
       Shifted("rlc", Shifted("rlc", Shifted("rlc", Shifted("rlc", a, 0), 0), 0), 0)
=============================================================================
