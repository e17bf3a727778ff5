------------------------------ MODULE Cpu0Select ------------------------------
(***************************************************************************)
(* Instruction selection: what the patterns of Cpu0InstrInfo.td, the       *)
(* special cases of Cpu0SEISelDAGToDAG.cpp and the combines of             *)
(* Cpu0ISelLowering.cpp emit for one node of the DAG, and the value the    *)
(* emitted instructions leave when the simulator (Cpu0Alu) runs them.      *)
(*                                                                         *)
(* A behaviour selects one node.  Its value is compared with what LLVM     *)
(* says the node means.                                                    *)
(***************************************************************************)
EXTENDS Cpu0Widths

CONSTANT OtherFlags   \* $sw above its N and Z bits

ASSUME FlagsAssumption == OtherFlags \in Int /\ OtherFlags % 4 = 0

VARIABLES
  cpu,    \* the subtarget: cpu032I has CMP only, cpu032II also SLT and BEQ
  node,   \* the node being selected
  status, \* "selecting", "selected", or "failed": LLVM's "cannot select"
  value   \* the words its instructions compute

vars == <<cpu, node, status, value>>

Signed == {"eq", "ne", "lt", "le", "gt", "ge"}
Unsigned == {"ult", "ule", "ugt", "uge"}
Conditions == Signed \cup Unsigned

Comparison == [kind : {"setcc", "brcond", "select"}, cc : Conditions,
               x : SignedWord, y : SignedWord]
Unary == [kind : {"constant", "sext_inreg"}, x : SignedWord]
Shift == [kind : {"shl", "srl", "sra", "rotl", "rotr"}, x : SignedWord,
          y : 0 .. Bits - 1, inReg : BOOLEAN]
Wide == [kind : {"add64", "sub64", "smul_lohi", "umul_lohi", "sdivrem",
                 "udivrem"}, x : SignedWord, y : SignedWord]

Node == Comparison \cup Unary \cup Shift \cup Wide

Init ==
  /\ cpu \in {"cpu032I", "cpu032II"}
  /\ node \in Node
  /\ status = "selecting" /\ value = <<>>

Selects(kinds) == status = "selecting" /\ node.kind \in kinds
Emits(words) == status' = "selected" /\ value' = words /\ UNCHANGED <<cpu, node>>
CannotSelect == status' = "failed" /\ UNCHANGED <<cpu, node, value>>

Truth(b) == IF b THEN 1 ELSE 0

-----------------------------------------------------------------------------
(* Comparisons.  A node's cc, with operands x and y. *)

\* CMP: the flags, in the low bits of $sw.
N(x, y) == S(x - y) < 0
Z(x, y) == S(x - y) = 0
CmpWord(x, y) == OtherFlags + 2 * Truth(Z(x, y)) + Truth(N(x, y))

\* SLT, SLTu, SLTi and SLTiu all compare signed words.
Slt(x, y) == Truth(x < y)

Inverted(b) == Result("XORi", b, 1)

\* Mutant: the less-than patterns take the Z bit of $sw.
SetCmp_TakesZ(cc, x, y) ==
  LET Less(a, b) == Result("ANDi", CmpWord(a, b), 2)
      Equal == Result("SHR", Result("ANDi", CmpWord(x, y), 2), 1)
  IN  CASE cc = "eq" -> Equal
        [] cc = "ne" -> Inverted(Equal)
        [] cc \in {"lt", "ult"} -> Less(x, y)
        [] cc \in {"le", "ule"} -> Inverted(Less(y, x))
        [] cc \in {"gt", "ugt"} -> Less(y, x)
        [] cc \in {"ge", "uge"} -> Inverted(Less(x, y))

\* (setcc x, y) by CMP ...
SetCmp(cc, x, y) ==
  LET Less(a, b) == Result("ANDi", CmpWord(a, b), 1)
      Equal == Result("SHR", Result("ANDi", CmpWord(x, y), 2), 1)
  IN  CASE cc = "eq" -> Equal
        [] cc = "ne" -> Inverted(Equal)
        [] cc \in {"lt", "ult"} -> Less(x, y)
        [] cc \in {"le", "ule"} -> Inverted(Less(y, x))
        [] cc \in {"gt", "ugt"} -> Less(y, x)
        [] cc \in {"ge", "uge"} -> Inverted(Less(x, y))

\* Mutant: `setle` does not exchange its operands.
SetSlt_NoSwap(cc, x, y) ==
  CASE cc = "eq" -> Slt(Result("XOR", x, y), 1)
    [] cc = "ne" -> Slt(0, Result("XOR", x, y))
    [] cc \in {"lt", "ult"} -> Slt(x, y)
    [] cc \in {"le", "ule"} -> Inverted(Slt(x, y))
    [] cc \in {"gt", "ugt"} -> Slt(y, x)
    [] cc \in {"ge", "uge"} -> Inverted(Slt(x, y))

\* ... and by SLT.
SetSlt(cc, x, y) ==
  CASE cc = "eq" -> Slt(Result("XOR", x, y), 1)
    [] cc = "ne" -> Slt(0, Result("XOR", x, y))
    [] cc \in {"lt", "ult"} -> Slt(x, y)
    [] cc \in {"le", "ule"} -> Inverted(Slt(y, x))
    [] cc \in {"gt", "ugt"} -> Slt(y, x)
    [] cc \in {"ge", "uge"} -> Inverted(Slt(x, y))

\* cpu032II has both; the SLT patterns are shorter and come first.
SetCC(cc, x, y) == IF cpu = "cpu032I" THEN SetCmp(cc, x, y) ELSE SetSlt(cc, x, y)

\* Mutant: `brcond (setle ...)` jumps with JLT.
BranchCmp_Strict(cc, x, y) ==
  \/ cc = "eq" /\ Z(x, y)
  \/ cc = "ne" /\ ~Z(x, y)
  \/ cc \in {"lt", "ult", "le", "ule"} /\ N(x, y)
  \/ cc \in {"gt", "ugt"} /\ ~N(x, y) /\ ~Z(x, y)
  \/ cc \in {"ge", "uge"} /\ (~N(x, y) \/ Z(x, y))

\* (brcond (setcc x, y)): a flag jump after CMP ...
BranchCmp(cc, x, y) ==
  \/ cc = "eq" /\ Z(x, y)
  \/ cc = "ne" /\ ~Z(x, y)
  \/ cc \in {"lt", "ult"} /\ N(x, y)
  \/ cc \in {"gt", "ugt"} /\ ~N(x, y) /\ ~Z(x, y)
  \/ cc \in {"le", "ule"} /\ (N(x, y) \/ Z(x, y))
  \/ cc \in {"ge", "uge"} /\ (~N(x, y) \/ Z(x, y))

\* ... or BEQ and BNE, on the operands or on an SLT.
BranchSlt(cc, x, y) ==
  \/ cc = "eq" /\ x = y
  \/ cc = "ne" /\ x # y
  \/ cc \in {"lt", "ult"} /\ Slt(x, y) # 0
  \/ cc \in {"gt", "ugt"} /\ Slt(y, x) # 0
  \/ cc \in {"le", "ule"} /\ Slt(y, x) = 0
  \/ cc \in {"ge", "uge"} /\ Slt(x, y) = 0

Branches(cc, x, y) ==
  IF cpu = "cpu032I" THEN BranchCmp(cc, x, y) ELSE BranchSlt(cc, x, y)

\* Mutant: equality has no pattern of its own.
Selected_ViaSetCC(cc, x, y) == SetCC(cc, x, y) # 0

\* (select (setcc x, y), T, F): whether MOVZ or MOVN picks T.
Selected(cc, x, y) ==
  CASE cc = "eq" -> Result("XOR", x, y) = 0
    [] cc = "ne" -> Result("XOR", x, y) # 0
    [] cpu = "cpu032II" /\ cc \in {"ge", "uge"} -> Slt(x, y) = 0
    [] cpu = "cpu032II" /\ cc \in {"le", "ule"} -> Slt(y, x) = 0
    [] OTHER -> SetCC(cc, x, y) # 0

MatchSetCC == Selects({"setcc"}) /\ Emits(<<SetCC(node.cc, node.x, node.y)>>)
MatchBrCond ==
  Selects({"brcond"}) /\ Emits(<<Truth(Branches(node.cc, node.x, node.y))>>)
MatchSelect ==
  Selects({"select"}) /\ Emits(<<Truth(Selected(node.cc, node.x, node.y))>>)

-----------------------------------------------------------------------------
(* Constants, shifts and sign extension. *)

immSExt16(x) == x \in -Power[ImmBits - 1] .. Power[ImmBits - 1] - 1
immZExt16(x) == x \in 0 .. Power[ImmBits] - 1
immLow16Zero(x) == U(x) % Power[ImmBits] = 0
LO16(x) == U(x) % Power[ImmBits]
HI16_Carries(x) ==   \* mutant: adjusted for a signed low half
  ((U(x) + Power[ImmBits - 1]) \div Power[ImmBits]) % Power[ImmBits]
HI16(x) == (U(x) \div Power[ImmBits]) % Power[ImmBits]

MatchConstant ==
  /\ Selects({"constant"})
  /\ LET x == node.x
         upper == Result("LUi", 0, HI16(x))
     IN  Emits(CASE immSExt16(x) -> <<Result("ADDiu", 0, x)>>
                 [] ~immSExt16(x) /\ immZExt16(x) -> <<Result("ORi", 0, LO16(x))>>
                 [] ~immZExt16(x) /\ immLow16Zero(x) -> <<upper>>
                 [] OTHER -> <<Result("ORi", upper, LO16(x))>>)

\* The instruction for a shift by a constant, and for one by a register.
ByConstant == [shl |-> "SHL", srl |-> "SHR", sra |-> "SRA", rotl |-> "ROL",
               rotr |-> "ROR"]
ByRegister_OneRotate ==   \* mutant: rotr selects ROLV
  [shl |-> "SHLV", srl |-> "SHRV", sra |-> "SRAV", rotl |-> "ROLV", rotr |-> "ROLV"]
ByRegister == [shl |-> "SHLV", srl |-> "SHRV", sra |-> "SRAV", rotl |-> "ROLV",
               rotr |-> "RORV"]

MatchShift ==
  /\ Selects(DOMAIN ByConstant)
  /\ LET op == (IF node.inReg THEN ByRegister ELSE ByConstant)[node.kind]
     IN  Emits(<<Result(op, node.x, node.y)>>)

\* There is no sext_inreg: the low half is shifted up and, with SRA, down again.
ExpandSextInReg ==
  /\ Selects({"sext_inreg"})
  /\ Emits(<<Result("SRA", Result("SHL", node.x, Bits \div 2), Bits \div 2)>>)

-----------------------------------------------------------------------------
(* Nodes with two results, as pairs <<high, low>>. *)

\* ADDC and SUBC are not legal: LLVM recovers the carry with an unsigned
\* comparison, of the sum with the first operand or of the two operands.
ExpandAddSub ==
  /\ Selects({"add64", "sub64"})
  /\ LET sum == Result("ADDu", node.x, node.y)
     IN  Emits(IF node.kind = "add64"
                 THEN <<Result("ADDu", 0, SetCC("ult", sum, node.x)), sum>>
                 ELSE <<Result("SUBu", 0, SetCC("ult", node.x, node.y)),
                        Result("SUBu", node.x, node.y)>>)

\* Mutant: both nodes select MULT.
SelectMULT_AlwaysSigned ==
  /\ Selects({"smul_lohi", "umul_lohi"})
  /\ Emits(HiLoResult("MULT", node.x, node.y))

\* SMUL_LOHI and UMUL_LOHI: MULT or MULTu, then MFLO and MFHI.
SelectMULT ==
  /\ Selects({"smul_lohi", "umul_lohi"})
  /\ Emits(HiLoResult(IF node.kind = "smul_lohi" THEN "MULT" ELSE "MULTu",
                      node.x, node.y))

\* SDIVREM becomes DivRem, which DIV matches, then a copy of LO and of HI.
\* UDIVREM becomes DivRemU, which no instruction matches.
PerformDivRemCombine ==
  /\ Selects({"sdivrem", "udivrem"})
  /\ node.y # 0
  /\ IF node.kind = "sdivrem" THEN Emits(HiLoResult("DIV", node.x, node.y))
                               ELSE CannotSelect

Next ==
  \/ MatchSetCC \/ MatchBrCond \/ MatchSelect \/ MatchConstant \/ MatchShift
  \/ ExpandSextInReg \/ ExpandAddSub \/ SelectMULT \/ PerformDivRemCombine

Spec == Init /\ [][Next]_vars

-----------------------------------------------------------------------------
(* What the nodes mean. *)

Holds(cc, x, y) ==
  CASE cc = "eq" -> x = y       [] cc = "ne" -> x # y
    [] cc = "lt" -> x < y       [] cc = "le" -> x <= y
    [] cc = "gt" -> x > y       [] cc = "ge" -> x >= y
    [] cc = "ult" -> U(x) < U(y)   [] cc = "ule" -> U(x) <= U(y)
    [] cc = "ugt" -> U(x) > U(y)   [] cc = "uge" -> U(x) >= U(y)

Done(kinds) == status = "selected" /\ node.kind \in kinds
Compared == Done({"setcc", "brcond", "select"})
SameSign == (node.x < 0) = (node.y < 0)

\* A comparison means the same in all three contexts, on both processors, and
\* that is what LLVM says it means, whenever the operands have the same sign: CMP
\* does not overflow and a signed comparison does for an unsigned one.  The CMP
\* of cpu0.v, "SW=(Rb >=< Rc)", branches right exactly if the difference fits.
SameSignExact ==
  /\ Compared /\ SameSign => value = <<Truth(Holds(node.cc, node.x, node.y))>>
  /\ Done({"brcond"}) /\ cpu = "cpu032I" /\ node.cc \in {"lt", "le", "gt", "ge"} =>
       (value = <<Truth(Holds(node.cc, node.x, node.y))>>)
         = (S(node.x - node.y) = node.x - node.y)

\* Whatever their signs, cpu032II orders signed operands right, and both
\* processors branch and select on equality right.  The SLTiu of the XOR that
\* gives "a == b" on cpu032II is right exactly if the signs agree.
SltExact ==
  /\ Compared /\ cpu = "cpu032II" /\ node.cc \in {"lt", "le", "gt", "ge"}
       => value = <<Truth(Holds(node.cc, node.x, node.y))>>
  /\ Compared /\ node.cc \in {"eq", "ne"} /\ (node.kind # "setcc" \/ cpu = "cpu032I")
       => value = <<Truth(Holds(node.cc, node.x, node.y))>>
  /\ Done({"setcc"}) /\ cpu = "cpu032II" /\ node.cc \in {"eq", "ne"} =>
       (value = <<Truth(Holds(node.cc, node.x, node.y))>>) = SameSign

\* Even where cpu032I orders operands wrong, materialising a condition and
\* branching on it agree, unless the difference is the most negative word, which
\* is its own negation.
ContextsAgree ==
  Compared /\ cpu = "cpu032I" /\ S(node.x - node.y) # -SignBit
    => SetCC(node.cc, node.x, node.y) = Truth(Branches(node.cc, node.x, node.y))

\* Every constant is materialised exactly, whichever of the four patterns takes it.
ConstantsExact == Done({"constant"}) => value = <<node.x>>

\* Bit k of a word, for k taken modulo the width.
BitAt(x, k) == Bit(x, k % Bits)

\* The half word that is sign-extended, and its sign.
LowHalf(x) == U(x) % Power[Bits \div 2]
Negative(x) == Bit(x, Bits \div 2 - 1) = 1

\* Shifts and rotates put every bit where LLVM says, for every legal amount, zero
\* included; arithmetic shifts do so exactly unless a negative word moves by two
\* or more (SRA of cpu0.v fills one bit), so sign extension does where there is no
\* sign to extend.
ShiftsExact ==
  /\ Done({"sext_inreg"}) /\ ~Negative(node.x) => value = <<LowHalf(node.x)>>
  /\ Done({"sra"}) =>
       (value = <<node.x \div Power[node.y]>>) = (node.x >= 0 \/ node.y < 2)
  /\ Done({"shl", "srl", "rotl", "rotr"}) =>
       LET x == node.x
           n == node.y
       IN  \A k \in 0 .. Bits - 1 :
             CASE node.kind = "shl" -> Bit(value[1], k) = IF k < n THEN 0 ELSE Bit(x, k - n)
               [] node.kind = "srl" -> Bit(value[1], k) = IF k + n < Bits THEN Bit(x, k + n) ELSE 0
               [] node.kind = "rotl" -> Bit(value[1], k) = BitAt(x, k - n)
               [] node.kind = "rotr" -> Bit(value[1], k) = BitAt(x, k + n)

\* The pair <<HI, LO>> is the exact double-width product; the quotient rounds
\* towards zero and the remainder has the dividend's sign, except for the one
\* quotient that does not fit.
WideExact ==
  /\ Done({"smul_lohi"}) =>
       value[1] * Modulus + U(value[2]) = node.x * node.y
  /\ Done({"umul_lohi"}) =>
       U(value[1]) * Modulus + U(value[2]) = U(node.x) * U(node.y)
  /\ Done({"sdivrem"}) /\ ~(node.x = -SignBit /\ node.y = -1) =>
       /\ node.y * value[2] + value[1] = node.x
       /\ Abs(value[1]) < Abs(node.y)
       /\ value[1] = 0 \/ (value[1] < 0) = (node.x < 0)

\* 64-bit sums and differences are right unless a carry or borrow has to be
\* recovered from operands of different signs.
CarryExact ==
  /\ Done({"add64"}) /\ (node.x < 0) = (value[2] < 0) =>
       U(value[1]) * Modulus + U(value[2]) = U(node.x) + U(node.y)
  /\ Done({"sub64"}) /\ SameSign =>
       value[1] * Modulus + U(value[2]) = U(node.x) - U(node.y)
=============================================================================
