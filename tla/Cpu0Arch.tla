------------------------------ MODULE Cpu0Arch ------------------------------
(***************************************************************************)
(* The vocabulary of the Cpu0 processor of src/simulator/cpu0.v: words,    *)
(* registers, the flags of the status word, and the instructions by the    *)
(* branch of `case (op)` that executes them.  The cycle-level machine      *)
(* (Cpu0Cpu) and the instruction-level one (Cpu0Isa) both extend it.       *)
(*                                                                         *)
(* What a data instruction computes is a parameter: Alu, HiLo, Extend and  *)
(* Merge stand for the datapath, which Cpu0Alu defines and checks.         *)
(***************************************************************************)
EXTENDS Integers

CONSTANTS
  Half,           \* words are the signed integers of -Half .. Half-1
  DataAddr,       \* the data words of memory0
  IOADDR,         \* the address whose stores are printed
  Programs,       \* the programs memory0 may be loaded with
  CodeAddr,       \* the addresses they occupy
  Image(_, _),    \* Image(p, x): the instruction of program p at address x
  DataImages,     \* the contents memory0 loads into them
  Undef,          \* the values tried for a read the hardware leaves undefined
  Alu(_, _, _),   \* the word an instruction computes from two operands
  HiLo(_, _, _),  \* the <<HI, LO>> pairs a multiply or divide may leave
  Extend(_, _),   \* the word a load leaves in its register
  Merge(_, _, _), \* the memory word a store leaves
  SwFlags(_),     \* the flags a word written to $sw sets
  SwWord(_)       \* the word read from $sw when these flags are set

Word == -Half .. Half - 1

\* Mutant: registers wider than a word.
Wrap_Wide(x) == x

\* The 32-bit registers wrap: 2*Half is 2^32.
Wrap(x) == ((x + Half) % (2 * Half)) - Half

\* A signed register in an expression with an unsigned operand.
Unsigned(x) == x % (2 * Half)

(***************************************************************************)
(* R[0..14] are words; R[15] is the status word, kept as its set of flags. *)
(***************************************************************************)
GPR == 0 .. 14
RegNum == 0 .. 15
LR == 14
SWREG == 15

Flag == {"N", "Z", "V", "M0", "M1", "M2", "IE", "I",
         "I0E", "I0", "I1E", "I1", "I2E", "I2"}

\* The interrupt lines: enable bit and status bit.
Line == {<<"I0E", "I0">>, <<"I1E", "I1">>, <<"I2E", "I2">>}

\* Mutant: every line must be requested at once.
Irq_AllLines(sw) == {"IE", "I"} \subseteq sw /\ \A l \in Line : {l[1], l[2]} \subseteq sw

\* The condition under which an interrupt is recognised.
Irq(sw) ==
  /\ "IE" \in sw
  /\ "I" \in sw
  /\ \E l \in Line : l[1] \in sw /\ l[2] \in sw

\* The status word with its mode field set to RESET (001) or IRQ (011).
Mode(sw) == sw \cap {"M0", "M1", "M2"}
WithMode_Overwrites(sw, mode) == mode   \* mutant: the rest of $sw is lost
WithMode(sw, mode) == (sw \ {"M0", "M1", "M2"}) \cup mode
RESET == {"M0"}
IRQ == {"M0", "M1"}

\* `SW = 0, then the interrupt lines enabled and IE left clear.
ResetFlags == {"I0E", "I1E", "I2E"}

(***************************************************************************)
(* Instructions, by the branch of `case (op)` that executes them.          *)
(***************************************************************************)
LoadOp == {"LD", "LB", "LBu", "LH", "LHu"}
StoreOp == {"ST", "SB", "SH"}
MoveOp == {"MOVZ", "MOVN"}
AluImmOp == {"ADDiu", "ANDi", "ORi", "XORi", "LUi", "SHL", "SRA", "SHR",
             "ROL", "ROR"}
AluRegOp == {"ADDu", "SUBu", "CLZ", "CLO", "MUL", "AND", "OR", "XOR",
             "SHLV", "SRAV", "SHRV", "ROLV", "RORV"}
AluOp == AluImmOp \cup AluRegOp
TrapOp == {"ADD", "SUB"}
SetRegOp == {"SLT", "SLTu"}
SetImmOp == {"SLTi", "SLTiu"}
SetOp == SetRegOp \cup SetImmOp
HiLoOp == {"MULT", "MULTu", "DIV", "DIVu"}
ToHiLoOp == {"MTHI", "MTLO"}
FromHiLoOp == {"MFHI", "MFLO"}
ToC0Op == {"MTC0", "C0MOV"}
BranchOp == {"BEQ", "BNE", "JEQ", "JNE", "JLT", "JGT", "JLE", "JGE"}
JumpOp == {"JMP", "BAL"}
CallOp == {"JALR", "JSUB"}
NopOp == {"NOP", "UNKNOWN"}   \* UNKNOWN: the `default` branch
Op == LoadOp \cup StoreOp \cup MoveOp \cup AluOp \cup TrapOp \cup SetOp
      \cup HiLoOp \cup ToHiLoOp \cup FromHiLoOp \cup ToC0Op \cup BranchOp
      \cup JumpOp \cup CallOp \cup NopOp \cup {"CMP", "MFC0", "RET"}

\* An instruction: opcode, register fields and its sign-extended constant.
Instr == [op : Op, a : RegNum, b : RegNum, c : RegNum, cx : Word]

\* Erased memory reads as 0xFF bytes, an opcode nothing implements.
Unknown == [op |-> "UNKNOWN", a |-> 0, b |-> 0, c |-> 0, cx |-> 0]
Fetched(p, addr) == IF addr \in CodeAddr THEN Image(p, addr) ELSE Unknown

\* No instruction of the program loads the status word from memory or links
\* into it.
OrdinarySw(p) ==
  \A x \in CodeAddr : Image(p, x).op \in LoadOp \cup {"JALR"} => Image(p, x).a # SWREG

(***************************************************************************)
(* Register access, on a register file rf and a status word sw.            *)
(***************************************************************************)
RegRead(rf, sw, i) == IF i = SWREG THEN SwWord(sw) ELSE rf[i]

\* R[i] = v, as the register file and as the status word.
RegPut(rf, i, v) == IF i \in GPR THEN [rf EXCEPT ![i] = v] ELSE rf
SwPut(sw, i, v) == IF i = SWREG THEN SwFlags(v) ELSE sw

\* regSet: a write to R[0] is dropped.
RegSet(rf, i, v) == IF i = 0 THEN rf ELSE RegPut(rf, i, v)

\* The terminal behind IOADDR: ST and SB print the word they store.
PrintOp == {"ST", "SB"}
Blank == [flips |-> FALSE, last |-> 0]
Printed(tty, w) == [flips |-> ~tty.flips, last |-> w]

(***************************************************************************)
(* What the branches of `case (op)` compute.                               *)
(***************************************************************************)

\* The second operand of an ALU instruction or a comparison.
Second(i, rc) == IF i.op \in AluImmOp \cup SetImmOp THEN i.cx ELSE rc

\* Whether ADD and SUB raise the overflow flag.  `a < Rb` compares the
\* register number with the operand, and being unsigned it compares unsigned.
Overflows(i, rb, rc) ==
  \/ i.op = "ADD" /\ i.a < Unsigned(rb)
  \/ i.op = "SUB" /\ rb < 0 /\ rc > 0

TrapResult(i, rb, rc) == IF i.op = "ADD" THEN Wrap(rb + rc) ELSE Wrap(rb - rc)

\* DIV's overflow flag.
DivOverflows(ra, rb) == (ra < 0 /\ rb < 0) \/ ra = 0

\* Whether a conditional branch is taken.
Taken(op, sw, ra, rb) ==
  \/ op = "BEQ" /\ ra = rb
  \/ op = "BNE" /\ ra # rb
  \/ op = "JEQ" /\ "Z" \in sw
  \/ op = "JNE" /\ "Z" \notin sw
  \/ op = "JLT" /\ "N" \in sw
  \/ op = "JGT" /\ "N" \notin sw /\ "Z" \notin sw
  \/ op = "JLE" /\ ("N" \in sw \/ "Z" \in sw)
  \/ op = "JGE" /\ ("N" \notin sw \/ "Z" \in sw)

\* The flags CMP leaves: the sign of the wrapped difference.
Compared(sw, rb, rc) ==
  (sw \ {"N", "Z"}) \cup (IF Wrap(rb - rc) < 0 THEN {"N"} ELSE {})
                    \cup (IF Wrap(rb - rc) = 0 THEN {"Z"} ELSE {})

ASSUME WordAssumption == Half \in Nat /\ Half >= 16
ASSUME ImageAssumption ==
  /\ \A p \in Programs, x \in CodeAddr : Image(p, x) \in Instr
  /\ DataAddr \subseteq Word
  /\ IOADDR \in Word \ DataAddr
  /\ DataImages \subseteq [DataAddr -> Word]
  /\ Undef \subseteq Word
ASSUME AluAssumption ==
  \A op \in AluOp : \A x, y \in Word : Alu(op, x, y) \in Word
ASSUME HiLoAssumption ==
  \A op \in HiLoOp : \A x, y \in Word : HiLo(op, x, y) \subseteq Word \X Word
ASSUME MemoryAssumption ==
  /\ \A op \in LoadOp : \A x \in Word : Extend(op, x) \in Word
  /\ \A op \in StoreOp : \A x, y \in Word : Merge(op, x, y) \in Word
ASSUME StatusAssumption ==
  /\ \A w \in Word : SwFlags(w) \subseteq Flag
  /\ \A s \in SUBSET Flag : SwWord(s) \in Word
=============================================================================
