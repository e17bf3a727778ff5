----------------------------- MODULE Cpu0CallConv -----------------------------
(***************************************************************************)
(* The assignment of the arguments of a function, one at a time, by the    *)
(* operators of Cpu0CC.                                                    *)
(***************************************************************************)
EXTENDS Cpu0CC

CONSTANTS
  MaxArgs,     \* bound on the arguments of a function
  ByValSizes   \* sizes, in bytes, of the structures passed by value

ASSUME ByValAssumption == MaxArgs \in Nat /\ ByValSizes \subseteq Nat \ {0}

VARIABLE cc

Init == \E conv \in Convention : cc = Start(conv)

I32 == \E align \in {1, 2, 4} : cc' = AssignScalar(cc, "i32", align)
I64 == cc' = AssignI64(cc)
ByVal == \E size \in ByValSizes, align \in {1, 2, 4, 8} : cc' = AssignByVal(cc, size, align)

\* Nothing is said of an assignment after an index out of bounds.
Next == /\ Len(cc.locs) < MaxArgs /\ ~cc.overrun
        /\ I32 \/ I64 \/ ByVal

Spec == Init /\ [][Next]_cc

(***************************************************************************)
(* Properties.                                                             *)
(***************************************************************************)
TypeOK ==
  cc \in [conv : Convention, used : 0 .. NumIntArgRegs, offset : Nat, locs : Seq(LocType),
          overrun : BOOLEAN]

ObjectOf(l) == Object(cc.conv, l)

\* Two arguments share no register, and no byte of the stack of the caller or
\* of the homes to which the callee saves registers: the two lowerings may
\* write one argument without reading another first.
ArgumentsDisjoint ==
  ~cc.overrun =>
    \A i, j \in DOMAIN cc.locs : i < j =>
      LET a == cc.locs[i]
          b == cc.locs[j]
      IN  /\ a.regs > 0 /\ b.regs > 0 =>
               a.first + a.regs <= b.first \/ b.first + b.regs <= a.first
          /\ ObjectOf(a).size > 0 /\ ObjectOf(b).size > 0 =>
               \/ ObjectOf(a).addr + ObjectOf(a).size <= ObjectOf(b).addr
               \/ ObjectOf(b).addr + ObjectOf(b).size <= ObjectOf(a).addr

\* Everything on the stack is within the bytes the caller reserves for the
\* call, and above the homes of the registers.
StackWithinCallFrame ==
  ~cc.overrun =>
    \A i \in DOMAIN cc.locs :
      LET l == cc.locs[i] IN
      /\ l.stack > 0 => reservedArgArea(cc.conv) <= l.addr /\ l.addr + l.stack <= cc.offset
      /\ ObjectOf(l).size > 0 => ObjectOf(l).addr >= 0 /\ ObjectOf(l).addr + ObjectOf(l).size <= cc.offset

\* The halves of an i64 are together: in A0 and A1, or in eight bytes of the
\* stack at an aligned offset.
I64Whole ==
  \A i \in DOMAIN cc.locs : cc.locs[i].kind = "half1" =>
    LET a == cc.locs[i]
        b == cc.locs[i + 1]
    IN  /\ i + 1 \in DOMAIN cc.locs /\ b.kind = "half2"
        /\ \/ a.regs = 1 /\ b.regs = 1 /\ a.first = 0 /\ b.first = 1
           \/ a.regs = 0 /\ b.regs = 0 /\ a.addr % 8 = 0 /\ b.addr = a.addr + RegSize

\* allocateRegs indexes IntArgRegs within its bounds, as ArrayRef asserts.
\* Violated: the loop does not stop at the last register.
TableInBounds == ~cc.overrun
=============================================================================
