-------------------------------- MODULE Cpu0CC --------------------------------
(***************************************************************************)
(* The Cpu0CC of Cpu0ISelLowering.cpp: how the next argument of a function *)
(* is assigned to registers and stack.  analyzeCallOperands runs it for a  *)
(* call and analyzeFormalArguments for the callee.  Offsets are in bytes   *)
(* from the stack pointer of the caller; A0 and A1 are the argument        *)
(* registers 0 and 1.                                                      *)
(*                                                                         *)
(* Convention: "O32" and "Fast" are the two calling conventions of the O32 *)
(* ABI, "S32" is the ABI that passes everything on the stack.              *)
(***************************************************************************)
EXTENDS Integers, Sequences

Convention == {"O32", "Fast", "S32"}
NumIntArgRegs == 2
RegSize == 4

Min(a, b) == IF a <= b THEN a ELSE b
Max(a, b) == IF a <= b THEN b ELSE a
alignTo(x, a) == ((x + a - 1) \div a) * a

\* Mutant: room for no register.
reservedArgArea_None(conv) == 0

reservedArgArea(conv) == IF conv = "O32" THEN NumIntArgRegs * RegSize ELSE 0

\* Where an argument is: regs registers from the index first on, and stack
\* bytes from addr on.  An i64 has two of these.
Loc(kind, align, first, regs, addr, stack) ==
  [kind |-> kind, align |-> align, first |-> first, regs |-> regs,
   addr |-> addr, stack |-> stack]

\* The arguments of a function.
ArgType ==
  [kind : {"i32"}, align : {1, 2, 4}] \cup [kind : {"i64"}]
  \cup [kind : {"byval"}, size : Nat \ {0}, align : {1, 2, 4, 8}]

LocType ==
  [kind : {"i32", "half1", "half2", "byval"}, align : {1, 2, 4, 8},
   first : 0 .. NumIntArgRegs, regs : Nat, addr : Nat, stack : Nat]

\* The state of a CCState and its Cpu0CC.  overrun: IntArgRegs was indexed
\* out of its bounds.
Start(conv) ==
  [conv |-> conv, used |-> 0, offset |-> reservedArgArea(conv), locs |-> <<>>,
   overrun |-> FALSE]

\* The state after l is assigned.
Assigned(st, l, used, offset, overrun) ==
  [conv |-> st.conv, used |-> used, offset |-> offset, locs |-> Append(st.locs, l),
   overrun |-> overrun]

\* Mutant: the second half of an i64 may go to the stack alone.
Skips_Never(st, align) == FALSE

\* The first half of an i64 does not take A1, and then nothing does.
Skips(st, align) == align = 8 /\ st.conv # "S32" /\ st.used = 1

\* CC_Cpu0O32 and CC_Cpu0S32 for an i32 whose original alignment is align.
AssignScalar(st, kind, align) ==
  IF st.conv # "S32" /\ st.used < NumIntArgRegs /\ ~Skips(st, align)
    THEN Assigned(st, Loc(kind, align, st.used, 1, 0, 0), st.used + 1, st.offset, st.overrun)
    ELSE LET addr == alignTo(st.offset, align)
         IN  Assigned(st, Loc(kind, align, 0, 0, addr, RegSize),
                      IF Skips(st, align) THEN NumIntArgRegs ELSE st.used,
                      addr + RegSize, st.overrun)

\* The parts of an i64: only the first keeps the alignment.
AssignI64(st) == AssignScalar(AssignScalar(st, "half1", 8), "half2", 1)

ByValAlign(align) == Min(Max(align, RegSize), 2 * RegSize)

\* allocateRegs: the index it starts from, and the registers it takes.  Its
\* loop runs while I << NumIntArgRegs is not zero: from 0 not at all, and
\* else until the argument is whole.
FirstIdx(st, align) ==
  IF ByValAlign(align) > RegSize /\ st.used % 2 = 1 THEN st.used + 1 ELSE st.used
NumRegs(st, size, align) ==
  IF st.conv = "Fast" \/ FirstIdx(st, align) = 0 THEN 0 ELSE alignTo(size, RegSize) \div RegSize

\* Mutant: a size that is not whole words.
ByValStack_Unaligned(st, size, align) == size - RegSize * NumRegs(st, size, align)

ByValStack(st, size, align) == alignTo(size, RegSize) - RegSize * NumRegs(st, size, align)

\* Mutant: the registers of the argument stay free.
ByValUsed_Forgotten(st, size, align) == st.used

ByValUsed(st, size, align) ==
  IF NumRegs(st, size, align) = 0 THEN st.used ELSE NumIntArgRegs

\* handleByValArg.
AssignByVal(st, size, align) ==
  LET regs == NumRegs(st, size, align)
      first == FirstIdx(st, align)
      addr == alignTo(st.offset, ByValAlign(align))
      stack == ByValStack(st, size, align)
  IN  Assigned(st, Loc("byval", ByValAlign(align), first, regs, addr, stack),
               ByValUsed(st, size, align), addr + stack,
               st.overrun \/ (regs > 0 /\ first + regs > NumIntArgRegs))

\* The state that the operands of a sequence lead to, from st, by step.
After(step(_, _), st, seq) ==
  LET after[n \in 0 .. Len(seq)] == IF n = 0 THEN st ELSE step(after[n - 1], seq[n])
  IN  after[Len(seq)]

\* analyzeCallOperands and analyzeFormalArguments: the arguments of a function
\* f, one after the other.
Assign(st, arg) ==
  CASE arg.kind = "i32" -> AssignScalar(st, "i32", arg.align)
    [] arg.kind = "i64" -> AssignI64(st)
    [] arg.kind = "byval" -> AssignByVal(st, arg.size, arg.align)
Placement(f) == After(Assign, Start(f.conv), f.args)

\* copyByValRegs: the object, relative to the same stack pointer, in which the
\* callee sees a structure: its homes in the reserved area if it came in
\* registers, else its stack.
Object(conv, l) ==
  IF l.kind = "byval" /\ l.regs > 0
    THEN [addr |-> reservedArgArea(conv) - (NumIntArgRegs - l.first) * RegSize,
          size |-> l.regs * RegSize]
    ELSE [addr |-> l.addr, size |-> l.stack]
=============================================================================
