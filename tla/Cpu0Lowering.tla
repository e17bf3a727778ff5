----------------------------- MODULE Cpu0Lowering -----------------------------
(***************************************************************************)
(* The last passes of the Cpu0 code generator and the emission of branch   *)
(* offsets, in the order the target machine runs them: the expansion of    *)
(* the return pseudo (Cpu0SEInstrInfo.cpp), the deletion of useless jumps  *)
(* (Cpu0DelUselessJMP.cpp), the delay slot filler (Cpu0DelaySlotFiller.cpp)*)
(* and the fixups of the assembler back end (Cpu0AsmBackend.cpp).          *)
(*                                                                         *)
(* A machine program is a sequence of functions, each a sequence of basic  *)
(* blocks, each a sequence of instructions.  The constant of a branch is   *)
(* the number of a block of its function, that of a call the number of a   *)
(* function; RetLR and TAILCALL are pseudo instructions.                   *)
(***************************************************************************)
EXTENDS Cpu0Arch, SequencesExt

CONSTANTS
  Imm16, Imm24   \* half the range of a 16-bit and of a 24-bit branch offset

Nop == [op |-> "NOP", a |-> 0, b |-> 0, c |-> 0, cx |-> 0]

(* Instructions with an offset, by the fixup that fills it in. *)
PC16 == {"BEQ", "BNE"}
PC24 == {"JEQ", "JNE", "JLT", "JGT", "JLE", "JGE", "JMP", "JSUB", "TAILCALL"}
Calls == {"JSUB", "TAILCALL"}

\* Mutant: the return instruction has no delay slot.
hasDelaySlot_NotRet(op) == op \in BranchOp \cup CallOp \cup {"TAILCALL"}

\* The tail call pseudo has one although the JMP it becomes has none.
hasDelaySlot(op) == op \in BranchOp \cup CallOp \cup {"RET", "RetLR", "TAILCALL"}

\* expandPostRAPseudo, on a program.
ExpandRet(i) == IF i.op = "RetLR" THEN [i EXCEPT !.op = "RET", !.a = LR] ELSE i
Expand(p) ==
  [f \in DOMAIN p |-> [b \in DOMAIN p[f] |->
     [k \in DOMAIN p[f][b] |-> ExpandRet(p[f][b][k])]]]

\* The block ends with a jump to the one behind it.
EndsUseless(fn, b) ==
  /\ b < Len(fn)
  /\ fn[b] # <<>>
  /\ Last(fn[b]).op = "JMP" /\ Last(fn[b]).cx = b + 1

\* Mutant: the last jump goes wherever it leads.
DelJmp_AnyTarget(fn) ==
  [b \in DOMAIN fn |->
     IF b < Len(fn) /\ fn[b] # <<>> /\ Last(fn[b]).op = "JMP"
       THEN Front(fn[b]) ELSE fn[b]]

DelJmp(fn) ==
  [b \in DOMAIN fn |-> IF EndsUseless(fn, b) THEN Front(fn[b]) ELSE fn[b]]

Filler(blk) ==
  FlattenSeq([k \in DOMAIN blk |->
    IF hasDelaySlot(blk[k].op) THEN <<blk[k], Nop>> ELSE <<blk[k]>>])

\* addPreEmitPass
PreEmit(p) ==
  [f \in DOMAIN p |->
     LET fn == DelJmp(Expand(p)[f]) IN [b \in DOMAIN fn |-> Filler(fn[b])]]

-----------------------------------------------------------------------------
(* Emission: the code of all functions, one behind the other. *)

Code(q) == FlattenSeq([f \in DOMAIN q |-> FlattenSeq(q[f])])

\* The address of block b of function f.
BlockAddress(q, f, b) ==
  4 * (Len(Code(SubSeq(q, 1, f - 1))) + Len(FlattenSeq(SubSeq(q[f], 1, b - 1))))

\* An offset as the processor reads it back from a field of its width.
Field(half, v) == ((v + half) % (2 * half)) - half

\* Value is the distance from the instruction; the processor counts from the next.
adjustFixupValue(value) == value - 4

\* How far the target of instruction i of function f is from its address x.
Distance(q, f, i, x) ==
  (IF i.op \in Calls THEN BlockAddress(q, i.cx, 1) ELSE BlockAddress(q, f, i.cx)) - x

HalfRange(op) == IF op \in PC16 THEN Imm16 ELSE Imm24

\* Instruction i of function f, emitted at address x.  What is no jump keeps
\* its constant; the tail call pseudo becomes a JMP.
Emitted(q, f, i, x) ==
  IF i.op \in PC16 \cup PC24
    THEN [i EXCEPT !.op = IF @ = "TAILCALL" THEN "JMP" ELSE @,
                   !.cx = Field(HalfRange(i.op), adjustFixupValue(Distance(q, f, i, x)))]
    ELSE i

\* The image of a program: what is in memory, word by word.
Lowered(p) ==
  LET q == PreEmit(p)
      ofFn(f) == FlattenSeq(q[f])
  IN  FlattenSeq([f \in DOMAIN q |->
        [k \in DOMAIN ofFn(f) |->
          Emitted(q, f, ofFn(f)[k], BlockAddress(q, f, 1) + 4 * (k - 1))]])

ASSUME OffsetAssumption == Imm16 \in Nat \ {0} /\ Imm24 \in Nat \ {0}
=============================================================================
