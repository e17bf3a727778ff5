----------------------------- MODULE Cpu0Lowered -----------------------------
(***************************************************************************)
(* The code generator's last passes composed with the processor: machine   *)
(* programs are lowered, their images run on the instruction-level machine *)
(* (which Cpu0CpuIsa shows the clocked one to implement), and the run is   *)
(* compared with what the machine program means.                           *)
(***************************************************************************)
EXTENDS Cpu0Isa, Cpu0Lowering

CONSTANTS
  MirPrograms,   \* the machine programs
  Saved          \* the register in which a function keeps the link register

LinkRegs == {Saved, LR}
Data == GPR \ LinkRegs

(***************************************************************************)
(* Machine programs.  Code addresses are kept apart from data: they move   *)
(* between the link register and Saved only, and main keeps its own first. *)
(***************************************************************************)
MachineInstr == [op : Op \cup {"RetLR", "TAILCALL"},
                 a : RegNum, b : RegNum, c : RegNum, cx : Int]

IsData(i) ==
  /\ i.op \in AluOp \cup SetOp \cup {"CMP"}
  /\ i.a \in Data /\ (i.op \in SetOp => i.a # 0)
  /\ i.b \in Data /\ i.c \in Data

IsCopy(i) == i.op = "ADDu" /\ i.a \in LinkRegs /\ i.b \in LinkRegs /\ i.c = 0

\* Instruction i of function f of p leads to a block of f or to a function.
IsTransfer(p, f, i) ==
  \/ i.op \in BranchOp /\ i.a \in Data /\ i.b \in Data /\ i.cx \in DOMAIN p[f]
  \/ i.op = "JMP" /\ i.cx \in DOMAIN p[f]
  \/ i.op \in Calls /\ i.cx \in DOMAIN p
  \/ i.op = "RetLR"

\* Control does not run off the end of function fn.
Ends(fn) ==
  /\ fn # <<>>
  /\ Last(fn) # <<>>
  /\ Last(Last(fn)).op \in {"RetLR", "TAILCALL", "JMP"}

WellFormed(p) ==
  /\ p \in Seq(Seq(Seq(MachineInstr))) /\ p # <<>>
  /\ \A f \in DOMAIN p :
       /\ Ends(p[f])
       /\ \A b \in DOMAIN p[f] : \A k \in DOMAIN p[f][b] :
            LET i == p[f][b][k] IN IsData(i) \/ IsCopy(i) \/ IsTransfer(p, f, i)
  /\ p[1][1] # <<>>
  /\ LET i == p[1][1][1] IN IsCopy(i) /\ i.a = Saved /\ i.b = LR

\* Every branch offset fits its field.
InReach(p) ==
  LET q == PreEmit(p)
  IN  \A f \in DOMAIN q : LET c == FlattenSeq(q[f])
        IN  \A k \in DOMAIN c : c[k].op \in PC16 \cup PC24 =>
              LET h == HalfRange(c[k].op)
              IN  adjustFixupValue(Distance(q, f, c[k], BlockAddress(q, f, 1) + 4 * (k - 1)))
                    \in -h .. h - 1

(***************************************************************************)
(* The positions that the words of an image come from: every instruction   *)
(* is tagged with its own, which the passes carry along; what they insert  *)
(* has none.                                                               *)
(***************************************************************************)
NoPos == <<0, 0, 0>>
Tag(i, pos) == [op |-> i.op, a |-> i.a, b |-> i.b, c |-> i.c, cx |-> i.cx, pos |-> pos]
Tagged(p) ==
  [f \in DOMAIN p |-> [b \in DOMAIN p[f] |-> [k \in DOMAIN p[f][b] |->
     Tag(p[f][b][k], <<f, b, k>>)]]]
Origin(p) ==
  LET q == Code(PreEmit(Tagged(p)))
  IN  [k \in DOMAIN q |-> IF q[k] = Nop THEN NoPos ELSE q[k].pos]

Compiled(p) == [mir |-> p, image |-> Lowered(p), origin |-> Origin(p)]

\* The memory image of a compiled program.
CompiledImage(c, x) ==
  IF x \div 4 + 1 \in DOMAIN c.image THEN c.image[x \div 4 + 1] ELSE Unknown

\* These programs write neither $sw nor an overflowing sum, so interrupts stay
\* disabled and Trap is never enabled.
Uninterrupted == Init /\ [][Boot \/ Step]_vars

-----------------------------------------------------------------------------
\* The position in program c that the code address x stands for.
PosOf(c, x) ==
  IF x = -1 THEN <<0, 0, 1>>
  ELSE IF x % 4 = 0 /\ x \div 4 + 1 \in DOMAIN c.origin THEN c.origin[x \div 4 + 1]
  ELSE NoPos

\* ... and the one to be run next.
At == IF PosOf(code, pc) = NoPos THEN PosOf(code, npc) ELSE PosOf(code, pc)

Mir == INSTANCE Cpu0Mir WITH
  MachinePrograms <- MirPrograms,
  LinkReg <- LinkRegs,
  program <- code.mir,
  at <- IF mode = "off" THEN NoPos ELSE At,
  R <- [r \in GPR \ LinkRegs |-> R[r]],
  link <- [r \in LinkRegs |-> PosOf(code, R[r])]

\* The image the last passes and the fixups produce runs as the machine program
\* reads: the branches of Cpu0AsmBackend.cpp's offsets reach their blocks, a jump
\* that Cpu0DelUselessJMP.cpp deletes was falling through, a call returns behind
\* the slot that Cpu0DelaySlotFiller.cpp filled, and a tail call, whose pseudo has
\* a slot and whose JMP has none, returns to its caller's caller.
ImplementsMir == Mir!Spec

\* What runs between a delayed branch and its target is the NOP of
\* Cpu0DelaySlotFiller.cpp, never an instruction of the program, of the next
\* block or of the next function.
SlotsHoldNops ==
  mode = "run" /\ pc >= 0 /\ npc # Wrap(pc + 4) => Fetched(code, pc).op = "NOP"

-----------------------------------------------------------------------------
ASSUME SavedAssumption == Saved \in GPR \ {0, LR}

\* The programs are well formed and fit the memory and the branch offsets.
ASSUME MirAssumption ==
  \A p \in MirPrograms : WellFormed(p) /\ InReach(p) /\ 4 * Len(Lowered(p)) < Half

\* The processor runs their images.
ASSUME CompiledAssumption ==
  /\ Programs = {Compiled(p) : p \in MirPrograms}
  /\ \A c \in Programs : \A k \in DOMAIN c.image :
       4 * (k - 1) \in CodeAddr /\ Image(c, 4 * (k - 1)) = c.image[k]

\* Adding $zero moves a word.
ASSUME MoveAssumption == \A x \in Word : Alu("ADDu", x, 0) = x
=============================================================================
