------------------------------ MODULE Cpu0Frame ------------------------------
(***************************************************************************)
(* Frames at run time: what LowerCall, the prologues and epilogues of      *)
(* Cpu0SEFrameLowering.cpp, the frame layout of PrologEpilogInserter.cpp   *)
(* and eliminateFrameIndex make of functions that call, tail call and      *)
(* return to each other.  Arguments are placed by Cpu0CC.                  *)
(*                                                                         *)
(* A function is [conv, args, saves, locals, calls]: whether it uses (and  *)
(* so saves) $s0, the bytes of its locals, and what it calls, tail calls   *)
(* aside.  $fp and $s1 are treated as $s0 is.                              *)
(*                                                                         *)
(* The compiler gives a frame to every function, and gives it room for the *)
(* arguments of calls only if they fit a 16-bit offset; an offset of the   *)
(* frame that does not fit is refused by an assertion, and cut to 16 bits  *)
(* in a build without assertions.  `damaged' says that a run left the      *)
(* domain in which neither happens, and the properties speak of that       *)
(* domain.                                                                 *)
(***************************************************************************)
EXTENDS FiniteSets, Cpu0CC

CONSTANTS
  Callee,     \* the functions that may be called
  Programs,   \* programs: what "main" and every callee is
  StackTop,   \* the stack pointer main starts with
  MaxDepth,   \* bound on the number of activations
  ImmLimit    \* the largest signed offset of a load or store: 2^15 - 1

FunctionType ==
  [conv : Convention, args : Seq(ArgType), saves : BOOLEAN, locals : {n \in Nat : n % RegSize = 0},
   calls : SUBSET Callee]

\* Nothing is said of functions whose arguments overrun the table of argument
\* registers: see TableInBounds of Cpu0CallConv.
ASSUME ProgramsAssumption ==
  /\ IsFiniteSet(Callee) /\ "main" \notin Callee
  /\ \A p \in Programs :
       /\ p \in [{"main"} \cup Callee -> FunctionType]
       /\ p["main"].args = <<>>
       /\ \A fn \in DOMAIN p : ~Placement(p[fn]).overrun
ASSUME StackAssumption ==
  StackTop \in Nat /\ StackTop % 8 = 0 /\ MaxDepth \in Nat \ {0}
\* The field of an offset has as many values below zero as from zero on.
ASSUME FieldAssumption == ImmLimit \in Nat /\ (ImmLimit + 1) % 8 = 0

VARIABLES
  prog,     \* the program
  pc,       \* "entry" or "body" of the last activation
  regs,     \* $a0 and $a1, $s0, $lr and $sp
  mem,      \* the words of the stack
  acts,     \* ghost: the activations and what each expects
  damaged   \* ghost: a call was made without room for its arguments, or with a
            \* frame that is not within reach of the offsets of its instructions
vars == <<prog, pc, regs, mem, acts, damaged>>

StackAlignment == 8

(***************************************************************************)
(* Layout.                                                                 *)
(***************************************************************************)
Placed == [f \in UNION {{p[n] : n \in DOMAIN p} : p \in Programs} |-> Placement(f)]
Arguments(fn) == Placed[prog[fn]]
ArgLocs(fn) == Arguments(fn).locs
NextStackOffset(fn) == Arguments(fn).offset
hasByValArg(fn) == \E i \in DOMAIN prog[fn].args : prog[fn].args[i].kind = "byval"

\* CALLSEQ_START of a call, and the largest of a function.
FrameSize(fn) == alignTo(NextStackOffset(fn), StackAlignment)
MaxCallFrameSize(fn) ==
  CHOOSE m \in {0} \cup {FrameSize(g) : g \in prog[fn].calls} :
    \A g \in prog[fn].calls : FrameSize(g) <= m
hasReservedCallFrame(fn) == MaxCallFrameSize(fn) + StackAlignment <= ImmLimit

\* The callee-saved registers that fn spills, and the offsets of its objects
\* from the stack pointer it is entered with.
determineCalleeSaves(fn) ==
  (IF prog[fn].calls = {} THEN <<>> ELSE <<"lr">>) \o (IF prog[fn].saves THEN <<"s0">> ELSE <<>>)
Spill(i) == -4 * i
Local(fn) == -4 * Len(determineCalleeSaves(fn)) - prog[fn].locals

\* Mutant: no room for the arguments of calls.
StackSize_NoCallFrame(fn) == alignTo(-Local(fn), StackAlignment)

\* Mutant: not rounded to the stack alignment.
StackSize_Unaligned(fn) ==
  -Local(fn) + (IF hasReservedCallFrame(fn) THEN MaxCallFrameSize(fn) ELSE 0)

StackSize(fn) ==
  alignTo(-Local(fn) + (IF hasReservedCallFrame(fn) THEN MaxCallFrameSize(fn) ELSE 0),
          StackAlignment)

\* Mutant: the offset is taken as unsigned.
isInt16_Unsigned(x) == 0 <= x /\ x <= 2 * ImmLimit + 1

\* What eliminateFrameIndex asserts of an offset.
isInt16(x) == -ImmLimit - 1 <= x /\ x <= ImmLimit

\* What is left of an offset in a build without assertions: its low 16 bits,
\* to which getMemEncoding masks it, and which the processor takes as signed.
Masked(x) == ((x + ImmLimit + 1) % (2 * (ImmLimit + 1))) - ImmLimit - 1

\* Mutant: the size of the frame is not added.
FrameAddress_Bare(sp, fn, offset) == sp + Masked(offset)

\* eliminateFrameIndex: always from $sp, which no instruction moves between
\* prologue and epilogue.
FrameAddress(sp, fn, offset) == sp + Masked(StackSize(fn) + offset)

\* The words that the code of fn addresses in this way: what it saves, its
\* locals, and the arguments it finds on the stack or saves to their homes.
StackOffsets(locs) ==
  UNION {{locs[i].addr + 4 * w : w \in 0 .. locs[i].stack \div 4 - 1} : i \in DOMAIN locs}
Objects(fn) == [i \in DOMAIN ArgLocs(fn) |-> Object(prog[fn].conv, ArgLocs(fn)[i])]
FrameOffsets(fn) ==
  {Spill(i) : i \in DOMAIN determineCalleeSaves(fn)}
  \cup {Local(fn) + 4 * w : w \in 0 .. prog[fn].locals \div 4 - 1}
  \cup UNION {{Objects(fn)[i].addr + 4 * w : w \in 0 .. Objects(fn)[i].size \div 4 - 1} :
                i \in DOMAIN ArgLocs(fn)}

\* Offsets of the frame of fn are within reach of its instructions.
Addressable(fn, offsets) == \A o \in offsets : isInt16(StackSize(fn) + o)

(***************************************************************************)
(* Values: the word w of argument location i, the locals, $s0 and $lr of   *)
(* an activation at depth d; n tells a tail call from what it replaces.    *)
(***************************************************************************)
Arg(d, n, i, w) == <<"arg", d, n, i, w>>
Own(what, d, n) == <<what, d, n, 0, 0>>
None == Own("none", 0, 0)

Top == acts[Len(acts)]

\* RegsToPass, and the stores of passArgOnStack and passByValArg, of a call
\* whose instructions address the argument word at offset o as at[o].
PassedRegs(locs, d, n) ==
  [k \in 0 .. NumIntArgRegs - 1 |->
     IF \E i \in DOMAIN locs : k \in locs[i].first .. locs[i].first + locs[i].regs - 1
       THEN LET i == CHOOSE j \in DOMAIN locs :
                       k \in locs[j].first .. locs[j].first + locs[j].regs - 1
            IN  Arg(d, n, i, k - locs[i].first)
       ELSE regs.a[k]]
PassedMem(locs, at, d, n) ==
  [x \in DOMAIN mem |->
     IF \E o \in StackOffsets(locs) : x = at[o]
       THEN LET o == CHOOSE o \in StackOffsets(locs) : x = at[o]
                i == CHOOSE j \in DOMAIN locs :
                       o \in locs[j].addr .. locs[j].addr + locs[j].stack - 1
            IN  Arg(d, n, i, (o - locs[i].addr) \div 4)
       ELSE mem[x]]

\* A word that is loaded; those outside the stack are not modelled.
Loaded(m, x) == IF x \in DOMAIN m THEN m[x] ELSE None

(***************************************************************************)
(* Steps.                                                                  *)
(***************************************************************************)
Activation(fn, base, d, n, lr, s0) ==
  [fn |-> fn, base |-> base, depth |-> d, gen |-> n, lr |-> lr, s0 |-> s0]

Init ==
  /\ prog \in Programs
  /\ pc = "entry"
  /\ regs = [a |-> [k \in 0 .. NumIntArgRegs - 1 |-> None],
             s0 |-> Own("s0", 0, 0), lr |-> Own("ret", 0, 0), sp |-> StackTop]
  /\ mem = [x \in {4 * k : k \in 0 .. StackTop \div 4 - 1} |-> None]
  /\ acts = <<Activation("main", StackTop, 1, 0, Own("ret", 0, 0), Own("s0", 0, 0))>>
  /\ damaged = FALSE

\* LowerCall of an ordinary call.
Call(g) ==
  /\ pc = "body" /\ g \in prog[Top.fn].calls /\ Len(acts) < MaxDepth
  /\ LET d == Len(acts) + 1
         lr == Own("ret", d, 0)
     IN  /\ regs' = [regs EXCEPT !.a = PassedRegs(ArgLocs(g), d, 0), !.lr = lr]
         /\ mem' = PassedMem(ArgLocs(g), [o \in StackOffsets(ArgLocs(g)) |-> regs.sp + o], d, 0)
         /\ acts' = Append(acts, Activation(g, regs.sp, d, 0, lr, regs.s0))
  /\ damaged' = (damaged \/ ~hasReservedCallFrame(Top.fn))
  /\ pc' = "entry"
  /\ UNCHANGED prog

\* emitPrologue and spillCalleeSavedRegisters, copyByValRegs, and the first
\* writes of the body to its locals and to $s0.  What the body does with $a0
\* and $a1 is left out.
Enter ==
  /\ pc = "entry"
  /\ StackSize(Top.fn) <= regs.sp   \* bound: the stack has room
  /\ LET fn == Top.fn
         csi == determineCalleeSaves(fn)
         sp == regs.sp - StackSize(fn)
         at(offset) == FrameAddress(sp, fn, offset)
         locs == ArgLocs(fn)
         homed == UNION {locs[i].first .. locs[i].first + locs[i].regs - 1 :
                           i \in {j \in DOMAIN locs : locs[j].kind = "byval"}}
         home(k) == reservedArgArea(prog[fn].conv) - (NumIntArgRegs - k) * RegSize
     IN  /\ mem' = [x \in DOMAIN mem |->
              IF \E i \in DOMAIN csi : x = at(Spill(i))
                THEN regs[csi[CHOOSE i \in DOMAIN csi : x = at(Spill(i))]]
              ELSE IF prog[fn].locals > 0 /\ x = at(Local(fn))
                THEN Own("local", Top.depth, Top.gen)
              ELSE IF \E k \in homed : x = at(home(k))
                THEN regs.a[CHOOSE k \in homed : x = at(home(k))]
              ELSE mem[x]]
         /\ regs' = [regs EXCEPT !.sp = sp, !.a = [k \in DOMAIN @ |-> None],
                                 !.s0 = IF prog[fn].saves THEN Own("s0", Top.depth, Top.gen) ELSE @]
         /\ damaged' = (damaged \/ ~Addressable(fn, FrameOffsets(fn)))
  /\ pc' = "body"
  /\ UNCHANGED <<prog, acts>>

\* Mutant: the stack pointer moves before the registers are restored.
Restored_Late(m) ==
  LET fn == Top.fn
      csi == determineCalleeSaves(fn)
      sp == regs.sp + StackSize(fn)
      saved(r) == Loaded(m, FrameAddress(sp, fn, Spill(CHOOSE i \in DOMAIN csi : csi[i] = r)))
      back(r) == IF \E i \in DOMAIN csi : csi[i] = r THEN saved(r) ELSE regs[r]
  IN  [regs EXCEPT !.lr = back("lr"), !.s0 = back("s0"), !.sp = sp]

\* The registers after the reloads and emitEpilogue.
Restored(m) ==
  LET fn == Top.fn
      csi == determineCalleeSaves(fn)
      saved(r) == Loaded(m, FrameAddress(regs.sp, fn, Spill(CHOOSE i \in DOMAIN csi : csi[i] = r)))
      back(r) == IF \E i \in DOMAIN csi : csi[i] = r THEN saved(r) ELSE regs[r]
  IN  [regs EXCEPT !.lr = back("lr"), !.s0 = back("s0"), !.sp = @ + StackSize(fn)]

\* Mutant: whatever the size of the arguments.
Eligible_AnySize(fn, g) == ~hasByValArg(fn) /\ ~hasByValArg(g)

\* isEligibleForTailCallOptimization.
Eligible(fn, g) ==
  /\ ~hasByValArg(fn) /\ ~hasByValArg(g)
  /\ NextStackOffset(g) <= NextStackOffset(fn)

\* LowerCall of a tail call: the stack arguments go to the frame objects of
\* the arguments of the caller, which were all loaded on its entry.
TailCall(g) ==
  /\ pc = "body" /\ Top.fn # "main" /\ Eligible(Top.fn, g)
  /\ LET d == Len(acts)
         n == 1 - Top.gen
         offsets == StackOffsets(ArgLocs(g))
         m == PassedMem(ArgLocs(g), [o \in offsets |-> FrameAddress(regs.sp, Top.fn, o)], d, n)
     IN  /\ mem' = m
         /\ damaged' = (damaged \/ ~Addressable(Top.fn, offsets))
         /\ regs' = [Restored(m) EXCEPT !.a = PassedRegs(ArgLocs(g), d, n)]
         /\ acts' = [acts EXCEPT ![d] = Activation(g, @.base, d, n, @.lr, @.s0)]
  /\ pc' = "entry"
  /\ UNCHANGED prog

\* The epilogue, and ret $lr.  The words below the stack pointer are forgotten,
\* so that no later step can rely on what happens to be left there.
Return ==
  /\ pc = "body" /\ Top.fn # "main"
  /\ regs' = Restored(mem)
  /\ mem' = [x \in DOMAIN mem |-> IF x < regs'.sp THEN None ELSE mem[x]]
  /\ acts' = SubSeq(acts, 1, Len(acts) - 1)
  /\ UNCHANGED <<prog, pc, damaged>>

Next == Enter \/ Return \/ \E g \in Callee : Call(g) \/ TailCall(g)

Spec == Init /\ [][Next]_vars

(***************************************************************************)
(* Properties.                                                             *)
(***************************************************************************)
Entered(k) == k < Len(acts) \/ pc = "body"

TypeOK ==
  /\ prog \in Programs /\ pc \in {"entry", "body"}
  /\ Len(acts) \in 1 .. MaxDepth
  /\ regs.sp \in 0 .. StackTop /\ regs.sp % StackAlignment = 0

\* Every activation finds its arguments where the caller put them: on entry
\* in the registers and words of its signature, and as long as it is active
\* the ones on the stack and the structures saved to their homes, whatever it
\* calls meanwhile.  They are as aligned as the signature says.  This holds as
\* long as every call was made with a reserved call frame and every frame
\* entered is within reach of 16-bit offsets (~damaged).
ArgumentsKept(k) ==
  LET a == acts[k]
      locs == ArgLocs(a.fn)
      kept(i, obj) == \A w \in 0 .. obj.size \div 4 - 1 :
                        mem[a.base + obj.addr + 4 * w] = Arg(a.depth, a.gen, i, w)
  IN  \A i \in DOMAIN locs :
        LET l == locs[i] IN
        /\ l.stack > 0 => (a.base + l.addr) % l.align = 0
        /\ IF Entered(k) THEN kept(i, Object(prog[a.fn].conv, l))
           ELSE /\ kept(i, [addr |-> l.addr, size |-> l.stack])
                /\ \A w \in 0 .. l.regs - 1 : regs.a[l.first + w] = Arg(a.depth, a.gen, i, w)
ArgsArrive == ~damaged => \A k \in DOMAIN acts : ArgumentsKept(k)

\* The locals and the saved registers of every activation survive what it
\* calls, its own arguments for those calls included; and whenever control is
\* in an activation, the stack pointer and $s0 are its own.  In the domain of
\* ArgsArrive: one frame out of reach, and what it saves lands elsewhere.
FrameKept(k) ==
  LET a == acts[k]
      csi == determineCalleeSaves(a.fn)
      saved == [lr |-> a.lr, s0 |-> a.s0]
  IN  Entered(k) =>
        /\ \A i \in DOMAIN csi : mem[a.base + Spill(i)] = saved[csi[i]]
        /\ prog[a.fn].locals > 0 => mem[a.base + Local(a.fn)] = Own("local", a.depth, a.gen)
RegistersKept ==
  /\ regs.sp = IF pc = "entry" THEN Top.base ELSE Top.base - StackSize(Top.fn)
  /\ regs.s0 = IF pc = "body" /\ prog[Top.fn].saves THEN Own("s0", Top.depth, Top.gen) ELSE Top.s0
FramesKept == ~damaged => RegistersKept /\ \A k \in DOMAIN acts : FrameKept(k)

\* A function returns to the call that is waiting for it, also after any
\* number of tail calls in its place.  In the domain of ArgsArrive: $lr is
\* reloaded from the frame.
ReturnsHome == [][Len(acts') < Len(acts) => damaged \/ regs'.lr = Top.lr]_vars

\* What FramesKept says, without its condition.  Violated: the arguments of a
\* call too large for a reserved call frame overwrite the frame.
LargeCallFrame == RegistersKept /\ \A k \in DOMAIN acts : FrameKept(k)
=============================================================================
