------------------------------- MODULE Cpu0Mir -------------------------------
(***************************************************************************)
(* What a machine program means before it is lowered: blocks run in order, *)
(* a branch goes to its block when it is taken, a call comes back behind   *)
(* itself, and there are neither addresses nor delay slots.  A code        *)
(* address, in the link register or in the one a function saves it to, is  *)
(* a position in the program.                                              *)
(***************************************************************************)
EXTENDS Cpu0Arch, Sequences

CONSTANTS
  MachinePrograms,  \* programs, as sequences of functions of blocks
  LinkReg           \* the registers that hold code addresses

VARIABLES
  program,
  at,     \* the instruction to run next, <<function, block, index>>
  R,      \* the other registers
  link,   \* the positions in LinkReg
  SW

vars == <<program, at, R, link, SW>>

Nowhere == <<0, 0, 0>>
Exit == <<0, 0, 1>>   \* where main returns to

\* What a code address may stand for, anything before one is put there.
Places == Nat \X Nat \X Nat

\* Control leaves block b at its place k for the block behind it: there is
\* nothing left, or only a jump that leads there.
Falls(f, b, k) ==
  LET blk == program[f][b]
  IN  /\ b < Len(program[f])
      /\ \/ k > Len(blk)
         \/ k = Len(blk) /\ blk[k].op = "JMP" /\ blk[k].cx = b + 1

\* The first instruction that is run from place k of block b on.
Settle(f, b, k) ==
  IF ~Falls(f, b, k) THEN <<f, b, k>>
  ELSE LET next == CHOOSE n \in b + 1 .. Len(program[f]) :
                     /\ ~Falls(f, n, 1)
                     /\ \A j \in b + 1 .. n - 1 : Falls(f, j, 1)
       IN  <<f, next, 1>>

Init ==
  /\ program \in MachinePrograms
  /\ at = Nowhere
  /\ R \in [GPR \ LinkReg -> Undef]
  /\ link \in [LinkReg -> Places]
  /\ SW = {}

Behind == Settle(at[1], at[2], at[3] + 1)
Block(n) == Settle(at[1], n, 1)
Entry(f) == Settle(f, 1, 1)

Start ==
  /\ at = Nowhere
  /\ at' = Entry(1)
  /\ R' = [R EXCEPT ![0] = 0]
  /\ link' = [link EXCEPT ![LR] = Exit]
  /\ SW' = WithMode(ResetFlags, RESET)

Compute(i) ==
  /\ i.op \in AluOp /\ i.a \notin LinkReg
  /\ R' = RegSet(R, i.a, Alu(i.op, R[i.b], Second(i, R[i.c])))
  /\ at' = Behind
  /\ UNCHANGED <<link, SW>>

Set(i) ==
  /\ i.op \in SetOp
  /\ R' = RegPut(R, i.a, IF R[i.b] < Second(i, R[i.c]) THEN 1 ELSE 0)
  /\ at' = Behind
  /\ UNCHANGED <<link, SW>>

Compare(i) ==
  /\ i.op = "CMP"
  /\ SW' = Compared(SW, R[i.b], R[i.c])
  /\ at' = Behind
  /\ UNCHANGED <<R, link>>

\* The link register is saved or restored.
Copy(i) ==
  /\ i.op = "ADDu" /\ i.a \in LinkReg
  /\ link' = [link EXCEPT ![i.a] = link[i.b]]
  /\ at' = Behind
  /\ UNCHANGED <<R, SW>>

Branch(i) ==
  /\ i.op \in BranchOp
  /\ at' = IF Taken(i.op, SW, R[i.a], R[i.b]) THEN Block(i.cx) ELSE Behind
  /\ UNCHANGED <<R, link, SW>>

Jump(i) ==
  /\ i.op = "JMP"
  /\ at' = Block(i.cx)
  /\ UNCHANGED <<R, link, SW>>

Call(i) ==
  /\ i.op = "JSUB"
  /\ at' = Entry(i.cx)
  /\ link' = [link EXCEPT ![LR] = Behind]
  /\ UNCHANGED <<R, SW>>

\* A tail call leaves the link register to the callee.
TailCall(i) ==
  /\ i.op = "TAILCALL"
  /\ at' = Entry(i.cx)
  /\ UNCHANGED <<R, link, SW>>

Ret(i) ==
  /\ i.op = "RetLR"
  /\ at' = link[LR]
  /\ UNCHANGED <<R, link, SW>>

Run ==
  /\ at \notin {Nowhere, Exit}
  /\ LET i == program[at[1]][at[2]][at[3]]
     IN  \/ Compute(i) \/ Set(i) \/ Compare(i) \/ Copy(i) \/ Branch(i)
         \/ Jump(i) \/ Call(i) \/ TailCall(i) \/ Ret(i)

Next == (Start \/ Run) /\ UNCHANGED program

Spec == Init /\ [][Next]_vars
=============================================================================
