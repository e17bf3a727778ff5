------------------------------- MODULE Cpu0Isa -------------------------------
(***************************************************************************)
(* What a Cpu0 programmer is promised: one step per instruction.  There    *)
(* are no phases, no bus and no latches, only the address of the next      *)
(* instruction and of the one after it, which is how a delayed transfer    *)
(* is seen by a program.  An interrupt is recognised between two           *)
(* instructions, keeps the address to resume at in EPC, and enters the     *)
(* vector at 8 with interrupts masked.                                     *)
(***************************************************************************)
EXTENDS Cpu0Arch

VARIABLES
  code,              \* the program image
  mode,              \* "off", "run", or "trapped" between interrupt and vector
  pc, npc,           \* the next instruction and the one after it
  EPC, R, SW, HI, LO, m, tty

vars == <<code, mode, pc, npc, EPC, R, SW, HI, LO, m, tty>>

Init ==
  /\ code \in Programs
  /\ mode = "off"
  /\ pc \in Undef /\ npc = Wrap(pc + 4) /\ EPC \in Undef
  /\ R \in [GPR -> Undef] /\ SW = {}
  /\ HI \in Undef /\ LO \in Undef
  /\ m \in DataImages
  /\ tty = Blank

Boot ==
  /\ mode = "off"
  /\ mode' = "run"
  /\ pc' = 0 /\ npc' = 4
  /\ R' = [R EXCEPT ![0] = 0, ![LR] = -1]
  /\ SW' = WithMode(ResetFlags, RESET)
  /\ UNCHANGED <<code, EPC, HI, LO, m, tty>>

\* The operands of instruction i.
A(i) == RegRead(R, SW, i.a)
B(i) == RegRead(R, SW, i.b)
C(i) == RegRead(R, SW, i.c)
Address(i) == Wrap(B(i) + i.cx)

\* The programmer-visible state after an instruction that changes nothing.
Base == [R |-> R, SW |-> SW, HI |-> HI, LO |-> LO, EPC |-> EPC, m |-> m,
         tty |-> tty, pc |-> npc, npc |-> Wrap(npc + 4)]

\* ... that writes v to register i, as regSet does, or flags sw besides.
Writes(i, v) == [Base EXCEPT !.R = RegSet(R, i, v), !.SW = SwPut(SW, i, v)]
Flags(sw) == [Base EXCEPT !.SW = sw]

\* ... that transfers to t after the delay slot, or at once.
Delayed(o, t) == [o EXCEPT !.npc = t]
AtOnce(o, t) == [o EXCEPT !.pc = t, !.npc = Wrap(t + 4)]

\* The states an instruction i of each group may lead to.
Loads(i) ==
  {LET v == Extend(i.op, d)
   IN  [Base EXCEPT !.R = RegPut(R, i.a, v), !.SW = SwPut(SW, i.a, v)] :
   d \in IF Address(i) \in DataAddr THEN {m[Address(i)]} ELSE Undef}

Stores(i) ==
  {[Base EXCEPT
     !.m = IF Address(i) \in DataAddr
             THEN [m EXCEPT ![Address(i)] = Merge(i.op, @, A(i))] ELSE m,
     !.tty = IF i.op \in PrintOp /\ Address(i) = IOADDR
               THEN Printed(tty, A(i)) ELSE tty]}

Moves(i) == {IF (C(i) = 0) = (i.op = "MOVZ") THEN Writes(i.a, B(i)) ELSE Base}

Computes(i) == {Writes(i.a, Alu(i.op, B(i), Second(i, C(i))))}

MayTrap(i) ==
  LET v == TrapResult(i, B(i), C(i))
      sw == SwPut(SW, i.a, v)
  IN  {[Base EXCEPT !.R = RegSet(R, i.a, v),
                    !.SW = IF Overflows(i, B(i), C(i)) THEN sw \cup {"V", "I0", "I"}
                                                       ELSE sw \ {"V"}]}

Compares(i) == {Flags(Compared(SW, B(i), C(i)))}

Sets(i) ==
  LET v == IF B(i) < Second(i, C(i)) THEN 1 ELSE 0
  IN  {[Base EXCEPT !.R = RegPut(R, i.a, v), !.SW = SwPut(SW, i.a, v)]}

Multiplies(i) ==
  {[Base EXCEPT !.HI = r[1], !.LO = r[2],
      !.SW = IF i.op # "DIV" THEN SW
             ELSE IF DivOverflows(A(i), B(i)) THEN SW \cup {"V"} ELSE SW \ {"V"}] :
   r \in HiLo(i.op, A(i), B(i))}

SetsHiLo(i) == {IF i.op = "MTHI" THEN [Base EXCEPT !.HI = A(i)]
                                 ELSE [Base EXCEPT !.LO = A(i)]}
GetsHiLo(i) == {Writes(i.a, IF i.op = "MFHI" THEN HI ELSE LO)}

\* Co-processor register i; $pc reads as the address after this instruction.
C0Read(i) == IF i = 0 THEN {npc} ELSE IF i = 1 THEN {EPC} ELSE Undef

GetsC0(i) == {Writes(i.a, v) : v \in C0Read(i.b)}
SetsC0(i) ==
  {IF i.a = 0 THEN AtOnce(Base, v) ELSE IF i.a = 1 THEN [Base EXCEPT !.EPC = v] ELSE Base :
   v \in IF i.op = "MTC0" THEN {B(i)} ELSE C0Read(i.b)}

Branches(i) ==
  {IF Taken(i.op, SW, A(i), B(i)) THEN Delayed(Base, Wrap(npc + i.cx)) ELSE Base}

Jumps(i) ==
  {AtOnce(IF i.op = "BAL" THEN [Base EXCEPT !.R = [R EXCEPT ![LR] = npc]] ELSE Base,
          Wrap(npc + i.cx))}

\* The link skips the delay slot.
Links(i) ==
  {IF i.op = "JALR" THEN Delayed(Writes(i.a, Wrap(npc + 4)), B(i))
                    ELSE Delayed(Writes(LR, Wrap(npc + 4)), Wrap(npc + i.cx))}

\* The states instruction i may lead to.
Outcomes(i) ==
  CASE i.op \in NopOp -> {Base}
    [] i.op \in LoadOp -> Loads(i)
    [] i.op \in StoreOp -> Stores(i)
    [] i.op \in MoveOp -> Moves(i)
    [] i.op \in AluOp -> Computes(i)
    [] i.op \in TrapOp -> MayTrap(i)
    [] i.op = "CMP" -> Compares(i)
    [] i.op \in SetOp -> Sets(i)
    [] i.op \in HiLoOp -> Multiplies(i)
    [] i.op \in ToHiLoOp -> SetsHiLo(i)
    [] i.op \in FromHiLoOp -> GetsHiLo(i)
    [] i.op = "MFC0" -> GetsC0(i)
    [] i.op \in ToC0Op -> SetsC0(i)
    [] i.op \in BranchOp -> Branches(i)
    [] i.op \in JumpOp -> Jumps(i)
    [] i.op \in CallOp -> Links(i)
    [] i.op = "RET" -> {Delayed(Base, A(i))}

\* One instruction, and the recognition of an interrupt after it.  A program
\* ends by transferring to a negative address.
Step ==
  /\ mode = "run"
  /\ pc >= 0
  /\ \E o \in Outcomes(Fetched(code, pc)) :
       /\ R' = o.R /\ SW' = o.SW /\ HI' = o.HI /\ LO' = o.LO
       /\ m' = o.m /\ tty' = o.tty
       /\ pc' = o.pc /\ npc' = o.npc
       /\ mode' = IF Irq(o.SW) THEN "trapped" ELSE "run"
       /\ EPC' = IF Irq(o.SW) THEN o.pc ELSE o.EPC
  /\ UNCHANGED code

\* The entry to the interrupt vector.
Trap ==
  /\ mode = "trapped"
  /\ mode' = "run"
  /\ pc' = 8 /\ npc' = 12
  /\ SW' = WithMode(SW, IRQ) \ {"IE"}
  /\ UNCHANGED <<code, EPC, R, HI, LO, m, tty>>

Next == Boot \/ Step \/ Trap

Spec == Init /\ [][Next]_vars
=============================================================================
