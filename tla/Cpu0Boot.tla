------------------------------ MODULE Cpu0Boot ------------------------------
(***************************************************************************)
(* The start-up code linked in front of every program for the simulator:   *)
(* the vector table and RESET_START of src/simulator/boot/boot.c, run by   *)
(* the processor of Cpu0Cpu.  `main` is placed right behind it.            *)
(***************************************************************************)
EXTENDS Cpu0Cpu, Sequences

CONSTANTS
  EnableAll,   \* the word 0x1e00 of SET_SW
  FP, SP, GP   \* register numbers

I(op, a, b, c, cx) == [op |-> op, a |-> a, b |-> b, c |-> c, cx |-> cx]
Nop == I("NOP", 0, 0, 0, 0)

\* Mutant: the reset vector jumps one instruction too far.
Vectors_Far == <<I("JMP", 0, 0, 0, 16), I("JMP", 0, 0, 0, 4),
                 I("JMP", 0, 0, 0, 4), I("JMP", 0, 0, 0, -4)>>

\* boot: one jump per vector, RESET, ERROR, IRQ, and the loop they should reach.
Vectors == <<I("JMP", 0, 0, 0, 12), I("JMP", 0, 0, 0, 4),
             I("JMP", 0, 0, 0, 4), I("JMP", 0, 0, 0, -4)>>

\* Mutant: initRegs() stops at register 9.
InitRegs_Short == [k \in 1 .. 9 |-> I("ADDiu", k, 0, 0, 0)]
                  \o <<I("ANDi", SWREG, 0, 0, 0),
                       I("ORi", SWREG, SWREG, 0, EnableAll), I("ADDiu", FP, 0, 0, 0)>>

\* initRegs(): registers 1 to 10, the status word, the frame pointer.
InitRegs == [k \in 1 .. 10 |-> I("ADDiu", k, 0, 0, 0)]
            \o <<I("ANDi", SWREG, 0, 0, 0), I("ORi", SWREG, SWREG, 0, EnableAll),
                 I("ADDiu", FP, 0, 0, 0)>>

\* Mutants: the jump to main falls one instruction short; main returns to 0.
EnterMain_Short == <<I("ADDiu", GP, 0, 0, 0), I("ADDiu", LR, 0, 0, -1),
                     I("LUi", SP, 0, 0, 7), I("ADDiu", SP, SP, 0, -4),
                     I("MFC0", 3, 0, 0, 0), I("ADDiu", 3, 3, 0, 4),
                     I("RET", 3, 0, 0, 0), Nop>>
EnterMain_NoEnd == <<I("ADDiu", GP, 0, 0, 0), I("ADDiu", LR, 0, 0, 0),
                     I("LUi", SP, 0, 0, 7), I("ADDiu", SP, SP, 0, -4),
                     I("MFC0", 3, 0, 0, 0), I("ADDiu", 3, 3, 0, 8),
                     I("RET", 3, 0, 0, 0), Nop>>

\* The rest of RESET_START; `jr $3` enters main through the nop in its slot.
EnterMain == <<I("ADDiu", GP, 0, 0, 0), I("ADDiu", LR, 0, 0, -1),
               I("LUi", SP, 0, 0, 7), I("ADDiu", SP, SP, 0, -4),
               I("MFC0", 3, 0, 0, 0), I("ADDiu", 3, 3, 0, 8),
               I("RET", 3, 0, 0, 0), Nop>>

Boot == Vectors \o InitRegs \o EnterMain
ResetStart == 4 * Len(Vectors)
MainAddr == 4 * Len(Boot)

\* The memory image of main, a sequence of instructions.
BootImage(main, x) == (Boot \o main)[(x \div 4) + 1]

AtMain == inExe /\ state = "Decode" /\ pc0 = MainAddr

\* main starts as start.h sets it up: all registers zero except the stack
\* pointer, the return address that ends the simulation and the scratch register
\* that held main's address; every interrupt is enabled and none pending; and it
\* is not in a delay slot, although the jump to it is made through one.
MainEnvironment ==
  AtMain =>
    /\ \A k \in GPR \ {3, SP, LR} : R[k] = 0
    /\ R[LR] = -1
    /\ SW = SwFlags(EnableAll) /\ ~Irq(SW)
    /\ ~nextInstIsDelaySlot /\ ~isDelaySlot

\* RESET_START has 21 instructions; the n-th is at StartAddr(n), and control goes
\* from each to the next, into main in the end.
Steps == Len(Boot) - Len(Vectors)
StartAddr(n) == ResetStart + 4 * (n - 1)
StartUp == {StartAddr(n) : n \in 1 .. Steps}
Inside == {StartAddr(n + 1) : n \in 1 .. Steps}

\* Control is at an instruction of RESET_START after the first, or at the first of
\* main, only after another one of RESET_START, whose first is not in a delay slot:
\* nobody skips a part of the start-up code.
EntersAtTop ==
  inExe /\ state = "Fetch" /\ PC \in Inside
    => pc0 \in StartUp /\ (pc0 = ResetStart => ~isDelaySlot)

\* The processor boots into main.
BootReachesMain == <>AtMain

\* A main that requests no interrupt and returns ends the simulation: the return
\* address -1 passes through its delay slot and is seen at WriteBack.
ReturnEndsSimulation ==
  (\A x \in CodeAddr : x >= MainAddr => Image(code, x).op \notin TrapOp) => <>finished

\* boot.c names the vector at 8 "IRQ: jmp IRQ_HANDLE": an interrupt is handled,
\* and only a reset runs RESET_START.  (Not so: its `jmp 4` lands there.)
IrqIsHandled ==
  inExe /\ state = "Decode" /\ pc0 = ResetStart => Mode(SW) = RESET

-----------------------------------------------------------------------------
\* The start-up code is in the memory image, in front of main.
ASSUME BootAssumption ==
  /\ {FP, SP, GP} = {11, 12, 13} /\ MainAddr < Half
  /\ \A p \in Programs : \A k \in DOMAIN Boot :
       4 * (k - 1) \in CodeAddr /\ Image(p, 4 * (k - 1)) = Boot[k]

\* What its instructions compute, and that 0x1e00 requests no interrupt.
ASSUME StartAssumption ==
  /\ \A x \in Word : Alu("ADDiu", x, 0) = x /\ Alu("ANDi", x, 0) = 0
  /\ Alu("ADDiu", 0, -1) = -1
  /\ Alu("ADDiu", StartAddr(19), 8) = StartAddr(21)
  /\ Alu("ORi", 0, EnableAll) = EnableAll
  /\ SwWord(SwFlags(0)) = 0
  /\ ~Irq(SwFlags(EnableAll))
=============================================================================
