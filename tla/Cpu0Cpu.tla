------------------------------- MODULE Cpu0Cpu -------------------------------
(***************************************************************************)
(* The Cpu0 processor of src/simulator/cpu0.v, one step per rising edge of *)
(* the clock: reset, interrupt entry, and the five phases of an            *)
(* instruction (Fetch, Decode, Execute, MemAccess, WriteBack), built with  *)
(* SIMULATE_DELAY_SLOT as the source is.  The memory answers               *)
(* combinationally, so a store reaches it in the step that drives the bus. *)
(***************************************************************************)
EXTENDS Cpu0Arch

VARIABLES
  code,                \* the program in memory0; nothing stores to it
  PC, EPC,             \* co-processor 0 registers
  R, SW, HI, LO,       \* register file, status word, multiply unit
  m,                   \* data memory
  state,               \* phase; "X" before the first edge
  inExe,               \* FALSE: the next edge enters an interrupt or reset
  nextInstIsDelaySlot, \* a taken transfer waits for its slot
  delaySlotNextPC,     \* ... and then goes here
  isDelaySlot,         \* the instruction in flight is a slot
  pc0, ir,             \* address and instruction in flight
  Ra, Rb, Rc,          \* its operands, latched at Decode
  m_en, m_rw, mar,     \* the bus: enabled, reading, address
  tty,                 \* the terminal: the last word written, and a bit that
                       \* flips with every write
  finished             \* $finish was called

archVars == <<R, SW, HI, LO>>
slotVars == <<nextInstIsDelaySlot, delaySlotNextPC, isDelaySlot>>
latches == <<pc0, ir, Ra, Rb, Rc>>
busVars == <<m_en, m_rw, mar>>
vars == <<code, PC, EPC, archVars, m, state, inExe, slotVars, latches,
          busVars, tty, finished>>

Phase == {"Fetch", "Decode", "Execute", "MemAccess", "WriteBack"}

\* The program is loaded; every register the reset leaves alone is arbitrary.
Init ==
  /\ code \in Programs
  /\ PC \in Undef /\ EPC \in Undef
  /\ R \in [GPR -> Undef]
  /\ SW = {}
  /\ HI \in Undef /\ LO \in Undef
  /\ m \in DataImages
  /\ state = "X"
  /\ inExe = FALSE
  /\ nextInstIsDelaySlot = FALSE /\ isDelaySlot = FALSE
  /\ delaySlotNextPC \in Undef
  /\ pc0 \in Undef
  /\ ir = Unknown
  /\ Ra \in Undef /\ Rb \in Undef /\ Rc \in Undef
  /\ m_en = FALSE /\ m_rw = FALSE
  /\ mar \in Undef
  /\ tty = Blank
  /\ finished = FALSE

-----------------------------------------------------------------------------
(* The three branches of the clocked block: interrupt, reset, execution. *)

InterruptDue == state = "Fetch" /\ Irq(SW)

\* Both interrupt branches of the clocked block do the same.
TakeInterrupt ==
  /\ ~finished
  /\ ~inExe
  /\ InterruptDue
  /\ SW' = WithMode(SW, IRQ) \ {"IE"}
  /\ PC' = 8
  /\ inExe' = TRUE
  /\ m_en' = FALSE
  /\ UNCHANGED <<code, EPC, R, HI, LO, m, state, slotVars, latches, m_rw, mar,
                 tty, finished>>

\* `main` holds itype at RESET for ever.
TakeReset ==
  /\ ~finished
  /\ ~inExe
  /\ ~InterruptDue
  /\ PC' = 0
  /\ R' = [R EXCEPT ![0] = 0, ![LR] = -1]
  /\ SW' = WithMode(ResetFlags, RESET)
  /\ inExe' = TRUE
  /\ state' = "Fetch"
  /\ UNCHANGED <<code, EPC, HI, LO, m, slotVars, latches, busVars, tty, finished>>

\* taskExecute in phase p.
Executes(p) == ~finished /\ inExe /\ state = p

-----------------------------------------------------------------------------
(* Fetch and Decode. *)

\* Mutant: the slot is never left.
Fetch_KeepsSlot ==
  /\ Executes("Fetch")
  /\ m_en' = TRUE /\ m_rw' = TRUE /\ mar' = PC
  /\ pc0' = PC
  /\ isDelaySlot' = nextInstIsDelaySlot
  /\ PC' = IF nextInstIsDelaySlot THEN delaySlotNextPC ELSE Wrap(PC + 4)
  /\ state' = "Decode"
  /\ UNCHANGED <<code, EPC, archVars, m, inExe, nextInstIsDelaySlot,
                 delaySlotNextPC, ir, Ra, Rb, Rc, tty, finished>>

Fetch ==
  /\ Executes("Fetch")
  /\ m_en' = TRUE /\ m_rw' = TRUE /\ mar' = PC
  /\ pc0' = PC
  /\ isDelaySlot' = nextInstIsDelaySlot
  /\ nextInstIsDelaySlot' = FALSE
  /\ PC' = IF nextInstIsDelaySlot THEN delaySlotNextPC ELSE Wrap(PC + 4)
  /\ state' = "Decode"
  /\ UNCHANGED <<code, EPC, archVars, m, inExe, delaySlotNextPC, ir, Ra, Rb, Rc,
                 tty, finished>>

Decode ==
  /\ Executes("Decode")
  /\ m_en' = FALSE
  /\ LET i == Fetched(code, mar)
     IN  /\ ir' = i
         /\ Ra' = RegRead(R, SW, i.a)
         /\ Rb' = RegRead(R, SW, i.b)
         /\ Rc' = RegRead(R, SW, i.c)
  /\ state' = "Execute"
  /\ UNCHANGED <<code, PC, EPC, archVars, m, inExe, slotVars, pc0, m_rw, mar,
                 tty, finished>>

-----------------------------------------------------------------------------
(* Execute: one action per group of branches of `case (op)`. *)

Executing(ops) == Executes("Execute") /\ ir.op \in ops

\* Mutant: an interrupt does not send the machine back to Fetch.
EndExecute_KeepsPhase(sw, pc, epc) ==
  /\ SW' = sw
  /\ PC' = pc
  /\ EPC' = IF Irq(sw) THEN pc ELSE epc
  /\ inExe' = ~Irq(sw)
  /\ state' = "MemAccess"
  /\ UNCHANGED <<code, latches, isDelaySlot, tty, finished>>

\* The end of Execute: the status word is sw, the co-processor registers are
\* pc and epc, and a recognised interrupt abandons the instruction's last two
\* phases.
EndExecute(sw, pc, epc) ==
  /\ SW' = sw
  /\ PC' = pc
  /\ EPC' = IF Irq(sw) THEN pc ELSE epc
  /\ inExe' = ~Irq(sw)
  /\ state' = IF Irq(sw) THEN "Fetch" ELSE "MemAccess"
  /\ UNCHANGED <<code, latches, isDelaySlot, tty, finished>>

NoTransfer == UNCHANGED <<nextInstIsDelaySlot, delaySlotNextPC>>
NoBus == UNCHANGED <<m, busVars>>

\* PCSet: the transfer waits for the delay slot.
PCSet(target) ==
  /\ nextInstIsDelaySlot' = TRUE
  /\ delaySlotNextPC' = target

EffectiveAddress == Wrap(Rb + ir.cx)

ExecNop ==
  /\ Executing(NopOp)
  /\ EndExecute(SW, PC, EPC)
  /\ NoTransfer /\ NoBus
  /\ UNCHANGED <<R, HI, LO>>

ExecLoad ==
  /\ Executing(LoadOp)
  /\ m_en' = TRUE /\ m_rw' = TRUE /\ mar' = EffectiveAddress
  /\ EndExecute(SW, PC, EPC)
  /\ NoTransfer
  /\ UNCHANGED <<R, HI, LO, m>>

ExecStore ==
  /\ Executing(StoreOp)
  /\ m_en' = TRUE /\ m_rw' = FALSE /\ mar' = EffectiveAddress
  /\ m' = IF EffectiveAddress \in DataAddr
            THEN [m EXCEPT ![EffectiveAddress] = Merge(ir.op, @, Ra)]
            ELSE m
  /\ EndExecute(SW, PC, EPC)
  /\ NoTransfer
  /\ UNCHANGED <<R, HI, LO>>

ExecCondMove ==
  /\ Executing(MoveOp)
  /\ LET moves == (Rc = 0) = (ir.op = "MOVZ")
     IN  /\ R' = IF moves THEN RegSet(R, ir.a, Rb) ELSE R
         /\ EndExecute(IF moves THEN SwPut(SW, ir.a, Rb) ELSE SW, PC, EPC)
  /\ NoTransfer /\ NoBus
  /\ UNCHANGED <<HI, LO>>

ExecAlu ==
  /\ Executing(AluOp)
  /\ LET v == Alu(ir.op, Rb, Second(ir, Rc))
     IN  R' = RegSet(R, ir.a, v) /\ EndExecute(SwPut(SW, ir.a, v), PC, EPC)
  /\ NoTransfer /\ NoBus
  /\ UNCHANGED <<HI, LO>>

\* ADD and SUB request the software interrupt on overflow.
ExecTrapping ==
  /\ Executing(TrapOp)
  /\ LET v == TrapResult(ir, Rb, Rc)
         sw == SwPut(SW, ir.a, v)
     IN  /\ R' = RegSet(R, ir.a, v)
         /\ EndExecute(IF Overflows(ir, Rb, Rc) THEN sw \cup {"V", "I0", "I"}
                                                ELSE sw \ {"V"}, PC, EPC)
  /\ NoTransfer /\ NoBus
  /\ UNCHANGED <<HI, LO>>

ExecCmp ==
  /\ Executing({"CMP"})
  /\ EndExecute(Compared(SW, Rb, Rc), PC, EPC)
  /\ NoTransfer /\ NoBus
  /\ UNCHANGED <<R, HI, LO>>

\* SLT and its variants write R[a] directly, not through regSet.
ExecSet ==
  /\ Executing(SetOp)
  /\ LET v == IF Rb < Second(ir, Rc) THEN 1 ELSE 0
     IN  R' = RegPut(R, ir.a, v) /\ EndExecute(SwPut(SW, ir.a, v), PC, EPC)
  /\ NoTransfer /\ NoBus
  /\ UNCHANGED <<HI, LO>>

ExecHiLo ==
  /\ Executing(HiLoOp)
  /\ \E r \in HiLo(ir.op, Ra, Rb) : HI' = r[1] /\ LO' = r[2]
  /\ EndExecute(IF ir.op # "DIV" THEN SW
                ELSE IF DivOverflows(Ra, Rb) THEN SW \cup {"V"} ELSE SW \ {"V"},
                PC, EPC)
  /\ NoTransfer /\ NoBus
  /\ UNCHANGED R

ExecToHiLo ==
  /\ Executing(ToHiLoOp)
  /\ HI' = IF ir.op = "MTHI" THEN Ra ELSE HI
  /\ LO' = IF ir.op = "MTLO" THEN Ra ELSE LO
  /\ EndExecute(SW, PC, EPC)
  /\ NoTransfer /\ NoBus
  /\ UNCHANGED R

ExecFromHiLo ==
  /\ Executing(FromHiLoOp)
  /\ LET v == IF ir.op = "MFHI" THEN HI ELSE LO
     IN  R' = RegSet(R, ir.a, v) /\ EndExecute(SwPut(SW, ir.a, v), PC, EPC)
  /\ NoTransfer /\ NoBus
  /\ UNCHANGED <<HI, LO>>

\* C0R[i]; there are two co-processor registers.
C0Values(i) == IF i = 0 THEN {PC} ELSE IF i = 1 THEN {EPC} ELSE Undef

ExecFromC0 ==
  /\ Executing({"MFC0"})
  /\ \E v \in C0Values(ir.b) :
       R' = RegSet(R, ir.a, v) /\ EndExecute(SwPut(SW, ir.a, v), PC, EPC)
  /\ NoTransfer /\ NoBus
  /\ UNCHANGED <<HI, LO>>

\* A write to $pc transfers at once, without a delay slot.
ExecToC0 ==
  /\ Executing(ToC0Op)
  /\ \E v \in IF ir.op = "MTC0" THEN {Rb} ELSE C0Values(ir.b) :
       EndExecute(SW, IF ir.a = 0 THEN v ELSE PC, IF ir.a = 1 THEN v ELSE EPC)
  /\ NoTransfer /\ NoBus
  /\ UNCHANGED <<R, HI, LO>>

ExecBranch ==
  /\ Executing(BranchOp)
  /\ IF Taken(ir.op, SW, Ra, Rb) THEN PCSet(Wrap(PC + ir.cx)) ELSE NoTransfer
  /\ EndExecute(SW, PC, EPC)
  /\ NoBus
  /\ UNCHANGED <<R, HI, LO>>

\* JMP and BAL change PC at once: they have no delay slot.
ExecJump ==
  /\ Executing(JumpOp)
  /\ R' = IF ir.op = "BAL" THEN [R EXCEPT ![LR] = PC] ELSE R
  /\ EndExecute(SW, Wrap(PC + ir.cx), EPC)
  /\ NoTransfer /\ NoBus
  /\ UNCHANGED <<HI, LO>>

\* Mutant: the link is the slot itself.
ExecCall_LinksSlot ==
  /\ Executing(CallOp)
  /\ LET reg == IF ir.op = "JALR" THEN ir.a ELSE LR
     IN  R' = RegSet(R, reg, PC) /\ EndExecute(SwPut(SW, reg, PC), PC, EPC)
  /\ PCSet(IF ir.op = "JALR" THEN Rb ELSE Wrap(PC + ir.cx))
  /\ NoBus
  /\ UNCHANGED <<HI, LO>>

\* retValSet: the link skips the delay slot.
ExecCall ==
  /\ Executing(CallOp)
  /\ LET link == Wrap(PC + 4)
         reg == IF ir.op = "JALR" THEN ir.a ELSE LR
     IN  R' = RegSet(R, reg, link) /\ EndExecute(SwPut(SW, reg, link), PC, EPC)
  /\ PCSet(IF ir.op = "JALR" THEN Rb ELSE Wrap(PC + ir.cx))
  /\ NoBus
  /\ UNCHANGED <<HI, LO>>

ExecRet ==
  /\ Executing({"RET"})
  /\ PCSet(Ra)
  /\ EndExecute(SW, PC, EPC)
  /\ NoBus
  /\ UNCHANGED <<R, HI, LO>>

Execute ==
  \/ ExecNop \/ ExecLoad \/ ExecStore \/ ExecCondMove \/ ExecAlu
  \/ ExecTrapping \/ ExecCmp \/ ExecSet \/ ExecHiLo \/ ExecToHiLo
  \/ ExecFromHiLo \/ ExecFromC0 \/ ExecToC0 \/ ExecBranch \/ ExecJump
  \/ ExecCall \/ ExecRet

-----------------------------------------------------------------------------
(* MemAccess and WriteBack. *)

MemAccess ==
  /\ Executes("MemAccess")
  /\ m_en' = IF ir.op \in StoreOp THEN FALSE ELSE m_en
  /\ state' = "WriteBack"
  /\ UNCHANGED <<code, PC, EPC, archVars, m, inExe, slotVars, latches, m_rw, mar,
                 tty, finished>>

\* The word on the data bus: high impedance unless memory0 is being read.
Dbus == IF m_en /\ m_rw /\ mar \in DataAddr THEN {m[mar]} ELSE Undef

WriteBackCommon ==
  /\ Executes("WriteBack")
  /\ finished' = (PC < 0)
  /\ state' = "Fetch"
  /\ UNCHANGED <<code, PC, EPC, HI, LO, m, inExe, slotVars, latches, m_rw, mar>>

\* Mutant: a load leaves the bus enabled.
WriteBackLoad_KeepsBus ==
  /\ WriteBackCommon
  /\ ir.op \in LoadOp
  /\ \E d \in Dbus : LET v == Extend(ir.op, d)
                     IN  R' = RegPut(R, ir.a, v) /\ SW' = SwPut(SW, ir.a, v)
  /\ UNCHANGED <<tty, m_en>>

\* memReadEnd(R[a]) writes R[a] directly, not through regSet.
WriteBackLoad ==
  /\ WriteBackCommon
  /\ ir.op \in LoadOp
  /\ \E d \in Dbus : LET v == Extend(ir.op, d)
                     IN  R' = RegPut(R, ir.a, v) /\ SW' = SwPut(SW, ir.a, v)
  /\ m_en' = FALSE
  /\ UNCHANGED tty

WriteBackOther ==
  /\ WriteBackCommon
  /\ ir.op \notin LoadOp
  /\ tty' = IF ir.op \in PrintOp /\ Wrap(RegRead(R, SW, ir.b) + ir.cx) = IOADDR
              THEN Printed(tty, RegRead(R, SW, ir.a)) ELSE tty
  /\ UNCHANGED <<R, SW, m_en>>

Finish == finished /\ UNCHANGED vars

Next ==
  \/ TakeInterrupt \/ TakeReset
  \/ Fetch \/ Decode \/ Execute \/ MemAccess \/ WriteBackLoad \/ WriteBackOther
  \/ Finish

\* `always #10 clock=clock+1`: the clock never stops.
Spec == Init /\ [][Next]_vars /\ WF_vars(Next)

-----------------------------------------------------------------------------
(* Properties. *)

TypeOK ==
  /\ code \in Programs
  /\ PC \in Word /\ EPC \in Word
  /\ R \in [GPR -> Word] /\ SW \subseteq Flag
  /\ HI \in Word /\ LO \in Word
  /\ m \in [DataAddr -> Word]
  /\ state \in Phase \cup {"X"}
  /\ inExe \in BOOLEAN
  /\ nextInstIsDelaySlot \in BOOLEAN /\ isDelaySlot \in BOOLEAN
  /\ delaySlotNextPC \in Word
  /\ pc0 \in Word /\ ir \in Instr
  /\ Ra \in Word /\ Rb \in Word /\ Rc \in Word
  /\ m_en \in BOOLEAN /\ m_rw \in BOOLEAN /\ mar \in Word
  /\ tty \in [flips : BOOLEAN, last : Word]
  /\ finished \in BOOLEAN

\* The processor has left its undefined power-on state.
Booted == state # "X"

\* `main` never takes itype off RESET, so whenever inExe is clear only the
\* priority of the interrupt branches keeps the processor from starting over.
\* Once booted, inExe is clear only when an interrupt is due, so the program
\* is never reset again.
NoSecondReset == Booted /\ ~inExe => InterruptDue

\* An interrupt enters the vector with no delayed transfer outstanding, so the
\* handler's first instruction is not taken for a delay slot; and EPC holds the
\* address at which the interrupted program goes on.  (A load of $sw makes the
\* interrupt due too late, and a link into $sw is itself a transfer, hence the
\* hypothesis.)
InterruptBetweenInstructions ==
  Booted /\ ~inExe /\ OrdinarySw(code) => ~nextInstIsDelaySlot /\ EPC = PC

\* The bus carries one transaction at a time, for the instruction in flight: its
\* own address is being read when Decode samples the bus, its effective address
\* when a load's WriteBack does; a write is driven only between a store's
\* Execute and MemAccess, or is cut off by an interrupt entry.
BusDiscipline ==
  inExe =>
    /\ state = "Decode" => m_en /\ m_rw /\ mar = pc0
    /\ state \in {"MemAccess", "WriteBack"} /\ ir.op \in LoadOp
         => m_en /\ m_rw /\ mar = Wrap(RegRead(R, SW, ir.b) + ir.cx)
    /\ m_en /\ ~m_rw => state = "MemAccess" /\ ir.op \in StoreOp
    /\ state = "Fetch" => ~m_en

\* An interrupt request is never lost: once its status bit is set, by an
\* overflow or by the program, only a write to $sw clears it.  In particular
\* neither a comparison nor the entry to the handler does.
RequestsSticky ==
  [][Booted => \A l \in Line : l[2] \in SW /\ l[2] \notin SW' => ir.a = SWREG]_vars

\* An overflow of ADD or SUB with interrupts enabled reaches the handler, which
\* starts with interrupts masked.
OverflowServed ==
  /\ Executes("Execute")
  /\ ir.op \in TrapOp /\ ir.a # SWREG /\ Overflows(ir, Rb, Rc)
  /\ {"IE", "I0E"} \subseteq SW
  ~> state = "Decode" /\ pc0 = 8 /\ "IE" \notin SW

-----------------------------------------------------------------------------
(* The inductive strengthenings of the safety properties above. *)

\* Sequencing: reset happens once, an interrupt saves where it came from, and a
\* delayed transfer is outstanding only between Execute and the slot's Fetch.
ControlInv ==
  /\ NoSecondReset
  /\ inExe => Booted
  /\ ~Booted => ~nextInstIsDelaySlot /\ ~m_en
  /\ Booted /\ ~inExe => EPC = PC
  /\ inExe /\ state \in {"Decode", "Execute"} => ~nextInstIsDelaySlot

\* What an ordinary use of $sw adds: no interrupt is due while an instruction is
\* in flight, and an interrupt leaves no transfer outstanding.
SwInv ==
  OrdinarySw(code) =>
    /\ ir.op \in LoadOp \cup {"JALR"} => ir.a # SWREG
    /\ inExe => ~Irq(SW)
    /\ ~inExe => ~nextInstIsDelaySlot

\* The operands latched at Decode are still those of the register file at
\* Execute, and the bus is idle except for the instruction in flight.
BusInv ==
  inExe =>
    /\ BusDiscipline
    /\ state = "Execute" => ~m_en /\ Rb = RegRead(R, SW, ir.b)
    /\ state = "MemAccess" /\ ir.op \notin LoadOp \cup StoreOp => ~m_en
    /\ state = "WriteBack" /\ ir.op \notin LoadOp => ~m_en

IInv == TypeOK /\ ControlInv /\ SwInv /\ BusInv
=============================================================================
