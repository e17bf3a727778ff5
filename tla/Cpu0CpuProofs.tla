---------------------------- MODULE Cpu0CpuProofs ----------------------------
(***************************************************************************)
(* Proofs about the clocked processor, for every word size, program,       *)
(* datapath and memory the assumptions of Cpu0Arch admit: first of itself, *)
(* then that it implements the instruction-level machine, for all programs *)
(* that neither load $sw nor link into it.  The last part is about the     *)
(* start-up code of Cpu0Boot; only it uses the assumptions made there.     *)
(***************************************************************************)
EXTENDS Cpu0CpuIsa, Cpu0Boot, TLAPS

-----------------------------------------------------------------------------
(* The operators of Cpu0Arch. *)

\* Wrapped arithmetic stays within a register.
LEMMA WrapWord == \A x \in Int : Wrap(x) \in Word
<1>1. 2 * Half \in Int /\ 2 * Half > 0 /\ Half \in Int
  BY WordAssumption
<1>2. ASSUME NEW x \in Int PROVE (x + Half) % (2 * Half) \in 0 .. (2 * Half) - 1
  BY <1>1, SMT
<1>3. QED BY <1>1, <1>2, SMT DEF Wrap, Word

\* Every address holds an instruction, erased memory included.
LEMMA FetchedInstr ==
  ASSUME NEW p \in Programs, NEW addr
  PROVE  Fetched(p, addr) \in Instr
<1>1. Unknown \in Instr
  BY WordAssumption DEF Unknown, Instr, Op, NopOp, RegNum, Word
<1>2. QED BY <1>1, ImageAssumption DEF Fetched

\* Reading any register, the status word included, gives a word.
LEMMA RegReadWord ==
  ASSUME NEW rf \in [GPR -> Word], NEW sw \in SUBSET Flag, NEW i \in RegNum
  PROVE  RegRead(rf, sw, i) \in Word
BY StatusAssumption, SMT DEF RegRead, GPR, RegNum, SWREG

\* Writing any register leaves a register file and a set of flags.
LEMMA RegSetType ==
  ASSUME NEW rf \in [GPR -> Word], NEW sw \in SUBSET Flag, NEW i, NEW v \in Word
  PROVE  /\ RegPut(rf, i, v) \in [GPR -> Word]
         /\ RegSet(rf, i, v) \in [GPR -> Word]
         /\ SwPut(sw, i, v) \in SUBSET Flag
BY StatusAssumption DEF RegPut, RegSet, SwPut

-----------------------------------------------------------------------------
(* Type correctness. *)

\* The operands of the instruction in Execute are words.
LEMMA ResultWord ==
  ASSUME TypeOK
  PROVE  /\ EffectiveAddress \in Word
         /\ Second(ir, Rc) \in Word
         /\ ir.op \in AluOp => Alu(ir.op, Rb, Second(ir, Rc)) \in Word
         /\ TrapResult(ir, Rb, Rc) \in Word
         /\ \A i : C0Values(i) \subseteq Word
         /\ Wrap(PC + ir.cx) \in Word
         /\ Wrap(PC + 4) \in Word
<1>1. /\ ir \in Instr /\ ir.cx \in Word /\ Word \subseteq Int
      /\ Ra \in Word /\ Rb \in Word /\ Rc \in Word
      /\ PC \in Word /\ EPC \in Word
  BY WordAssumption, SMT DEF TypeOK, Instr, Word
<1>2. Second(ir, Rc) \in Word
  BY <1>1 DEF Second
<1>3. ir.op \in AluOp => Alu(ir.op, Rb, Second(ir, Rc)) \in Word
  BY <1>1, <1>2, AluAssumption
<1>4. \A i : C0Values(i) \subseteq Word
  BY <1>1, ImageAssumption DEF C0Values
<1>5. /\ Rb + ir.cx \in Int /\ PC + ir.cx \in Int /\ PC + 4 \in Int
      /\ Rb + Rc \in Int /\ Rb - Rc \in Int
  <2>1. Rb \in Int /\ Rc \in Int /\ PC \in Int /\ ir.cx \in Int
    BY <1>1
  <2>2. QED BY <2>1, SMT
<1>6. QED BY <1>2, <1>3, <1>4, <1>5, WrapWord DEF EffectiveAddress, TrapResult

\* Comparing leaves a set of flags.
LEMMA ComparedFlags == ASSUME NEW sw \in SUBSET Flag, NEW x, NEW y
                       PROVE  Compared(sw, x, y) \in SUBSET Flag
BY DEF Compared, Flag

\* An Execute step keeps every type if what it passes to EndExecute and assigns
\* itself does.
LEMMA EndExecuteType ==
  ASSUME TypeOK, NEW sw \in SUBSET Flag, NEW pc \in Word, NEW epc \in Word,
         EndExecute(sw, pc, epc),
         R' \in [GPR -> Word], HI' \in Word, LO' \in Word,
         m' \in [DataAddr -> Word],
         nextInstIsDelaySlot' \in BOOLEAN, delaySlotNextPC' \in Word,
         m_en' \in BOOLEAN, m_rw' \in BOOLEAN, mar' \in Word
  PROVE  TypeOK'
<1>1. inExe' \in BOOLEAN /\ state' \in Phase \cup {"X"}
  BY DEF EndExecute, Phase
<1>2. QED BY <1>1 DEF TypeOK, EndExecute, latches

\* Every step keeps every variable in its type.
LEMMA TypeStep == ASSUME TypeOK, Next PROVE TypeOK'
<1> USE DEF archVars, slotVars, latches, busVars
<1>i. ir \in Instr /\ ir.a \in RegNum /\ ir.b \in RegNum /\ ir.c \in RegNum
  BY DEF TypeOK, Instr
<1>w. 0 \in Word /\ 8 \in Word /\ -1 \in Word /\ 1 \in Word
  BY WordAssumption, SMT DEF Word
<1>g. 0 \in GPR /\ LR \in GPR
  BY DEF GPR, LR
<1>1. CASE TakeInterrupt
  <2>1. SW' \in SUBSET Flag
    BY <1>1 DEF TakeInterrupt, TypeOK, WithMode, IRQ, Flag
  <2>2. QED BY <1>1, <2>1, <1>w DEF TakeInterrupt, TypeOK
<1>2. CASE TakeReset
  <2>1. SW' \in SUBSET Flag
    BY <1>2 DEF TakeReset, TypeOK, WithMode, ResetFlags, RESET, Flag
  <2>2. R' \in [GPR -> Word]
    BY <1>2, <1>w DEF TakeReset, TypeOK
  <2>3. QED BY <1>2, <2>1, <2>2, <1>w DEF TakeReset, TypeOK, Phase
<1>3. CASE Fetch
  <2>1. PC' \in Word
    BY <1>3, ResultWord DEF Fetch, TypeOK
  <2>2. QED BY <1>3, <2>1 DEF Fetch, TypeOK, Phase
<1>4. CASE Decode
  <2>1. /\ Fetched(code, mar) \in Instr
        /\ Fetched(code, mar).a \in RegNum /\ Fetched(code, mar).b \in RegNum
        /\ Fetched(code, mar).c \in RegNum
    BY FetchedInstr DEF TypeOK, Instr
  <2>2. ir' \in Instr /\ Ra' \in Word /\ Rb' \in Word /\ Rc' \in Word
    BY <1>4, <2>1, RegReadWord DEF Decode, TypeOK
  <2>3. QED BY <1>4, <2>2 DEF Decode, TypeOK, Phase
<1>5. CASE Execute
  <2>0. Ra \in Word /\ Rb \in Word /\ Rc \in Word
    BY DEF TypeOK
  <2>k. NoTransfer => nextInstIsDelaySlot' \in BOOLEAN /\ delaySlotNextPC' \in Word
    BY DEF NoTransfer, TypeOK
  <2>p. \A t \in Word : PCSet(t) =>
          nextInstIsDelaySlot' \in BOOLEAN /\ delaySlotNextPC' \in Word
    BY DEF PCSet
  <2>n. NoBus => /\ m' \in [DataAddr -> Word]
                 /\ m_en' \in BOOLEAN /\ m_rw' \in BOOLEAN /\ mar' \in Word
    BY DEF NoBus, TypeOK
  <2>t. /\ R \in [GPR -> Word] /\ SW \in SUBSET Flag /\ PC \in Word
        /\ EPC \in Word /\ HI \in Word /\ LO \in Word
    BY DEF TypeOK
  <2>1. CASE ExecNop
    BY <2>1, <2>k, <2>n, <2>t, EndExecuteType DEF ExecNop
  <2>2. CASE ExecLoad
    BY <2>2, <2>k, <2>t, ResultWord, EndExecuteType DEF ExecLoad, TypeOK
  <2>3. CASE ExecStore
    <3>1. m' \in [DataAddr -> Word]
      BY <2>0, <2>3, MemoryAssumption DEF ExecStore, Executing, TypeOK
    <3>2. QED BY <2>3, <2>k, <2>t, <3>1, ResultWord, EndExecuteType DEF ExecStore
  <2>4. CASE ExecCondMove
    <3>1. SwPut(SW, ir.a, Rb) \in SUBSET Flag /\ RegSet(R, ir.a, Rb) \in [GPR -> Word]
      BY <2>0, <2>t, RegSetType
    <3>2. QED BY <2>4, <2>k, <2>n, <2>t, <3>1, EndExecuteType DEF ExecCondMove
  <2>5. CASE ExecAlu
    <3> DEFINE v == Alu(ir.op, Rb, Second(ir, Rc))
    <3>1. v \in Word
      BY <2>5, ResultWord DEF ExecAlu, Executing
    <3>2. SwPut(SW, ir.a, v) \in SUBSET Flag /\ RegSet(R, ir.a, v) \in [GPR -> Word]
      BY <3>1, <2>t, RegSetType
    <3>3. QED BY <2>5, <2>k, <2>n, <2>t, <3>2, EndExecuteType DEF ExecAlu
  <2>6. CASE ExecTrapping
    <3> DEFINE v == TrapResult(ir, Rb, Rc)
               sw == SwPut(SW, ir.a, v)
               sx == IF Overflows(ir, Rb, Rc) THEN sw \cup {"V", "I0", "I"}
                                              ELSE sw \ {"V"}
    <3>1. sw \in SUBSET Flag /\ RegSet(R, ir.a, v) \in [GPR -> Word]
      BY <2>t, ResultWord, RegSetType
    <3>2. sx \in SUBSET Flag
      BY <3>1 DEF Flag
    <3>3. EndExecute(sx, PC, EPC) /\ R' = RegSet(R, ir.a, v)
      BY <2>6 DEF ExecTrapping
    <3> HIDE DEF sx, v
    <3>4. QED BY <2>6, <2>k, <2>n, <2>t, <3>1, <3>2, <3>3, EndExecuteType DEF ExecTrapping
  <2>7. CASE ExecCmp
    BY <2>7, <2>k, <2>n, <2>t, ComparedFlags, EndExecuteType DEF ExecCmp
  <2>8. CASE ExecSet
    <3> DEFINE v == IF Rb < Second(ir, Rc) THEN 1 ELSE 0
    <3>1. v \in Word
      BY <1>w
    <3>2. SwPut(SW, ir.a, v) \in SUBSET Flag /\ RegPut(R, ir.a, v) \in [GPR -> Word]
      BY <3>1, <2>t, RegSetType
    <3>3. EndExecute(SwPut(SW, ir.a, v), PC, EPC) /\ R' = RegPut(R, ir.a, v)
      BY <2>8 DEF ExecSet
    <3> HIDE DEF v
    <3>4. QED BY <2>8, <2>k, <2>n, <2>t, <3>2, <3>3, EndExecuteType DEF ExecSet
  <2>9. CASE ExecHiLo
    <3> DEFINE sw == IF ir.op # "DIV" THEN SW
                     ELSE IF DivOverflows(Ra, Rb) THEN SW \cup {"V"} ELSE SW \ {"V"}
    <3>1. HI' \in Word /\ LO' \in Word
      BY <2>0, <2>9, HiLoAssumption DEF ExecHiLo, Executing
    <3>2. sw \in SUBSET Flag
      BY <2>t DEF Flag
    <3>3. EndExecute(sw, PC, EPC)
      BY <2>9 DEF ExecHiLo
    <3> HIDE DEF sw
    <3>4. QED BY <2>9, <2>k, <2>n, <2>t, <3>1, <3>2, <3>3, EndExecuteType DEF ExecHiLo
  <2>10. CASE ExecToHiLo
    BY <2>0, <2>10, <2>k, <2>n, <2>t, EndExecuteType DEF ExecToHiLo
  <2>11. CASE ExecFromHiLo
    <3> DEFINE v == IF ir.op = "MFHI" THEN HI ELSE LO
    <3>1. SwPut(SW, ir.a, v) \in SUBSET Flag /\ RegSet(R, ir.a, v) \in [GPR -> Word]
      BY <2>t, RegSetType
    <3>2. QED BY <2>11, <2>k, <2>n, <2>t, <3>1, EndExecuteType DEF ExecFromHiLo
  <2>12. CASE ExecFromC0
    <3>1. PICK v \in C0Values(ir.b) :
            R' = RegSet(R, ir.a, v) /\ EndExecute(SwPut(SW, ir.a, v), PC, EPC)
      BY <2>12 DEF ExecFromC0
    <3>2. SwPut(SW, ir.a, v) \in SUBSET Flag /\ RegSet(R, ir.a, v) \in [GPR -> Word]
      BY <2>t, ResultWord, RegSetType
    <3>3. QED BY <2>12, <2>k, <2>n, <2>t, <3>1, <3>2, EndExecuteType DEF ExecFromC0
  <2>13. CASE ExecToC0
    <3>1. PICK v \in IF ir.op = "MTC0" THEN {Rb} ELSE C0Values(ir.b) :
            EndExecute(SW, IF ir.a = 0 THEN v ELSE PC, IF ir.a = 1 THEN v ELSE EPC)
      BY <2>13 DEF ExecToC0
    <3>2. v \in Word
      BY <2>0, ResultWord
    <3>3. /\ (IF ir.a = 0 THEN v ELSE PC) \in Word
          /\ (IF ir.a = 1 THEN v ELSE EPC) \in Word
      BY <2>t, <3>2
    <3>4. QED BY <2>13, <2>k, <2>n, <2>t, <3>1, <3>3, EndExecuteType DEF ExecToC0
  <2>14. CASE ExecBranch
    BY <2>14, <2>k, <2>p, <2>n, <2>t, ResultWord, EndExecuteType DEF ExecBranch
  <2>15. CASE ExecJump
    BY <2>15, <2>k, <2>n, <2>t, ResultWord, EndExecuteType DEF ExecJump
  <2>16. CASE ExecCall
    <3> DEFINE link == Wrap(PC + 4)
               reg == IF ir.op = "JALR" THEN ir.a ELSE LR
               target == IF ir.op = "JALR" THEN Rb ELSE Wrap(PC + ir.cx)
    <3>1. SwPut(SW, reg, link) \in SUBSET Flag /\ RegSet(R, reg, link) \in [GPR -> Word]
      BY <2>t, ResultWord, RegSetType
    <3>2. target \in Word
      BY <2>0, ResultWord
    <3>3. /\ EndExecute(SwPut(SW, reg, link), PC, EPC)
          /\ R' = RegSet(R, reg, link) /\ PCSet(target)
      BY <2>16 DEF ExecCall
    <3> HIDE DEF reg, target, link
    <3>4. QED BY <2>16, <2>p, <2>n, <2>t, <3>1, <3>2, <3>3, EndExecuteType DEF ExecCall
  <2>17. CASE ExecRet
    BY <2>0, <2>17, <2>p, <2>n, <2>t, EndExecuteType DEF ExecRet
  <2>18. QED
    BY <1>5, <2>1, <2>2, <2>3, <2>4, <2>5, <2>6, <2>7, <2>8, <2>9, <2>10, <2>11,
       <2>12, <2>13, <2>14, <2>15, <2>16, <2>17 DEF Execute
<1>6. CASE MemAccess
  BY <1>6 DEF MemAccess, TypeOK, Phase
<1>7. CASE WriteBackLoad
  <2>1. PICK d \in Dbus : LET v == Extend(ir.op, d)
                          IN  R' = RegPut(R, ir.a, v) /\ SW' = SwPut(SW, ir.a, v)
    BY <1>7 DEF WriteBackLoad
  <2>2. d \in Word
    BY ImageAssumption DEF Dbus, TypeOK
  <2>3. Extend(ir.op, d) \in Word
    BY <1>7, <2>2, MemoryAssumption DEF WriteBackLoad
  <2>4. R' \in [GPR -> Word] /\ SW' \in SUBSET Flag
    BY <2>1, <2>3, RegSetType DEF TypeOK
  <2>5. finished' \in BOOLEAN
    BY <1>7 DEF WriteBackLoad, WriteBackCommon
  <2>6. QED BY <1>7, <2>4, <2>5 DEF WriteBackLoad, WriteBackCommon, TypeOK, Phase
<1>8. CASE WriteBackOther
  <2>1. RegRead(R, SW, ir.a) \in Word
    BY <1>i, RegReadWord DEF TypeOK
  <2>2. tty' \in [flips : BOOLEAN, last : Word]
    BY <1>8, <2>1 DEF WriteBackOther, Printed, TypeOK
  <2>3. finished' \in BOOLEAN
    BY <1>8 DEF WriteBackOther, WriteBackCommon
  <2>4. QED BY <1>8, <2>2, <2>3 DEF WriteBackOther, WriteBackCommon, TypeOK, Phase
<1>9. CASE Finish
  BY <1>9 DEF Finish, vars, TypeOK
<1>10. QED BY <1>1, <1>2, <1>3, <1>4, <1>5, <1>6, <1>7, <1>8, <1>9 DEF Next

\* Every variable keeps its type: no instruction of any program leaves a value in
\* a register, a latch or the memory that the hardware could not hold.
THEOREM TypeCorrect == Spec => []TypeOK
<1>1. Init => TypeOK
  <2> SUFFICES ASSUME Init PROVE TypeOK
    OBVIOUS
  <2>1. Unknown \in Instr
    BY WordAssumption DEF Unknown, Instr, Op, NopOp, RegNum, Word
  <2>2. 0 \in Word
    BY WordAssumption, SMT DEF Word
  <2>3. QED BY <2>1, <2>2, ImageAssumption DEF Init, TypeOK, Phase, Blank
<1>2. TypeOK /\ [Next]_vars => TypeOK'
  <2>1. ASSUME TypeOK, UNCHANGED vars PROVE TypeOK'
    BY <2>1 DEF TypeOK, vars, archVars, slotVars, latches, busVars
  <2>2. QED BY <2>1, TypeStep
<1>3. QED BY <1>1, <1>2, PTL DEF Spec

-----------------------------------------------------------------------------
(* Sequencing and interrupts. *)

\* Every branch of Execute ends in the same way.
LEMMA ExecuteEnds ==
  ASSUME Execute
  PROVE  /\ inExe /\ state = "Execute" /\ code' = code /\ ir' = ir
         /\ \E sw, pc, epc : EndExecute(sw, pc, epc)
<1>1. inExe /\ state = "Execute" /\ \E sw, pc, epc : EndExecute(sw, pc, epc)
  BY DEF Execute, Executing, Executes, ExecNop, ExecLoad, ExecStore,
         ExecCondMove, ExecAlu, ExecTrapping, ExecCmp, ExecSet, ExecHiLo,
         ExecToHiLo, ExecFromHiLo, ExecFromC0, ExecToC0, ExecBranch, ExecJump,
         ExecCall, ExecRet
<1>2. QED BY <1>1 DEF EndExecute, latches

\* An instruction that leaves a transfer outstanding leaves $sw alone, unless it
\* is a link into $sw.
LEMMA TransferKeepsSw ==
  ASSUME Execute, ir.op = "JALR" => ir.a # SWREG
  PROVE  NoTransfer \/ SW' = SW
<1>1. CASE ExecCall
  BY <1>1 DEF ExecCall, EndExecute, SwPut, SWREG, LR
<1>2. CASE ExecBranch \/ ExecRet
  BY <1>2 DEF ExecBranch, ExecRet, EndExecute
<1>3. QED
  BY <1>1, <1>2 DEF Execute, ExecNop, ExecLoad, ExecStore, ExecCondMove, ExecAlu,
     ExecTrapping, ExecCmp, ExecSet, ExecHiLo, ExecToHiLo, ExecFromHiLo,
     ExecFromC0, ExecToC0, ExecJump

\* ControlInv is kept by every step.
LEMMA ControlStep == ASSUME TypeOK, ControlInv, Next PROVE ControlInv'
<1> USE DEF ControlInv, NoSecondReset, Booted, InterruptDue, slotVars
<1>1. CASE TakeInterrupt
  BY <1>1 DEF TakeInterrupt
<1>2. CASE TakeReset
  BY <1>2 DEF TakeReset
<1>3. CASE Fetch
  BY <1>3 DEF Fetch, Executes
<1>4. CASE Decode
  BY <1>4 DEF Decode, Executes
<1>5. CASE Execute
  <2>1. PICK sw, pc, epc : EndExecute(sw, pc, epc)
    BY <1>5, ExecuteEnds
  <2>2. /\ state' \in {"Fetch", "MemAccess"}
        /\ ~inExe' => state' = "Fetch" /\ Irq(SW') /\ EPC' = PC'
    BY <2>1 DEF EndExecute
  <2>3. QED BY <2>2
<1>6. CASE MemAccess
  BY <1>6 DEF MemAccess, Executes
<1>7. CASE WriteBackLoad \/ WriteBackOther
  BY <1>7 DEF WriteBackLoad, WriteBackOther, WriteBackCommon, Executes
<1>8. CASE Finish
  BY <1>8 DEF Finish, vars, archVars, busVars
<1>9. QED BY <1>1, <1>2, <1>3, <1>4, <1>5, <1>6, <1>7, <1>8 DEF Next

\* SwInv is kept by every step.
LEMMA SwStep == ASSUME TypeOK, ControlInv, SwInv, Next PROVE SwInv'
<1> SUFFICES ASSUME OrdinarySw(code)'
             PROVE  /\ ir'.op \in LoadOp \cup {"JALR"} => ir'.a # SWREG
                    /\ inExe' => ~Irq(SW')
                    /\ ~inExe' => ~nextInstIsDelaySlot'
  BY DEF SwInv
<1> USE DEF slotVars, archVars, latches
<1>0. code' = code
  BY ExecuteEnds DEF Next, TakeInterrupt, TakeReset, Fetch, Decode, MemAccess,
     WriteBackLoad, WriteBackOther, WriteBackCommon, Finish, vars
<1>c. OrdinarySw(code)
  BY <1>0 DEF OrdinarySw
<1>s. /\ ir.op \in LoadOp \cup {"JALR"} => ir.a # SWREG
      /\ inExe => ~Irq(SW)
      /\ ~inExe => ~nextInstIsDelaySlot
  BY <1>c DEF SwInv
<1>1. CASE TakeInterrupt
  BY <1>s, <1>1 DEF TakeInterrupt, Irq
<1>2. CASE TakeReset
  BY <1>s, <1>2 DEF TakeReset, Irq, WithMode, ResetFlags, RESET
<1>3. CASE Fetch
  BY <1>s, <1>3 DEF Fetch, Executes
<1>4. CASE Decode
  <2>1. ir' = Fetched(code, mar)
    BY <1>4 DEF Decode
  <2>2. ir'.op \in LoadOp \cup {"JALR"} => ir'.a # SWREG
    BY <1>c, <2>1 DEF OrdinarySw, Fetched, Unknown, LoadOp
  <2>3. QED BY <1>s, <1>4, <2>2 DEF Decode, Executes
<1>5. CASE Execute
  <2>1. inExe /\ state = "Execute" /\ ir' = ir
    BY <1>5, ExecuteEnds
  <2>2. PICK sw, pc, epc : EndExecute(sw, pc, epc)
    BY <1>5, ExecuteEnds
  <2>3. inExe' = ~Irq(SW')
    BY <2>2 DEF EndExecute
  <2>4. ASSUME Irq(SW') PROVE ~nextInstIsDelaySlot'
    <3>1. SW' # SW
      BY <1>s, <2>1, <2>4
    <3>2. NoTransfer
      BY <1>s, <1>5, <3>1, TransferKeepsSw
    <3>3. QED BY <2>1, <3>2 DEF NoTransfer, ControlInv
  <2>5. QED BY <1>s, <2>1, <2>3, <2>4
<1>6. CASE MemAccess
  BY <1>s, <1>6 DEF MemAccess, Executes
<1>7. CASE WriteBackLoad
  <2>1. SW' = SW
    BY <1>s, <1>7 DEF WriteBackLoad, SwPut
  <2>2. QED BY <1>s, <1>7, <2>1 DEF WriteBackLoad, WriteBackCommon, Executes
<1>8. CASE WriteBackOther
  BY <1>s, <1>8 DEF WriteBackOther, WriteBackCommon, Executes
<1>9. CASE Finish
  BY <1>s, <1>9 DEF Finish, vars
<1>10. QED BY <1>1, <1>2, <1>3, <1>4, <1>5, <1>6, <1>7, <1>8, <1>9 DEF Next

-----------------------------------------------------------------------------
(* The bus. *)

\* BusInv is kept by every step.
LEMMA BusStep == ASSUME TypeOK, ControlInv, BusInv, Next PROVE BusInv'
<1> USE DEF slotVars, archVars, latches, busVars
<1>1. CASE TakeInterrupt
  BY <1>1 DEF TakeInterrupt, InterruptDue, BusInv, BusDiscipline
<1>2. CASE TakeReset
  BY <1>2 DEF TakeReset, BusInv, BusDiscipline, ControlInv, NoSecondReset, Booted
<1>3. CASE Fetch
  BY <1>3 DEF Fetch, BusInv, BusDiscipline
<1>4. CASE Decode
  BY <1>4 DEF Decode, BusInv, BusDiscipline
<1>5. CASE Execute
  <2>1. PICK sw, pc, epc : EndExecute(sw, pc, epc)
    BY <1>5, ExecuteEnds
  <2>2. /\ inExe /\ state = "Execute" /\ ir' = ir /\ ~m_en
        /\ inExe' => state' = "MemAccess"
        /\ Rb = RegRead(R, SW, ir.b)
    BY <1>5, <2>1, ExecuteEnds DEF BusInv, EndExecute
  <2>3. CASE ExecLoad
    BY <2>2, <2>3 DEF ExecLoad, EndExecute, Executing, EffectiveAddress, BusInv,
       BusDiscipline, LoadOp, StoreOp
  <2>4. CASE ExecStore
    BY <2>2, <2>4 DEF ExecStore, Executing, BusInv, BusDiscipline, LoadOp, StoreOp
  <2>5. CASE ir.op \notin LoadOp \cup StoreOp /\ NoBus
    BY <2>2, <2>5 DEF NoBus, BusInv, BusDiscipline
  <2>6. Execute /\ ~ExecLoad /\ ~ExecStore => ir.op \notin LoadOp \cup StoreOp /\ NoBus
    BY DEF Execute, Executing, ExecNop, ExecCondMove, ExecAlu, ExecTrapping,
       ExecCmp, ExecSet, ExecHiLo, ExecToHiLo, ExecFromHiLo, ExecFromC0, ExecToC0,
       ExecBranch, ExecJump, ExecCall, ExecRet, LoadOp, StoreOp, NopOp, MoveOp,
       AluOp, AluImmOp, AluRegOp, TrapOp, SetOp, SetRegOp, SetImmOp, HiLoOp,
       ToHiLoOp, FromHiLoOp, ToC0Op, BranchOp, JumpOp, CallOp
  <2>7. QED BY <1>5, <2>3, <2>4, <2>5, <2>6
<1>6. CASE MemAccess
  BY <1>6 DEF MemAccess, Executes, BusInv, BusDiscipline, StoreOp, LoadOp
<1>7. CASE WriteBackLoad
  BY <1>7 DEF WriteBackLoad, WriteBackCommon, BusInv, BusDiscipline
<1>8. CASE WriteBackOther
  BY <1>8 DEF WriteBackOther, WriteBackCommon, Executes, BusInv, BusDiscipline
<1>9. CASE Finish
  BY <1>9 DEF Finish, vars, BusInv, BusDiscipline
<1>10. QED BY <1>1, <1>2, <1>3, <1>4, <1>5, <1>6, <1>7, <1>8, <1>9 DEF Next

-----------------------------------------------------------------------------
(* The theorems about the clocked processor. *)

\* IInv is inductive: no step of the clocked block, in any phase, breaks it.
THEOREM Inductive == Spec => []IInv
<1>1. Init => ControlInv /\ SwInv /\ BusInv
  BY DEF Init, ControlInv, NoSecondReset, Booted, SwInv, BusInv, Unknown, LoadOp
<1>2. TypeOK /\ ControlInv /\ SwInv /\ BusInv /\ [Next]_vars
        => (ControlInv /\ SwInv /\ BusInv)'
  <2>1. ASSUME UNCHANGED vars, ControlInv, SwInv, BusInv
        PROVE  (ControlInv /\ SwInv /\ BusInv)'
    BY <2>1 DEF vars, archVars, slotVars, latches, busVars, ControlInv,
       NoSecondReset, Booted, InterruptDue, SwInv, OrdinarySw, BusInv, BusDiscipline
  <2>2. QED BY <2>1, ControlStep, SwStep, BusStep
<1>3. QED BY <1>1, <1>2, TypeCorrect, PTL DEF Spec, IInv

\* Once the processor has booted it is never reset again, although `main` keeps
\* itype at RESET.
THEOREM ResetOnce == Spec => []NoSecondReset
<1>1. IInv => NoSecondReset
  BY DEF IInv, ControlInv
<1>2. QED BY <1>1, Inductive, PTL

\* An interrupt is taken between two instructions, never between a transfer and
\* its slot, with the address to resume at in EPC.
THEOREM InterruptsAreClean == Spec => []InterruptBetweenInstructions
<1>1. IInv => InterruptBetweenInstructions
  BY DEF IInv, ControlInv, SwInv, InterruptBetweenInstructions
<1>2. QED BY <1>1, Inductive, PTL

\* Fetches, loads and stores share the bus without disturbing one another.
THEOREM OneTransaction == Spec => []BusDiscipline
<1>1. IInv => BusDiscipline
  BY DEF IInv, BusInv, BusDiscipline
<1>2. QED BY <1>1, Inductive, PTL

\* An interrupt request stays until a write to $sw clears it.
THEOREM RequestsStay == Spec => RequestsSticky
<1> DEFINE Lost == Booted /\ \E l \in Line : l[2] \in SW /\ l[2] \notin SW'
<1>0. \A l \in Line : l[2] \in {"I0", "I1", "I2"}
  BY DEF Line
<1>1. ASSUME IInv, Next, Lost PROVE ir.a = SWREG
  <2> USE DEF archVars
  <2>1. PICK s \in {"I0", "I1", "I2"} : s \in SW /\ s \notin SW'
    BY <1>0, <1>1
  <2>2. CASE TakeInterrupt
    BY <2>1, <2>2 DEF TakeInterrupt, WithMode, IRQ
  <2>3. CASE TakeReset
    BY <1>1, <2>3 DEF TakeReset, IInv, ControlInv, NoSecondReset
  <2>4. CASE Fetch \/ Decode \/ MemAccess \/ WriteBackOther \/ Finish
    BY <2>1, <2>4 DEF Fetch, Decode, MemAccess, WriteBackOther, Finish, vars
  <2>5. CASE WriteBackLoad
    BY <2>1, <2>5 DEF WriteBackLoad, SwPut
  <2>6. CASE Execute
    BY <2>1, <2>6 DEF Execute, EndExecute, SwPut, SWREG, LR, Compared, ExecNop,
       ExecLoad, ExecStore, ExecCondMove, ExecAlu, ExecTrapping, ExecCmp, ExecSet,
       ExecHiLo, ExecToHiLo, ExecFromHiLo, ExecFromC0, ExecToC0, ExecBranch,
       ExecJump, ExecCall, ExecRet
  <2>7. QED BY <1>1, <2>2, <2>3, <2>4, <2>5, <2>6 DEF Next
<1>2. IInv /\ [Next]_vars
        => [Booted => \A l \in Line : l[2] \in SW /\ l[2] \notin SW' => ir.a = SWREG]_vars
  BY <1>1
<1>3. QED BY <1>2, Inductive, PTL DEF Spec, RequestsSticky

-----------------------------------------------------------------------------
(* Both machines use the operators of Cpu0Arch. *)

\* The groups of opcodes are the same in both machines.
LEMMA SameKinds ==
  /\ ISA!NopOp = NopOp /\ ISA!LoadOp = LoadOp /\ ISA!StoreOp = StoreOp
  /\ ISA!MoveOp = MoveOp /\ ISA!AluOp = AluOp /\ ISA!TrapOp = TrapOp
  /\ ISA!SetOp = SetOp /\ ISA!HiLoOp = HiLoOp /\ ISA!ToHiLoOp = ToHiLoOp
  /\ ISA!FromHiLoOp = FromHiLoOp /\ ISA!ToC0Op = ToC0Op
  /\ ISA!BranchOp = BranchOp /\ ISA!JumpOp = JumpOp /\ ISA!CallOp = CallOp
  /\ ISA!PrintOp = PrintOp /\ ISA!LR = LR
BY DEF ISA!NopOp, NopOp, ISA!LoadOp, LoadOp, ISA!StoreOp, StoreOp, ISA!MoveOp,
   MoveOp, ISA!AluOp, AluOp, ISA!AluImmOp, AluImmOp, ISA!AluRegOp, AluRegOp,
   ISA!TrapOp, TrapOp, ISA!SetOp, SetOp, ISA!SetRegOp, SetRegOp, ISA!SetImmOp,
   SetImmOp, ISA!HiLoOp, HiLoOp, ISA!ToHiLoOp, ToHiLoOp,
   ISA!FromHiLoOp, FromHiLoOp, ISA!JumpOp, JumpOp, ISA!CallOp, CallOp,
   ISA!ToC0Op, ToC0Op, ISA!BranchOp, BranchOp,
   ISA!PrintOp, PrintOp, ISA!LR, LR

\* Registers, programs and the terminal are accessed in the same way.
LEMMA SameAccess ==
  /\ \A rf, sw, i : ISA!RegRead(rf, sw, i) = RegRead(rf, sw, i)
  /\ \A rf, i, v : ISA!RegPut(rf, i, v) = RegPut(rf, i, v)
  /\ \A rf, i, v : ISA!RegSet(rf, i, v) = RegSet(rf, i, v)
  /\ \A sw, i, v : ISA!SwPut(sw, i, v) = SwPut(sw, i, v)
  /\ \A p, x : ISA!Fetched(p, x) = Fetched(p, x)
  /\ \A t, w : ISA!Printed(t, w) = Printed(t, w)
BY DEF ISA!RegRead, RegRead, ISA!RegPut, RegPut, ISA!RegSet, RegSet, ISA!SwPut,
   SwPut, ISA!Fetched, Fetched, ISA!Unknown, Unknown, ISA!Printed, Printed,
   ISA!SWREG, SWREG, ISA!GPR, GPR

\* What instructions compute, and when an interrupt is recognised, is the same.
LEMMA SameResults ==
  /\ \A x : ISA!Wrap(x) = Wrap(x)
  /\ \A i, rc : ISA!Second(i, rc) = Second(i, rc)
  /\ \A i, rb, rc : ISA!Overflows(i, rb, rc) = Overflows(i, rb, rc)
  /\ \A i, rb, rc : ISA!TrapResult(i, rb, rc) = TrapResult(i, rb, rc)
  /\ \A ra, rb : ISA!DivOverflows(ra, rb) = DivOverflows(ra, rb)
  /\ \A op, sw, ra, rb : ISA!Taken(op, sw, ra, rb) = Taken(op, sw, ra, rb)
  /\ \A sw, rb, rc : ISA!Compared(sw, rb, rc) = Compared(sw, rb, rc)
  /\ \A sw : ISA!Irq(sw) = Irq(sw)
  /\ \A sw, md : ISA!WithMode(sw, md) = WithMode(sw, md)
<1>1. \A x : ISA!Wrap(x) = Wrap(x)
  BY DEF ISA!Wrap, Wrap
<1>2. \A i, rc : ISA!Second(i, rc) = Second(i, rc)
  BY DEF ISA!Second, Second, ISA!AluImmOp, AluImmOp, ISA!SetImmOp, SetImmOp
<1>3. \A i, rb, rc : ISA!Overflows(i, rb, rc) = Overflows(i, rb, rc)
  BY DEF ISA!Overflows, Overflows, ISA!Unsigned, Unsigned
<1>4. \A i, rb, rc : ISA!TrapResult(i, rb, rc) = TrapResult(i, rb, rc)
  BY <1>1 DEF ISA!TrapResult, TrapResult
<1>5. \A ra, rb : ISA!DivOverflows(ra, rb) = DivOverflows(ra, rb)
  BY DEF ISA!DivOverflows, DivOverflows
<1>6. \A op, sw, ra, rb : ISA!Taken(op, sw, ra, rb) = Taken(op, sw, ra, rb)
  BY DEF ISA!Taken, Taken
<1>7. \A sw, rb, rc : ISA!Compared(sw, rb, rc) = Compared(sw, rb, rc)
  BY <1>1 DEF ISA!Compared, Compared
<1>8. \A sw : ISA!Irq(sw) = Irq(sw)
  BY DEF ISA!Irq, Irq, ISA!Line, Line
<1>9. \A sw, md : ISA!WithMode(sw, md) = WithMode(sw, md)
  BY DEF ISA!WithMode, WithMode
<1>10. QED BY <1>1, <1>2, <1>3, <1>4, <1>5, <1>6, <1>7, <1>8, <1>9

-----------------------------------------------------------------------------
(* The mapping. *)

\* While an instruction is in flight, PC is the address after it.
LEMMA Mapping ==
  ASSUME InFlight
  PROVE  ISA!Base = [R |-> R, SW |-> SW, HI |-> HI, LO |-> LO, EPC |-> EPC, m |-> m,
                     tty |-> tty, pc |-> PC, npc |-> Wrap(PC + 4)]
BY SameResults DEF ISA!Base

\* An instruction-level step, in terms of the clocked processor.
LEMMA StepFrom ==
  ASSUME InFlight, inExe, pc0 >= 0, state # "X", state' # "X", code' = code,
         ~InFlight',
         NEW o \in ISA!Outcomes(Fetched(code, pc0)),
         R' = o.R, SW' = o.SW, HI' = o.HI, LO' = o.LO, m' = o.m, tty' = o.tty,
         PC' = o.pc,
         (IF nextInstIsDelaySlot THEN delaySlotNextPC ELSE Wrap(PC + 4))' = o.npc,
         inExe' = ~Irq(o.SW),
         EPC' = IF Irq(o.SW) THEN o.pc ELSE o.EPC
  PROVE  ISA!Step
<1>1. (IF InFlight THEN PC
       ELSE IF nextInstIsDelaySlot THEN delaySlotNextPC ELSE Wrap(PC + 4))' = o.npc
  OBVIOUS
<1>2. (IF InFlight THEN pc0 ELSE PC)' = o.pc
  OBVIOUS
<1>3. o \in ISA!Outcomes(ISA!Fetched(code, IF InFlight THEN pc0 ELSE PC))
  BY SameAccess
<1>4. QED BY <1>1, <1>2, <1>3, SameResults DEF ISA!Step

-----------------------------------------------------------------------------
(* The outcomes of each group of instructions. *)

\* No instruction belongs to two groups.
\* An opcode belongs to one group, so each instruction has its group's outcomes.
LEMMA Outcome ==
  ASSUME NEW i
  PROVE
    /\ i.op \in NopOp => ISA!Outcomes(i) = {ISA!Base}
    /\ i.op \in LoadOp => ISA!Outcomes(i) = ISA!Loads(i)
    /\ i.op \in StoreOp => ISA!Outcomes(i) = ISA!Stores(i)
    /\ i.op \in MoveOp => ISA!Outcomes(i) = ISA!Moves(i)
    /\ i.op \in AluOp => ISA!Outcomes(i) = ISA!Computes(i)
    /\ i.op \in TrapOp => ISA!Outcomes(i) = ISA!MayTrap(i)
    /\ i.op = "CMP" => ISA!Outcomes(i) = ISA!Compares(i)
    /\ i.op \in SetOp => ISA!Outcomes(i) = ISA!Sets(i)
    /\ i.op \in HiLoOp => ISA!Outcomes(i) = ISA!Multiplies(i)
    /\ i.op \in ToHiLoOp => ISA!Outcomes(i) = ISA!SetsHiLo(i)
    /\ i.op \in FromHiLoOp => ISA!Outcomes(i) = ISA!GetsHiLo(i)
    /\ i.op = "MFC0" => ISA!Outcomes(i) = ISA!GetsC0(i)
    /\ i.op \in ToC0Op => ISA!Outcomes(i) = ISA!SetsC0(i)
    /\ i.op \in BranchOp => ISA!Outcomes(i) = ISA!Branches(i)
    /\ i.op \in JumpOp => ISA!Outcomes(i) = ISA!Jumps(i)
    /\ i.op \in CallOp => ISA!Outcomes(i) = ISA!Links(i)
    /\ i.op = "RET" => ISA!Outcomes(i) = {ISA!Delayed(ISA!Base, ISA!A(i))}
BY SameKinds DEF ISA!Outcomes, NopOp, LoadOp, StoreOp, MoveOp,
   AluOp, AluImmOp, AluRegOp, TrapOp, SetOp, SetRegOp, SetImmOp, HiLoOp, ToHiLoOp,
   FromHiLoOp, ToC0Op, BranchOp, JumpOp, CallOp

-----------------------------------------------------------------------------
(* Execute. *)

\* What Execute works on is what the instruction-level machine reads.
LEMMA Operands ==
  ASSUME InstrInv, inExe, state = "Execute"
  PROVE  /\ InFlight /\ pc0 >= 0 /\ ir = Fetched(code, pc0)
         /\ ISA!A(ir) = Ra /\ ISA!B(ir) = Rb /\ ISA!C(ir) = Rc
         /\ ISA!Address(ir) = EffectiveAddress
BY SameAccess, SameResults DEF InstrInv, InFlight, ISA!A, ISA!B, ISA!C, ISA!Address,
   EffectiveAddress

\* What the end of Execute leaves is outcome o.
Leaves(o) ==
  /\ EndExecute(o.SW, o.pc, o.EPC)
  /\ R' = o.R /\ HI' = o.HI /\ LO' = o.LO /\ m' = o.m /\ tty = o.tty
  /\ (IF nextInstIsDelaySlot THEN delaySlotNextPC ELSE Wrap(PC + 4))' = o.npc

\* If that is an outcome of the instruction, and the instruction is not late, the
\* end of Execute is its instruction-level step.
LEMMA ExecuteLands ==
  ASSUME InstrInv, inExe, state = "Execute", ~Late,
         NEW o \in ISA!Outcomes(ir), Leaves(o)
  PROVE  ISA!Step
<1>1. ir' = ir /\ Rb' = Rb /\ code' = code /\ tty' = tty /\ SW' = o.SW /\ PC' = o.pc
      /\ state' \in {"Fetch", "MemAccess"} /\ inExe' = ~Irq(o.SW)
      /\ EPC' = IF Irq(o.SW) THEN o.pc ELSE o.EPC
  BY DEF Leaves, EndExecute, latches
<1>2. ~InFlight'
  BY <1>1 DEF InFlight, Late, EffectiveAddress
<1>3. R' = o.R /\ HI' = o.HI /\ LO' = o.LO /\ m' = o.m /\ tty = o.tty
      /\ (IF nextInstIsDelaySlot THEN delaySlotNextPC ELSE Wrap(PC + 4))' = o.npc
  BY DEF Leaves
<1>4. QED BY <1>1, <1>2, <1>3, Operands, StepFrom

\* Where the instruction after the next one is, after a transfer or none.
LEMMA NextTwo ==
  ASSUME IInv, inExe, state = "Execute"
  PROVE  /\ NoTransfer => (IF nextInstIsDelaySlot THEN delaySlotNextPC ELSE Wrap(PC + 4))'
                          = Wrap(PC' + 4)
         /\ \A t : PCSet(t) =>
              (IF nextInstIsDelaySlot THEN delaySlotNextPC ELSE Wrap(PC + 4))' = t
BY DEF IInv, ControlInv, NoTransfer, PCSet

\* What Execute leaves is an outcome of the instruction.
LEMMA ExecuteOutcome ==
  ASSUME IInv, InstrInv, Execute, ~Late
  PROVE  \E o \in ISA!Outcomes(ir) : Leaves(o)
<1>1. inExe /\ state = "Execute"
  BY ExecuteEnds
<1>2. /\ NoTransfer => (IF nextInstIsDelaySlot THEN delaySlotNextPC ELSE Wrap(PC + 4))'
                       = Wrap(PC' + 4)
      /\ \A t : PCSet(t) =>
           (IF nextInstIsDelaySlot THEN delaySlotNextPC ELSE Wrap(PC + 4))' = t
  BY <1>1, NextTwo
<1>3. /\ ISA!A(ir) = Ra /\ ISA!B(ir) = Rb /\ ISA!C(ir) = Rc
      /\ ISA!Address(ir) = EffectiveAddress /\ InFlight
  BY <1>1, Operands
<1> USE DEF Executing
<1>11. CASE ExecNop
  <2>1. PICK o \in {ISA!Base} :
           /\ o.R = R
           /\ o.SW = SW
           /\ o.HI = HI /\ o.LO = LO /\ o.m = m /\ o.tty = tty
           /\ o.pc = PC /\ o.EPC = EPC /\ o.npc = Wrap(PC + 4)
    BY <1>3, SameAccess, SameResults, SameKinds DEF ISA!Base
  <2>2. Leaves(o)
    BY <1>1, <1>2, <1>11, <2>1 DEF ExecNop, EndExecute, Leaves, NoBus
  <2>3. QED BY <1>11, <2>1, <2>2, Outcome DEF ExecNop
<1>12. CASE ExecCondMove
  <2>1. PICK o \in ISA!Moves(ir) :
           /\ o.R = (IF (Rc = 0) = (ir.op = "MOVZ") THEN RegSet(R, ir.a, Rb) ELSE R)
           /\ o.SW = (IF (Rc = 0) = (ir.op = "MOVZ") THEN SwPut(SW, ir.a, Rb) ELSE SW)
           /\ o.HI = HI /\ o.LO = LO /\ o.m = m /\ o.tty = tty
           /\ o.pc = PC /\ o.EPC = EPC /\ o.npc = Wrap(PC + 4)
    BY <1>3, SameAccess, SameResults, SameKinds DEF ISA!Moves, ISA!Writes, ISA!Base
  <2>2. Leaves(o)
    BY <1>1, <1>2, <1>12, <2>1 DEF ExecCondMove, EndExecute, Leaves, NoBus
  <2>3. QED BY <1>12, <2>1, <2>2, Outcome DEF ExecCondMove
<1>13. CASE ExecAlu
  <2>1. PICK o \in ISA!Computes(ir) :
           /\ o.R = RegSet(R, ir.a, Alu(ir.op, Rb, Second(ir, Rc)))
           /\ o.SW = SwPut(SW, ir.a, Alu(ir.op, Rb, Second(ir, Rc)))
           /\ o.HI = HI /\ o.LO = LO /\ o.m = m /\ o.tty = tty
           /\ o.pc = PC /\ o.EPC = EPC /\ o.npc = Wrap(PC + 4)
    BY <1>3, SameAccess, SameResults, SameKinds DEF ISA!Computes, ISA!Writes, ISA!Base
  <2>2. Leaves(o)
    BY <1>1, <1>2, <1>13, <2>1 DEF ExecAlu, EndExecute, Leaves, NoBus
  <2>3. QED BY <1>13, <2>1, <2>2, Outcome DEF ExecAlu
<1>14. CASE ExecTrapping
  <2>1. PICK o \in ISA!MayTrap(ir) :
           /\ o.R = RegSet(R, ir.a, TrapResult(ir, Rb, Rc))
           /\ o.SW = IF Overflows(ir, Rb, Rc)
                       THEN SwPut(SW, ir.a, TrapResult(ir, Rb, Rc)) \cup {"V", "I0", "I"}
                       ELSE SwPut(SW, ir.a, TrapResult(ir, Rb, Rc)) \ {"V"}
           /\ o.HI = HI /\ o.LO = LO /\ o.m = m /\ o.tty = tty
           /\ o.pc = PC /\ o.EPC = EPC /\ o.npc = Wrap(PC + 4)
    BY <1>3, SameAccess, SameResults, SameKinds DEF ISA!MayTrap, ISA!Base
  <2>2. Leaves(o)
    BY <1>1, <1>2, <1>14, <2>1 DEF ExecTrapping, EndExecute, Leaves, NoBus
  <2>3. QED BY <1>14, <2>1, <2>2, Outcome DEF ExecTrapping
<1>15. CASE ExecCmp
  <2>1. PICK o \in ISA!Compares(ir) :
           /\ o.R = R
           /\ o.SW = Compared(SW, Rb, Rc)
           /\ o.HI = HI /\ o.LO = LO /\ o.m = m /\ o.tty = tty
           /\ o.pc = PC /\ o.EPC = EPC /\ o.npc = Wrap(PC + 4)
    BY <1>3, SameAccess, SameResults, SameKinds DEF ISA!Compares, ISA!Flags, ISA!Base
  <2>2. Leaves(o)
    BY <1>1, <1>2, <1>15, <2>1 DEF ExecCmp, EndExecute, Leaves, NoBus
  <2>3. QED BY <1>15, <2>1, <2>2, Outcome DEF ExecCmp
<1>16. CASE ExecSet
  <2>1. PICK o \in ISA!Sets(ir) :
           /\ o.R = RegPut(R, ir.a, IF Rb < Second(ir, Rc) THEN 1 ELSE 0)
           /\ o.SW = SwPut(SW, ir.a, IF Rb < Second(ir, Rc) THEN 1 ELSE 0)
           /\ o.HI = HI /\ o.LO = LO /\ o.m = m /\ o.tty = tty
           /\ o.pc = PC /\ o.EPC = EPC /\ o.npc = Wrap(PC + 4)
    BY <1>3, SameAccess, SameResults, SameKinds DEF ISA!Sets, ISA!Base
  <2>2. Leaves(o)
    BY <1>1, <1>2, <1>16, <2>1 DEF ExecSet, EndExecute, Leaves, NoBus
  <2>3. QED BY <1>16, <2>1, <2>2, Outcome DEF ExecSet
<1>17. CASE ExecToHiLo
  <2>1. PICK o \in ISA!SetsHiLo(ir) :
           /\ o.R = R
           /\ o.SW = SW
           /\ o.HI = (IF ir.op = "MTHI" THEN Ra ELSE HI)
           /\ o.LO = (IF ir.op = "MTHI" THEN LO ELSE Ra) /\ o.m = m /\ o.tty = tty
           /\ o.pc = PC /\ o.EPC = EPC /\ o.npc = Wrap(PC + 4)
    BY <1>3, SameAccess, SameResults, SameKinds DEF ISA!SetsHiLo, ISA!Base
  <2>2. Leaves(o)
    BY <1>1, <1>2, <1>17, <2>1 DEF ExecToHiLo, EndExecute, Leaves, NoBus, ToHiLoOp
  <2>3. QED BY <1>17, <2>1, <2>2, Outcome DEF ExecToHiLo
<1>18. CASE ExecFromHiLo
  <2>1. PICK o \in ISA!GetsHiLo(ir) :
           /\ o.R = RegSet(R, ir.a, IF ir.op = "MFHI" THEN HI ELSE LO)
           /\ o.SW = SwPut(SW, ir.a, IF ir.op = "MFHI" THEN HI ELSE LO)
           /\ o.HI = HI /\ o.LO = LO /\ o.m = m /\ o.tty = tty
           /\ o.pc = PC /\ o.EPC = EPC /\ o.npc = Wrap(PC + 4)
    BY <1>3, SameAccess, SameResults, SameKinds DEF ISA!GetsHiLo, ISA!Writes, ISA!Base
  <2>2. Leaves(o)
    BY <1>1, <1>2, <1>18, <2>1 DEF ExecFromHiLo, EndExecute, Leaves, NoBus
  <2>3. QED BY <1>18, <2>1, <2>2, Outcome DEF ExecFromHiLo
<1>19. CASE ExecBranch
  <2>1. PICK o \in ISA!Branches(ir) :
           /\ o.R = R
           /\ o.SW = SW
           /\ o.HI = HI /\ o.LO = LO /\ o.m = m /\ o.tty = tty
           /\ o.pc = PC /\ o.EPC = EPC
           /\ o.npc = (IF Taken(ir.op, SW, Ra, Rb) THEN Wrap(PC + ir.cx) ELSE Wrap(PC + 4))
    BY <1>3, SameAccess, SameResults, SameKinds DEF ISA!Branches, ISA!Delayed, ISA!Base
  <2>2. Leaves(o)
    BY <1>1, <1>2, <1>19, <2>1 DEF ExecBranch, EndExecute, Leaves, NoBus
  <2>3. QED BY <1>19, <2>1, <2>2, Outcome DEF ExecBranch
<1>20. CASE ExecJump
  <2>1. PICK o \in ISA!Jumps(ir) :
           /\ o.R = (IF ir.op = "BAL" THEN [R EXCEPT ![LR] = PC] ELSE R)
           /\ o.SW = SW
           /\ o.HI = HI /\ o.LO = LO /\ o.m = m /\ o.tty = tty
           /\ o.pc = Wrap(PC + ir.cx) /\ o.EPC = EPC /\ o.npc = Wrap(Wrap(PC + ir.cx) + 4)
    BY <1>3, SameAccess, SameResults, SameKinds DEF ISA!Jumps, ISA!AtOnce, ISA!Base
  <2>2. Leaves(o)
    BY <1>1, <1>2, <1>20, <2>1 DEF ExecJump, EndExecute, Leaves, NoBus
  <2>3. QED BY <1>20, <2>1, <2>2, Outcome DEF ExecJump
<1>21. CASE ExecCall
  <2>1. PICK o \in ISA!Links(ir) :
           /\ o.R = RegSet(R, IF ir.op = "JALR" THEN ir.a ELSE LR, Wrap(PC + 4))
           /\ o.SW = SwPut(SW, IF ir.op = "JALR" THEN ir.a ELSE LR, Wrap(PC + 4))
           /\ o.HI = HI /\ o.LO = LO /\ o.m = m /\ o.tty = tty
           /\ o.pc = PC /\ o.EPC = EPC
           /\ o.npc = (IF ir.op = "JALR" THEN Rb ELSE Wrap(PC + ir.cx))
    BY <1>3, SameAccess, SameResults, SameKinds DEF ISA!Links, ISA!Delayed, ISA!Writes, ISA!Base
  <2>2. Leaves(o)
    BY <1>1, <1>2, <1>21, <2>1 DEF ExecCall, EndExecute, Leaves, NoBus
  <2>3. QED BY <1>21, <2>1, <2>2, Outcome DEF ExecCall
<1>22. CASE ExecRet
  <2>1. PICK o \in {ISA!Delayed(ISA!Base, ISA!A(ir))} :
           /\ o.R = R
           /\ o.SW = SW
           /\ o.HI = HI /\ o.LO = LO /\ o.m = m /\ o.tty = tty
           /\ o.pc = PC /\ o.EPC = EPC /\ o.npc = Ra
    BY <1>3, SameAccess, SameResults, SameKinds DEF ISA!Delayed, ISA!Base
  <2>2. Leaves(o)
    BY <1>1, <1>2, <1>22, <2>1 DEF ExecRet, EndExecute, Leaves, NoBus
  <2>3. QED BY <1>22, <2>1, <2>2, Outcome DEF ExecRet
<1>23. CASE ExecStore
  <2>1. PICK o \in ISA!Stores(ir) :
           /\ o.R = R
           /\ o.SW = SW
           /\ o.HI = HI /\ o.LO = LO /\ o.m = (IF EffectiveAddress \in DataAddr
                      THEN [m EXCEPT ![EffectiveAddress] = Merge(ir.op, @, Ra)] ELSE m)
           /\ o.tty = tty
           /\ o.pc = PC /\ o.EPC = EPC /\ o.npc = Wrap(PC + 4)
    BY <1>3, SameAccess, SameResults, SameKinds DEF ISA!Stores, Late, ISA!Base
  <2>2. Leaves(o)
    BY <1>1, <1>2, <1>23, <2>1 DEF ExecStore, EndExecute, Leaves, NoBus
  <2>3. QED BY <1>23, <2>1, <2>2, Outcome DEF ExecStore
<1>24. CASE ExecHiLo
  <2>1. PICK r \in HiLo(ir.op, Ra, Rb) : HI' = r[1] /\ LO' = r[2]
    BY <1>24 DEF ExecHiLo
  <2> DEFINE o == [ISA!Base EXCEPT !.HI = r[1], !.LO = r[2],
                    !.SW = IF ir.op # "DIV" THEN SW
                           ELSE IF ISA!DivOverflows(Ra, Rb) THEN SW \cup {"V"} ELSE SW \ {"V"}]
  <2>2. o \in ISA!Multiplies(ir)
    BY <1>3, <2>1, SameResults DEF ISA!Multiplies
  <2>3. /\ o.R = R
        /\ o.SW = (IF ir.op # "DIV" THEN SW
                ELSE IF DivOverflows(Ra, Rb) THEN SW \cup {"V"} ELSE SW \ {"V"})
        /\ o.HI = r[1] /\ o.LO = r[2] /\ o.m = m /\ o.tty = tty
        /\ o.pc = PC /\ o.EPC = EPC /\ o.npc = Wrap(PC + 4)
    BY <1>3, SameAccess, SameResults DEF ISA!Base
  <2> HIDE DEF o
  <2>4. Leaves(o)
    BY <1>1, <1>2, <1>24, <2>1, <2>3 DEF ExecHiLo, EndExecute, Leaves, NoBus
  <2>5. QED BY <1>24, <2>2, <2>4, Outcome DEF ExecHiLo
<1>25. CASE ExecFromC0
  <2>1. PICK v \in C0Values(ir.b) :
          R' = RegSet(R, ir.a, v) /\ EndExecute(SwPut(SW, ir.a, v), PC, EPC)
    BY <1>25 DEF ExecFromC0
  <2> DEFINE o == ISA!Writes(ir.a, v)
  <2>2. o \in ISA!GetsC0(ir)
    BY <1>3, <2>1, SameResults DEF ISA!GetsC0, ISA!C0Read, C0Values
  <2>3. /\ o.R = RegSet(R, ir.a, v)
        /\ o.SW = SwPut(SW, ir.a, v)
        /\ o.HI = HI /\ o.LO = LO /\ o.m = m /\ o.tty = tty
        /\ o.pc = PC /\ o.EPC = EPC /\ o.npc = Wrap(PC + 4)
    BY <1>3, SameAccess, SameResults DEF ISA!Writes, ISA!Base
  <2> HIDE DEF o
  <2>4. Leaves(o)
    BY <1>1, <1>2, <1>25, <2>1, <2>3 DEF ExecFromC0, EndExecute, Leaves, NoBus
  <2>5. QED BY <1>25, <2>2, <2>4, Outcome DEF ExecFromC0
<1>26. CASE ExecToC0
  <2>1. PICK v \in IF ir.op = "MTC0" THEN {Rb} ELSE C0Values(ir.b) :
          EndExecute(SW, IF ir.a = 0 THEN v ELSE PC, IF ir.a = 1 THEN v ELSE EPC)
    BY <1>26 DEF ExecToC0
  <2> DEFINE o == IF ir.a = 0 THEN ISA!AtOnce(ISA!Base, v)
                  ELSE IF ir.a = 1 THEN [ISA!Base EXCEPT !.EPC = v] ELSE ISA!Base
  <2>2. o \in ISA!SetsC0(ir)
    BY <1>3, <2>1, SameResults DEF ISA!SetsC0, ISA!C0Read, C0Values
  <2>3. /\ o.R = R
        /\ o.SW = SW
        /\ o.HI = HI /\ o.LO = LO /\ o.m = m /\ o.tty = tty
        /\ o.pc = (IF ir.a = 0 THEN v ELSE PC)
        /\ o.EPC = (IF ir.a = 1 THEN v ELSE EPC)
        /\ o.npc = Wrap((IF ir.a = 0 THEN v ELSE PC) + 4)
    BY <1>3, SameAccess, SameResults DEF ISA!AtOnce, ISA!Base
  <2> HIDE DEF o
  <2>4. Leaves(o)
    BY <1>1, <1>2, <1>26, <2>1, <2>3 DEF ExecToC0, EndExecute, Leaves, NoBus
  <2>5. QED BY <1>26, <2>2, <2>4, Outcome DEF ExecToC0
<1>27. CASE ExecLoad
  BY <1>27 DEF ExecLoad, Late
<1>28. QED
  BY <1>11, <1>12, <1>13, <1>14, <1>15, <1>16, <1>17, <1>18, <1>19,
     <1>20, <1>21, <1>22, <1>23, <1>24, <1>25, <1>26, <1>27 DEF Execute

\* A load, or a store to the terminal, has not happened yet at the end of Execute.
LEMMA LateWaits ==
  ASSUME IInv, InstrInv, OrdinarySw(code), Execute, Late
  PROVE  UNCHANGED ISA!vars
<1>1. /\ inExe /\ state = "Execute" /\ InFlight /\ ~Irq(SW)
      /\ R' = R /\ HI' = HI /\ LO' = LO /\ m' = m /\ EndExecute(SW, PC, EPC)
  <2>1. inExe /\ state = "Execute" /\ InFlight /\ ~Irq(SW)
    BY ExecuteEnds DEF IInv, SwInv, InFlight
  <2>2. CASE ExecLoad
    BY <2>1, <2>2 DEF ExecLoad
  <2>3. CASE ExecStore
    <3>1. m' = m
      BY <2>3, ImageAssumption DEF ExecStore, Executing, Late, StoreOp, LoadOp
    <3>2. QED BY <2>1, <2>3, <3>1 DEF ExecStore
  <2>4. ExecLoad \/ ExecStore
    BY DEF Execute, Executing, Late, ExecNop, ExecCondMove, ExecAlu, ExecTrapping,
       ExecCmp, ExecSet, ExecHiLo, ExecToHiLo, ExecFromHiLo, ExecFromC0, ExecToC0,
       ExecBranch, ExecJump, ExecCall, ExecRet, LoadOp, PrintOp, NopOp, MoveOp,
       AluOp, AluImmOp, AluRegOp, TrapOp, SetOp, SetRegOp, SetImmOp, HiLoOp,
       ToHiLoOp, FromHiLoOp, ToC0Op, BranchOp, JumpOp, CallOp
  <2>5. QED BY <2>2, <2>3, <2>4
<1>2. /\ ir' = ir /\ Rb' = Rb /\ pc0' = pc0 /\ code' = code /\ tty' = tty /\ PC' = PC
      /\ EPC' = EPC /\ SW' = SW /\ inExe' = TRUE /\ state' = "MemAccess"
  BY <1>1 DEF EndExecute, latches
<1>3. InFlight'
  BY <1>2 DEF InFlight, Late, EffectiveAddress
<1>4. QED BY <1>1, <1>2, <1>3 DEF ISA!vars

\* Execute takes the step of the instruction, or leaves it to WriteBack.
LEMMA ExecuteStep ==
  ASSUME IInv, InstrInv, OrdinarySw(code), Execute
  PROVE  ISA!Step \/ UNCHANGED ISA!vars
BY ExecuteEnds, ExecuteOutcome, ExecuteLands, LateWaits

-----------------------------------------------------------------------------
(* The other phases. *)

\* A load or store to the terminal reaches its instruction-level step at WriteBack.
LEMMA WriteBackLands ==
  ASSUME IInv, InstrInv, OrdinarySw(code), WriteBackCommon, Late,
         SW' = SW,
         NEW o \in ISA!Outcomes(ir),
         R' = o.R, SW' = o.SW, HI = o.HI, LO = o.LO, m = o.m, tty' = o.tty,
         PC = o.pc, EPC = o.EPC, Wrap(PC + 4) = o.npc
  PROVE  ISA!Step
<1>1. /\ inExe /\ state = "WriteBack" /\ InFlight /\ pc0 >= 0 /\ ~Irq(SW)
      /\ ir = Fetched(code, pc0) /\ ~nextInstIsDelaySlot
  BY DEF WriteBackCommon, Executes, InFlight, InstrInv, IInv, SwInv, Late, StoreOp, PrintOp
<1>2. /\ code' = code /\ PC' = PC /\ EPC' = EPC /\ HI' = HI /\ LO' = LO /\ m' = m
      /\ inExe' = inExe /\ state' = "Fetch" /\ nextInstIsDelaySlot' = nextInstIsDelaySlot
  BY DEF WriteBackCommon, slotVars
<1>3. ~InFlight'
  BY <1>2 DEF InFlight
<1>4. (IF nextInstIsDelaySlot THEN delaySlotNextPC ELSE Wrap(PC + 4))' = o.npc
  BY <1>1, <1>2
<1>5. QED BY <1>1, <1>2, <1>3, <1>4, StepFrom

\* WriteBack takes the step of a late instruction, and of no other.
LEMMA WriteBackStep ==
  ASSUME IInv, InstrInv, OrdinarySw(code), WriteBackLoad \/ WriteBackOther
  PROVE  ISA!Step \/ UNCHANGED ISA!vars
<1>1. WriteBackCommon /\ inExe /\ state = "WriteBack"
  BY DEF WriteBackLoad, WriteBackOther, WriteBackCommon, Executes
<1>2. CASE ~Late
  <2>1. ~InFlight /\ ~InFlight'
    BY <1>1, <1>2 DEF InFlight, WriteBackCommon
  <2>2. ir.op \notin LoadOp /\ R' = R /\ SW' = SW
    BY <1>2 DEF WriteBackLoad, WriteBackOther, Late
  <2>3. tty' = tty
    BY <1>1, <1>2, <2>2 DEF WriteBackLoad, WriteBackOther, Late, EffectiveAddress,
       InstrInv, StoreOp, PrintOp
  <2>4. QED BY <1>1, <2>1, <2>2, <2>3 DEF WriteBackCommon, slotVars, ISA!vars
<1>3. CASE Late
  <2>1. /\ ir = Fetched(code, pc0) /\ Rb = RegRead(R, SW, ir.b)
        /\ InFlight /\ ISA!Address(ir) = EffectiveAddress
        /\ ISA!A(ir) = RegRead(R, SW, ir.a)
    BY <1>1, <1>3, SameAccess, SameResults DEF InstrInv, Late, StoreOp, PrintOp, InFlight,
       ISA!Address, ISA!A, ISA!B, EffectiveAddress
  <2>2. CASE WriteBackLoad
    <3>1. PICK d \in Dbus : /\ R' = RegPut(R, ir.a, Extend(ir.op, d))
                          /\ SW' = SwPut(SW, ir.a, Extend(ir.op, d))
      BY <2>2 DEF WriteBackLoad
    <3>2. SW' = SW
      BY <2>2, <3>1 DEF WriteBackLoad, SwPut, IInv, SwInv
    <3>3. Dbus = IF EffectiveAddress \in DataAddr THEN {m[EffectiveAddress]} ELSE Undef
      BY <1>1, <2>1, <2>2 DEF WriteBackLoad, Dbus, IInv, BusInv, BusDiscipline, EffectiveAddress
    <3> DEFINE o == [ISA!Base EXCEPT !.R = ISA!RegPut(R, ir.a, Extend(ir.op, d)),
                                     !.SW = ISA!SwPut(SW, ir.a, Extend(ir.op, d))]
    <3>4. o \in ISA!Outcomes(ir)
      <4>1. o \in ISA!Loads(ir)
        BY <2>1, <3>3 DEF ISA!Loads
      <4>2. QED BY <2>2, <4>1, Outcome DEF WriteBackLoad
    <3>5. /\ o.R = R' /\ o.SW = SW' /\ o.HI = HI /\ o.LO = LO /\ o.m = m /\ o.tty = tty
          /\ o.pc = PC /\ o.EPC = EPC /\ o.npc = Wrap(PC + 4)
      BY <2>1, <3>1, SameAccess, SameResults DEF ISA!Base
    <3> HIDE DEF o
    <3>6. tty' = tty /\ ir.op \in LoadOp
      BY <2>2 DEF WriteBackLoad
    <3>7. QED BY <1>1, <1>3, <3>2, <3>4, <3>5, <3>6, WriteBackLands
  <2>3. CASE WriteBackOther
    <3>1. /\ R' = R /\ SW' = SW /\ ir.op \in PrintOp /\ EffectiveAddress = IOADDR
          /\ tty' = Printed(tty, RegRead(R, SW, ir.a))
      BY <1>3, <2>1, <2>3 DEF WriteBackOther, Late, EffectiveAddress
    <3>2. PICK o \in ISA!Stores(ir) :
            /\ o.R = R /\ o.SW = SW /\ o.HI = HI /\ o.LO = LO /\ o.m = m
            /\ o.tty = Printed(tty, RegRead(R, SW, ir.a))
            /\ o.pc = PC /\ o.EPC = EPC /\ o.npc = Wrap(PC + 4)
      BY <2>1, <3>1, ImageAssumption, SameAccess, SameResults, SameKinds
      DEF ISA!Stores, ISA!Base
    <3>3. o \in ISA!Outcomes(ir)
      BY <3>1, <3>2, Outcome DEF PrintOp, StoreOp
    <3>4. QED BY <1>1, <1>3, <3>1, <3>2, <3>3, WriteBackLands
  <2>4. QED BY <2>2, <2>3
<1>4. QED BY <1>2, <1>3

\* The first reset boots the instruction-level machine, and there is no other.
LEMMA BootStep ==
  ASSUME IInv, TakeReset
  PROVE  ISA!Boot
<1>1. state = "X" /\ ~nextInstIsDelaySlot
  BY DEF TakeReset, IInv, ControlInv, NoSecondReset, Booted
<1>2. state' = "Fetch" /\ PC' = 0 /\ inExe' /\ ~nextInstIsDelaySlot' /\ ~InFlight /\ ~InFlight'
  BY <1>1 DEF TakeReset, InFlight, slotVars
<1>3. Wrap(0 + 4) = 4
  BY WordAssumption, SMT DEF Wrap
<1>4. ISA!WithMode(ISA!ResetFlags, ISA!RESET) = WithMode(ResetFlags, RESET) /\ ISA!LR = LR
  BY SameResults, SameKinds DEF ISA!ResetFlags, ResetFlags, ISA!RESET, RESET
<1>5. QED BY <1>1, <1>2, <1>3, <1>4 DEF TakeReset, ISA!Boot

\* The entry to the vector is the instruction-level trap, and leaves no transfer
\* outstanding.
LEMMA TrapStep ==
  ASSUME IInv, OrdinarySw(code), TakeInterrupt
  PROVE  ISA!Trap
<1>1. state = "Fetch" /\ ~inExe /\ ~nextInstIsDelaySlot
  BY DEF TakeInterrupt, InterruptDue, IInv, SwInv
<1>2. state' = "Fetch" /\ PC' = 8 /\ inExe' /\ ~nextInstIsDelaySlot' /\ ~InFlight /\ ~InFlight'
  BY <1>1 DEF TakeInterrupt, InFlight, slotVars
<1>3. Wrap(8 + 4) = 12
  BY WordAssumption, SMT DEF Wrap
<1>4. ISA!WithMode(SW, ISA!IRQ) = WithMode(SW, IRQ)
  BY SameResults DEF ISA!IRQ, IRQ
<1>5. QED BY <1>1, <1>2, <1>3, <1>4 DEF TakeInterrupt, ISA!Trap

\* The phases in which nothing a program can see happens.
LEMMA Stutters ==
  ASSUME IInv, Fetch \/ Decode \/ MemAccess \/ Finish \/ UNCHANGED vars
  PROVE  UNCHANGED ISA!vars
<1> USE DEF archVars, slotVars, latches
<1>1. CASE Fetch
  BY <1>1 DEF Fetch, Executes, InFlight, ISA!vars
<1>2. CASE Decode
  BY <1>2 DEF Decode, Executes, InFlight, ISA!vars
<1>3. CASE MemAccess
  BY <1>3 DEF MemAccess, Executes, InFlight, Late, EffectiveAddress, ISA!vars
<1>4. CASE Finish \/ UNCHANGED vars
  BY <1>4 DEF Finish, vars, InFlight, Late, EffectiveAddress, ISA!vars
<1>5. QED BY <1>1, <1>2, <1>3, <1>4

-----------------------------------------------------------------------------
(* The refinement. *)

\* InstrInv is kept by every step.
LEMMA InstrStep == ASSUME IInv, InstrInv, OrdinarySw(code), Next PROVE InstrInv'
<1> USE DEF archVars, slotVars, latches
<1>1. CASE TakeInterrupt \/ TakeReset
  BY <1>1 DEF TakeInterrupt, InterruptDue, TakeReset, InstrInv
<1>2. CASE Fetch
  BY <1>2 DEF Fetch, Executes, InstrInv
<1>3. CASE Decode
  BY <1>3 DEF Decode, Executes, InstrInv, IInv, BusInv, BusDiscipline
<1>4. CASE Execute
  <2>1. PICK sw, pc, epc : EndExecute(sw, pc, epc)
    BY <1>4, ExecuteEnds
  <2>2. /\ inExe /\ state = "Execute" /\ pc0' = pc0 /\ ir' = ir /\ Rb' = Rb /\ code' = code
        /\ inExe' => state' = "MemAccess"
        /\ ir = Fetched(code, pc0) /\ Rb = RegRead(R, SW, ir.b) /\ pc0 >= 0
        /\ ~nextInstIsDelaySlot
    BY <1>4, <2>1, ExecuteEnds DEF EndExecute, InstrInv, IInv, ControlInv
  <2>3. ir.op \in LoadOp \cup StoreOp => R' = R /\ SW' = SW /\ ~nextInstIsDelaySlot'
    <3>1. CASE ExecLoad \/ ExecStore
      BY <2>2, <3>1 DEF ExecLoad, ExecStore, EndExecute, NoTransfer
    <3>2. Execute /\ ~ExecLoad /\ ~ExecStore => ir.op \notin LoadOp \cup StoreOp
      BY DEF Execute, Executing, ExecNop, ExecCondMove, ExecAlu, ExecTrapping,
         ExecCmp, ExecSet, ExecHiLo, ExecToHiLo, ExecFromHiLo, ExecFromC0, ExecToC0,
         ExecBranch, ExecJump, ExecCall, ExecRet, LoadOp, StoreOp, NopOp, MoveOp,
         AluOp, AluImmOp, AluRegOp, TrapOp, SetOp, SetRegOp, SetImmOp, HiLoOp,
         ToHiLoOp, FromHiLoOp, ToC0Op, BranchOp, JumpOp, CallOp
    <3>3. QED BY <1>4, <3>1, <3>2
  <2>4. QED BY <2>2, <2>3 DEF InstrInv
<1>5. CASE MemAccess
  BY <1>5 DEF MemAccess, Executes, InstrInv
<1>6. CASE WriteBackLoad \/ WriteBackOther
  <2>1. finished' = (PC < 0) /\ PC' = PC /\ state' = "Fetch"
    BY <1>6 DEF WriteBackLoad, WriteBackOther, WriteBackCommon
  <2>2. PC \in Int
    BY WordAssumption DEF IInv, TypeOK, Word
  <2>3. PC < 0 \/ PC >= 0
    BY <2>2
  <2>4. ~finished' => PC' >= 0
    BY <2>1, <2>3, Zenon
  <2>5. QED BY <2>1, <2>4 DEF InstrInv
<1>7. CASE Finish
  BY <1>7 DEF Finish, vars, InstrInv
<1>8. QED BY <1>1, <1>2, <1>3, <1>4, <1>5, <1>6, <1>7 DEF Next

\* Every step of the clocked block is a step of the instruction-level machine or
\* one that a program cannot see.
LEMMA StepMaps ==
  ASSUME IInv, InstrInv, OrdinarySw(code), [Next]_vars
  PROVE  [ISA!Next]_ISA!vars
BY BootStep, TrapStep, ExecuteStep, WriteBackStep, Stutters DEF Next, ISA!Next

\* The clocked processor implements the instruction-level machine, for programs
\* that neither load $sw from memory nor link into it.
THEOREM RefinesIsa ==
  ASSUME \A p \in Programs : OrdinarySw(p)
  PROVE  Spec => ImplementsIsa
<1>1. IInv => OrdinarySw(code)
  BY DEF IInv, TypeOK
<1>2. Init => InstrInv
  BY DEF Init, InstrInv
<1>3. IInv /\ InstrInv /\ [Next]_vars => InstrInv'
  <2>1. ASSUME UNCHANGED vars, InstrInv PROVE InstrInv'
    BY <2>1 DEF vars, archVars, slotVars, latches, InstrInv
  <2>2. QED BY <1>1, <2>1, InstrStep
<1>4. Init => ISA!Init
  <2> SUFFICES ASSUME Init PROVE ISA!Init
    OBVIOUS
  <2>1. ~InFlight /\ state = "X" /\ ~nextInstIsDelaySlot
    BY DEF Init, InFlight
  <2>2. QED BY <2>1, SameResults DEF Init, ISA!Init, ISA!GPR, GPR, ISA!Blank, Blank
<1>5. IInv /\ InstrInv /\ [Next]_vars => [ISA!Next]_ISA!vars
  BY <1>1, StepMaps
<1>6. QED BY <1>2, <1>3, <1>4, <1>5, Inductive, PTL DEF Spec, ImplementsIsa, ISA!Spec

-----------------------------------------------------------------------------
(* The invariant behind MainEnvironment. *)

\* No load and no comparison has $zero as its destination, to which both write.
KeepsZero(p) ==
  \A x \in CodeAddr : Image(p, x).op \in LoadOp \cup SetOp => Image(p, x).a # 0

\* What the first n instructions have established.
Ready(n) ==
  /\ \A k \in (1 .. 10) \ {3} : k <= n => R[k] = 0
  /\ n >= 11 => SW = SwFlags(IF n = 11 THEN 0 ELSE EnableAll)
  /\ n >= 13 => R[FP] = 0
  /\ n >= 14 => R[GP] = 0
  /\ n >= 15 => R[LR] = -1
  /\ n = 18 => R[3] = StartAddr(19)
  /\ n >= 19 => R[3] = StartAddr(21)

\* Instruction n is not in a slot and goes on to the next, except that the last
\* one is run twice, first in the slot of `jr $3`; who came to the first is open.
GoesOn(n) ==
  /\ n \in 2 .. 20 => ~isDelaySlot
  /\ isDelaySlot => n = 1 \/ PC = StartAddr(21)
  /\ ~isDelaySlot => PC = StartAddr(n + 1)

\* Instruction n has taken effect.
Done(n) ==
  /\ Ready(n) /\ GoesOn(n)
  /\ nextInstIsDelaySlot <=> n = 20
  /\ n = 20 => delaySlotNextPC = StartAddr(21)

\* $zero is zero, and Execute works on the instruction at pc0.
ZeroInv ==
  /\ Booted => R[0] = 0
  /\ ir.op \in LoadOp \cup SetOp => ir.a # 0
  /\ inExe /\ state = "Execute" => ir = Fetched(code, pc0) /\ Ra = RegRead(R, SW, ir.a)

\* Between Fetch and Execute of instruction n what precedes it has taken effect,
\* and from then on it has itself, until control leaves RESET_START.
StartInv(n) ==
  inExe /\ pc0 = StartAddr(n) =>
    /\ state \in {"Decode", "Execute"} => Ready(n - 1) /\ GoesOn(n)
    /\ state \in {"MemAccess", "WriteBack"} => Done(n) /\ ir.op \notin LoadOp
    /\ state = "Fetch" /\ PC \in Inside => Done(n)

EntryInv == AtMain => Ready(21) /\ ~isDelaySlot

BootInv == ZeroInv /\ (\A n \in 1 .. 21 : StartInv(n)) /\ EntryInv

-----------------------------------------------------------------------------
(* The code of RESET_START, and what its instructions do. *)

\* What the parts of a sequence are in the whole.
LEMMA JoinedLeft ==
  ASSUME NEW T, NEW s \in Seq(T), NEW t \in Seq(T), NEW k \in 1 .. Len(s)
  PROVE  (s \o t)[k] = s[k]
OBVIOUS

LEMMA JoinedRight ==
  ASSUME NEW T, NEW s \in Seq(T), NEW t \in Seq(T), NEW k \in 1 .. Len(t)
  PROVE  (s \o t)[Len(s) + k] = t[k]
OBVIOUS

LEMMA JoinedType ==
  ASSUME NEW T, NEW s \in Seq(T), NEW t \in Seq(T)
  PROVE  s \o t \in Seq(T) /\ Len(s \o t) = Len(s) + Len(t)
OBVIOUS

\* u is s, of length j, followed by t, of length l.
IsJoin(u, s, j, t, l) ==
  /\ Len(u) = j + l
  /\ \A k \in 1 .. j : u[k] = s[k]
  /\ \A k \in 1 .. l : u[j + k] = t[k]

LEMMA Joined ==
  ASSUME NEW T, NEW s \in Seq(T), NEW t \in Seq(T), NEW j, NEW l, Len(s) = j, Len(t) = l
  PROVE  s \o t \in Seq(T) /\ IsJoin(s \o t, s, j, t, l)
<1>1. s \in Seq(T) /\ t \in Seq(T)
  OBVIOUS
<1>2. s \o t \in Seq(T) /\ Len(s \o t) = Len(s) + Len(t)
  BY ONLY <1>1, JoinedType
<1>3. ASSUME NEW k \in 1 .. Len(s) PROVE (s \o t)[k] = s[k]
  BY ONLY <1>1, <1>3, JoinedLeft
<1>4. ASSUME NEW k \in 1 .. Len(t) PROVE (s \o t)[Len(s) + k] = t[k]
  BY ONLY <1>1, <1>4, JoinedRight
<1> DEFINE u == s \o t
<1> HIDE DEF u
<1>5. QED
  BY <1>2, <1>3, <1>4 DEF u, IsJoin

LEMMA BootIs ==
  /\ Len(Vectors) = 4 /\ Len(Boot) = 25 /\ DOMAIN Boot = 1 .. 25
  /\ \A k \in 1 .. 10 : Boot[4 + k] = I("ADDiu", k, 0, 0, 0)
  /\ Boot[15] = I("ANDi", SWREG, 0, 0, 0)
  /\ Boot[16] = I("ORi", SWREG, SWREG, 0, EnableAll)
  /\ Boot[17] = I("ADDiu", FP, 0, 0, 0)
  /\ \A k \in 1 .. 8 : Boot[17 + k] = EnterMain[k]
<1> DEFINE z == [k \in 1 .. 10 |-> I("ADDiu", k, 0, 0, 0)]
           t == <<I("ANDi", SWREG, 0, 0, 0), I("ORi", SWREG, SWREG, 0, EnableAll),
                  I("ADDiu", FP, 0, 0, 0)>>
           v == Vectors
           e == EnterMain
           T == {z[k] : k \in 1 .. 10} \cup {t[k] : k \in 1 .. 3}
                \cup {v[k] : k \in 1 .. 4} \cup {e[k] : k \in 1 .. 8}
<1>1. z \in Seq(T) /\ Len(z) = 10
  OBVIOUS
<1>2. t \in Seq(T) /\ Len(t) = 3
  OBVIOUS
<1>3. v \in Seq(T) /\ Len(v) = 4
  BY DEF Vectors
<1>4. e \in Seq(T) /\ Len(e) = 8
  BY DEF EnterMain
<1>5. Boot = v \o (z \o t) \o e
  BY DEF Boot, InitRegs
<1>6. t[1] = I("ANDi", SWREG, 0, 0, 0) /\ t[2] = I("ORi", SWREG, SWREG, 0, EnableAll)
      /\ t[3] = I("ADDiu", FP, 0, 0, 0)
  OBVIOUS
<1>7. \A k \in 1 .. 10 : z[k] = I("ADDiu", k, 0, 0, 0)
  OBVIOUS
<1> DEFINE g == z \o t
           h == v \o g
<1> HIDE DEF z, t, v, e, T
<1>8. g \in Seq(T) /\ IsJoin(g, z, 10, t, 3)
  BY <1>1, <1>2, Joined
<1> HIDE DEF g
<1>9. Len(g) = 13
  BY <1>8 DEF IsJoin
<1>10. h \in Seq(T) /\ IsJoin(h, v, 4, g, 13)
  BY <1>3, <1>8, <1>9, Joined
<1>11. Boot = h \o e
  BY <1>5 DEF g
<1> HIDE DEF h
<1>12. Len(h) = 17
  BY <1>10 DEF IsJoin
<1>13. Boot \in Seq(T) /\ IsJoin(Boot, h, 17, e, 8)
  BY <1>4, <1>10, <1>11, <1>12, Joined
<1>14. ASSUME NEW k \in 1 .. 13 PROVE Boot[4 + k] = g[k]
  <2>1. k \in 1 .. 13 /\ 4 + k \in 1 .. 17
    OBVIOUS
  <2>2. Boot[4 + k] = h[4 + k] /\ h[4 + k] = g[k]
    BY <1>10, <1>13, <2>1 DEF IsJoin
  <2>3. QED
    BY <2>2
<1>15. ASSUME NEW k \in 1 .. 3 PROVE Boot[14 + k] = t[k]
  <2>1. k \in 1 .. 3 /\ 10 + k \in 1 .. 13 /\ 4 + (10 + k) = 14 + k
    OBVIOUS
  <2>2. Boot[4 + (10 + k)] = g[10 + k]
    BY ONLY <1>14, <2>1
  <2>3. g[10 + k] = t[k]
    BY <1>8, <2>1 DEF IsJoin
  <2>4. QED
    BY ONLY <2>1, <2>2, <2>3
<1>16. Boot[15] = t[1] /\ Boot[16] = t[2] /\ Boot[17] = t[3]
  <2>1. Boot[14 + 1] = t[1] /\ Boot[14 + 2] = t[2] /\ Boot[14 + 3] = t[3]
    BY <1>15
  <2>2. QED
    BY <2>1
<1>17. \A k \in 1 .. 10 : Boot[4 + k] = z[k]
  BY <1>8, <1>14 DEF IsJoin
<1>18. Len(Boot) = 25 /\ DOMAIN Boot = 1 .. 25 /\ \A k \in 1 .. 8 : Boot[17 + k] = e[k]
  <2>1. Len(Boot) = 25 /\ \A k \in 1 .. 8 : Boot[17 + k] = e[k]
    BY <1>13 DEF IsJoin
  <2>2. DOMAIN Boot = 1 .. Len(Boot)
    BY ONLY <1>13
  <2>3. QED
    BY <2>1, <2>2
<1>19. QED
  BY <1>3, <1>6, <1>7, <1>16, <1>17, <1>18 DEF v, e

\* The addresses of RESET_START.
LEMMA Addresses ==
  /\ ResetStart = 16 /\ MainAddr = 100 /\ Steps = 21
  /\ \A n \in Int : StartAddr(n) = 12 + 4 * n
  /\ StartUp = {StartAddr(n) : n \in 1 .. 21}
  /\ Inside = {StartAddr(n + 1) : n \in 1 .. 21}
<1>1. Len(Vectors) = 4 /\ Len(Boot) = 25
  BY BootIs
<1>2. ResetStart = 16 /\ MainAddr = 100 /\ Steps = 21
  BY <1>1 DEF ResetStart, MainAddr, Steps
<1>3. \A n \in Int : StartAddr(n) = 12 + 4 * n
  BY <1>2 DEF StartAddr
<1>4. QED
  BY <1>2, <1>3 DEF StartUp, Inside

\* The next instruction is at the next address.
LEMMA NextAddr ==
  ASSUME NEW n \in 1 .. 21
  PROVE  /\ StartAddr(n) \in Int /\ StartAddr(n + 1) \in Int
         /\ Wrap(StartAddr(n) + 4) = StartAddr(n + 1)
<1>1. StartAddr(n) = 12 + 4 * n /\ StartAddr(n + 1) = 16 + 4 * n
  BY Addresses
<1>2. 100 < Half /\ Half \in Nat
  BY Addresses, BootAssumption, WordAssumption
<1> DEFINE x == 16 + 4 * n
<1>3. 0 <= x + Half /\ x + Half < 2 * Half /\ x \in Int
  BY <1>2
<1>4. StartAddr(n) + 4 = x
  BY <1>1
<1> HIDE DEF x
<1>5. (x + Half) % (2 * Half) = x + Half
  BY ONLY <1>2, <1>3
<1>6. Wrap(x) = x
  BY <1>2, <1>3, <1>5 DEF Wrap
<1>7. QED
  BY <1>1, <1>4, <1>6 DEF x

\* What is fetched there.
LEMMA StartCode ==
  ASSUME NEW p \in Programs, NEW n \in 1 .. 21
  PROVE  Fetched(p, StartAddr(n)) = Boot[4 + n]
<1>1. 4 + n \in DOMAIN Boot
  BY BootIs
<1>2. 4 * ((4 + n) - 1) = StartAddr(n)
  BY Addresses
<1>3. StartAddr(n) \in CodeAddr /\ Image(p, StartAddr(n)) = Boot[4 + n]
  BY <1>1, <1>2, BootAssumption
<1>4. QED
  BY <1>3 DEF Fetched

\* The instructions that follow the first ten.
LEMMA EnterIs ==
  /\ EnterMain[1] = I("ADDiu", GP, 0, 0, 0)
  /\ EnterMain[2] = I("ADDiu", LR, 0, 0, -1)
  /\ EnterMain[3] = I("LUi", SP, 0, 0, 7)
  /\ EnterMain[4] = I("ADDiu", SP, SP, 0, -4)
  /\ EnterMain[5] = I("MFC0", 3, 0, 0, 0)
  /\ EnterMain[6] = I("ADDiu", 3, 3, 0, 8)
  /\ EnterMain[7] = I("RET", 3, 0, 0, 0)
  /\ EnterMain[8] = Nop
BY DEF EnterMain

\* Those of RESET_START.
LEMMA StartIs ==
  ASSUME NEW n \in 1 .. 21
  PROVE  /\ n \in 1 .. 10 => Boot[4 + n] = I("ADDiu", n, 0, 0, 0)
         /\ n = 11 => Boot[4 + n] = I("ANDi", SWREG, 0, 0, 0)
         /\ n = 12 => Boot[4 + n] = I("ORi", SWREG, SWREG, 0, EnableAll)
         /\ n = 13 => Boot[4 + n] = I("ADDiu", FP, 0, 0, 0)
         /\ n = 14 => Boot[4 + n] = I("ADDiu", GP, 0, 0, 0)
         /\ n = 15 => Boot[4 + n] = I("ADDiu", LR, 0, 0, -1)
         /\ n = 16 => Boot[4 + n] = I("LUi", SP, 0, 0, 7)
         /\ n = 17 => Boot[4 + n] = I("ADDiu", SP, SP, 0, -4)
         /\ n = 18 => Boot[4 + n] = I("MFC0", 3, 0, 0, 0)
         /\ n = 19 => Boot[4 + n] = I("ADDiu", 3, 3, 0, 8)
         /\ n = 20 => Boot[4 + n] = I("RET", 3, 0, 0, 0)
         /\ n = 21 => Boot[4 + n] = Nop
<1>1. \A k \in 1 .. 8 : Boot[17 + k] = EnterMain[k]
  BY BootIs
<1>2. /\ Boot[18] = EnterMain[1] /\ Boot[19] = EnterMain[2] /\ Boot[20] = EnterMain[3]
      /\ Boot[21] = EnterMain[4] /\ Boot[22] = EnterMain[5] /\ Boot[23] = EnterMain[6]
      /\ Boot[24] = EnterMain[7] /\ Boot[25] = EnterMain[8]
  <2>1. /\ Boot[17 + 1] = EnterMain[1] /\ Boot[17 + 2] = EnterMain[2]
        /\ Boot[17 + 3] = EnterMain[3] /\ Boot[17 + 4] = EnterMain[4]
        /\ Boot[17 + 5] = EnterMain[5] /\ Boot[17 + 6] = EnterMain[6]
        /\ Boot[17 + 7] = EnterMain[7] /\ Boot[17 + 8] = EnterMain[8]
    BY <1>1
  <2>2. QED
    BY <2>1
<1>3. n \in 1 .. 10 => Boot[4 + n] = I("ADDiu", n, 0, 0, 0)
  BY BootIs
<1>4. /\ Boot[15] = I("ANDi", SWREG, 0, 0, 0)
      /\ Boot[16] = I("ORi", SWREG, SWREG, 0, EnableAll)
      /\ Boot[17] = I("ADDiu", FP, 0, 0, 0)
  BY BootIs
<1>5. QED
  BY <1>2, <1>3, <1>4, EnterIs

\* Where the registers are.
LEMMA Places ==
  /\ FP \in 11 .. 13 /\ SP \in 11 .. 13 /\ GP \in 11 .. 13
  /\ FP # SP /\ FP # GP /\ SP # GP
  /\ LR = 14 /\ SWREG = 15 /\ GPR = 0 .. 14
BY BootAssumption DEF LR, SWREG, GPR

-----------------------------------------------------------------------------
(* A step of the processor preserves the invariant. *)

\* What a register holds that no instruction writes for another.
LEMMA PutReads ==
  ASSUME NEW rf \in [GPR -> Word], NEW i, NEW v, NEW r \in GPR
  PROVE  /\ RegPut(rf, i, v)[r] = IF r = i THEN v ELSE rf[r]
         /\ i # 0 => RegSet(rf, i, v)[r] = IF r = i THEN v ELSE rf[r]
         /\ RegSet(rf, i, v)[0] = rf[0]
BY DEF RegPut, RegSet, GPR

\* $zero stays zero.
LEMMA ZeroStep ==
  ASSUME IInv, ZeroInv, Next, KeepsZero(code)
  PROVE  ZeroInv'
<1>1. /\ code \in Programs /\ R \in [GPR -> Word] /\ 0 \in GPR /\ LR \in GPR /\ LR # 0
  BY DEF IInv, TypeOK, GPR, LR
<1>2. CASE TakeInterrupt
  BY <1>2 DEF TakeInterrupt, InterruptDue, ZeroInv, Booted, slotVars, latches
<1>3. CASE TakeReset
  BY <1>1, <1>3 DEF TakeReset, ZeroInv, Booted, slotVars, latches
<1>4. CASE Fetch
  BY <1>4 DEF Fetch, Executes, ZeroInv, Booted, archVars
<1>5. CASE Decode
  <2>1. mar = pc0
    BY <1>5 DEF IInv, BusInv, BusDiscipline, Decode, Executes
  <2>2. ir' = Fetched(code, pc0) /\ Ra' = RegRead(R, SW, ir'.a)
    BY <1>5, <2>1 DEF Decode
  <2>3. ir'.op \in LoadOp \cup SetOp => ir'.a # 0
    BY <2>2 DEF KeepsZero, Fetched, Unknown, LoadOp, SetOp, SetRegOp, SetImmOp
  <2>4. state' = "Execute" /\ UNCHANGED <<code, pc0, R, SW>> /\ Booted
    BY <1>5 DEF Decode, Executes, archVars, Booted
  <2>5. QED
    BY <2>2, <2>3, <2>4 DEF ZeroInv, Booted
<1>6. CASE Execute
  <2>1. UNCHANGED latches /\ state' # "Execute" /\ Booted /\ inExe
    BY <1>6, ExecuteEnds DEF EndExecute, Booted
  <2>2. R[0] = 0 /\ (ir.op \in SetOp => ir.a # 0)
    BY <2>1 DEF ZeroInv
  <2>3. R'[0] = 0
    <3>1. CASE ExecAlu \/ ExecCondMove \/ ExecTrapping \/ ExecFromHiLo \/ ExecFromC0 \/ ExecCall
      <4>1. R' = R \/ \E i, v : R' = RegSet(R, i, v)
        BY <3>1 DEF ExecAlu, ExecCondMove, ExecTrapping, ExecFromHiLo, ExecFromC0, ExecCall
      <4>2. QED
        BY <1>1, <2>2, <4>1, PutReads
    <3>2. CASE ExecSet
      <4>1. ir.a # 0 /\ \E v : R' = RegPut(R, ir.a, v)
        BY <2>2, <3>2 DEF ExecSet, Executing
      <4>2. QED
        BY <1>1, <2>2, <4>1, PutReads
    <3>3. CASE ExecJump
      BY <1>1, <2>2, <3>3 DEF ExecJump
    <3>4. CASE ExecNop \/ ExecLoad \/ ExecStore \/ ExecCmp \/ ExecHiLo \/ ExecToHiLo
               \/ ExecToC0 \/ ExecBranch \/ ExecRet
      BY <2>2, <3>4 DEF ExecNop, ExecLoad, ExecStore, ExecCmp, ExecHiLo, ExecToHiLo,
         ExecToC0, ExecBranch, ExecRet
    <3>5. QED
      BY <1>6, <3>1, <3>2, <3>3, <3>4 DEF Execute
  <2>4. QED
    BY <2>1, <2>3 DEF ZeroInv, latches
<1>7. CASE MemAccess
  BY <1>7 DEF MemAccess, Executes, ZeroInv, Booted, archVars, slotVars, latches
<1>8. CASE WriteBackLoad
  <2>1. ir.a # 0 /\ R[0] = 0 /\ \E v : R' = RegPut(R, ir.a, v)
    BY <1>8 DEF WriteBackLoad, WriteBackCommon, Executes, ZeroInv, Booted
  <2>2. R'[0] = 0
    BY <1>1, <2>1, PutReads
  <2>3. QED
    BY <1>8, <2>2 DEF WriteBackLoad, WriteBackCommon, ZeroInv, latches
<1>9. CASE WriteBackOther
  BY <1>9 DEF WriteBackOther, WriteBackCommon, Executes, ZeroInv, Booted, latches
<1>10. CASE Finish
  BY <1>10 DEF Finish, vars, archVars, slotVars, latches, ZeroInv, Booted
<1>11. QED
  BY <1>2, <1>3, <1>4, <1>5, <1>6, <1>7, <1>8, <1>9, <1>10 DEF Next

\* What the kinds of instruction of RESET_START do, when no interrupt is due.
LEMMA AluDoes ==
  ASSUME Execute, inExe', ir.op \in {"ADDiu", "ANDi", "ORi", "LUi"}
  PROVE  /\ R' = RegSet(R, ir.a, Alu(ir.op, Rb, ir.cx))
         /\ SW' = SwPut(SW, ir.a, Alu(ir.op, Rb, ir.cx))
         /\ state' = "MemAccess"
         /\ UNCHANGED <<code, PC, nextInstIsDelaySlot, delaySlotNextPC, isDelaySlot, pc0, ir>>
<1>1. ExecAlu
  BY DEF Execute, Executing, ExecNop, ExecLoad, ExecStore, ExecCondMove,
     ExecTrapping, ExecCmp, ExecSet, ExecHiLo, ExecToHiLo, ExecFromHiLo, ExecFromC0,
     ExecToC0, ExecBranch, ExecJump, ExecCall, ExecRet, LoadOp, StoreOp, NopOp, MoveOp,
     TrapOp, SetOp, SetRegOp, SetImmOp, HiLoOp, ToHiLoOp, FromHiLoOp, ToC0Op, BranchOp,
     JumpOp, CallOp
<1>2. Second(ir, Rc) = ir.cx
  BY DEF Second, AluImmOp
<1>3. QED
  BY <1>1, <1>2 DEF ExecAlu, EndExecute, NoTransfer, latches

LEMMA FromC0Does ==
  ASSUME Execute, inExe', ir.op = "MFC0", ir.b = 0
  PROVE  /\ R' = RegSet(R, ir.a, PC) /\ SW' = SwPut(SW, ir.a, PC)
         /\ state' = "MemAccess"
         /\ UNCHANGED <<code, PC, nextInstIsDelaySlot, delaySlotNextPC, isDelaySlot, pc0, ir>>
<1>1. ExecFromC0
  BY DEF Execute, Executing, ExecNop, ExecLoad, ExecStore, ExecCondMove, ExecAlu,
     ExecTrapping, ExecCmp, ExecSet, ExecHiLo, ExecToHiLo, ExecFromHiLo,
     ExecToC0, ExecBranch, ExecJump, ExecCall, ExecRet, LoadOp, StoreOp, NopOp, MoveOp,
     AluOp, AluImmOp, AluRegOp, TrapOp, SetOp, SetRegOp, SetImmOp, HiLoOp, ToHiLoOp,
     FromHiLoOp, ToC0Op, BranchOp, JumpOp, CallOp
<1>2. QED
  BY <1>1 DEF ExecFromC0, C0Values, EndExecute, NoTransfer, latches

LEMMA RetDoes ==
  ASSUME Execute, inExe', ir.op = "RET"
  PROVE  /\ R' = R /\ SW' = SW /\ state' = "MemAccess"
         /\ nextInstIsDelaySlot' = TRUE /\ delaySlotNextPC' = Ra
         /\ UNCHANGED <<code, PC, isDelaySlot, pc0, ir>>
<1>1. ExecRet
  BY DEF Execute, Executing, ExecNop, ExecLoad, ExecStore, ExecCondMove, ExecAlu,
     ExecTrapping, ExecCmp, ExecSet, ExecHiLo, ExecToHiLo, ExecFromHiLo, ExecFromC0,
     ExecToC0, ExecBranch, ExecJump, ExecCall, LoadOp, StoreOp, NopOp, MoveOp,
     AluOp, AluImmOp, AluRegOp, TrapOp, SetOp, SetRegOp, SetImmOp, HiLoOp, ToHiLoOp,
     FromHiLoOp, ToC0Op, BranchOp, JumpOp, CallOp
<1>2. QED
  BY <1>1 DEF ExecRet, PCSet, EndExecute, latches

LEMMA NopDoes ==
  ASSUME Execute, inExe', ir.op = "NOP"
  PROVE  /\ R' = R /\ SW' = SW /\ state' = "MemAccess"
         /\ UNCHANGED <<code, PC, nextInstIsDelaySlot, delaySlotNextPC, isDelaySlot, pc0, ir>>
<1>1. ExecNop
  BY DEF Execute, Executing, ExecLoad, ExecStore, ExecCondMove, ExecAlu,
     ExecTrapping, ExecCmp, ExecSet, ExecHiLo, ExecToHiLo, ExecFromHiLo, ExecFromC0,
     ExecToC0, ExecBranch, ExecJump, ExecCall, ExecRet, LoadOp, StoreOp, NopOp, MoveOp,
     AluOp, AluImmOp, AluRegOp, TrapOp, SetOp, SetRegOp, SetImmOp, HiLoOp, ToHiLoOp,
     FromHiLoOp, ToC0Op, BranchOp, JumpOp, CallOp
<1>2. QED
  BY <1>1 DEF ExecNop, EndExecute, NoTransfer, latches

\* A constant is put in a register: SW and the other registers keep their values.
LEMMA PutDoes ==
  ASSUME R \in [GPR -> Word], NEW i \in 1 .. 14, NEW v,
         R' = RegSet(R, i, v), SW' = SwPut(SW, i, v)
  PROVE  SW' = SW /\ \A r \in GPR : R'[r] = IF r = i THEN v ELSE R[r]
<1>1. i # 0 /\ i # SWREG
  BY Places
<1>2. QED
  BY <1>1, PutReads DEF SwPut

\* Instruction n takes effect at its Execute.
LEMMA ExecuteDone ==
  ASSUME IInv, ZeroInv, Execute, inExe', NEW n \in 1 .. 21, pc0 = StartAddr(n),
         Ready(n - 1), GoesOn(n)
  PROVE  Done(n)' /\ ir'.op \notin LoadOp /\ state' = "MemAccess"
<1>1. /\ code \in Programs /\ R \in [GPR -> Word] /\ R[0] = 0 /\ ~nextInstIsDelaySlot
      /\ ir = Fetched(code, pc0) /\ Ra = RegRead(R, SW, ir.a)
      /\ Rb = RegRead(R, SW, ir.b)
  <2>1. inExe /\ state = "Execute"
    BY ExecuteEnds
  <2>2. QED
    BY <2>1 DEF IInv, TypeOK, ControlInv, BusInv, ZeroInv, Booted
<1>2. ir = Boot[4 + n]
  BY <1>1, StartCode
<1>3. /\ 0 \in Word /\ Alu("ADDiu", 0, 0) = 0 /\ Alu("ADDiu", 0, -1) = -1
      /\ \A x \in Word : Alu("ADDiu", x, 0) = x /\ Alu("ANDi", x, 0) = 0
  BY StartAssumption, WordAssumption DEF Word
<1>4. /\ RegRead(R, SW, 0) = 0 /\ RegRead(R, SW, 3) = R[3] /\ SWREG = 15
      /\ SwWord(SwFlags(0)) = 0
  BY <1>1, StartAssumption DEF RegRead, SWREG
<1> DEFINE Slots == UNCHANGED <<PC, nextInstIsDelaySlot, delaySlotNextPC, isDelaySlot>>
\* A constant put in a register leaves the rest alone.
<1>5. ASSUME NEW i \in 1 .. 14, NEW v, R' = RegSet(R, i, v), SW' = SwPut(SW, i, v)
      PROVE  SW' = SW /\ \A r \in 0 .. 14 : R'[r] = IF r = i THEN v ELSE R[r]
  BY <1>1, <1>5, PutDoes DEF GPR
<1>6. CASE n \in 1 .. 10
  <2>1. ir.op = "ADDiu" /\ ir.a = n /\ ir.b = 0 /\ ir.cx = 0
    BY <1>2, <1>6, StartIs DEF I
  <2>2. /\ R' = RegSet(R, n, 0) /\ SW' = SwPut(SW, n, 0) /\ state' = "MemAccess" /\ Slots
        /\ ir' = ir
    BY <1>1, <1>3, <1>4, <2>1, AluDoes
  <2>3. SW' = SW /\ \A r \in 0 .. 14 : R'[r] = IF r = n THEN 0 ELSE R[r]
    BY <1>5, <1>6, <2>2
  <2>4. Ready(n)'
    BY <1>6, <2>3 DEF Ready
  <2>5. QED
    BY <1>1, <1>6, <2>1, <2>2, <2>4 DEF Done, GoesOn, LoadOp
<1>7. CASE n = 11
  <2>1. ir.op = "ANDi" /\ ir.a = SWREG /\ ir.b = 0 /\ ir.cx = 0
    BY <1>2, <1>7, StartIs DEF I
  <2>2. /\ R' = RegSet(R, SWREG, 0) /\ SW' = SwPut(SW, SWREG, 0) /\ state' = "MemAccess"
        /\ Slots /\ ir' = ir
    BY <1>1, <1>3, <1>4, <2>1, AluDoes
  <2>3. R' = R /\ SW' = SwFlags(0)
    BY <2>2 DEF RegSet, RegPut, SwPut, GPR, SWREG
  <2>4. Ready(n)'
    BY <1>7, <2>3 DEF Ready
  <2>5. QED
    BY <1>1, <1>7, <2>1, <2>2, <2>4 DEF Done, GoesOn, LoadOp
<1>8. CASE n = 12
  <2>1. ir.op = "ORi" /\ ir.a = SWREG /\ ir.b = SWREG /\ ir.cx = EnableAll
    BY <1>2, <1>8, StartIs DEF I
  <2>2. Rb = 0
    BY <1>1, <1>4, <1>8, <2>1 DEF Ready, RegRead
  <2>3. /\ R' = RegSet(R, SWREG, EnableAll) /\ SW' = SwPut(SW, SWREG, EnableAll)
        /\ state' = "MemAccess" /\ Slots /\ ir' = ir
    BY <2>1, <2>2, AluDoes, StartAssumption
  <2>4. R' = R /\ SW' = SwFlags(EnableAll)
    BY <2>3 DEF RegSet, RegPut, SwPut, GPR, SWREG
  <2>5. Ready(n)'
    BY <1>8, <2>4 DEF Ready
  <2>6. QED
    BY <1>1, <1>8, <2>1, <2>3, <2>5 DEF Done, GoesOn, LoadOp
<1>9. CASE n \in 13 .. 15
  <2> DEFINE i == IF n = 13 THEN FP ELSE IF n = 14 THEN GP ELSE LR
             v == IF n = 15 THEN -1 ELSE 0
  <2>1. ir.op = "ADDiu" /\ ir.a = i /\ ir.b = 0 /\ ir.cx = v
    BY <1>2, <1>9, StartIs DEF I
  <2>2. /\ R' = RegSet(R, i, v) /\ SW' = SwPut(SW, i, v) /\ state' = "MemAccess" /\ Slots
        /\ ir' = ir
    BY <1>1, <1>3, <1>4, <2>1, AluDoes
  <2>3. i \in 1 .. 14
    BY Places
  <2>4. SW' = SW /\ \A r \in 0 .. 14 : R'[r] = IF r = i THEN v ELSE R[r]
    BY <1>5, <2>2, <2>3
  <2>5. Ready(n)'
    BY <1>9, <2>4, Places DEF Ready
  <2>6. QED
    BY <1>1, <1>9, <2>1, <2>2, <2>5 DEF Done, GoesOn, LoadOp
<1>10. CASE n \in 16 .. 17
  <2>1. ir.op \in {"LUi", "ADDiu"} /\ ir.a = SP
    BY <1>2, <1>10, StartIs DEF I
  <2>2. PICK v : /\ R' = RegSet(R, SP, v) /\ SW' = SwPut(SW, SP, v)
                 /\ state' = "MemAccess" /\ Slots /\ ir' = ir
    BY <2>1, AluDoes
  <2>3. SW' = SW /\ \A r \in 0 .. 14 : R'[r] = IF r = SP THEN v ELSE R[r]
    BY <1>5, <2>2, Places
  <2>4. Ready(n)'
    BY <1>10, <2>3, Places DEF Ready
  <2>5. QED
    BY <1>1, <1>10, <2>1, <2>2, <2>4 DEF Done, GoesOn, LoadOp
<1>11. CASE n = 18
  <2>1. ir.op = "MFC0" /\ ir.a = 3 /\ ir.b = 0
    BY <1>2, <1>11, StartIs DEF I
  <2>2. /\ R' = RegSet(R, 3, PC) /\ SW' = SwPut(SW, 3, PC) /\ state' = "MemAccess" /\ Slots
        /\ ir' = ir
    BY <2>1, FromC0Does
  <2>3. SW' = SW /\ \A r \in 0 .. 14 : R'[r] = IF r = 3 THEN PC ELSE R[r]
    BY <1>5, <2>2
  <2>4. PC = StartAddr(18 + 1) /\ 18 + 1 = 19
    BY <1>11 DEF GoesOn
  <2>5. Ready(n)'
    BY <1>11, <2>3, <2>4, Places DEF Ready
  <2>6. QED
    BY <1>1, <1>11, <2>1, <2>2, <2>5 DEF Done, GoesOn, LoadOp
<1>12. CASE n = 19
  <2>1. ir.op = "ADDiu" /\ ir.a = 3 /\ ir.b = 3 /\ ir.cx = 8
    BY <1>2, <1>12, StartIs DEF I
  <2>2. Rb = StartAddr(19)
    BY <1>1, <1>4, <1>12, <2>1 DEF Ready
  <2>3. /\ R' = RegSet(R, 3, StartAddr(21)) /\ SW' = SwPut(SW, 3, StartAddr(21))
        /\ state' = "MemAccess" /\ Slots /\ ir' = ir
    BY <2>1, <2>2, AluDoes, StartAssumption
  <2>4. SW' = SW /\ \A r \in 0 .. 14 : R'[r] = IF r = 3 THEN StartAddr(21) ELSE R[r]
    BY <1>5, <2>3
  <2>5. Ready(n)'
    BY <1>12, <2>4, Places DEF Ready
  <2>6. QED
    BY <1>1, <1>12, <2>1, <2>3, <2>5 DEF Done, GoesOn, LoadOp
<1>13. CASE n = 20
  <2>1. ir.op = "RET" /\ ir.a = 3
    BY <1>2, <1>13, StartIs DEF I
  <2>2. Ra = StartAddr(21)
    BY <1>1, <1>4, <1>13, <2>1 DEF Ready
  <2>3. /\ R' = R /\ SW' = SW /\ state' = "MemAccess" /\ nextInstIsDelaySlot'
        /\ delaySlotNextPC' = StartAddr(21) /\ UNCHANGED <<PC, isDelaySlot, ir>>
    BY <2>1, <2>2, RetDoes
  <2>4. Ready(n)'
    BY <1>13, <2>3, Places DEF Ready
  <2>5. QED
    BY <1>1, <1>13, <2>1, <2>3, <2>4 DEF Done, GoesOn, LoadOp
<1>14. CASE n = 21
  <2>1. ir.op = "NOP"
    BY <1>2, <1>14, StartIs DEF I, Nop
  <2>2. R' = R /\ SW' = SW /\ state' = "MemAccess" /\ Slots /\ ir' = ir
    BY <2>1, NopDoes
  <2>3. Ready(n)'
    BY <1>14, <2>2, Places DEF Ready
  <2>4. QED
    BY <1>1, <1>14, <2>1, <2>2, <2>3 DEF Done, GoesOn, LoadOp
<1>15. QED
  BY <1>6, <1>7, <1>8, <1>9, <1>10, <1>11, <1>12, <1>13, <1>14

\* Control came to instruction n, or to main as the 22nd, from the one before it,
\* or to the last one from itself.
LEMMA CameFrom ==
  ASSUME \A j \in 1 .. 21 : StartInv(j), EntersAtTop, inExe, state = "Fetch",
         NEW n \in 2 .. 22, PC = StartAddr(n)
  PROVE  \E j \in 1 .. 21 : Done(j) /\ IF isDelaySlot THEN j = 21 /\ n = 21 ELSE n = j + 1
<1>0. PC = StartAddr(n) /\ StartAddr(n) = 12 + 4 * n /\ n \in Int
  BY Addresses
<1>1. PC \in Inside
  <2>1. n - 1 \in 1 .. 21 /\ n - 1 + 1 = n
    OBVIOUS
  <2>2. QED
    BY <2>1, Addresses
<1>2. pc0 \in StartUp /\ (pc0 = ResetStart => ~isDelaySlot)
  BY <1>1 DEF EntersAtTop
<1>3. PICK j \in 1 .. 21 : pc0 = StartAddr(j)
  BY <1>2, Addresses
<1>4. Done(j)
  BY <1>1, <1>3 DEF StartInv
<1>5. j = 1 => ~isDelaySlot
  BY <1>2, <1>3, Addresses
<1>6. CASE isDelaySlot
  <2>1. PC = StartAddr(21) /\ j \notin 2 .. 20
    BY <1>4, <1>5, <1>6 DEF Done, GoesOn
  <2>2. n = 21
    <3>1. StartAddr(21) = 96
      BY Addresses
    <3>2. QED
      BY ONLY <1>0, <2>1, <3>1
  <2>3. j = 21
    BY <1>5, <1>6, <2>1
  <2>4. QED
    BY <1>4, <1>6, <2>2, <2>3
<1>7. CASE ~isDelaySlot
  <2>1. PC = StartAddr(j + 1)
    BY <1>4, <1>7 DEF Done, GoesOn
  <2>2. n = j + 1
    <3>1. j \in Int /\ StartAddr(j + 1) = 16 + 4 * j
      BY Addresses
    <3>2. QED
      BY ONLY <1>0, <2>1, <3>1
  <2>3. QED
    BY <1>4, <1>7, <2>2
<1>8. QED
  BY <1>6, <1>7

\* The invariant of each instruction of RESET_START is kept by every step.
LEMMA StartStep ==
  ASSUME IInv, ZeroInv, \A j \in 1 .. 21 : StartInv(j), EntersAtTop, Next,
         NEW n \in 1 .. 21
  PROVE  StartInv(n)'
<1>1. SUFFICES ASSUME inExe', pc0' = StartAddr(n)
      PROVE  /\ state' \in {"Decode", "Execute"} => Ready(n - 1)' /\ GoesOn(n)'
             /\ state' \in {"MemAccess", "WriteBack"} => Done(n)' /\ ir'.op \notin LoadOp
             /\ state' = "Fetch" /\ PC' \in Inside => Done(n)'
  BY DEF StartInv
<1>2. 8 \notin Inside /\ 0 \notin Inside
  BY Addresses
<1>3. StartInv(n)
  OBVIOUS
<1>4. CASE TakeInterrupt
  BY <1>2, <1>4 DEF TakeInterrupt, InterruptDue
<1>5. CASE TakeReset
  BY <1>2, <1>5 DEF TakeReset
<1>6. CASE Fetch
  <2>1. /\ inExe /\ state = "Fetch" /\ PC = StartAddr(n) /\ state' = "Decode"
        /\ isDelaySlot' = nextInstIsDelaySlot /\ R' = R /\ SW' = SW
        /\ PC' = IF nextInstIsDelaySlot THEN delaySlotNextPC ELSE Wrap(PC + 4)
    BY <1>1, <1>6 DEF Fetch, Executes, archVars
  <2>2. Wrap(PC + 4) = StartAddr(n + 1)
    BY <2>1, NextAddr
  <2>3. CASE n = 1
    BY <2>1, <2>2, <2>3 DEF Ready, GoesOn
  <2>4. CASE n \in 2 .. 21
    <3>1. PICK j \in 1 .. 21 : Done(j) /\ IF isDelaySlot THEN j = 21 /\ n = 21 ELSE n = j + 1
      BY <2>1, <2>4, CameFrom
    <3>2. CASE j = 21
      <4>1. n = 21 /\ ~nextInstIsDelaySlot /\ Ready(21)
        BY <3>1, <3>2 DEF Done
      <4>2. QED
        BY <2>1, <2>2, <4>1 DEF Ready, GoesOn
    <3>3. CASE j = 20
      <4>1. n = 21 /\ nextInstIsDelaySlot /\ Ready(20) /\ delaySlotNextPC = StartAddr(21)
        BY <3>1, <3>3 DEF Done
      <4>2. QED
        BY <2>1, <4>1 DEF Ready, GoesOn
    <3>4. CASE j \in 1 .. 19
      <4>1. n = j + 1 /\ ~nextInstIsDelaySlot /\ Ready(j) /\ j = n - 1
        BY <3>1, <3>4 DEF Done
      <4>2. QED
        BY <2>1, <2>2, <3>4, <4>1 DEF Ready, GoesOn
    <3>5. QED
      BY <3>2, <3>3, <3>4
  <2>5. QED
    BY <2>3, <2>4
<1>7. CASE Decode
  <2>1. /\ inExe /\ state = "Decode" /\ state' = "Execute" /\ pc0' = pc0
        /\ UNCHANGED <<R, SW, PC, isDelaySlot>>
    BY <1>7 DEF Decode, Executes, archVars, slotVars
  <2>2. Ready(n - 1) /\ GoesOn(n)
    BY <1>1, <1>3, <2>1 DEF StartInv
  <2>3. QED
    BY <2>1, <2>2 DEF Ready, GoesOn
<1>8. CASE Execute
  <2>1. inExe /\ state = "Execute" /\ pc0' = pc0
    BY <1>8, ExecuteEnds DEF EndExecute, latches
  <2>2. Ready(n - 1) /\ GoesOn(n)
    BY <1>1, <1>3, <2>1 DEF StartInv
  <2>3. Done(n)' /\ ir'.op \notin LoadOp /\ state' = "MemAccess"
    BY <1>1, <1>8, <2>1, <2>2, ExecuteDone
  <2>4. QED
    BY <2>3
<1>9. CASE MemAccess
  <2>1. /\ inExe /\ state = "MemAccess" /\ state' = "WriteBack" /\ pc0' = pc0 /\ ir' = ir
        /\ UNCHANGED <<R, SW, PC, slotVars>>
    BY <1>9 DEF MemAccess, Executes, archVars, latches
  <2>2. Done(n) /\ ir.op \notin LoadOp
    BY <1>1, <1>3, <2>1 DEF StartInv
  <2>3. QED
    BY <2>1, <2>2 DEF Done, Ready, GoesOn, slotVars
<1>10. CASE WriteBackLoad
  BY <1>1, <1>3, <1>10 DEF WriteBackLoad, WriteBackCommon, Executes, StartInv, latches
<1>11. CASE WriteBackOther
  <2>1. /\ inExe /\ state = "WriteBack" /\ state' = "Fetch" /\ pc0' = pc0
        /\ UNCHANGED <<R, SW, PC, slotVars>>
    BY <1>11 DEF WriteBackOther, WriteBackCommon, Executes, latches
  <2>2. Done(n)
    BY <1>1, <1>3, <2>1 DEF StartInv
  <2>3. QED
    BY <2>1, <2>2 DEF Done, Ready, GoesOn, slotVars
<1>12. CASE Finish
  BY <1>1, <1>3, <1>12 DEF Finish, vars, archVars, slotVars, latches, StartInv, Done,
     Ready, GoesOn
<1>13. QED
  BY <1>4, <1>5, <1>6, <1>7, <1>8, <1>9, <1>10, <1>11, <1>12 DEF Next

\* So is that of the entry to main, from the last of them.
LEMMA EntryStep ==
  ASSUME \A j \in 1 .. 21 : StartInv(j), EntersAtTop, EntryInv, Next
  PROVE  EntryInv'
<1>1. SUFFICES ASSUME inExe', state' = "Decode", pc0' = MainAddr
      PROVE  Ready(21)' /\ ~isDelaySlot'
  BY DEF EntryInv, AtMain
<1>m. MainAddr = StartAddr(22)
  <2>1. StartAddr(22) = 12 + 4 * 22 /\ MainAddr = 100
    BY Addresses
  <2>2. QED
    BY <2>1
<1>2. CASE Fetch
  <2>1. /\ inExe /\ state = "Fetch" /\ PC = StartAddr(22)
        /\ isDelaySlot' = nextInstIsDelaySlot /\ R' = R /\ SW' = SW
    BY <1>1, <1>2, <1>m DEF Fetch, Executes, archVars
  <2>2. PICK j \in 1 .. 21 :
          Done(j) /\ IF isDelaySlot THEN j = 21 /\ 22 = 21 ELSE 22 = j + 1
    BY <2>1, CameFrom
  <2>3. Ready(21) /\ ~nextInstIsDelaySlot
    BY <2>2 DEF Done
  <2>4. QED
    BY <2>1, <2>3 DEF Ready
<1>3. CASE Finish
  BY <1>1, <1>3 DEF Finish, vars, archVars, slotVars, latches, EntryInv, AtMain, Ready
<1>4. CASE Execute
  BY <1>1, <1>4, ExecuteEnds DEF EndExecute
<1>5. CASE TakeInterrupt \/ TakeReset \/ Decode \/ MemAccess \/ WriteBackLoad
           \/ WriteBackOther
  BY <1>1, <1>5 DEF TakeInterrupt, InterruptDue, TakeReset, Decode, MemAccess,
     WriteBackLoad, WriteBackOther, WriteBackCommon
<1>6. QED
  BY <1>2, <1>3, <1>4, <1>5 DEF Next

-----------------------------------------------------------------------------
(* The theorems about the start-up code. *)

\* Each instruction of RESET_START finds what the ones before it left, in every
\* run in which control enters start-up code and main only at their first
\* instruction (EntersAtTop), of every program that leaves $zero alone.
THEOREM StartUpRuns ==
  ASSUME \A p \in Programs : KeepsZero(p)
  PROVE  Spec /\ []EntersAtTop => []BootInv
<1>1. Init => BootInv
  BY DEF Init, BootInv, ZeroInv, Booted, StartInv, EntryInv, AtMain, Unknown, LoadOp,
     SetOp, SetRegOp, SetImmOp
<1>2. IInv /\ EntersAtTop /\ BootInv /\ [Next]_vars => BootInv'
  <2>1. ASSUME IInv, EntersAtTop, BootInv, Next PROVE BootInv'
    <3>1. ZeroInv /\ (\A j \in 1 .. 21 : StartInv(j)) /\ EntryInv
      BY <2>1 DEF BootInv
    <3>2. KeepsZero(code)
      BY <2>1 DEF IInv, TypeOK
    <3>3. ZeroInv'
      BY <2>1, <3>1, <3>2, ZeroStep
    <3>4. \A n \in 1 .. 21 : StartInv(n)'
      BY <2>1, <3>1, StartStep
    <3>5. EntryInv'
      BY <2>1, <3>1, EntryStep
    <3>6. QED
      BY <3>3, <3>4, <3>5 DEF BootInv
  <2>2. ASSUME BootInv, UNCHANGED vars PROVE BootInv'
    BY <2>2 DEF vars, archVars, slotVars, latches, BootInv, ZeroInv, Booted, StartInv,
       EntryInv, AtMain, Done, Ready, GoesOn
  <2>3. QED
    BY <2>1, <2>2
<1>3. QED
  BY <1>1, <1>2, Inductive, PTL DEF Spec

\* main starts as start.h sets it up.
THEOREM MainStarts ==
  ASSUME \A p \in Programs : KeepsZero(p)
  PROVE  Spec /\ []EntersAtTop => []MainEnvironment
<1>1. IInv /\ BootInv => MainEnvironment
  <2> SUFFICES ASSUME IInv, BootInv, AtMain
               PROVE  /\ \A k \in GPR \ {3, SP, LR} : R[k] = 0
                      /\ R[LR] = -1
                      /\ SW = SwFlags(EnableAll) /\ ~Irq(SW)
                      /\ ~nextInstIsDelaySlot /\ ~isDelaySlot
    BY DEF MainEnvironment
  <2>1. Ready(21) /\ ~isDelaySlot
    BY DEF BootInv, EntryInv
  <2>2. R[0] = 0 /\ ~nextInstIsDelaySlot
    BY DEF BootInv, ZeroInv, Booted, AtMain, IInv, ControlInv
  <2>3. (\A k \in (1 .. 10) \ {3} : R[k] = 0) /\ R[FP] = 0 /\ R[GP] = 0 /\ R[LR] = -1
        /\ SW = SwFlags(EnableAll)
    BY <2>1 DEF Ready
  <2>4. \A k \in GPR \ {3, SP, LR} : R[k] = 0
    BY <2>2, <2>3, Places
  <2>5. QED
    BY <2>1, <2>2, <2>3, <2>4, StartAssumption
<1>2. QED
  BY <1>1, StartUpRuns, Inductive, PTL
=============================================================================
