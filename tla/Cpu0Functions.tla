---------------------------- MODULE Cpu0Functions ----------------------------
(***************************************************************************)
(* The pure functions of the tools and of the simulator, called once each  *)
(* and compared with what they are for.                                    *)
(***************************************************************************)
EXTENDS Cpu0AnalyzeImm, Cpu0Asm, Cpu0Print, Cpu0ByVal, Cpu0Mc

CONSTANTS
  SpValues,    \* values of the stack pointer
  Contents,    \* contents of memory
  Data,        \* words to store
  RegFiles,    \* contents of the registers
  Opcodes,     \* opcodes of branches and jumps, of one byte
  RegFields,   \* register fields of a branch, of one byte
  Beyond,      \* how far beyond its field a displacement goes
  HighHalves   \* high halves of values

\* The bytes of memory, unlike those of instructions, have eight bits.
MemByte == 0 .. 255
Regs == 0 .. 2

ASSUME InputAssumption ==
  /\ MEMSIZE \in Nat /\ MEMSIZE % 4 = 0
  /\ SpValues \subseteq SignedWord
  /\ Contents \subseteq [Address -> MemByte] /\ Data \subseteq [0 .. 3 -> MemByte]
  /\ RegFiles \subseteq {rf \in [Regs -> SignedWord] : rf[Zero0] = 0}
  /\ Opcodes \subseteq 0 .. Byte - 1 /\ RegFields \subseteq 0 .. Byte - 1
  /\ Beyond \in Nat
  /\ HighHalves \subseteq 0 .. Range16 - 1

\* The call last made, and what it returned.
VARIABLE call

Init == call = [fn |-> "none"]
Fresh == call.fn = "none"

Immediates == -SignBit .. Modulus - 1
StackAdjusted ==
  \E sp \in SpValues, amount \in Immediates :
    call' = [fn |-> "adjustStackPtr", sp |-> sp, amount |-> amount,
             seq |-> Analyze(Imm64(amount)), at |-> loadImmediate(amount),
             out |-> adjustStackPtr(sp, amount)]

Stored ==
  \E old \in Contents, le \in BOOLEAN, a \in Address, n \in {1, 2, 4}, d \in Data :
    call' = [fn |-> "store", old |-> old, le |-> le, a |-> a, n |-> n, d |-> d,
             mem |-> Write(old, le, a, n, d)]

\* From a structure at src, whose bytes are in memory, to the object of the callee.
Copied ==
  \E old \in Contents, le \in BOOLEAN, size \in 1 .. 4,
     src \in 0 .. MEMSIZE - 8, object \in 0 .. MEMSIZE - 4 :
    call' = [fn |-> "byval", old |-> old, le |-> le, size |-> size, src |-> src,
             object |-> object,
             mem |-> copyByValRegs(old, le, object, passByValArg(old, le, src, size))]

Pseudo == {"LoadImm32Reg", "LoadAddr32Imm", "LoadAddr32Reg"}
Expanded ==
  \E op \in Pseudo, rf \in RegFiles, d \in Regs, s \in Regs, j \in Immediates :
    call' = [fn |-> "expand", op |-> op, rf |-> rf, d |-> d, s |-> s, j |-> j,
             out |-> Executed(rf, expandInstruction(op, d, s, j))]

Printed ==
  \E i \in SignedWord : call' = [fn |-> "print", i |-> i, out |-> print_integer(i)]

Operator == {"got_hi", "got_lo", "gp_rel", "got", "hi", "lo", "call16", "call_hi",
             "tlsgd", "tp_lo"}
Fixup ==
  \E operator \in Operator :
    call' = [fn |-> "operator", operator |-> operator, kind |-> getExprOpValue(operator)]

\* An instruction, whose offset is still zero, with a target v away.
Instruction(operand, opcode, field) ==
  opcode * Range24 + (IF operand = "brtarget16" THEN field * Range16 ELSE 0)
Reach(operand) == OperandRange(operand) \div 2
Linked ==
  \E operand \in {"brtarget16", "brtarget24", "jmptarget"}, le \in BOOLEAN,
     opcode \in Opcodes, field \in RegFields :
    \E v \in -(Reach(operand) + Beyond) .. Reach(operand) + Beyond :
      LET insn == Instruction(operand, opcode, field)
      IN  call' = [fn |-> "branch", operand |-> operand, le |-> le, v |-> v, insn |-> insn,
                   out |-> applyFixup(le, TargetFixup(operand), EmitInstruction(le, insn), v)]

HiLo ==
  \E hi \in HighHalves, lo \in 0 .. Range16 - 1 :
    LET v == hi * Range16 + lo IN call' = [fn |-> "hilo", v |-> v, out |-> HiLoPair(v)]

Decoded ==
  \E operand \in {"brtarget16", "brtarget24", "jmptarget", "simm16"} :
    \E field \in 0 .. OperandRange(operand) - 1 :
      call' = [fn |-> "decode", operand |-> operand, field |-> field,
               out |-> Decode(operand, field)]

Next ==
  /\ Fresh
  /\ \/ StackAdjusted \/ Stored \/ Copied \/ Expanded
     \/ Printed \/ Fixup \/ Linked \/ HiLo \/ Decoded

Spec == Init /\ [][Next]_call

(***************************************************************************)
(* Properties.                                                             *)
(***************************************************************************)
\* A stack pointer moves by exactly the amount asked for, modulo a word,
\* through the one register $at and at most seven instructions, of which only
\* the first may be a LUi: it reads no register.
StackAdjustExact ==
  call.fn = "adjustStackPtr" =>
    /\ call.at = S(call.amount)
    /\ call.out = S(call.sp + call.amount)
    /\ Len(call.seq) \in 1 .. 7
    /\ \A k \in 2 .. Len(call.seq) : call.seq[k].op # "LUi"

Value(n, d) == IF n = 1 THEN d[0] ELSE IF n = 2 THEN d[0] + 256 * d[1]
               ELSE d[0] + 256 * d[1] + 65536 * d[2]
\* In both byte orders a store is read back, sign-extended by LB and LH, by a
\* load of its size; the bytes it does not cover keep their values; and the
\* bytes of an aligned word are the loads of one byte at its addresses, in
\* the order of the endianness.  All of it for the addresses up to MEMSIZE-4
\* only: above, no store arrives and loads of any size see an undriven bus.
MemoryExact ==
  call.fn = "store" =>
    LET m == call.mem
        d == call.d
        back == Read(m, call.le, call.a, call.n)
    IN IF call.a > MEMSIZE - 4
         THEN m = call.old /\ \A n \in {1, 2, 4} : Read(m, call.le, call.a, n) = HighZ
         ELSE /\ \A k \in 0 .. 3 : back[k] = IF k < call.n THEN d[k] ELSE 0
              /\ \A k \in 0 .. 3 : Extend(call.n, back)[k] =
                   IF k < call.n THEN d[k]
                   ELSE IF Value(call.n, d) >= 128 * Power[8 * (call.n - 1)] THEN 255 ELSE 0
              /\ \A x \in Address \ (call.a .. call.a + call.n - 1) : m[x] = call.old[x]
              /\ \A x \in {y \in Address : y % 4 = 0 /\ y + 3 <= MEMSIZE - 4} : \A k \in 0 .. 3 :
                   Read(m, call.le, x, 4)[k]
                     = Read(m, call.le, IF call.le THEN x + k ELSE x + 3 - k, 1)[0]

\* The callee finds the bytes of a structure passed in a register in their
\* order, whatever its size and the byte order.
ByValArrives ==
  call.fn = "byval" => \A k \in 0 .. call.size - 1 : call.mem[call.object + k] = call.old[call.src + k]

\* li and la leave the constant, and la with a base the sum of both, in their
\* destination and change no other register; unless the base of a constant
\* that does not fit 16 bits is also the destination, which is overwritten
\* before it is read: it is then twice the constant.
ExpansionExact ==
  call.fn = "expand" =>
    LET base == IF call.op = "LoadAddr32Reg" THEN call.rf[call.s] ELSE 0
        wide == S(call.j) \notin simm16
        lost == call.op = "LoadAddr32Reg" /\ call.d = call.s /\ wide
    IN  call.out = [call.rf EXCEPT ![call.d] =
                      IF call.d = 0 THEN 0
                      ELSE IF lost THEN S(2 * call.j) ELSE S(call.j + base)]

\* What print_integer stores spells the integer, the most negative one
\* included, in decimal digits without leading zeros, and fits its buffer.
Spelled(digits) ==
  LET sum[k \in 0 .. Len(digits)] == IF k = 0 THEN 0 ELSE 10 * sum[k - 1] + digits[k]
  IN  sum[Len(digits)]
PrintExact ==
  call.fn = "print" =>
    LET str == SubSeq(call.out, 1, Len(call.out) - 2)
        digits == IF call.i < 0 THEN Tail(str) ELSE str
    IN  /\ \A k \in DOMAIN digits : digits[k] \in 0 .. 9
        /\ call.i = IF call.i < 0 THEN -Spelled(digits) ELSE Spelled(digits)
        /\ digits[1] = 0 => call.i = 0
        /\ call.i < 0 => str[1] = "-"
        /\ Len(str) <= INT_DIGITS + 1

\* Every relocation operator that the encoder accepts has a fixup whose entry
\* in the table of the backend is its own and, CALL16 apart, covers the 16
\* bits of the operand; the rest of the operators the parser accepts end the
\* encoder in llvm_unreachable.
FixupTable ==
  call.fn = "operator" =>
    /\ call.kind = "unreachable" <=> call.operator \in {"call_hi", "tlsgd", "tp_lo"}
    /\ call.kind # "unreachable" =>
         IF call.kind = "CALL16" THEN getFixupKindInfo(call.kind).bytes = 0
         ELSE getFixupKindInfo(call.kind) = Info(call.kind, 2)

\* The processor adds the sign-extended field to the address of the next
\* instruction.  A branch emitted, fixed up and fetched in either byte order
\* goes to its target exactly if the displacement from that instruction fits
\* the field, and keeps its own bits in any case; out of reach, it silently
\* goes elsewhere.
DisplacementExact ==
  call.fn = "branch" =>
    LET range == OperandRange(call.operand)
        fetched == readInstruction32(call.le, call.out)
    IN  /\ fetched - (fetched % range) = call.insn
        /\ (4 + Signed(fetched % range, range) = call.v)
             <=> call.v - 4 \in -(range \div 2) .. range \div 2 - 1

\* lui with %hi and ori with %lo build an absolute value exactly if bit 15 is
\* clear: %hi is rounded for a low half that is sign-extended, and ori
\* zero-extends.
HiLoExact ==
  call.fn = "hilo" =>
    (call.out = call.v <=> call.v % Range16 < Range16 \div 2)

\* What getAddrNonPIC says of the pair.  Violated.
HiLoIsSum == call.fn = "hilo" => call.out = call.v

\* Disassembled operands assemble to the same field.  The offset shown is the
\* one the processor uses for 16-bit constants always; for 16-bit branches
\* except the fields 0x8000 to 0x8fff, taken for positive; for 24-bit branches
\* only the fields up to 0x8ffff; for jumps and calls if it is not negative.
DecodeExact ==
  call.fn = "decode" =>
    LET range == OperandRange(call.operand)
        shown == \/ call.operand = "simm16"
                 \/ call.operand = "brtarget16"
                    /\ call.field \notin range \div 2 .. Threshold16
                 \/ call.operand = "brtarget24" /\ call.field <= Threshold24
                 \/ call.operand = "jmptarget" /\ call.field < range \div 2
    IN  /\ Encode(call.operand, call.out) = call.field
        /\ call.out = Signed(call.field, range) <=> shown
=============================================================================
