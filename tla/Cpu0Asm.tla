------------------------------- MODULE Cpu0Asm -------------------------------
(***************************************************************************)
(* The load pseudo instructions of Cpu0AsmParser.cpp (LoadImm32Reg,        *)
(* LoadAddr32Imm and LoadAddr32Reg): what MatchAndEmitInstruction emits    *)
(* for them, and what the processor makes of it.  RegFile 0 is $zero.      *)
(***************************************************************************)
EXTENDS Cpu0Widths, Sequences

Inst(op, d, s, y) == [op |-> op, d |-> d, s |-> s, y |-> y]
Zero0 == 0

hi16(j) == U(j) \div Power[ImmBits]
lo16(j) == U(j) % Power[ImmBits]
simm16 == -(Power[ImmBits - 1]) .. Power[ImmBits - 1] - 1

Wide(d, j) == <<Inst("LUi", d, Zero0, hi16(j)), Inst("ORi", d, d, lo16(j))>>

\* Mutant: the range of ADDiu for ORi.
expandLoadImm_Signed(d, j) ==
  IF j \in simm16 THEN <<Inst("ORi", d, Zero0, j)>> ELSE Wide(d, j)

expandLoadImm(d, j) ==
  IF j \in 0 .. Power[ImmBits] - 1 THEN <<Inst("ORi", d, Zero0, j)>>
  ELSE IF j \in simm16 THEN <<Inst("ADDiu", d, Zero0, j)>>
  ELSE Wide(d, j)

expandLoadAddressImm(d, j) ==
  IF j \in simm16 THEN <<Inst("ADDiu", d, Zero0, j)>> ELSE Wide(d, j)

expandLoadAddressReg(d, s, j) ==
  IF j \in simm16 THEN <<Inst("ADDiu", d, s, j)>>
  ELSE Append(Wide(d, j), Inst("ADD", d, d, s))

\* expandInstruction; the operand is an int64_t of which an int is kept.
expandInstruction(op, d, s, j) ==
  CASE op = "LoadImm32Reg" -> expandLoadImm(d, S(j))
    [] op = "LoadAddr32Imm" -> expandLoadAddressImm(d, S(j))
    [] op = "LoadAddr32Reg" -> expandLoadAddressReg(d, s, S(j))

\* The registers after a sequence: constants reach the datapath sign-extended
\* from their field, and $zero is not written.
Field(y) == ((y + Power[ImmBits - 1]) % Power[ImmBits]) - Power[ImmBits - 1]
Executed(rf, seq) ==
  LET after[k \in 0 .. Len(seq)] ==
        IF k = 0 THEN rf
        ELSE LET i == seq[k]
                 r == after[k - 1]
                 y == IF i.op = "ADD" THEN r[i.y] ELSE Field(i.y)
             IN  IF i.d = Zero0 THEN r ELSE [r EXCEPT ![i.d] = Result(i.op, r[i.s], y)]
  IN  after[Len(seq)]
=============================================================================
