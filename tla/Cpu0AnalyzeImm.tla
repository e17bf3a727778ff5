---------------------------- MODULE Cpu0AnalyzeImm ----------------------------
(***************************************************************************)
(* Constants that do not fit one instruction: the search of                *)
(* Cpu0AnalyzeImmediate.cpp for a short sequence of ADDiu, ORi, SHL and    *)
(* LUi, and its use by loadImmediate and adjustStackPtr of                 *)
(* Cpu0SEInstrInfo.cpp.                                                    *)
(*                                                                         *)
(* Imm is a uint64_t in the source, twice as wide as a word of Bits bits,  *)
(* of which an instruction holds ImmBits; Size is Bits.                    *)
(***************************************************************************)
EXTENDS Cpu0Widths, Sequences

\* Amounts of shifts are positive constants, as 31 is of 16 bits.
ASSUME AmountAssumption == Bits <= Power[ImmBits - 1]

Imm64(v) == v % (Modulus * Modulus)
LowPart(imm) == imm % Power[ImmBits]
HighPart(imm) == imm - LowPart(imm)
SignExtend(imm) == LET h == Power[ImmBits - 1] IN ((imm + h) % (2 * h)) - h
isInt16(v) == v \in -(Power[ImmBits - 1]) .. Power[ImmBits - 1] - 1

I(op, imm) == [op |-> op, imm |-> imm]

AddInstr(seqs, i) ==
  IF seqs = <<>> THEN <<<<i>>>> ELSE [k \in DOMAIN seqs |-> Append(seqs[k], i)]

countTrailingZeros(imm) ==
  CHOOSE n \in 0 .. 2 * Bits : imm % Power[n] = 0 /\ imm % Power[n + 1] # 0

\* Mutant: the upper part is not raised for a lower part that ADDiu subtracts.
Raised_NoCarry(imm) == HighPart(imm)

\* What has to be there before an ADDiu of the lower part.
Raised(imm) == HighPart(Imm64(imm + Power[ImmBits - 1]))

\* GetInstSeqLs and its three branches, of Imm and RemSize: Size, or what a
\* shift, by ImmBits at least, has left.
GetInstSeqLs[p \in (0 .. Modulus * Modulus - 1) \X ((0 .. ImmBits) \cup {Bits})] ==
  LET imm == p[1]
      rem == p[2]
      masked == imm % Modulus
      n == countTrailingZeros(imm)
  IN  IF masked = 0 THEN <<>>
      ELSE IF rem <= ImmBits THEN <<<<I("ADDiu", masked)>>>>
      ELSE IF LowPart(imm) = 0
        THEN AddInstr(GetInstSeqLs[<<imm \div Power[n], rem - n>>], I("SHL", n))
      ELSE AddInstr(GetInstSeqLs[<<Raised(imm), rem>>], I("ADDiu", LowPart(imm)))
           \o IF LowPart(imm) < Power[ImmBits - 1] THEN <<>>
              ELSE AddInstr(GetInstSeqLs[<<HighPart(imm), rem>>], I("ORi", LowPart(imm)))

ReplaceADDiuSHLWithLUi(seq) ==
  LET shifted == SignExtend(seq[1].imm) * Power[seq[2].imm - ImmBits] IN
  IF /\ Len(seq) >= 2 /\ seq[1].op = "ADDiu" /\ seq[2].op = "SHL"
     /\ seq[2].imm >= ImmBits /\ isInt16(shifted)
    THEN <<I("LUi", LowPart(shifted))>> \o SubSeq(seq, 3, Len(seq))
    ELSE seq

\* GetShortestSeq: the first of the shortest, at most seven long.
GetShortestSeq(seqs) ==
  LET short == [k \in DOMAIN seqs |-> ReplaceADDiuSHLWithLUi(seqs[k])]
      best == CHOOSE k \in DOMAIN short : \A j \in DOMAIN short :
                /\ Len(short[k]) <= Len(short[j])
                /\ j < k => Len(short[k]) < Len(short[j])
  IN  short[best]

Analyze(imm) ==
  GetShortestSeq(IF imm = 0 THEN AddInstr(<<>>, I("ADDiu", 0)) ELSE GetInstSeqLs[<<imm, Bits>>])

\* loadImmediate: every operand is sign-extended; the first reads $zero, the
\* others $at.  The value the sequence leaves in $at:
loadImmediate(amount) ==
  LET seq == Analyze(Imm64(amount))
      at[k \in 0 .. Len(seq)] ==
        IF k = 0 THEN 0 ELSE Result(seq[k].op, at[k - 1], SignExtend(seq[k].imm))
  IN  at[Len(seq)]

\* The stack pointer after adjustStackPtr.
adjustStackPtr(sp, amount) ==
  IF isInt16(amount) THEN Result("ADDiu", sp, amount)
  ELSE Result("ADDu", sp, loadImmediate(amount))
=============================================================================
