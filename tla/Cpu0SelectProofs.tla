--------------------------- MODULE Cpu0SelectProofs ---------------------------
(***************************************************************************)
(* Instruction selection at every word size: the properties of Cpu0Select, *)
(* from WidthAssumption and FlagsAssumption alone.                         *)
(*                                                                         *)
(* On what Cpu0AluProofs says of the datapath rests what each pattern      *)
(* computes, one lemma for each: Flagged and Ordered are the predicates    *)
(* that CMP and SLT decide.  The invariant, Selection, says that the value *)
(* of a selected node is that of its pattern; each property follows.       *)
(***************************************************************************)
EXTENDS Cpu0Select, Cpu0AluProofs

-----------------------------------------------------------------------------
(* Comparisons. *)

\* The immediates 1 and 2 of the patterns.
LEMMA SmallImmediates == uc16(1) = 1 /\ uc16(2) = 2
<1> DEFINE i == Power[ImmBits]
<1>1. i \in Nat /\ i >= 4
  BY Widths
<1> HIDE DEF i
<1>2. 1 % i = 1
  <2>1. -i <= 1 /\ 1 < 2 * i /\ 1 < i /\ i > 0
    BY <1>1
  <2>2. QED
    BY <2>1, <1>1, NearRemainder
<1>3. 2 % i = 2
  <2>1. -i <= 2 /\ 2 < 2 * i /\ 2 < i /\ i > 0
    BY <1>1
  <2>2. QED
    BY <2>1, <1>1, NearRemainder
<1>4. QED
  BY <1>2, <1>3 DEF uc16, i

\* A bit as a word, and inverted.
LEMMA BitWord ==
  ASSUME NEW b \in 0 .. 1
  PROVE  b \in SignedWord /\ S(b) = b /\ U(b) = b /\ Inverted(b) = 1 - b
<1>1. ASSUME NEW c \in 0 .. 1 PROVE c \in SignedWord /\ S(c) = c /\ U(c) = c
  <2>1. c \in SignedWord
    BY Widths DEF SignedWord
  <2>2. U(c) = c
    BY <2>1, WordUnsigned
  <2>3. QED
    BY <2>1, <2>2, SignedSame
<1>2. ByBits(OneOf, Bits, b, 1) = 1 - b
  BY Widths, OneOfOne
<1>3. Inverted(b) = S(ByBits(OneOf, Bits, U(b), uc16(1)))
  BY DEF Inverted, Result, BitXor
<1>4. 1 - b \in 0 .. 1
  OBVIOUS
<1>5. S(1 - b) = 1 - b
  BY <1>4, <1>1
<1>6. Inverted(b) = 1 - b
  BY <1>1, <1>2, <1>3, <1>5, SmallImmediates
<1>7. QED
  BY <1>1, <1>6

\* ANDi with 1 and with 2 selects a bit.
LEMMA AndImmediate ==
  ASSUME NEW w \in Int
  PROVE  /\ Result("ANDi", w, 1) = BitOf(w, 0)
         /\ Result("SHR", Result("ANDi", w, 2), 1) = BitOf(w, 1)
<1>1. /\ U(w) \in Int /\ Bits \in Nat /\ 0 \in 0 .. Bits - 1 /\ 1 \in 0 .. Bits - 1
      /\ 1 \in Nat /\ 0 < Bits /\ 1 < Bits
  BY UnsignedRange, Widths
<1>2. BitOf(U(w), 0) = BitOf(w, 0) /\ BitOf(U(w), 1) = BitOf(w, 1)
  BY <1>1, BitOfRemainder DEF U, Modulus
<1>3. BitOf(w, 0) \in 0 .. 1 /\ BitOf(w, 1) \in 0 .. 1
  BY BitRange
<1>4. Result("ANDi", w, 1) = BitOf(w, 0)
  <2>1. ByBits(Both, Bits, U(w), Power[0]) = BitOf(U(w), 0) * Power[0]
    BY <1>1, BothBit
  <2>2. ByBits(Both, Bits, U(w), 1) = BitOf(w, 0)
    BY <2>1, <1>2, <1>3, SmallPowers
  <2>3. Result("ANDi", w, 1) = S(ByBits(Both, Bits, U(w), uc16(1)))
    BY DEF Result, BitAnd
  <2>4. QED
    BY <2>2, <2>3, <1>3, SmallImmediates, BitWord
<1>5. Result("SHR", Result("ANDi", w, 2), 1) = BitOf(w, 1)
  <2> DEFINE b == BitOf(w, 1)
             t == b * 2
  <2>1. ByBits(Both, Bits, U(w), Power[1]) = BitOf(U(w), 1) * Power[1]
    BY <1>1, BothBit
  <2>2. ByBits(Both, Bits, U(w), 2) = t
    BY <2>1, <1>2, SmallPowers
  <2>3. Result("ANDi", w, 2) = S(ByBits(Both, Bits, U(w), uc16(2)))
    BY DEF Result, BitAnd
  <2>4. t \in SignedWord /\ 0 <= t /\ t \div 2 = b
    BY <1>3, Widths DEF SignedWord
  <2>5. Result("ANDi", w, 2) = t
    BY <2>2, <2>3, <2>4, SmallImmediates, SignedSame
  <2>6. U(t) = t
    <3> HIDE DEF t
    <3>1. QED
      BY <2>4, WordUnsigned
  <2>7. c5(1) = 1
    <3>1. 1 % Bits = 1
      BY Widths, NearRemainder
    <3>2. QED
      BY <3>1 DEF c5
  <2>8. ShiftRight(t, 1) = b
    BY <2>4, <2>6, <1>1, SmallPowers DEF ShiftRight
  <2>9. Result("SHR", t, 1) = S(ShiftRight(t, c5(1)))
    BY DEF Result
  <2>10. S(b) = b
    BY <1>3, BitWord
  <2>11. QED
    BY <2>5, <2>7, <2>8, <2>9, <2>10
<1>6. QED
  BY <1>4, <1>5

\* The flags that CMP leaves are the two low bits of its word.
LEMMA CmpBits ==
  ASSUME NEW x, NEW y
  PROVE  /\ CmpWord(x, y) \in Int
         /\ BitOf(CmpWord(x, y), 0) = Truth(N(x, y))
         /\ BitOf(CmpWord(x, y), 1) = Truth(Z(x, y))
<1> DEFINE z == Truth(Z(x, y))
           n == Truth(N(x, y))
           w == CmpWord(x, y)
<1>1. w = OtherFlags + 2 * z + n
  BY DEF CmpWord
<1>2. z \in 0 .. 1 /\ n \in 0 .. 1
  BY DEF Truth
<1>3. BitOf(w, 0) = (w \div 1) % 2 /\ BitOf(w, 1) = (w \div 2) % 2
  BY SmallPowers DEF BitOf
<1> HIDE DEF z, n, w
<1>4. w \in Int /\ (w \div 1) % 2 = n /\ (w \div 2) % 2 = z
  BY <1>1, <1>2, FlagsAssumption
<1>5. QED
  BY <1>3, <1>4 DEF z, n, w

\* What the CMP patterns compute, of the flags of one of two CMPs.
Flagged(cc, x, y) ==
  \/ cc = "eq" /\ Z(x, y)
  \/ cc = "ne" /\ ~Z(x, y)
  \/ cc \in {"lt", "ult"} /\ N(x, y)
  \/ cc \in {"le", "ule"} /\ ~N(y, x)
  \/ cc \in {"gt", "ugt"} /\ N(y, x)
  \/ cc \in {"ge", "uge"} /\ ~N(x, y)

\* The CMP patterns compute Flagged.
LEMMA SetCmpFlagged ==
  ASSUME NEW cc \in Conditions, NEW x, NEW y
  PROVE  SetCmp(cc, x, y) = Truth(Flagged(cc, x, y))
<1>1. ASSUME NEW a, NEW b PROVE Result("ANDi", CmpWord(a, b), 1) = Truth(N(a, b))
  BY CmpBits, AndImmediate
<1>2. Result("SHR", Result("ANDi", CmpWord(x, y), 2), 1) = Truth(Z(x, y))
  BY CmpBits, AndImmediate
<1>3. ASSUME NEW P PROVE Inverted(Truth(P)) = Truth(~P)
  <2>1. Truth(P) \in 0 .. 1
    BY DEF Truth
  <2>2. Inverted(Truth(P)) = 1 - Truth(P)
    BY <2>1, BitWord
  <2>3. QED
    BY <2>2 DEF Truth
<1>4. Inverted(Truth(Z(x, y))) = Truth(~Z(x, y))
  BY <1>3
<1>5. Inverted(Truth(N(y, x))) = Truth(~N(y, x)) /\ Inverted(Truth(N(x, y))) = Truth(~N(x, y))
  BY <1>3
<1>6. CASE cc \in {"eq", "ne"}
  BY <1>2, <1>4, <1>6 DEF SetCmp, Flagged, Truth
<1>7. CASE cc \in {"lt", "ult", "gt", "ugt"}
  BY <1>1, <1>7 DEF SetCmp, Flagged, Truth
<1>8. CASE cc \in {"le", "ule"}
  <2>1. SetCmp(cc, x, y) = Inverted(Truth(N(y, x)))
    BY <1>1, <1>8 DEF SetCmp
  <2>2. QED
    BY <2>1, <1>5, <1>8 DEF Flagged, Truth
<1>9. CASE cc \in {"ge", "uge"}
  <2>1. SetCmp(cc, x, y) = Inverted(Truth(N(x, y)))
    BY <1>1, <1>9 DEF SetCmp
  <2>2. QED
    BY <2>1, <1>5, <1>9 DEF Flagged, Truth
<1>10. QED
  BY <1>6, <1>7, <1>8, <1>9 DEF Conditions, Signed, Unsigned

\* The flags of CMP, and what they say of its operands.
LEMMA CmpFlags ==
  ASSUME NEW x \in SignedWord, NEW y \in SignedWord
  PROVE  /\ Z(x, y) <=> x = y
         /\ S(x - y) = x - y <=> (-SignBit <= x - y /\ x - y < SignBit)
         /\ S(x - y) = x - y => (N(x, y) <=> x < y)
         /\ S(x - y) # x - y => (N(x, y) <=> y < x)
<1> DEFINE d == x - y
<1>1. x \in Int /\ y \in Int /\ -SignBit <= x /\ x < SignBit /\ -SignBit <= y /\ y < SignBit
  BY WordUnsigned
<1>2. d \in Int /\ -Modulus < d /\ d < Modulus
  BY <1>1, Widths
<1>3. (x = y <=> d = 0) /\ (x < y <=> d < 0) /\ (y < x <=> d > 0)
  BY <1>1
<1>4. N(x, y) = (S(d) < 0) /\ Z(x, y) = (S(d) = 0)
  BY DEF N, Z
<1> HIDE DEF d
<1>5. S(d) = IF d < -SignBit THEN d + Modulus ELSE IF d < SignBit THEN d ELSE d - Modulus
  BY <1>2, SignedNear, Widths
<1>6. S(d) = 0 <=> d = 0
  BY <1>2, <1>5, Widths
<1>7. S(d) = d <=> (-SignBit <= d /\ d < SignBit)
  BY <1>2, <1>5, Widths
<1>8. S(d) # d => (S(d) < 0 <=> d > 0)
  BY <1>2, <1>5, Widths
<1>9. (Z(x, y) <=> S(d) = 0) /\ (N(x, y) <=> S(d) < 0)
  BY <1>4
<1>10. QED
  BY <1>3, <1>6, <1>7, <1>8, <1>9 DEF d

\* The other way round, the flags say the opposite unless the difference is
\* the most negative word.
LEMMA CmpExchanged ==
  ASSUME NEW x \in SignedWord, NEW y \in SignedWord, S(x - y) # -SignBit
  PROVE  N(y, x) <=> ~N(x, y) /\ ~Z(x, y)
<1> DEFINE d == x - y
           e == y - x
<1>1. x \in Int /\ y \in Int /\ -SignBit <= x /\ x < SignBit /\ -SignBit <= y /\ y < SignBit
  BY WordUnsigned
<1>2. d \in Int /\ e \in Int /\ e = -d /\ -Modulus < d /\ d < Modulus /\ -Modulus < e /\ e < Modulus
  BY <1>1, Widths
<1>3. N(x, y) = (S(d) < 0) /\ Z(x, y) = (S(d) = 0) /\ N(y, x) = (S(e) < 0) /\ S(d) # -SignBit
  BY DEF N, Z
<1> HIDE DEF d, e
<1>4. S(d) = IF d < -SignBit THEN d + Modulus ELSE IF d < SignBit THEN d ELSE d - Modulus
  BY <1>2, SignedNear, Widths
<1>5. S(e) = IF e < -SignBit THEN e + Modulus ELSE IF e < SignBit THEN e ELSE e - Modulus
  BY <1>2, SignedNear, Widths
<1>6. S(e) < 0 <=> ~(S(d) < 0) /\ ~(S(d) = 0)
  BY <1>2, <1>3, <1>4, <1>5, Widths
<1>7. QED
  BY <1>3, <1>6

\* Operands of the same sign: CMP does not overflow, and the order of the
\* unsigned numbers is that of the signed ones.
LEMMA SameSignOrder ==
  ASSUME NEW x \in SignedWord, NEW y \in SignedWord, (x < 0) = (y < 0)
  PROVE  /\ S(x - y) = x - y /\ S(y - x) = y - x
         /\ U(x) < U(y) <=> x < y
         /\ U(x) <= U(y) <=> x <= y
<1>1. x \in Int /\ y \in Int /\ -SignBit <= x /\ x < SignBit /\ -SignBit <= y /\ y < SignBit
  BY WordUnsigned
<1>2. -SignBit <= x - y /\ x - y < SignBit /\ -SignBit <= y - x /\ y - x < SignBit
  BY <1>1, Widths
<1>3. S(x - y) = x - y /\ S(y - x) = y - x
  BY <1>2, CmpFlags
<1>4. U(x) = (IF x < 0 THEN x + Modulus ELSE x) /\ U(y) = (IF y < 0 THEN y + Modulus ELSE y)
  BY WordUnsigned
<1>5. (U(x) < U(y) <=> x < y) /\ (U(x) <= U(y) <=> x <= y)
  BY <1>1, <1>4, Widths
<1>6. QED
  BY <1>3, <1>5

\* XOR as a word: zero for equal operands, and negative for different signs.
LEMMA XorWord ==
  ASSUME NEW x \in SignedWord, NEW y \in SignedWord
  PROVE  /\ Result("XOR", x, y) \in Int
         /\ Result("XOR", x, y) = 0 <=> x = y
         /\ Result("XOR", x, y) < 0 <=> (x < 0) # (y < 0)
<1> DEFINE w == ByBits(OneOf, Bits, U(x), U(y))
<1>1. /\ U(x) = (IF x < 0 THEN x + Modulus ELSE x) /\ U(y) = (IF y < 0 THEN y + Modulus ELSE y)
      /\ U(x) \in 0 .. Modulus - 1 /\ U(y) \in 0 .. Modulus - 1
      /\ x \in Int /\ y \in Int /\ -SignBit <= x /\ x < SignBit /\ -SignBit <= y /\ y < SignBit
  BY WordUnsigned
<1>2. U(x) = U(y) <=> x = y
  BY <1>1, Widths
<1>3. (U(x) < SignBit <=> ~(x < 0)) /\ (U(y) < SignBit <=> ~(y < 0))
  BY <1>1, Widths
<1>4. w \in 0 .. Modulus - 1
  <2>1. U(x) \in Int /\ U(y) \in Int
    BY <1>1, Widths
  <2>2. QED
    BY <2>1, Widths, OneOfBits DEF Modulus
<1>5. w = 0 <=> U(x) = U(y)
  BY <1>1, Widths, OneOfZero DEF Modulus
<1>6. w < SignBit <=> (U(x) < SignBit <=> U(y) < SignBit)
  <2>1. U(x) \in 0 .. Power[(Bits - 1) + 1] - 1 /\ U(y) \in 0 .. Power[(Bits - 1) + 1] - 1
    BY <1>1, Widths DEF Modulus
  <2>2. ByBits(OneOf, (Bits - 1) + 1, U(x), U(y)) < Power[Bits - 1]
          <=> (U(x) < Power[Bits - 1] <=> U(y) < Power[Bits - 1])
    BY <2>1, Widths, OneOfUpper
  <2>3. QED
    BY <2>2, Widths DEF SignBit
<1>7. Result("XOR", x, y) = S(w)
  BY DEF Result, BitXor
<1> HIDE DEF w
<1>8. S(w) = IF w < SignBit THEN w ELSE w - Modulus
  BY <1>4, SignedBack
<1>9. S(w) \in Int /\ (S(w) = 0 <=> w = 0) /\ (S(w) < 0 <=> ~(w < SignBit))
  BY <1>4, <1>8, Widths
<1>10. QED
  BY <1>2, <1>3, <1>5, <1>6, <1>7, <1>9

\* What the SLT patterns compute: for equality, whether the XOR is below one.
Ordered(cc, x, y) ==
  \/ cc = "eq" /\ (x = y \/ (x < 0) # (y < 0))
  \/ cc = "ne" /\ ~(x = y \/ (x < 0) # (y < 0))
  \/ cc \in {"lt", "ult"} /\ x < y
  \/ cc \in {"le", "ule"} /\ x <= y
  \/ cc \in {"gt", "ugt"} /\ y < x
  \/ cc \in {"ge", "uge"} /\ y <= x

\* XORi with one negates.
LEMMA InvertedTruth ==
  ASSUME NEW P
  PROVE  Inverted(Truth(P)) = Truth(~P)
<1>1. Truth(P) \in 0 .. 1
  BY DEF Truth
<1>2. Inverted(Truth(P)) = 1 - Truth(P)
  BY <1>1, BitWord
<1>3. QED
  BY <1>2 DEF Truth

\* The SLT patterns compute Ordered.
LEMMA SetSltOrdered ==
  ASSUME NEW cc \in Conditions, NEW x \in SignedWord, NEW y \in SignedWord
  PROVE  SetSlt(cc, x, y) = Truth(Ordered(cc, x, y))
<1>1. x \in Int /\ y \in Int
  BY WordUnsigned
<1> DEFINE w == Result("XOR", x, y)
<1>2. w \in Int /\ (w = 0 <=> x = y) /\ (w < 0 <=> (x < 0) # (y < 0))
  BY XorWord
<1>3. CASE cc = "eq"
  <2>1. SetSlt(cc, x, y) = Truth(w < 1)
    BY <1>3 DEF SetSlt, Slt
  <2>2. Ordered(cc, x, y) <=> (x = y \/ (x < 0) # (y < 0))
    BY <1>3 DEF Ordered
  <2> HIDE DEF w
  <2>3. w < 1 <=> (w = 0 \/ w < 0)
    BY <1>2
  <2>4. QED
    BY <2>1, <2>2, <2>3, <1>2 DEF Truth
<1>4. CASE cc = "ne"
  <2>1. SetSlt(cc, x, y) = Truth(0 < w)
    BY <1>4 DEF SetSlt, Slt
  <2>2. Ordered(cc, x, y) <=> ~(x = y \/ (x < 0) # (y < 0))
    BY <1>4 DEF Ordered
  <2> HIDE DEF w
  <2>3. 0 < w <=> ~(w = 0 \/ w < 0)
    BY <1>2
  <2>4. QED
    BY <2>1, <2>2, <2>3, <1>2 DEF Truth
<1>5. CASE cc \in {"lt", "ult", "gt", "ugt"}
  BY <1>5 DEF SetSlt, Slt, Ordered, Truth
<1>6. CASE cc \in {"le", "ule"}
  <2>1. SetSlt(cc, x, y) = Inverted(Truth(y < x))
    BY <1>6 DEF SetSlt, Slt
  <2>2. Ordered(cc, x, y) <=> ~(y < x)
    BY <1>1, <1>6 DEF Ordered
  <2>3. QED
    BY <2>1, <2>2, InvertedTruth DEF Truth
<1>7. CASE cc \in {"ge", "uge"}
  <2>1. SetSlt(cc, x, y) = Inverted(Truth(x < y))
    BY <1>7 DEF SetSlt, Slt
  <2>2. Ordered(cc, x, y) <=> ~(x < y)
    BY <1>1, <1>7 DEF Ordered
  <2>3. QED
    BY <2>1, <2>2, InvertedTruth DEF Truth
<1>8. QED
  BY <1>3, <1>4, <1>5, <1>6, <1>7 DEF Conditions, Signed, Unsigned

\* What a node of a kind decides.
Decides(kind, cc, x, y) ==
  \/ kind = "setcc" /\ (IF cpu = "cpu032I" THEN Flagged(cc, x, y) ELSE Ordered(cc, x, y))
  \/ kind = "brcond" /\ Branches(cc, x, y)
  \/ kind = "select" /\ Selected(cc, x, y)

\* A setcc computes what it decides.
LEMMA SetCCDecides ==
  ASSUME NEW cc \in Conditions, NEW x \in SignedWord, NEW y \in SignedWord
  PROVE  SetCC(cc, x, y) = Truth(Decides("setcc", cc, x, y))
BY SetCmpFlagged, SetSltOrdered DEF SetCC, Decides, Truth

\* A select: equality by the XOR, the rest as setcc.
LEMMA SelectedIs ==
  ASSUME NEW cc \in Conditions, NEW x \in SignedWord, NEW y \in SignedWord
  PROVE  Selected(cc, x, y) <=>
           IF cc = "eq" THEN x = y ELSE IF cc = "ne" THEN x # y
           ELSE IF cpu = "cpu032I" THEN Flagged(cc, x, y) ELSE Ordered(cc, x, y)
<1>1. x \in Int /\ y \in Int
  BY WordUnsigned
<1>2. Result("XOR", x, y) = 0 <=> x = y
  BY XorWord
<1>3. SetCC(cc, x, y) # 0 <=> (IF cpu = "cpu032I" THEN Flagged(cc, x, y) ELSE Ordered(cc, x, y))
  BY SetCmpFlagged, SetSltOrdered DEF SetCC, Truth
<1>4. CASE cc = "eq"
  BY <1>2, <1>4 DEF Selected
<1>5. CASE cc = "ne"
  BY <1>2, <1>5 DEF Selected
<1>6. CASE cpu = "cpu032II" /\ cc \in {"ge", "uge"}
  <2>1. Selected(cc, x, y) <=> ~(x < y)
    BY <1>6 DEF Selected, Slt, Truth
  <2>2. QED
    BY <2>1, <1>1, <1>6 DEF Ordered
<1>7. CASE cpu = "cpu032II" /\ cc \in {"le", "ule"}
  <2>1. Selected(cc, x, y) <=> ~(y < x)
    BY <1>7 DEF Selected, Slt, Truth
  <2>2. QED
    BY <2>1, <1>1, <1>7 DEF Ordered
<1>8. CASE /\ cc # "eq" /\ cc # "ne"
           /\ ~(cpu = "cpu032II" /\ cc \in {"ge", "uge"})
           /\ ~(cpu = "cpu032II" /\ cc \in {"le", "ule"})
  BY <1>3, <1>8 DEF Selected
<1>9. QED
  BY <1>4, <1>5, <1>6, <1>7, <1>8

\* BEQ and BNE on an SLT.
LEMMA BranchSltIs ==
  ASSUME NEW cc \in Conditions, NEW x \in SignedWord, NEW y \in SignedWord
  PROVE  BranchSlt(cc, x, y) <=>
           IF cc = "eq" THEN x = y ELSE IF cc = "ne" THEN x # y ELSE Ordered(cc, x, y)
<1>1. x \in Int /\ y \in Int
  BY WordUnsigned
<1>2. (Slt(x, y) # 0 <=> x < y) /\ (Slt(y, x) # 0 <=> y < x)
  BY DEF Slt, Truth
<1>3. (~(x < y) <=> y <= x) /\ (~(y < x) <=> x <= y)
  BY <1>1
<1>4. CASE cc \in {"eq", "ne"}
  BY <1>4 DEF BranchSlt
<1>5. CASE cc \notin {"eq", "ne"}
  BY <1>2, <1>3, <1>5 DEF BranchSlt, Ordered
<1>6. QED
  BY <1>4, <1>5

\* For operands of the same sign everything decides what LLVM means.
LEMMA SameSignDecides ==
  ASSUME NEW cc \in Conditions, NEW x \in SignedWord, NEW y \in SignedWord,
         NEW kind \in {"setcc", "brcond", "select"}, (x < 0) = (y < 0)
  PROVE  Decides(kind, cc, x, y) <=> Holds(cc, x, y)
<1>1. x \in Int /\ y \in Int /\ U(x) \in Int /\ U(y) \in Int
  BY WordUnsigned, UnsignedRange
<1>2. /\ S(x - y) = x - y /\ S(y - x) = y - x
      /\ U(x) < U(y) <=> x < y
      /\ U(x) <= U(y) <=> x <= y
      /\ U(y) < U(x) <=> y < x
      /\ U(y) <= U(x) <=> y <= x
  BY SameSignOrder
<1>3. (U(x) > U(y) <=> y < x) /\ (U(x) >= U(y) <=> y <= x) /\ (x > y <=> y < x) /\ (x >= y <=> y <= x)
  BY <1>1, <1>2
<1>4. (Z(x, y) <=> x = y) /\ (N(x, y) <=> x < y) /\ (N(y, x) <=> y < x)
  BY <1>2, CmpFlags
<1>5. Flagged(cc, x, y) <=> Holds(cc, x, y)
  <2>1. (~(y < x) <=> x <= y) /\ (~(x < y) <=> y <= x)
    BY <1>1
  <2>2. QED
    BY <2>1, <1>2, <1>3, <1>4 DEF Flagged, Holds, Conditions, Signed, Unsigned
<1>6. Ordered(cc, x, y) <=> Holds(cc, x, y)
  BY <1>2, <1>3 DEF Ordered, Holds, Conditions, Signed, Unsigned
<1>7. BranchCmp(cc, x, y) <=> Holds(cc, x, y)
  <2>1. /\ x < y \/ x = y <=> x <= y
        /\ ~(x < y) /\ ~(x = y) <=> y < x
        /\ ~(x < y) \/ x = y <=> y <= x
    BY <1>1
  <2>2. QED
    BY <2>1, <1>2, <1>3, <1>4 DEF BranchCmp, Holds, Conditions, Signed, Unsigned
<1>8. cc = "eq" => (Holds(cc, x, y) <=> x = y)
  BY DEF Holds
<1>9. cc = "ne" => (Holds(cc, x, y) <=> x # y)
  BY DEF Holds
<1>10. BranchSlt(cc, x, y) <=> Holds(cc, x, y)
  BY <1>6, <1>8, <1>9, BranchSltIs
<1>11. Selected(cc, x, y) <=> Holds(cc, x, y)
  BY <1>5, <1>6, <1>8, <1>9, SelectedIs
<1>12. QED
  BY <1>5, <1>6, <1>7, <1>10, <1>11 DEF Decides, Branches

\* cpu032II orders signed operands right, whatever their signs.
LEMMA OrderDecides ==
  ASSUME NEW cc \in {"lt", "le", "gt", "ge"}, NEW x \in SignedWord, NEW y \in SignedWord,
         NEW kind \in {"setcc", "brcond", "select"}, cpu = "cpu032II"
  PROVE  Decides(kind, cc, x, y) <=> Holds(cc, x, y)
<1>1. x \in Int /\ y \in Int
  BY WordUnsigned
<1>2. (x > y <=> y < x) /\ (x >= y <=> y <= x)
  BY <1>1
<1>3. cc \in Conditions /\ cc # "eq" /\ cc # "ne" /\ cpu # "cpu032I"
  BY DEF Conditions, Signed
<1>4. Ordered(cc, x, y) <=> Holds(cc, x, y)
  BY <1>2 DEF Ordered, Holds
<1>5. BranchSlt(cc, x, y) <=> Ordered(cc, x, y)
  BY <1>3, BranchSltIs
<1>6. Selected(cc, x, y) <=> Ordered(cc, x, y)
  BY <1>3, SelectedIs
<1>7. QED
  BY <1>3, <1>4, <1>5, <1>6 DEF Decides, Branches

\* Equality: right everywhere but in the setcc of cpu032II, which is right
\* exactly for operands of the same sign.
LEMMA EqualityDecides ==
  ASSUME NEW cc \in {"eq", "ne"}, NEW x \in SignedWord, NEW y \in SignedWord,
         NEW kind \in {"setcc", "brcond", "select"}, cpu \in {"cpu032I", "cpu032II"}
  PROVE  /\ kind # "setcc" \/ cpu = "cpu032I" => (Decides(kind, cc, x, y) <=> Holds(cc, x, y))
         /\ kind = "setcc" /\ cpu = "cpu032II" =>
              ((Decides(kind, cc, x, y) <=> Holds(cc, x, y)) <=> (x < 0) = (y < 0))
<1>1. cc \in Conditions
  BY DEF Conditions, Signed
<1>2. Z(x, y) <=> x = y
  BY CmpFlags
<1>3. Holds(cc, x, y) <=> IF cc = "eq" THEN x = y ELSE x # y
  BY DEF Holds
<1>4. Flagged(cc, x, y) <=> IF cc = "eq" THEN x = y ELSE x # y
  BY <1>2 DEF Flagged
<1>5. BranchCmp(cc, x, y) <=> IF cc = "eq" THEN x = y ELSE x # y
  BY <1>2 DEF BranchCmp
<1>6. BranchSlt(cc, x, y) <=> IF cc = "eq" THEN x = y ELSE x # y
  BY <1>1, BranchSltIs
<1>7. Selected(cc, x, y) <=> IF cc = "eq" THEN x = y ELSE x # y
  BY <1>1, SelectedIs
<1>8. Ordered(cc, x, y) <=> IF cc = "eq" THEN x = y \/ (x < 0) # (y < 0)
                            ELSE ~(x = y \/ (x < 0) # (y < 0))
  BY DEF Ordered
<1>9. x = y => (x < 0) = (y < 0)
  OBVIOUS
<1>10. (Ordered(cc, x, y) <=> Holds(cc, x, y)) <=> (x < 0) = (y < 0)
  BY <1>3, <1>8, <1>9
<1>11. kind # "setcc" \/ cpu = "cpu032I" => (Decides(kind, cc, x, y) <=> Holds(cc, x, y))
  BY <1>3, <1>4, <1>5, <1>6, <1>7 DEF Decides, Branches
<1>12. kind = "setcc" /\ cpu = "cpu032II" => (Decides(kind, cc, x, y) <=> Ordered(cc, x, y))
  BY DEF Decides
<1>13. QED
  BY <1>10, <1>11, <1>12

\* The flag jumps of cpu032I order operands right exactly if their difference
\* fits a word.
LEMMA FlagJumps ==
  ASSUME NEW cc \in {"lt", "le", "gt", "ge"}, NEW x \in SignedWord, NEW y \in SignedWord
  PROVE  (BranchCmp(cc, x, y) <=> Holds(cc, x, y)) <=> S(x - y) = x - y
<1>1. x \in Int /\ y \in Int
  BY WordUnsigned
<1>2. /\ Z(x, y) <=> x = y
      /\ S(x - y) = x - y => (N(x, y) <=> x < y)
      /\ S(x - y) # x - y => (N(x, y) <=> y < x)
  BY CmpFlags
<1>3. S(x - y) # x - y => x # y
  <2>1. x = y => x - y = 0
    BY <1>1
  <2>2. S(0) = 0
    BY BitWord
  <2>3. QED
    BY <2>1, <2>2
<1>4. /\ BranchCmp(cc, x, y) <=>
           \/ cc = "lt" /\ N(x, y)
           \/ cc = "le" /\ (N(x, y) \/ Z(x, y))
           \/ cc = "gt" /\ ~N(x, y) /\ ~Z(x, y)
           \/ cc = "ge" /\ (~N(x, y) \/ Z(x, y))
  BY DEF BranchCmp
<1>5. /\ Holds(cc, x, y) <=>
           \/ cc = "lt" /\ x < y
           \/ cc = "le" /\ ~(y < x)
           \/ cc = "gt" /\ y < x
           \/ cc = "ge" /\ ~(x < y)
  <2>1. (x > y <=> y < x) /\ (x >= y <=> ~(x < y)) /\ (x <= y <=> ~(y < x))
    BY <1>1
  <2>2. QED
    BY <2>1 DEF Holds
<1>6. (x < y => ~(y < x) /\ x # y) /\ (y < x => x # y) /\ (x < y \/ x = y \/ y < x)
  BY <1>1
<1>7. QED
  BY <1>2, <1>3, <1>4, <1>5, <1>6

\* On cpu032I a condition and a branch agree unless the difference is the most
\* negative word.
LEMMA FlagsAgree ==
  ASSUME NEW cc \in Conditions, NEW x \in SignedWord, NEW y \in SignedWord,
         S(x - y) # -SignBit
  PROVE  Flagged(cc, x, y) <=> BranchCmp(cc, x, y)
<1>1. N(y, x) <=> ~N(x, y) /\ ~Z(x, y)
  BY CmpExchanged
<1>2. ~(N(x, y) /\ Z(x, y))
  <2>1. 0 \in Int /\ ~(0 < 0)
    OBVIOUS
  <2>2. QED
    BY <2>1 DEF N, Z
<1>3. QED
  BY <1>1, <1>2 DEF Flagged, BranchCmp

-----------------------------------------------------------------------------
(* Constants. *)

\* LUi of the upper half of a word.
LEMMA UpperHalf ==
  ASSUME NEW x \in SignedWord
  PROVE  Result("LUi", 0, HI16(x)) = S((U(x) \div Power[ImmBits]) * Power[ImmBits])
<1>1. U(x) \div Power[ImmBits] \in 0 .. Power[ImmBits] - 1
  BY WordUnsigned, Halves
<1>2. HI16(x) = U(x) \div Power[ImmBits] /\ uc16(HI16(x)) = HI16(x)
  BY <1>1, SmallRemainder DEF HI16, uc16
<1>3. QED
  BY <1>2 DEF Result

\* Whatever pattern takes a constant, the word is it.
LEMMA ConstantMaterialised ==
  ASSUME NEW x \in SignedWord
  PROVE  /\ Result("ADDiu", 0, x) = x
         /\ immZExt16(x) => Result("ORi", 0, LO16(x)) = x
         /\ immLow16Zero(x) => Result("LUi", 0, HI16(x)) = x
         /\ Result("ORi", Result("LUi", 0, HI16(x)), LO16(x)) = x
<1> DEFINE q == U(x) \div Power[ImmBits]
           r == LO16(x)
<1>1. /\ x \in Int /\ U(x) = (IF x < 0 THEN x + Modulus ELSE x) /\ U(x) \in 0 .. Modulus - 1
      /\ -SignBit <= x /\ x < SignBit
  BY WordUnsigned
<1>2. /\ q \in 0 .. Power[ImmBits] - 1 /\ r \in 0 .. Power[ImmBits] - 1
      /\ U(x) = q * Power[ImmBits] + r
  BY <1>1, Halves DEF LO16
<1>3. S(U(x)) = x
  BY <1>1, SignedBack, Widths
<1>4. Result("LUi", 0, HI16(x)) = S(q * Power[ImmBits])
  BY UpperHalf
<1>5. Result("ADDiu", 0, x) = x
  <2>1. 0 + x = x
    BY <1>1
  <2>2. QED
    BY <2>1, SignedSame DEF Result
<1>6. ASSUME immZExt16(x) PROVE Result("ORi", 0, r) = x
  <2>1. U(x) = x /\ x \in 0 .. Power[ImmBits] - 1
    BY <1>1, <1>6, Widths DEF immZExt16
  <2>2. r = x
    BY <2>1, SmallRemainder DEF LO16
  <2>3. 0 \in 0 .. Power[ImmBits] - 1 /\ 0 * Power[ImmBits] = 0 /\ 0 + r = r
    BY <2>1, <2>2, <1>1, Widths
  <2>4. Result("ORi", S(0 * Power[ImmBits]), r) = S(0 * Power[ImmBits] + r)
    BY <2>3, <1>2, OrLow
  <2>5. S(0) = 0
    BY BitWord
  <2>6. QED
    BY <2>2, <2>3, <2>4, <2>5, SignedSame
<1>7. ASSUME immLow16Zero(x) PROVE Result("LUi", 0, HI16(x)) = x
  <2>1. r = 0
    BY <1>7 DEF immLow16Zero, LO16
  <2>2. q * Power[ImmBits] = U(x)
    BY <2>1, <1>2, Widths
  <2>3. QED
    BY <2>2, <1>3, <1>4
<1>8. Result("ORi", Result("LUi", 0, HI16(x)), r) = x
  <2>1. Result("ORi", S(q * Power[ImmBits]), r) = S(q * Power[ImmBits] + r)
    <3> HIDE DEF q, r
    <3>1. QED
      BY <1>2, OrLow
  <2>2. QED
    BY <2>1, <1>2, <1>3, <1>4
<1>9. QED
  BY <1>5, <1>6, <1>7, <1>8

-----------------------------------------------------------------------------
(* Nodes with two results. *)

\* The carry of a sum, recovered by comparing the sum with its first operand.
LEMMA CarryRecovered ==
  ASSUME NEW x \in SignedWord, NEW y \in SignedWord, (x < 0) = (S(x + y) < 0)
  PROVE  U(Result("ADDu", 0, SetCC("ult", S(x + y), x))) * Modulus + U(S(x + y)) = U(x) + U(y)
<1> DEFINE s == S(x + y)
           c == Truth(U(s) < U(x))
           t == U(x) + U(y)
<1>1. /\ x \in Int /\ y \in Int
      /\ U(x) \in 0 .. Modulus - 1 /\ U(y) \in 0 .. Modulus - 1
      /\ U(x) = (IF x < 0 THEN x + Modulus ELSE x) /\ U(y) = (IF y < 0 THEN y + Modulus ELSE y)
  BY WordUnsigned
<1>2. s \in SignedWord /\ U(s) = (x + y) % Modulus
  BY <1>1, SignedRange, SignedUnsigned
<1>3. SetCC("ult", s, x) = c
  <2> HIDE DEF s
  <2>1. (s < 0) = (x < 0)
    BY DEF s
  <2>2. "ult" \in Conditions /\ "setcc" \in {"setcc", "brcond", "select"}
    BY DEF Conditions, Unsigned
  <2>3. Decides("setcc", "ult", s, x) <=> Holds("ult", s, x)
    BY <1>2, <2>1, <2>2, SameSignDecides
  <2>4. Holds("ult", s, x) <=> U(s) < U(x)
    BY DEF Holds
  <2>5. SetCC("ult", s, x) = Truth(Decides("setcc", "ult", s, x))
    BY <1>2, <2>2, SetCCDecides
  <2>6. QED
    BY <2>3, <2>4, <2>5 DEF Truth
<1>4. c \in 0 .. 1 /\ (c = 1 <=> U(s) < U(x))
  BY DEF Truth
<1>5. U(Result("ADDu", 0, c)) = c
  <2> HIDE DEF c
  <2>1. 0 + c = c /\ S(c) = c /\ U(c) = c
    BY <1>4, BitWord
  <2>2. QED
    BY <2>1 DEF Result
<1>6. (x + y) % Modulus = t % Modulus
  <2>1. \E q \in Int : x + y = t + q * Modulus
    <3>1. x + y = t + 0 * Modulus \/ x + y = t + (-1) * Modulus \/ x + y = t + (-2) * Modulus
      BY <1>1, Widths
    <3>2. QED
      BY <3>1
  <2>2. PICK q \in Int : x + y = t + q * Modulus
    BY <2>1
  <2>3. t \in Int /\ Modulus \in Nat /\ Modulus > 0
    BY <1>1, Widths
  <2> HIDE DEF t
  <2>4. (t + q * Modulus) % Modulus = t % Modulus
    BY <2>3, DivisionShift
  <2>5. QED
    BY <2>2, <2>4
<1>7. t % Modulus = IF t < Modulus THEN t ELSE t - Modulus
  <2>1. t \in Int /\ 0 <= t /\ t < 2 * Modulus /\ Modulus \in Nat /\ Modulus > 0 /\ -Modulus <= t
    BY <1>1, Widths
  <2> HIDE DEF t
  <2>2. QED
    BY <2>1, NearRemainder
<1>8. U(s) < U(x) <=> ~(t < Modulus)
  <2> DEFINE a == U(x)
             b == U(y)
             w == U(s)
  <2>1. w = (IF t < Modulus THEN t ELSE t - Modulus)
    BY <1>2, <1>6, <1>7
  <2>2. /\ t = a + b /\ a \in Int /\ 0 <= a /\ a < Modulus /\ b \in Int /\ 0 <= b /\ b < Modulus
        /\ Modulus \in Int
    BY <1>1, Widths
  <2> HIDE DEF a, b, w, t
  <2>3. w < a <=> ~(t < Modulus)
    BY <2>1, <2>2
  <2>4. QED
    BY <2>3 DEF w, a
<1> HIDE DEF c
<1>9. c * Modulus + U(s) = t
  <2>1. CASE c = 1
    BY <2>1, <1>1, <1>2, <1>4, <1>6, <1>7, <1>8, Widths
  <2>2. CASE c = 0
    BY <2>2, <1>1, <1>2, <1>4, <1>6, <1>7, <1>8, Widths
  <2>3. QED
    BY <2>1, <2>2, <1>4
<1>10. QED
  BY <1>3, <1>5, <1>9

\* The borrow of a difference, recovered by comparing its operands.
LEMMA BorrowRecovered ==
  ASSUME NEW x \in SignedWord, NEW y \in SignedWord, (x < 0) = (y < 0)
  PROVE  Result("SUBu", 0, SetCC("ult", x, y)) * Modulus + U(S(x - y)) = U(x) - U(y)
<1> DEFINE c == Truth(U(x) < U(y))
           d == U(x) - U(y)
<1>1. /\ x \in Int /\ y \in Int
      /\ U(x) \in 0 .. Modulus - 1 /\ U(y) \in 0 .. Modulus - 1
      /\ U(x) = (IF x < 0 THEN x + Modulus ELSE x) /\ U(y) = (IF y < 0 THEN y + Modulus ELSE y)
  BY WordUnsigned
<1>2. SetCC("ult", x, y) = c
  <2>1. "ult" \in Conditions /\ "setcc" \in {"setcc", "brcond", "select"}
    BY DEF Conditions, Unsigned
  <2>2. Decides("setcc", "ult", x, y) <=> Holds("ult", x, y)
    BY <2>1, SameSignDecides
  <2>3. Holds("ult", x, y) <=> U(x) < U(y)
    BY DEF Holds
  <2>4. SetCC("ult", x, y) = Truth(Decides("setcc", "ult", x, y))
    BY <2>1, SetCCDecides
  <2>5. QED
    BY <2>2, <2>3, <2>4 DEF Truth
<1>3. c \in 0 .. 1 /\ (c = 1 <=> U(x) < U(y))
  BY DEF Truth
<1>4. Result("SUBu", 0, c) = -c
  <2> HIDE DEF c
  <2>1. 0 - c = -c /\ -c \in SignedWord
    BY <1>3, Widths DEF SignedWord
  <2>2. S(-c) = -c
    BY <2>1, SignedSame
  <2>3. QED
    BY <2>1, <2>2 DEF Result
<1>5. x - y = d /\ d \in Int /\ -Modulus <= d /\ d < Modulus
  BY <1>1, Widths
<1>6. U(S(x - y)) = d % Modulus
  BY <1>5, SignedUnsigned
<1>7. d % Modulus = IF d < 0 THEN d + Modulus ELSE d
  <2> HIDE DEF d
  <2>1. Modulus \in Nat /\ Modulus > 0 /\ d < 2 * Modulus
    BY <1>5, Widths
  <2>2. d % Modulus = IF d < 0 THEN d + Modulus ELSE IF d < Modulus THEN d ELSE d - Modulus
    BY <2>1, <1>5, NearRemainder
  <2>3. QED
    BY <2>2, <1>5
<1>8. U(x) < U(y) <=> d < 0
  BY <1>1
<1> HIDE DEF c, d
<1>9. (-c) * Modulus + (d % Modulus) = d
  <2>1. CASE c = 1
    BY <2>1, <1>3, <1>5, <1>7, <1>8, Widths
  <2>2. CASE c = 0
    BY <2>2, <1>3, <1>5, <1>7, <1>8, Widths
  <2>3. QED
    BY <2>1, <2>2, <1>3
<1>10. QED
  BY <1>2, <1>4, <1>6, <1>9 DEF d

-----------------------------------------------------------------------------
(* Shifts. *)

\* A rotation by n to the left, and by n to the right.
LEMMA RotatedBits ==
  ASSUME NEW x \in SignedWord, NEW n \in 0 .. Bits
  PROVE  /\ RotateLeft(x, n) \in 0 .. Modulus - 1 /\ RotateRight(x, n) \in 0 .. Modulus - 1
         /\ \A k \in 0 .. Bits - 1 : /\ BitOf(RotateLeft(x, n), k) = BitAt(x, k - n)
                                     /\ BitOf(RotateRight(x, n), k) = BitAt(x, k + n)
<1> DEFINE m == Bits - n
<1>1. Bits \in Nat /\ n \in Nat /\ n <= Bits /\ m \in 0 .. Bits /\ Bits > 0
  BY Widths
<1>2. /\ ShiftLeft(x, n) \in Int /\ ShiftRight(x, m) \in Int
      /\ ShiftLeft(x, m) \in Int /\ ShiftRight(x, n) \in Int
  <2> HIDE DEF m
  <2>1. QED
    BY <1>1, LeftBits, RightBits, Widths
<1>3. RotateLeft(x, n) \in 0 .. Modulus - 1 /\ RotateRight(x, n) \in 0 .. Modulus - 1
  BY <1>1, <1>2, EitherBits DEF RotateLeft, RotateRight, BitOr, Modulus
<1>4. ASSUME NEW k \in 0 .. Bits - 1
      PROVE  /\ BitOf(RotateLeft(x, n), k) = BitAt(x, k - n)
             /\ BitOf(RotateRight(x, n), k) = BitAt(x, k + n)
  <2>1. k \in Nat /\ k < Bits /\ 0 <= k
    BY <1>1
  <2>2. BitOf(RotateLeft(x, n), k) =
          IF BitOf(ShiftLeft(x, n), k) = 1 \/ BitOf(ShiftRight(x, m), k) = 1 THEN 1 ELSE 0
    BY <1>1, <1>2, EitherBits DEF RotateLeft, BitOr
  <2>3. BitOf(RotateRight(x, n), k) =
          IF BitOf(ShiftRight(x, n), k) = 1 \/ BitOf(ShiftLeft(x, m), k) = 1 THEN 1 ELSE 0
    BY <1>1, <1>2, EitherBits DEF RotateRight, BitOr
  <2>4. /\ BitOf(ShiftLeft(x, n), k) = (IF k < n THEN 0 ELSE Bit(x, k - n))
        /\ BitOf(ShiftRight(x, n), k) = (IF k + n < Bits THEN Bit(x, k + n) ELSE 0)
    BY <1>1, LeftBits, RightBits
  <2>5. /\ BitOf(ShiftRight(x, m), k) = (IF k < n THEN Bit(x, k + m) ELSE 0)
        /\ BitOf(ShiftLeft(x, m), k) = (IF k + n < Bits THEN 0 ELSE Bit(x, k - m))
    <3>1. (k + m < Bits <=> k < n) /\ (k < m <=> k + n < Bits)
      BY <1>1, <2>1
    <3> HIDE DEF m
    <3>2. /\ BitOf(ShiftRight(x, m), k) = (IF k + m < Bits THEN Bit(x, k + m) ELSE 0)
          /\ BitOf(ShiftLeft(x, m), k) = (IF k < m THEN 0 ELSE Bit(x, k - m))
      BY <1>1, LeftBits, RightBits
    <3>3. QED
      BY <3>1, <3>2
  <2>6. (k - n) % Bits = IF k < n THEN k + m ELSE k - n
    <3>1. k - n \in Int /\ -Bits <= k - n /\ k - n < Bits /\ k - n < 2 * Bits
      BY <1>1, <2>1
    <3>2. (k - n) % Bits = IF k - n < 0 THEN (k - n) + Bits ELSE k - n
      BY <3>1, <1>1, NearRemainder
    <3>3. (k - n < 0 <=> k < n) /\ (k - n) + Bits = k + m
      BY <1>1, <2>1
    <3>4. QED
      BY <3>2, <3>3
  <2>7. (k + n) % Bits = IF k + n < Bits THEN k + n ELSE k - m
    <3>1. k + n \in Int /\ -Bits <= k + n /\ ~(k + n < 0) /\ k + n < 2 * Bits
      BY <1>1, <2>1
    <3>2. (k + n) % Bits = IF k + n < Bits THEN k + n ELSE (k + n) - Bits
      BY <3>1, <1>1, NearRemainder
    <3>3. (k + n) - Bits = k - m
      BY <1>1, <2>1
    <3>4. QED
      BY <3>2, <3>3
  <2>8. ASSUME NEW j \in Nat PROVE Bit(x, j) \in 0 .. 1
    BY WordUnsigned, Widths, BitRange DEF Bit
  <2>9. k < n => k + m \in Nat
    BY <1>1, <2>1
  <2>10. ~(k < n) => k - n \in Nat
    BY <1>1, <2>1
  <2>11. ~(k + n < Bits) => k - m \in Nat
    BY <1>1, <2>1
  <2>12. k + n \in Nat
    BY <1>1, <2>1
  <2>13. BitOf(RotateLeft(x, n), k) = BitAt(x, k - n)
    <3>1. CASE k < n
      BY <3>1, <2>2, <2>4, <2>5, <2>6, <2>8, <2>9 DEF BitAt
    <3>2. CASE ~(k < n)
      BY <3>2, <2>2, <2>4, <2>5, <2>6, <2>8, <2>10 DEF BitAt
    <3>3. QED
      BY <3>1, <3>2
  <2>14. BitOf(RotateRight(x, n), k) = BitAt(x, k + n)
    <3>1. CASE k + n < Bits
      BY <3>1, <2>3, <2>4, <2>5, <2>7, <2>8, <2>12 DEF BitAt
    <3>2. CASE ~(k + n < Bits)
      BY <3>2, <2>3, <2>4, <2>5, <2>7, <2>8, <2>11 DEF BitAt
    <3>3. QED
      BY <3>1, <3>2
  <2>15. QED
    BY <2>13, <2>14
<1>5. QED
  BY <1>3, <1>4

\* The two shifts extend a half word whose sign bit is zero.
LEMMA ExtendedHalf ==
  ASSUME NEW x \in SignedWord, ~Negative(x)
  PROVE  Result("SRA", Result("SHL", x, Bits \div 2), Bits \div 2) = LowHalf(x)
<1> DEFINE i == Power[ImmBits]
           g == Power[ImmBits - 1]
           q == U(x) \div i
           r == U(x) % i
           t == r * i
<1>1. /\ Bits \div 2 = ImmBits /\ ImmBits \in 0 .. Bits - 1 /\ ImmBits \in Nat /\ ImmBits - 1 \in Nat
      /\ (ImmBits - 1) + 1 = ImmBits
      /\ i \in Nat /\ i > 0 /\ g \in Nat /\ g >= 2 /\ i = 2 * g
      /\ Modulus = i * i /\ SignBit = i * g /\ Modulus \in Nat /\ SignBit \in Nat
  BY Widths, WidthAssumption
<1>2. U(x) \in 0 .. Modulus - 1 /\ U(x) \in Int
  BY WordUnsigned, Widths
<1>3. q \in 0 .. i - 1 /\ r \in 0 .. i - 1 /\ U(x) = q * i + r
  BY <1>2, Halves
<1>4. r < g
  <2>1. BitOf(U(x), ImmBits - 1) # 1
    BY <1>1 DEF Negative, Bit
  <2>2. BitOf(r, ImmBits - 1) = BitOf(U(x), ImmBits - 1)
    BY <1>1, <1>2, BitOfRemainder
  <2>3. r \in 0 .. Power[(ImmBits - 1) + 1] - 1
    BY <1>1, <1>3
  <2> HIDE DEF r
  <2>4. BitOf(r, ImmBits - 1) = IF r < g THEN 0 ELSE 1
    BY <1>1, <2>3, TopBit
  <2>5. QED
    BY <2>1, <2>2, <2>4
<1>5. Result("SHL", x, Bits \div 2) = S((U(x) * i) % Modulus)
  BY <1>1, Amounts DEF Result, ShiftLeft
<1> DEFINE u == U(x)
           m == Modulus
           h == SignBit
<1>6. /\ q \in Nat /\ r \in Nat /\ r < g /\ u = q * i + r /\ g \in Nat /\ i \in Nat /\ i > 0
      /\ m = i * i /\ h = i * g /\ m \in Nat /\ h \in Nat /\ i = 2 * g
  BY <1>1, <1>3, <1>4
<1>7. (u * i) % m = t /\ t \in Nat /\ t < h
  <2> HIDE DEF q, r, i, g, u, m, h
  <2>1. u * i = q * m + t
    BY <1>6
  <2>2. t \in Nat /\ t <= (g - 1) * i
    BY <1>6
  <2>3. (g - 1) * i = h - i
    BY <1>6
  <2> HIDE DEF t
  <2>4. t \in Nat /\ t < h /\ h <= m
    <3>1. m = 2 * h
      BY <1>6
    <3>2. QED
      BY <3>1, <2>2, <2>3, <1>6
  <2>5. u * i \in Int /\ 0 <= t /\ t < m /\ m > 0 /\ m \in Nat /\ q \in Int /\ t \in Int
    BY <2>4, <1>6
  <2> DEFINE w == u * i
  <2>6. w = q * m + t /\ w \in Int
    BY <2>1, <2>5
  <2> HIDE DEF w
  <2>7. w % m = t
    BY <2>5, <2>6, DivisionUnique
  <2>8. QED
    BY <2>4, <2>7 DEF w
<1>8. t \in SignedWord /\ t >= 0 /\ S(t) = t
  <2> HIDE DEF t
  <2>1. t \in SignedWord /\ t >= 0
    <3>1. t \in Nat /\ t < SignBit /\ SignBit \in Nat
      BY <1>1, <1>7 DEF h
    <3>2. QED
      BY <3>1 DEF SignedWord
  <2>2. QED
    BY <2>1, SignedSame
<1>9. Result("SHL", x, Bits \div 2) = t
  BY <1>5, <1>7, <1>8
<1>10. Result("SRA", t, Bits \div 2) = S(ShiftRightSigned(t, ImmBits))
  BY <1>1, Amounts DEF Result
<1>11. S(ShiftRightSigned(t, ImmBits)) = t \div i
  <2> HIDE DEF t
  <2>1. QED
    BY <1>1, <1>8, SignedShiftUp
<1>12. t \div i = r
  <2> HIDE DEF r, i
  <2>1. t = r * i + 0 /\ t \in Int /\ 0 < i
    BY <1>6
  <2> HIDE DEF t
  <2>2. QED
    BY <2>1, <1>6, DivisionUnique
<1>13. LowHalf(x) = r
  BY <1>1 DEF LowHalf
<1>14. QED
  BY <1>9, <1>10, <1>11, <1>12, <1>13

\* The shifts and rotations of a node, bit by bit.
LEMMA ShiftedBits ==
  ASSUME NEW x \in SignedWord, NEW n \in 0 .. Bits - 1, NEW inReg \in BOOLEAN
  PROVE  LET Shifted(kind) ==
               Result((IF inReg THEN ByRegister ELSE ByConstant)[kind], x, n)
         IN  \A k \in 0 .. Bits - 1 :
               /\ Bit(Shifted("shl"), k) = IF k < n THEN 0 ELSE Bit(x, k - n)
               /\ Bit(Shifted("srl"), k) = IF k + n < Bits THEN Bit(x, k + n) ELSE 0
               /\ Bit(Shifted("rotl"), k) = BitAt(x, k - n)
               /\ Bit(Shifted("rotr"), k) = BitAt(x, k + n)
<1> DEFINE Shifted(kind) == Result((IF inReg THEN ByRegister ELSE ByConstant)[kind], x, n)
<1>1. n \in 0 .. Bits /\ c5(n) = n /\ U(n) = n /\ Reduced(n) = n
  BY Amounts, Widths
<1>2. Shifted("shl") = S(ShiftLeft(x, n))
  BY <1>1 DEF Result, ByRegister, ByConstant
<1>3. Shifted("srl") = S(ShiftRight(x, n))
  BY <1>1 DEF Result, ByRegister, ByConstant
<1>4. Shifted("rotl") = S(RotateLeft(x, n))
  BY <1>1 DEF Result, ByRegister, ByConstant
<1>5. Shifted("rotr") = S(RotateRight(x, n))
  BY <1>1 DEF Result, ByRegister, ByConstant
<1>6. ASSUME NEW u \in 0 .. Modulus - 1, NEW k PROVE Bit(S(u), k) = BitOf(u, k)
  BY SignedBack DEF Bit
<1> HIDE DEF Shifted
<1>7. ASSUME NEW k \in 0 .. Bits - 1
      PROVE  /\ Bit(Shifted("shl"), k) = IF k < n THEN 0 ELSE Bit(x, k - n)
             /\ Bit(Shifted("srl"), k) = IF k + n < Bits THEN Bit(x, k + n) ELSE 0
  BY <1>1, <1>2, <1>3, <1>6, LeftBits, RightBits
<1>8. ASSUME NEW k \in 0 .. Bits - 1
      PROVE  /\ Bit(Shifted("rotl"), k) = BitAt(x, k - n)
             /\ Bit(Shifted("rotr"), k) = BitAt(x, k + n)
  BY <1>1, <1>4, <1>5, <1>6, RotatedBits
<1>9. QED
  BY <1>7, <1>8 DEF Shifted

\* And the arithmetic one.
LEMMA ShiftedSigned ==
  ASSUME NEW x \in SignedWord, NEW n \in 0 .. Bits - 1, NEW inReg \in BOOLEAN
  PROVE  Result((IF inReg THEN ByRegister ELSE ByConstant)["sra"], x, n)
           = S(ShiftRightSigned(x, n))
BY Amounts DEF Result, ByRegister, ByConstant

-----------------------------------------------------------------------------
(* The selection. *)

\* The variables' types.
Typed ==
  /\ cpu \in {"cpu032I", "cpu032II"} /\ node \in Node
  /\ status \in {"selecting", "selected", "failed"}

\* The pattern that takes a constant.
Materialised(x) ==
  LET upper == Result("LUi", 0, HI16(x))
  IN  CASE immSExt16(x) -> Result("ADDiu", 0, x)
        [] ~immSExt16(x) /\ immZExt16(x) -> Result("ORi", 0, LO16(x))
        [] ~immZExt16(x) /\ immLow16Zero(x) -> upper
        [] OTHER -> Result("ORi", upper, LO16(x))

\* What was selected, in terms of the node: the actions' words.
Outcome ==
  LET x == node.x
      y == node.y
  IN  /\ Done({"setcc"}) => value = <<SetCC(node.cc, x, y)>>
      /\ Done({"brcond"}) => value = <<Truth(Branches(node.cc, x, y))>>
      /\ Done({"select"}) => value = <<Truth(Selected(node.cc, x, y))>>
      /\ Done({"constant"}) => value = <<Materialised(x)>>
      /\ Done({"shl", "srl", "sra", "rotl", "rotr"}) =>
           value = <<Result((IF node.inReg THEN ByRegister ELSE ByConstant)[node.kind], x, y)>>
      /\ Done({"sext_inreg"}) =>
           value = <<Result("SRA", Result("SHL", x, Bits \div 2), Bits \div 2)>>
      /\ Done({"add64"}) =>
           value = <<Result("ADDu", 0, SetCC("ult", Result("ADDu", x, y), x)),
                     Result("ADDu", x, y)>>
      /\ Done({"sub64"}) =>
           value = <<Result("SUBu", 0, SetCC("ult", x, y)), Result("SUBu", x, y)>>
      /\ Done({"smul_lohi"}) => value = HiLoResult("MULT", x, y)
      /\ Done({"umul_lohi"}) => value = HiLoResult("MULTu", x, y)
      /\ Done({"sdivrem"}) => y # 0 /\ value = HiLoResult("DIV", x, y)

Selection == Typed /\ Outcome

\* The fields of a node.
LEMMA NodeFields ==
  ASSUME Typed
  PROVE  /\ node.kind \in {"setcc", "brcond", "select"} =>
              node.cc \in Conditions /\ node.x \in SignedWord /\ node.y \in SignedWord
         /\ node.kind \in {"constant", "sext_inreg"} => node.x \in SignedWord
         /\ node.kind \in {"shl", "srl", "sra", "rotl", "rotr"} =>
              node.x \in SignedWord /\ node.y \in 0 .. Bits - 1 /\ node.inReg \in BOOLEAN
         /\ node.kind \in {"add64", "sub64", "smul_lohi", "umul_lohi", "sdivrem", "udivrem"} =>
              node.x \in SignedWord /\ node.y \in SignedWord
BY DEF Typed, Node, Comparison, Unary, Shift, Wide

\* Nothing is selected at first.
LEMMA SelectionInit == Init => Selection
BY DEF Init, Selection, Typed, Outcome, Done

\* Every action leaves the words of its pattern, and no other follows it.
LEMMA SelectionStep == Selection /\ [Next]_vars => Selection'
<1> SUFFICES ASSUME Selection, [Next]_vars PROVE Selection'
  OBVIOUS
<1> USE DEF Selection, Typed
<1>1. CASE MatchSetCC
  BY <1>1 DEF MatchSetCC, Selects, Emits, Outcome, Done, SetCC
<1>2. CASE MatchBrCond
  BY <1>2 DEF MatchBrCond, Selects, Emits, Outcome, Done, Branches
<1>3. CASE MatchSelect
  BY <1>3 DEF MatchSelect, Selects, Emits, Outcome, Done, Selected, SetCC
<1>4. CASE MatchConstant
  <2>1. value' = <<Materialised(node.x)>>
    BY <1>4 DEF MatchConstant, Emits, Materialised
  <2>2. QED
    BY <2>1, <1>4 DEF MatchConstant, Selects, Emits, Outcome, Done
<1>5. CASE MatchShift
  <2>1. DOMAIN ByConstant = {"shl", "srl", "sra", "rotl", "rotr"}
    BY DEF ByConstant
  <2>2. QED
    BY <2>1, <1>5 DEF MatchShift, Selects, Emits, Outcome, Done
<1>6. CASE ExpandSextInReg
  BY <1>6 DEF ExpandSextInReg, Selects, Emits, Outcome, Done
<1>7. CASE ExpandAddSub
  BY <1>7 DEF ExpandAddSub, Selects, Emits, Outcome, Done, SetCC
<1>8. CASE SelectMULT
  BY <1>8 DEF SelectMULT, Selects, Emits, Outcome, Done
<1>9. CASE PerformDivRemCombine
  BY <1>9 DEF PerformDivRemCombine, Selects, Emits, CannotSelect, Outcome, Done
<1>10. CASE UNCHANGED vars
  BY <1>10 DEF vars, Outcome, Done, SetCC, Branches, Selected
<1>11. QED
  BY <1>1, <1>2, <1>3, <1>4, <1>5, <1>6, <1>7, <1>8, <1>9, <1>10 DEF Next

\* Whatever was selected, the value is that of the node's pattern.
THEOREM SelectionInvariant == Spec => []Selection
BY SelectionInit, SelectionStep, PTL DEF Spec

-----------------------------------------------------------------------------
(* The properties. *)

\* One word is another exactly if what they stand for is the same.
LEMMA SameTruth ==
  ASSUME NEW P, NEW Q
  PROVE  <<Truth(P)>> = <<Truth(Q)>> <=> (P <=> Q)
BY DEF Truth

\* The word that a comparison leaves.
LEMMA ComparedDecides ==
  ASSUME Selection, Compared
  PROVE  /\ node.kind \in {"setcc", "brcond", "select"}
         /\ node.cc \in Conditions /\ node.x \in SignedWord /\ node.y \in SignedWord
         /\ value = <<Truth(Decides(node.kind, node.cc, node.x, node.y))>>
<1>1. /\ status = "selected" /\ node.kind \in {"setcc", "brcond", "select"}
      /\ node.cc \in Conditions /\ node.x \in SignedWord /\ node.y \in SignedWord
  BY NodeFields DEF Selection, Compared, Done
<1>2. CASE node.kind = "setcc"
  <2>1. value = <<SetCC(node.cc, node.x, node.y)>>
    BY <1>1, <1>2 DEF Selection, Outcome, Done
  <2>2. SetCC(node.cc, node.x, node.y) = Truth(Decides("setcc", node.cc, node.x, node.y))
    BY <1>1, SetCCDecides
  <2>3. QED
    BY <2>1, <2>2, <1>1, <1>2
<1>3. CASE node.kind = "brcond"
  <2>1. value = <<Truth(Branches(node.cc, node.x, node.y))>>
    BY <1>1, <1>3 DEF Selection, Outcome, Done
  <2>2. Decides("brcond", node.cc, node.x, node.y) <=> Branches(node.cc, node.x, node.y)
    BY DEF Decides
  <2>3. QED
    BY <2>1, <2>2, <1>1, <1>3, SameTruth
<1>4. CASE node.kind = "select"
  <2>1. value = <<Truth(Selected(node.cc, node.x, node.y))>>
    BY <1>1, <1>4 DEF Selection, Outcome, Done
  <2>2. Decides("select", node.cc, node.x, node.y) <=> Selected(node.cc, node.x, node.y)
    BY DEF Decides
  <2>3. QED
    BY <2>1, <2>2, <1>1, <1>4, SameTruth
<1>5. QED
  BY <1>1, <1>2, <1>3, <1>4

\* Operands of the same sign: every context and processor is right, and the flag
\* jumps of cpu032I are exactly when the difference fits.
LEMMA SelectionSameSign == Selection => SameSignExact
<1> SUFFICES ASSUME Selection PROVE SameSignExact
  OBVIOUS
<1>1. ASSUME Compared, SameSign
      PROVE  value = <<Truth(Holds(node.cc, node.x, node.y))>>
  BY <1>1, ComparedDecides, SameSignDecides, SameTruth DEF SameSign
<1>2. ASSUME Done({"brcond"}), cpu = "cpu032I", node.cc \in {"lt", "le", "gt", "ge"}
      PROVE  value = <<Truth(Holds(node.cc, node.x, node.y))>>
               <=> S(node.x - node.y) = node.x - node.y
  <2>1. node.kind = "brcond" /\ Compared
    BY <1>2 DEF Done, Compared
  <2>2. /\ value = <<Truth(Decides("brcond", node.cc, node.x, node.y))>>
        /\ node.x \in SignedWord /\ node.y \in SignedWord
    BY <2>1, ComparedDecides
  <2>3. Decides("brcond", node.cc, node.x, node.y) <=> BranchCmp(node.cc, node.x, node.y)
    BY <1>2 DEF Decides, Branches
  <2>4. (BranchCmp(node.cc, node.x, node.y) <=> Holds(node.cc, node.x, node.y))
          <=> S(node.x - node.y) = node.x - node.y
    BY <1>2, <2>2, FlagJumps
  <2>5. QED
    BY <2>2, <2>3, <2>4, SameTruth
<1>3. QED
  BY <1>1, <1>2 DEF SameSignExact

\* SLT orders signed operands right; equality is right but for the sign.
LEMMA SelectionSlt == Selection => SltExact
<1> SUFFICES ASSUME Selection PROVE SltExact
  OBVIOUS
<1>1. ASSUME Compared, cpu = "cpu032II", node.cc \in {"lt", "le", "gt", "ge"}
      PROVE  value = <<Truth(Holds(node.cc, node.x, node.y))>>
  BY <1>1, ComparedDecides, OrderDecides, SameTruth
<1>2. cpu \in {"cpu032I", "cpu032II"}
  BY DEF Selection, Typed
<1>3. ASSUME Compared, node.cc \in {"eq", "ne"}, node.kind # "setcc" \/ cpu = "cpu032I"
      PROVE  value = <<Truth(Holds(node.cc, node.x, node.y))>>
  BY <1>2, <1>3, ComparedDecides, EqualityDecides, SameTruth
<1>4. ASSUME Done({"setcc"}), cpu = "cpu032II", node.cc \in {"eq", "ne"}
      PROVE  value = <<Truth(Holds(node.cc, node.x, node.y))>> <=> SameSign
  <2>1. node.kind = "setcc" /\ Compared
    BY <1>4 DEF Done, Compared
  <2>2. /\ value = <<Truth(Decides("setcc", node.cc, node.x, node.y))>>
        /\ node.x \in SignedWord /\ node.y \in SignedWord
    BY <2>1, ComparedDecides
  <2>3. (Decides("setcc", node.cc, node.x, node.y) <=> Holds(node.cc, node.x, node.y))
          <=> (node.x < 0) = (node.y < 0)
    BY <1>4, <1>2, <2>2, EqualityDecides
  <2>4. QED
    BY <2>2, <2>3, SameTruth DEF SameSign
<1>5. QED
  BY <1>1, <1>3, <1>4 DEF SltExact, SameSign

\* A condition and a branch on it agree on cpu032I.
LEMMA SelectionContexts == Selection => ContextsAgree
<1> SUFFICES ASSUME Selection, Compared, cpu = "cpu032I", S(node.x - node.y) # -SignBit
             PROVE  SetCC(node.cc, node.x, node.y) = Truth(Branches(node.cc, node.x, node.y))
  BY DEF ContextsAgree
<1>1. node.cc \in Conditions /\ node.x \in SignedWord /\ node.y \in SignedWord
  BY ComparedDecides
<1>2. SetCC(node.cc, node.x, node.y) = Truth(Flagged(node.cc, node.x, node.y))
  BY <1>1, SetCmpFlagged DEF SetCC
<1>3. Flagged(node.cc, node.x, node.y) <=> BranchCmp(node.cc, node.x, node.y)
  BY <1>1, FlagsAgree
<1>4. QED
  BY <1>2, <1>3 DEF Branches, Truth

\* Each of the four patterns gives the constant.
LEMMA SelectionConstants == Selection => ConstantsExact
<1> SUFFICES ASSUME Selection, Done({"constant"}) PROVE value = <<node.x>>
  BY DEF ConstantsExact
<1>1. node.x \in SignedWord /\ value = <<Materialised(node.x)>>
  BY NodeFields DEF Selection, Outcome, Done
<1>2. Materialised(node.x) = node.x
  BY <1>1, ConstantMaterialised DEF Materialised
<1>3. QED
  BY <1>1, <1>2

\* Each shift puts its bits in place.
LEMMA SelectionShifts == Selection => ShiftsExact
<1> SUFFICES ASSUME Selection PROVE ShiftsExact
  OBVIOUS
<1>1. ASSUME Done({"sext_inreg"}), ~Negative(node.x) PROVE value = <<LowHalf(node.x)>>
  <2>1. /\ node.x \in SignedWord
        /\ value = <<Result("SRA", Result("SHL", node.x, Bits \div 2), Bits \div 2)>>
    BY <1>1, NodeFields DEF Selection, Outcome, Done
  <2>2. QED
    BY <2>1, <1>1, ExtendedHalf
<1>2. ASSUME Done({"shl", "srl", "sra", "rotl", "rotr"})
      PROVE  /\ node.x \in SignedWord /\ node.y \in 0 .. Bits - 1 /\ node.inReg \in BOOLEAN
             /\ value = <<Result((IF node.inReg THEN ByRegister ELSE ByConstant)[node.kind],
                                 node.x, node.y)>>
  BY <1>2, NodeFields DEF Selection, Outcome, Done
<1>3. ASSUME Done({"sra"})
      PROVE  value = <<node.x \div Power[node.y]>> <=> (node.x >= 0 \/ node.y < 2)
  <2>1. node.kind = "sra" /\ Done({"shl", "srl", "sra", "rotl", "rotr"})
    BY <1>3 DEF Done
  <2>2. value = <<S(ShiftRightSigned(node.x, node.y))>>
    BY <2>1, <1>2, ShiftedSigned
  <2>3. QED
    BY <2>1, <2>2, <1>2, SignedShiftExact
<1>4. ASSUME Done({"shl", "srl", "rotl", "rotr"}), NEW k \in 0 .. Bits - 1
      PROVE  CASE node.kind = "shl" -> Bit(value[1], k) =
                    IF k < node.y THEN 0 ELSE Bit(node.x, k - node.y)
               [] node.kind = "srl" -> Bit(value[1], k) =
                    IF k + node.y < Bits THEN Bit(node.x, k + node.y) ELSE 0
               [] node.kind = "rotl" -> Bit(value[1], k) = BitAt(node.x, k - node.y)
               [] node.kind = "rotr" -> Bit(value[1], k) = BitAt(node.x, k + node.y)
  <2>1. node.kind \in {"shl", "srl", "rotl", "rotr"} /\ Done({"shl", "srl", "sra", "rotl", "rotr"})
    BY <1>4 DEF Done
  <2>2. value[1] = Result((IF node.inReg THEN ByRegister ELSE ByConstant)[node.kind],
                          node.x, node.y)
    BY <2>1, <1>2
  <2>3. CASE node.kind = "shl"
    BY <2>1, <2>2, <2>3, <1>2, ShiftedBits
  <2>4. CASE node.kind = "srl"
    BY <2>1, <2>2, <2>4, <1>2, ShiftedBits
  <2>5. CASE node.kind = "rotl"
    BY <2>1, <2>2, <2>5, <1>2, ShiftedBits
  <2>6. CASE node.kind = "rotr"
    BY <2>1, <2>2, <2>6, <1>2, ShiftedBits
  <2>7. QED
    BY <2>1, <2>3, <2>4, <2>5, <2>6
<1>5. QED
  BY <1>1, <1>3, <1>4 DEF ShiftsExact

\* Products, quotients and remainders.
LEMMA SelectionWide == Selection => WideExact
<1> SUFFICES ASSUME Selection PROVE WideExact
  OBVIOUS
<1>1. ASSUME Done({"smul_lohi"}) PROVE value[1] * Modulus + U(value[2]) = node.x * node.y
  <2>1. /\ node.x \in SignedWord /\ node.y \in SignedWord
        /\ value = <<S((node.x * node.y) \div Modulus), S(node.x * node.y)>>
    BY <1>1, NodeFields DEF Selection, Outcome, Done, HiLoResult
  <2>2. QED
    BY <2>1, SignedProduct
<1>2. ASSUME Done({"umul_lohi"})
      PROVE  U(value[1]) * Modulus + U(value[2]) = U(node.x) * U(node.y)
  <2>1. /\ node.x \in SignedWord /\ node.y \in SignedWord
        /\ value = <<S((U(node.x) * U(node.y)) \div Modulus), S(U(node.x) * U(node.y))>>
    BY <1>2, NodeFields DEF Selection, Outcome, Done, HiLoResult
  <2>2. QED
    BY <2>1, UnsignedProduct
<1>3. ASSUME Done({"sdivrem"}), ~(node.x = -SignBit /\ node.y = -1)
      PROVE  /\ node.y * value[2] + value[1] = node.x
             /\ Abs(value[1]) < Abs(node.y)
             /\ value[1] = 0 \/ (value[1] < 0) = (node.x < 0)
  <2>1. /\ node.x \in SignedWord /\ node.y \in SignedWord /\ node.y # 0
        /\ value = <<S(Remainder(node.x, node.y)), S(Quotient(node.x, node.y))>>
    BY <1>3, NodeFields DEF Selection, Outcome, Done, HiLoResult
  <2>2. QED
    BY <2>1, <1>3, SignedDivision
<1>4. QED
  BY <1>1, <1>2, <1>3 DEF WideExact

\* Sums and differences of double words.
LEMMA SelectionCarry == Selection => CarryExact
<1> SUFFICES ASSUME Selection PROVE CarryExact
  OBVIOUS
<1>1. ASSUME Done({"add64"}), (node.x < 0) = (value[2] < 0)
      PROVE  U(value[1]) * Modulus + U(value[2]) = U(node.x) + U(node.y)
  <2>1. /\ node.x \in SignedWord /\ node.y \in SignedWord
        /\ value = <<Result("ADDu", 0, SetCC("ult", Result("ADDu", node.x, node.y), node.x)),
                     Result("ADDu", node.x, node.y)>>
    BY <1>1, NodeFields DEF Selection, Outcome, Done
  <2>2. Result("ADDu", node.x, node.y) = S(node.x + node.y)
    BY DEF Result
  <2>3. QED
    BY <2>1, <2>2, <1>1, CarryRecovered
<1>2. ASSUME Done({"sub64"}), SameSign
      PROVE  value[1] * Modulus + U(value[2]) = U(node.x) - U(node.y)
  <2>1. /\ node.x \in SignedWord /\ node.y \in SignedWord
        /\ value = <<Result("SUBu", 0, SetCC("ult", node.x, node.y)),
                     Result("SUBu", node.x, node.y)>>
    BY <1>2, NodeFields DEF Selection, Outcome, Done
  <2>2. Result("SUBu", node.x, node.y) = S(node.x - node.y)
    BY DEF Result
  <2>3. QED
    BY <2>1, <2>2, <1>2, BorrowRecovered DEF SameSign
<1>3. QED
  BY <1>1, <1>2 DEF CarryExact

\* A comparison of operands of the same sign means, in every context and on both
\* processors, what LLVM says; a flag jump of cpu032I is right exactly if the
\* difference of its operands fits a word.
THEOREM SameSigns == Spec => []SameSignExact
BY SelectionInvariant, SelectionSameSign, PTL

\* cpu032II orders signed operands right; branches and selects on equality are
\* right everywhere, its materialised equality exactly for the same signs.
THEOREM SignedOrder == Spec => []SltExact
BY SelectionInvariant, SelectionSlt, PTL

\* On cpu032I a condition that is materialised and one that is branched on agree,
\* unless the difference is the most negative word.
THEOREM Contexts == Spec => []ContextsAgree
BY SelectionInvariant, SelectionContexts, PTL

\* Every constant is materialised exactly.
THEOREM Constants == Spec => []ConstantsExact
BY SelectionInvariant, SelectionConstants, PTL

\* Shifts and rotates put every bit in its place; an arithmetic shift is exact
\* exactly for words that are not negative and amounts below two.
THEOREM Shifts == Spec => []ShiftsExact
BY SelectionInvariant, SelectionShifts, PTL

\* Products of two words, quotients and remainders are exact.
THEOREM WideResults == Spec => []WideExact
BY SelectionInvariant, SelectionWide, PTL

\* The carry and the borrow of 64-bit sums and differences are recovered for
\* operands of the same sign.
THEOREM Carries == Spec => []CarryExact
BY SelectionInvariant, SelectionCarry, PTL
=============================================================================
