------------------------------- MODULE Cpu0Alu -------------------------------
(***************************************************************************)
(* The datapath of src/simulator/cpu0.v: what each data instruction        *)
(* computes, at a width of Bits (32 in the source) with constants of       *)
(* ImmBits (16).  Words are signed, -2^(Bits-1) .. 2^(Bits-1)-1; constants *)
(* arrive sign-extended, as c16 does, and uc16 and c5 are taken from them. *)
(***************************************************************************)
EXTENDS Cpu0Bits

CONSTANTS Bits, ImmBits

Modulus == Power[Bits]
SignBit == Power[Bits - 1]
SignedWord == -SignBit .. SignBit - 1

\* A word as the unsigned number with the same bits, and back.
U(x) == x % Modulus
S(u) == ((u + SignBit) % Modulus) - SignBit

\* The bitwise operators, on words as unsigned numbers.
BitAnd(u, v) == ByBits(Both, Bits, u, v)
BitOr(u, v) == ByBits(Either, Bits, u, v)
BitXor(u, v) == ByBits(OneOf, Bits, u, v)

uc16(cx) == cx % Power[ImmBits]
c5(cx) == cx % Bits

\* Shifts are by an unsigned amount; a shift by Bits or more leaves nothing.
ShiftLeft(x, n) == IF n \in 0 .. Bits - 1 THEN (U(x) * Power[n]) % Modulus ELSE 0
ShiftRight(x, n) == IF n \in 0 .. Bits - 1 THEN U(x) \div Power[n] ELSE 0

\* SRA and SRAV: the logical shift, with the sign bit put back.
ShiftRightSigned(x, n) == BitOr(BitAnd(U(x), SignBit), ShiftRight(x, n))

\* ROLV and RORV first bring the amount within -32 .. 32.
Reduced(n) ==
  IF n < -Bits THEN (n % Bits) - Bits
  ELSE IF n > Bits THEN ((n - 1) % Bits) + 1
  ELSE n

RotateLeft(x, n) == BitOr(ShiftLeft(x, n), ShiftRight(x, Bits - n))
RotateRight(x, n) == BitOr(ShiftRight(x, n), ShiftLeft(x, Bits - n))

\* The number of leading bits equal to b.
Bit(x, k) == BitOf(U(x), k)
Leading(x, b) ==
  CHOOSE n \in 0 .. Bits :
    /\ \A k \in Bits - n .. Bits - 1 : Bit(x, k) = b
    /\ n = Bits \/ Bit(x, Bits - 1 - n) # b

\* The word regSet stores for op, with operands Rb and y = Rc, c16 or c5.
Result(op, x, y) ==
  CASE op \in {"ADDiu", "ADDu", "ADD"} -> S(x + y)
    [] op \in {"SUBu", "SUB"} -> S(x - y)
    [] op = "MUL" -> S(x * y)
    [] op = "AND" -> S(BitAnd(U(x), U(y)))
    [] op = "OR" -> S(BitOr(U(x), U(y)))
    [] op = "XOR" -> S(BitXor(U(x), U(y)))
    [] op = "ANDi" -> S(BitAnd(U(x), uc16(y)))
    [] op = "ORi" -> S(BitOr(U(x), uc16(y)))
    [] op = "XORi" -> S(BitXor(U(x), uc16(y)))
    [] op = "LUi" -> S(uc16(y) * Power[ImmBits])
    [] op = "SHL" -> S(ShiftLeft(x, c5(y)))
    [] op = "SHR" -> S(ShiftRight(x, c5(y)))
    [] op = "SRA" -> S(ShiftRightSigned(x, c5(y)))
    [] op = "ROL" -> S(RotateLeft(x, c5(y)))
    [] op = "ROR" -> S(RotateRight(x, c5(y)))
    [] op = "SHLV" -> S(ShiftLeft(x, U(y)))
    [] op = "SHRV" -> S(ShiftRight(x, U(y)))
    [] op = "SRAV" -> S(ShiftRightSigned(x, U(y)))
    [] op = "ROLV" -> S(RotateLeft(x, Reduced(y)))
    [] op = "RORV" -> S(RotateRight(x, Reduced(y)))
    [] op = "CLZ" -> Leading(x, 0)
    [] op = "CLO" -> Leading(x, 1)

\* Verilog's signed division rounds towards zero; the remainder takes the
\* sign of the dividend.
Abs(x) == IF x < 0 THEN -x ELSE x
Quotient(x, y) == (IF (x < 0) = (y < 0) THEN 1 ELSE -1) * (Abs(x) \div Abs(y))
Remainder(x, y) == x - y * Quotient(x, y)

\* The pair regHILOSet stores; no divisor is zero here.
HiLoResult(op, x, y) ==
  CASE op = "MULT" -> <<S((x * y) \div Modulus), S(x * y)>>
    [] op = "MULTu" -> <<S((U(x) * U(y)) \div Modulus), S(U(x) * U(y))>>
    [] op = "DIV" -> <<S(Remainder(x, y)), S(Quotient(x, y))>>
    [] op = "DIVu" -> <<S(U(x) % U(y)), S(U(x) \div U(y))>>
=============================================================================
