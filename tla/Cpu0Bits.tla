------------------------------- MODULE Cpu0Bits -------------------------------
(***************************************************************************)
(* Natural numbers as bits.                                                *)
(***************************************************************************)
EXTENDS Integers

\* 2^n.  A definition of its own, since TLAPS knows no law of ^.
Power[n \in Nat] == IF n = 0 THEN 1 ELSE 2 * Power[n - 1]

\* Bit k of u.
BitOf(u, k) == (u \div Power[k]) % 2

\* An operation on bits, done to the lowest n bits of two numbers.
Both == [a \in 0 .. 1 |-> [b \in 0 .. 1 |-> IF a = 1 /\ b = 1 THEN 1 ELSE 0]]
Either == [a \in 0 .. 1 |-> [b \in 0 .. 1 |-> IF a = 1 \/ b = 1 THEN 1 ELSE 0]]
OneOf == [a \in 0 .. 1 |-> [b \in 0 .. 1 |-> IF a # b THEN 1 ELSE 0]]
ByBits(op, n, u, v) ==
  LET low[k \in 0 .. n] ==
        IF k = 0 THEN 0
        ELSE low[k - 1] + Power[k - 1] * op[BitOf(u, k - 1)][BitOf(v, k - 1)]
  IN  low[n]
=============================================================================
