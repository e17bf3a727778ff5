------------------------------ MODULE Cpu0Memory ------------------------------
(***************************************************************************)
(* The bytes of memory0 in src/simulator/cpu0.v: what a store of one, two  *)
(* or four bytes writes and a load of as many reads, in either byte order, *)
(* and the sign extension of WriteBack.  A word is a function from 0 .. 3  *)
(* to bytes, its least significant byte at 0; le is the `LE bit of         *)
(* cpu0.config.                                                            *)
(***************************************************************************)
EXTENDS Integers

CONSTANT MEMSIZE   \* bytes of memory, a multiple of four

Address == 0 .. MEMSIZE - 1

Zero == 0
HighZ == [k \in 0 .. 3 |-> -1]   \* data is 32'hZZZZZZZZ

\* Mutant: big endian data in the lanes of little endian.
Lane_AlwaysLittle(le, n, k) == k

\* The cell, of n, that byte k of a word goes to.
Lane(le, n, k) == IF le THEN k ELSE n - 1 - k

\* Mutant: a bound for bytes.
InBounds_Bytes(a) == a <= MEMSIZE - 1

\* One bound for all sizes.
InBounds(a) == a <= MEMSIZE - 4

Write(m, le, a, n, d) ==
  [x \in DOMAIN m |->
     IF InBounds(a) /\ x \in a .. a + n - 1 THEN d[Lane(le, n, x - a)] ELSE m[x]]

Read(m, le, a, n) ==
  IF InBounds(a)
    THEN [k \in 0 .. 3 |-> IF k < n THEN m[a + Lane(le, n, k)] ELSE Zero]
    ELSE HighZ

\* WriteBack of LB (n = 1) and LH (n = 2).
Extend(n, d) ==
  [k \in 0 .. 3 |-> IF k >= n /\ d[n - 1] > 127 THEN 255 ELSE d[k]]
=============================================================================
