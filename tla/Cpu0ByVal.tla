------------------------------ MODULE Cpu0ByVal ------------------------------
(***************************************************************************)
(* A structure of one word or less that travels in a register: the word    *)
(* passByValArg loads for it and the bytes that copyByValRegs stores, in   *)
(* the byte order le.                                                      *)
(***************************************************************************)
EXTENDS Cpu0Memory, Cpu0Bits, Sequences

\* The sizes of the loads that make up a rest of less than a word.
SubwordLoads(size) == IF size = 3 THEN <<2, 1>> ELSE <<size>>

\* Mutant: as for little endian.
Shamt_Little(le, total, n) == total

\* The shift, in bytes, of a load of n bytes after total bytes.
Shamt(le, total, n) == IF le THEN total ELSE 4 - (total + n)

ShiftedLeft(d, n) == [k \in 0 .. 3 |-> IF k >= n THEN d[k - n] ELSE 0]
OrWords(d, e) == [k \in 0 .. 3 |-> ByBits(Either, 8, d[k], e[k])]

passByValArg(m, le, src, size) ==
  LET loads == SubwordLoads(size)
      part(i, total) == ShiftedLeft(Read(m, le, src + total, loads[i]), Shamt(le, total, loads[i]))
  IN  IF size = 4 THEN Read(m, le, src, 4)
      ELSE IF Len(loads) = 1 THEN part(1, 0)
      ELSE OrWords(part(1, 0), part(2, loads[1]))

copyByValRegs(m, le, object, reg) == Write(m, le, object, 4, reg)
=============================================================================
