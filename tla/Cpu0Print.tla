------------------------------- MODULE Cpu0Print -------------------------------
(***************************************************************************)
(* print_integer of src/simulator/boot/print.c, with itoa.c: the bytes it  *)
(* stores to OUT_MEM for an int of Bits bits.  A character is its digit,   *)
(* "-", "end" for '\0' or "newline".                                       *)
(***************************************************************************)
EXTENDS Cpu0Alu, Sequences

INT_DIGITS == 19

\* The buffer holds any int: a digit stands for more than three bits.
ASSUME BufferAssumption == Bits <= 3 * INT_DIGITS

\* Mutant: added to '0' whatever the sign.
Character_Added(i) == Remainder(i, 10)

\* C's % truncates: for a negative i the remainder is negative, and is
\* subtracted from '0'.
Character(i) == IF i >= 0 THEN Remainder(i, 10) ELSE -Remainder(i, 10)

\* The loop, which writes the characters from the last to the first.
Characters[i \in SignedWord] ==
  IF Quotient(i, 10) = 0 THEN <<Character(i)>>
  ELSE Append(Characters[Quotient(i, 10)], Character(i))

itoa(i) == IF i >= 0 THEN Characters[i] ELSE <<"-">> \o Characters[i]

print_string(str) == str \o <<"end", "newline">>
print_integer(i) == print_string(itoa(i))
=============================================================================
