----------------------------- MODULE MCCpu0Boot -----------------------------
(***************************************************************************)
(* An eight-bit datapath with four-bit immediates, on which boot.c's       *)
(* constants keep their meaning (lui $sp, 7; addiu $sp, $sp, -4), and      *)
(* mains of two instructions before their return.                          *)
(***************************************************************************)
EXTENDS Cpu0Boot, TLC

A8 == INSTANCE Cpu0Alu WITH Bits <- 8, ImmBits <- 4

MCAlu(op, x, y) ==
  IF op \in {"ADDiu", "ANDi", "ORi", "LUi"} THEN A8!Result(op, x, y) ELSE x
MCHiLo(op, x, y) == {<<x, y>>}
MCExtend(op, w) == w
MCMerge(op, old, w) == w

\* The four enable bits within an immediate, as 0x1e00 is.
Layout == <<"IE", "I0E", "I1E", "I2E", "I0", "I", "V">>
MCSwFlags(w) == {Layout[k] : k \in {j \in 1 .. 7 : A8!Bit(w, j - 1) = 1}}
Weight(s, k) == IF Layout[k] \in s THEN 2 ^ (k - 1) ELSE 0
MCSwWord(s) == Weight(s, 1) + Weight(s, 2) + Weight(s, 3) + Weight(s, 4)
               + Weight(s, 5) + Weight(s, 6) + Weight(s, 7)

MCDataAddr == {108}
MCDataImages == {[a \in MCDataAddr |-> 0]}
MCUndef == {1}
MCCodeAddr == {4 * k : k \in 0 .. Len(Boot) + 4}

Body == { Nop, I("ADDiu", 5, 5, 0, 1), I("ST", 14, 13, 0, 0), I("LD", 4, 13, 0, 0),
          I("JMP", 0, 0, 0, 0), I("CMP", 0, 14, 5, 0), I("JEQ", 0, 0, 0, 4),
          I("ADD", 3, 14, 0, 0) }
MCPrograms == {b \o <<I("RET", LR, 0, 0, 0), Nop, Nop>> : b \in [1 .. 2 -> Body]}
=============================================================================
