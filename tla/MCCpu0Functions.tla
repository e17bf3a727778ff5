---------------------------- MODULE MCCpu0Functions ----------------------------
(***************************************************************************)
(* Inputs for the functions of Cpu0Functions.                              *)
(***************************************************************************)
EXTENDS Cpu0Functions

MCSpValues == {-SignBit, -8, SignBit - 8}
MCContents == {[x \in Address |-> 100 + x]}
MCData == {[k \in 0 .. 3 |-> k + 1], [k \in 0 .. 3 |-> 200 + k]}
MCRegFiles == {[r \in Regs |-> IF r = 0 THEN 0 ELSE IF r = 1 THEN SignBit - 7 ELSE -77]}
MCHighHalves == {0, 1, Range16 \div 2, Range16 - 1}
=============================================================================
