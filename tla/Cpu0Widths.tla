------------------------------ MODULE Cpu0Widths ------------------------------
(***************************************************************************)
(* The datapath as the tools know it: a constant is half a word, as 16     *)
(* bits are of 32.                                                         *)
(***************************************************************************)
EXTENDS Cpu0Alu

ASSUME WidthAssumption == ImmBits \in Nat /\ ImmBits >= 2 /\ Bits = 2 * ImmBits
=============================================================================
