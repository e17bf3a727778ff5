------------------------------ MODULE MCCpu0Cpu ------------------------------
(***************************************************************************)
(* Programs and a datapath of eight bits for TLC.  A program is boot.c's   *)
(* vector table with an interrupt handler that saves EPC, re-enables       *)
(* interrupts and returns, a prologue that enables interrupts, and a body  *)
(* of BodyLength instructions chosen freely from Body.                     *)
(***************************************************************************)
EXTENDS Cpu0CpuIsa, Sequences, TLC

CONSTANTS BodyLength, Body

A8 == INSTANCE Cpu0Alu WITH Bits <- 8, ImmBits <- 8

MCAlu(op, x, y) ==
  IF op \in {"ADDiu", "ADDu", "SUBu", "MUL"} THEN A8!Result(op, x, y) ELSE x

MCHiLo(op, x, y) ==
  IF op \in {"DIV", "DIVu"} /\ y = 0 THEN Undef \X Undef
  ELSE {A8!HiLoResult(op, x, y)}

\* LB and LH keep the low four bits of a word, LBu and LHu too, unsigned.
MCExtend(op, w) ==
  CASE op = "LD" -> w
    [] op \in {"LBu", "LHu"} -> w % 16
    [] op \in {"LB", "LH"} -> ((w + 8) % 16) - 8
MCMerge(op, old, w) ==
  IF op = "ST" THEN w ELSE A8!S(old - (old % 16) + (w % 16))

\* The flags these programs touch, packed into eight bits.
Layout == <<"N", "Z", "IE", "I", "I0E", "I0", "I1E", "I1">>
MCSwFlags(w) == {Layout[k] : k \in {j \in 1 .. 8 : A8!Bit(w, j - 1) = 1}}
Weight(s, k) == IF Layout[k] \in s THEN 2 ^ (k - 1) ELSE 0
MCSwWord(s) == A8!S(Weight(s, 1) + Weight(s, 2) + Weight(s, 3) + Weight(s, 4)
                    + Weight(s, 5) + Weight(s, 6) + Weight(s, 7) + Weight(s, 8))

\* Status words as programs write them.
Enabled == MCSwWord({"IE", "I0E", "I1E"})
Line1Pending == MCSwWord({"IE", "I1E", "I", "I1"})
Masked == MCSwWord({"I0E", "I1E"})

I(op, a, b, c, cx) == [op |-> op, a |-> a, b |-> b, c |-> c, cx |-> cx]
Nop == I("NOP", 0, 0, 0, 0)

Start == 16
Handler == Start + 4 * (BodyLength + 4)
Vectors == <<I("JMP", 0, 0, 0, 12), I("JMP", 0, 0, 0, 4),
             I("JMP", 0, 0, 0, Handler - 12), I("JMP", 0, 0, 0, -4)>>
Prologue == <<I("ADDiu", SWREG, 0, 0, Enabled)>>
Epilogue == <<I("RET", LR, 0, 0, 0), Nop, Nop>>
Return == <<I("MFC0", 2, 1, 0, 0), I("RET", 2, 0, 0, 0),
            I("ADDiu", SWREG, 0, 0, Enabled)>>

MCCodeAddr == {4 * k : k \in 0 .. BodyLength + 10}
MCImage(body, x) ==
  LET k == x \div 4 IN
  CASE k < 4 -> Vectors[k + 1]
    [] k = 4 -> Prologue[1]
    [] k \in 5 .. BodyLength + 4 -> body[k - 4]
    [] k \in BodyLength + 5 .. BodyLength + 7 -> Epilogue[k - BodyLength - 4]
    [] OTHER -> Return[k - BodyLength - 7]

MCPrograms == [1 .. BodyLength -> Body]
MCDataAddr == {100}
MCDataImages == {[a \in MCDataAddr |-> Line1Pending]}
MCUndef == {1}

Common ==
  { I("ADD", 3, 14, 0, 0),       \* overflows: requests the software interrupt
    I("SUB", 3, 14, 5, 0),
    I("ADDiu", SWREG, 0, 0, Line1Pending),
    I("ADDiu", 5, 5, 0, 1),
    I("LD", 4, 0, 0, 100), I("ST", 14, 0, 0, 100), I("ST", 5, 0, 0, 108),
    I("CMP", 0, 5, 14, 0), I("JEQ", 0, 0, 0, -8), I("BNE", 5, 0, 0, 4),
    I("JMP", 0, 0, 0, 4), I("JSUB", 0, 0, 0, 8), I("RET", 2, 0, 0, 0) }

\* One instruction of every other kind.
Others ==
  { Nop, I("SLT", 6, 14, 5, 0), I("MOVZ", 6, 5, 0, 0), I("MOVN", 6, 5, 0, 0),
    I("MULT", 5, 14, 0, 0), I("DIV", 5, 0, 0, 0), I("MTHI", 5, 0, 0, 0),
    I("MFLO", 6, 0, 0, 0), I("MFC0", 6, 0, 0, 0), I("MFC0", 6, 7, 0, 0),
    I("MTC0", 1, 5, 0, 0), I("C0MOV", 0, 1, 0, 0), I("BAL", 0, 0, 0, -8),
    I("JALR", 7, 2, 0, 0), I("LB", 4, 0, 0, 100), I("SB", 5, 0, 0, 108),
    I("LD", 4, 0, 0, 60) }

\* A load of $sw, and writes to $zero that the hardware performs.
SwLoad == I("LD", SWREG, 0, 0, 100)
ZeroWrites == { I("LD", 0, 0, 0, 100), I("SLT", 0, 14, 5, 0) }

SwLoadBodies == Common \cup ZeroWrites \cup {SwLoad, I("JALR", SWREG, 2, 0, 0)}
AllKinds == Common \cup Others \cup ZeroWrites
=============================================================================
