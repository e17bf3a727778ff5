-------------------------------- MODULE Cpu0Mc --------------------------------
(***************************************************************************)
(* From operands to the bytes of an object file and back: the relocation   *)
(* operators of the assembler, the fixups of Cpu0MCCodeEmitter.cpp, their  *)
(* application by Cpu0AsmBackend.cpp and the operand decoders of           *)
(* Cpu0Disassembler.cpp.                                                   *)
(*                                                                         *)
(* A hexadecimal digit has DigitBits bits: four in the source, fewer in    *)
(* the runs.  A byte has two digits, an instruction four bytes.            *)
(***************************************************************************)
EXTENDS Cpu0Bits, Sequences

CONSTANT DigitBits

ASSUME DigitAssumption == DigitBits \in Nat \ {0}

\* The weight of the n-th digit, and how many values n digits have.
Digits(n) == Power[n * DigitBits]
Byte == Digits(2)
Range16 == Digits(4)
Range24 == Digits(6)
Range32 == Digits(8)
Signed(v, range) == ((v + range \div 2) % range) - range \div 2

\* The bits of both, of n digits.
Or(n, u, v) == ByBits(Either, n * DigitBits, u, v)

(***************************************************************************)
(* Fixups.                                                                 *)
(***************************************************************************)
\* enum Fixups, in order.
Fixups == <<"32", "HI16", "LO16", "GPREL16", "GOT", "GOT_HI16", "GOT_LO16",
            "PC16", "PC24", "CALL16">>

Info(name, bytes) == [name |-> name, bytes |-> bytes]

\* Mutant: no entry for GOT_HI16, and the rest moved up.
Infos_Missing ==
  <<Info("32", 4), Info("HI16", 2), Info("LO16", 2), Info("GPREL16", 2), Info("GOT", 2),
    Info("GOT_LO16", 2), Info("PC16", 2), Info("PC24", 3), Info("", 0), Info("", 0)>>

\* The table of getFixupKindInfo.  C++ fills the entry it leaves out with zeros.
Infos ==
  <<Info("32", 4), Info("HI16", 2), Info("LO16", 2), Info("GPREL16", 2),
    Info("GOT", 2), Info("GOT_HI16", 2), Info("GOT_LO16", 2), Info("PC16", 2),
    Info("PC24", 3), Info("", 0)>>

getFixupKindInfo(kind) == Infos[CHOOSE i \in DOMAIN Fixups : Fixups[i] = kind]

\* evaluateRelocExpr and getExprOpValue: the fixup of an operator that the
\* parser accepts; "unreachable" is an llvm_unreachable.
getExprOpValue(operator) ==
  CASE operator = "gp_rel" -> "GPREL16"
    [] operator = "call16" -> "CALL16"
    [] operator = "got" -> "GOT"
    [] operator = "hi" -> "HI16"
    [] operator = "lo" -> "LO16"
    [] operator = "got_hi" -> "GOT_HI16"
    [] operator = "got_lo" -> "GOT_LO16"
    [] OTHER -> "unreachable"

\* getBranch16TargetOpValue, getBranch24TargetOpValue, getJumpTargetOpValue.
TargetFixup(operand) == IF operand = "brtarget16" THEN "PC16" ELSE "PC24"

\* Mutant: counted from the branch itself.
adjustFixupValue_FromBranch(kind, v) ==
  CASE kind \in {"Data_4", "CALL16", "LO16", "PC16", "PC24"} -> v % Range32
    [] kind \in {"HI16", "GOT"} -> ((v + Range16 \div 2) \div Range16) % Range16
    [] OTHER -> 0

\* Mutant: the high half is not rounded.
adjustFixupValue_NoRound(kind, v) ==
  CASE kind \in {"Data_4", "CALL16", "LO16"} -> v % Range32
    [] kind \in {"HI16", "GOT"} -> (v \div Range16) % Range16
    [] kind \in {"PC16", "PC24"} -> (v - 4) % Range32
    [] OTHER -> 0

adjustFixupValue(kind, v) ==
  CASE kind \in {"Data_4", "CALL16", "LO16"} -> v % Range32
    [] kind \in {"HI16", "GOT"} -> ((v + Range16 \div 2) \div Range16) % Range16
    [] kind \in {"PC16", "PC24"} -> (v - 4) % Range32
    [] OTHER -> 0

(***************************************************************************)
(* Four bytes of code, in the order of their addresses.                    *)
(***************************************************************************)
\* The weight of the byte at address i, and the address of the byte of weight i.
Place(le, i) == IF le THEN i ELSE 3 - i

EmitInstruction(le, word) ==
  [x \in 0 .. 3 |-> (word \div Digits(2 * Place(le, x))) % Byte]

\* The value is masked to the size of the field and or-ed into it.  CALL16
\* has no bytes, so whatever its mask nothing is written.
applyFixup(le, kind, data, v) ==
  LET n == getFixupKindInfo(kind).bytes
      value == adjustFixupValue(kind, v) % Digits(2 * n)
  IN  [x \in 0 .. 3 |->
         LET i == Place(le, x)
         IN  IF i < n THEN Or(2, data[x], (value \div Digits(2 * i)) % Byte) ELSE data[x]]

readInstruction32(le, data) ==
  data[Place(le, 0)] + data[Place(le, 1)] * Byte + data[Place(le, 2)] * Digits(4)
    + data[Place(le, 3)] * Digits(6)

\* lui d, %hi(v); ori d, d, %lo(v), with v known to the assembler.
HiLoPair(v) ==
  Or(8, (adjustFixupValue("HI16", v) * Range16) % Range32,
        adjustFixupValue("LO16", v) % Range16)

(***************************************************************************)
(* Operand decoders; field holds the low bits of the instruction.          *)
(***************************************************************************)
\* 0x8fff, 0x8ffff and 0x10000000.
Threshold16 == (Digits(1) \div 2 + 1) * Digits(3) - 1
Threshold24 == (Digits(1) \div 2 + 1) * Digits(4) - 1

DecodeBranch16Target(field) ==
  IF field > Threshold16 THEN -(Range16 - field) ELSE field

\* Mutant: subtracts one digit less.
DecodeBranch24Target_Digit(field) ==
  IF field > Threshold24 THEN -(Digits(5) - field) ELSE field

DecodeBranch24Target(field) ==
  IF field > Threshold24 THEN -(Digits(7) - field) ELSE field

DecodeJumpTarget(field) == field
DecodeSimm16(field) == Signed(field, Range16)

\* The offset that an operand of this kind is printed with, and the field
\* that the encoder makes of it.
Decode(operand, field) ==
  CASE operand = "brtarget16" -> DecodeBranch16Target(field)
    [] operand = "brtarget24" -> DecodeBranch24Target(field)
    [] operand = "jmptarget" -> DecodeJumpTarget(field)
    [] operand = "simm16" -> DecodeSimm16(field)

OperandRange(operand) == IF operand \in {"brtarget16", "simm16"} THEN Range16 ELSE Range24
Encode(operand, imm) == imm % OperandRange(operand)
=============================================================================
