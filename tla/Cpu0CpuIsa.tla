----------------------------- MODULE Cpu0CpuIsa -----------------------------
(***************************************************************************)
(* The refinement mapping from the clocked processor (Cpu0Cpu) to the      *)
(* instruction-level machine (Cpu0Isa).                                    *)
(***************************************************************************)
EXTENDS Cpu0Cpu

\* An instruction takes effect at Execute, except a load and a store to the
\* terminal, which take effect at WriteBack.
Late == \/ ir.op \in LoadOp
        \/ ir.op \in PrintOp /\ EffectiveAddress = IOADDR

\* The instruction at pc0 has been fetched and has not taken effect.
InFlight == \/ state \in {"Decode", "Execute"}
            \/ state \in {"MemAccess", "WriteBack"} /\ Late

ISA == INSTANCE Cpu0Isa WITH
  mode <- IF state = "X" THEN "off" ELSE IF inExe THEN "run" ELSE "trapped",
  pc <- IF InFlight THEN pc0 ELSE PC,
  npc <- IF InFlight THEN PC
         ELSE IF nextInstIsDelaySlot THEN delaySlotNextPC ELSE Wrap(PC + 4)

\* The clocked processor does what the instruction-level machine promises,
\* instruction by instruction: delayed transfers go through exactly one slot,
\* links skip it, no result is read before it is written, nothing is executed or
\* printed twice, and interrupts fall between two instructions.  It holds of
\* programs that neither load $sw from memory nor link into it.
ImplementsIsa == ISA!Spec

-----------------------------------------------------------------------------
(* The invariant that ties a phase to the instruction it belongs to. *)

\* An instruction is fetched from an address that does not end the program; what
\* Execute works on is that instruction and the registers as they stand; and a
\* load or a store keeps both, with no transfer outstanding, until it leaves.
InstrInv ==
  inExe =>
    /\ state = "Fetch" /\ ~finished => PC >= 0
    /\ state # "Fetch" => pc0 >= 0
    /\ state = "Execute" =>
         /\ ir = Fetched(code, pc0)
         /\ Ra = RegRead(R, SW, ir.a)
         /\ Rb = RegRead(R, SW, ir.b)
         /\ Rc = RegRead(R, SW, ir.c)
    /\ state \in {"MemAccess", "WriteBack"} /\ ir.op \in LoadOp \cup StoreOp =>
         /\ ir = Fetched(code, pc0)
         /\ Rb = RegRead(R, SW, ir.b)
         /\ ~nextInstIsDelaySlot
=============================================================================
