# Cpu0: a verification development

The repository teaches how to add a back end for Cpu0, a small 32-bit RISC, to
LLVM. Its own program is in two places: the back end in
`llvm/lib/Target/Cpu0`, and the processor that runs its output, a Verilog model
in `simulator/cpu0.v` with start-up code in `simulator/boot`. Everything else
is the vendored LLVM tree, sample inputs and the tutorial text.

These modules specify the processor as the hardware description has it, the
start-up code as it runs on that processor, and the parts of the compiler whose
correctness depends on what the processor does. One word of the model is a few
bits; nothing else about the control is reduced.

## 1. Inventory

| Component | State | Operations | Talks to |
|---|---|---|---|
| Processor (`cpu0.v`, module cpu0) | registers, $sw, HI/LO, PC, EPC, phase, slot flag and target, latches, bus lines | one phase per clock: Fetch, Decode, Execute, MemAccess, WriteBack; reset and interrupt entry | memory over the bus; itself through $sw (overflow requests an interrupt) |
| Memory and terminal (`cpu0.v`, memory0, outw) | bytes, endian bit | read, write, print | the processor's bus |
| Start-up code (`boot.c`, `start.h`) | none of its own | vector table, register set-up, jump to main | processor; falls into main |
| Printing runtime (`print.c`, `itoa.c`) | a static buffer | format an integer | stores to the terminal |
| Instruction selection (`Cpu0InstrInfo.td`, `*ISelDAGToDAG.cpp`, `*ISelLowering.cpp`) | the DAG node being selected | patterns, special cases, combines | the processor, by what its instructions compute |
| Calling convention (`Cpu0ISelLowering.cpp`, `Cpu0CallingConv.td`) | argument registers and stack offsets allotted | LowerCall, LowerFormalArguments, LowerReturn, tail-call test | frame lowering; the caller's and the callee's copy of it |
| Frame lowering (`Cpu0SEFrameLowering.cpp`, `Cpu0RegisterInfo.cpp`) | frame objects, saved registers | prologue, epilogue, spills, frame indices | immediate analysis |
| Immediate analysis (`Cpu0AnalyzeImmediate.cpp`) | none | shortest sequence for a constant | frame lowering |
| Last passes (`Cpu0DelUselessJMP.cpp`, `Cpu0DelaySlotFiller.cpp`, `expandPostRAPseudo`) | the machine program | expand, delete, fill | block layout, fixups |
| Emitter and fixups (`Cpu0MCCodeEmitter.cpp`, `Cpu0AsmBackend.cpp`) | fixups of a fragment | encode, adjust, apply | last passes; linker through relocations |
| Disassembler | none | decode | inverse of the emitter |
| Assembler parser | reorder and macro options, which nothing reads | directives, pseudo expansion | emitter |
| Global addresses | relocation model | gp-relative, static, PIC sequences | fixups |
| Printers, streamers, tables, registration | none | formatting, look-up | - |

Hard behaviour is concentrated in the processor. It is a five-phase machine that
computes a result at Execute, samples the bus two phases later, holds a delayed
transfer pending across an instruction, and may raise an interrupt on itself at
the end of Execute. Start-up code and compiler then rely on exactly which
instruction comes after a transfer. In the compiler the hard part is numeric:
what a pattern emits is right only if CMP, SLTu and SRA do what the pattern
assumes. There are no threads, no persistence and no messages.

What makes each component correct:

- processor: it does what an instruction-at-a-time machine does; interrupts fall
  between instructions and are not lost; the bus carries one transaction;
- start-up code: main is reached once, with the registers `start.h` promises, and
  its return ends the run;
- selection: the instructions compute what LLVM says the node means;
- last passes and fixups: the image runs as the machine program reads;
- calling convention: caller and callee agree; frame lowering: the callee's saved
  registers and the caller's frame survive; immediate analysis: the value comes
  out; emitter and disassembler are inverse to each other.

`PROJECT.json` lists the hazards at their lines, with the property that covers
each.

## 2. Modules

Built, in this order:

| Module | What it is | Code |
|---|---|---|
| `Cpu0Arch` | words, registers, flags, instruction classes and what the branches of `case (op)` decide | cpu0.v 24-80, 128-130, 236-362 |
| `Cpu0Cpu` | the clocked processor: one action per phase, one disjunct of Execute per branch | cpu0.v 82-465, 544-569 |
| `Cpu0Isa` | abstract: one step per instruction, as a programmer sees it (pc and npc) | - |
| `Cpu0CpuIsa` | the refinement mapping from `Cpu0Cpu` to `Cpu0Isa` | - |
| `Cpu0Alu` | the datapath at any width | cpu0.v 256-327 |
| `Cpu0Bits` | powers of two, bits, and bitwise operations as recursive functions | - |
| `Cpu0CpuProofs` | theorems about `Cpu0Cpu`, that it implements `Cpu0Isa`, and about `Cpu0Boot` | - |
| `Cpu0Widths` | the assumption of the tools on words: a constant is half of one | - |
| `Cpu0AluProofs` | the laws of `Cpu0Bits`, and of `Cpu0Alu` under that assumption | - |
| `Cpu0Boot` | vector table, `initRegs`, `RESET_START`, on `Cpu0Cpu` | boot.c, start.h |
| `Cpu0Select` | one DAG node selected for one subtarget and evaluated by `Cpu0Alu` | td 160-189, 249-267, 564-1002; SEISelDAGToDAG 75-159; ISelLowering 82-186 |
| `Cpu0SelectProofs` | theorems about `Cpu0Select` | - |
| `Cpu0Lowering` | return expansion, useless jumps, slots, layout, branch fixups | DelUselessJMP, DelaySlotFiller, SEInstrInfo 75-93, AsmBackend 30-112, MCCodeEmitter 92-151 |
| `Cpu0Mir` | abstract: what a machine program means before it is lowered | - |
| `Cpu0Lowered` | lowered programs run on `Cpu0Isa`, and the refinement mapping to `Cpu0Mir` | - |
| `Cpu0LoweringProofs` | theorems about `Cpu0Lowered` | - |
| `Cpu0CC` | how one argument after the other takes registers and stack | ISelLowering 455-574, 855-946, 983-1002, 1107-1130 |
| `Cpu0CCProofs` | what an assignment does, and by induction a list of them | - |
| `Cpu0CallConv` | argument lists built with `Cpu0CC` | ISelLowering 455-490, 855-888 |
| `Cpu0CallConvProofs` | theorems about `Cpu0CallConv` | - |
| `Cpu0Frame` | functions that call, tail call and return, with the frames the compiler gives them | SEFrameLowering, RegisterInfo 76-144, ISelLowering 221-400, 775-827, SEISelLowering 58-72, PrologEpilogInserter |
| `Cpu0FrameProofs` | theorems about `Cpu0Frame` | - |
| `Cpu0ByVal` | a structure of a word or less in a register | ISelLowering 1135-1236 |
| `Cpu0AnalyzeImm` | constants too large for one instruction, stack adjustment | AnalyzeImmediate, SEInstrInfo 126-181 |
| `Cpu0Memory` | the bytes of memory0 | cpu0.v 383-390, 497-539 |
| `Cpu0Mc` | fixups, their application, the decoders of operands | FixupKinds, AsmBackend 31-138, MCCodeEmitter 57-201, Disassembler 144-297 |
| `Cpu0Asm` | expansion of the load pseudos | AsmParser 309-474 |
| `Cpu0Print` | `itoa` and the printing functions | itoa.c, print.c |
| `Cpu0Functions` | calls the functions of the last six once each, with every input | - |
| `Cpu0FunctionsProofs` | theorems about `Cpu0Functions` | - |
| `MCCpu0Cpu`, `MCCpu0Boot`, `MCCpu0Lowering`, `MCCpu0Frame`, `MCCpu0Functions` | programs, inputs and small datapaths for TLC | - |

### How state and actions correspond to cpu0.v

`state`, `PC`, `EPC`, `R`, `SW`, `HI`, `LO`, `ir`, `pc0`, `Ra`/`Rb`/`Rc`,
`nextInstIsDelaySlot`, `delaySlotNextPC`, `isDelaySlot`, `inExe`, `m_en`,
`m_rw`, `mar` are the registers of the same names. `SW` is kept as the set of its
flags that are one; `SwFlags` and `SwWord` convert when a program reads or writes
$15 as a word. `mdr` holds only the data of the transaction in flight and is
represented by the bus (`Dbus`). `code` and `m` are memory0, program and data.
`tty` is the last word printed, with a bit that flips at each print so that a
second print of the same word is a different state.

An action is one pass through `always @(posedge clock)`: `TakeInterrupt` and
`TakeReset` are the two branches that call `taskInterrupt`, the others are
`taskExecute` in the phase they name. `Execute` is the disjunction of one action
per kind of instruction, each with the interrupt check at the end of the phase
(`EndExecute`). Reads the hardware leaves undefined (a bus nobody drives, a
co-processor register never written, division by zero, registers before reset)
are choices from `Undef`.

Differences from the source, all deliberate: the cut-off after fifteen million
clock units and `cycles` are not modelled, so a run ends only by itself; memory
cells are words, with `Extend` and `Merge` standing for the byte lanes that
`Cpu0Memory` specifies; `LE` is fixed; a program does not write its own code.

### How state and actions correspond to the call lowering

`cc` in `Cpu0CallConv` is a CCState with its Cpu0CC: the registers allocated
(`used`: A0 and A1 are always taken in order), the next stack offset, one record
per CCValAssign (an i64 has two, a structure one that also holds its
ByValArgInfo), and whether a table was indexed out of bounds. The same operators
serve the caller and the callee, as the same functions do in the source;
`analyzeCallOperands` and `analyzeFormalArguments` differ only in where they
find the arguments.

`Cpu0Frame` runs what is generated. A step is what a function does at once:
`Call` is LowerCall down to the jump, `Enter` the prologue with
spillCalleeSavedRegisters and copyByValRegs, `TailCall` the stores of the
arguments, the epilogue and the jump, `Return` the epilogue and the return.
Addresses are those of passArgOnStack and eliminateFrameIndex. `mem`
holds symbolic words, so that every word says whose it is; `acts` is a ghost, the
stack of activations with what each may expect. $fp and $s1 are saved as $s0 is
and are left out; the values in $a0 and $a1 after entry are forgotten.

`ImmLimit` is the largest signed offset of a load or store, 32767 in the code. It
limits the call frame that the prologue reserves (`hasReservedCallFrame`), and the
offsets of eliminateFrameIndex. A build with assertions refuses an offset beyond it
(`isInt16`); one without puts it into the instruction, where the emitter keeps its
low 16 bits and the processor extends their sign: `FrameAddress` goes through
`Masked`. A third ghost, `damaged`, says that a run left the domain of the code:
a call was made from a function without a reserved call frame, or a function was
entered whose frame is not `Addressable` (a save, a local, an incoming argument or a
home has an offset that does not fit), or a tail call stored an argument at such an
offset. `ArgsArrive`, `FramesKept` and `ReturnsHome` speak of runs in which it is
FALSE. The model goes on with what the build without assertions does, so that the
run would show a property to fail if the domain were drawn too wide.

What functions there are and which programs they make up are constants. A
program gives every function a convention, arguments, locals of whole words and
the functions it calls; the assumptions ask only that the functions are finitely
many, that main is not among those called and has no arguments, and that no
argument list indexes the table of argument registers out of bounds
(`ByValIndex` in section 6 is about those that do). Two guards are bounds: `MaxDepth`
activations, and a function is entered only if its frame fits the stack; the
code has no check for a stack overflow, and nothing is said of a program that
has one.

### Composition

`Cpu0Boot` puts code in front of a `main` and runs both on `Cpu0Cpu`.
`Cpu0CpuIsa` shows that a run of `Cpu0Cpu` is a run of `Cpu0Isa`;
`Cpu0Lowered` runs lowered programs on `Cpu0Isa` and shows that those runs are
runs of `Cpu0Mir`. The two refinements meet at `Cpu0Isa`, so the second need not
be repeated for the clocked machine.

What a machine program may be is in `WellFormed` of `Cpu0Lowered`, translated from
what the passes are given: functions end in a return, a tail call or a jump,
branches lead to blocks of their function and calls to functions, data stays in
data registers, and the return address is moved between $lr and the register
`Saved` in which a function keeps it. `InReach` says that the offsets fit their
fields, which `Cpu0AsmBackend.cpp` does not ensure (`DisplacementExact` has what
becomes of one that does not).

`Cpu0CC` is shared: `Cpu0CallConv` asks about it alone, with every list of
arguments, and `Cpu0Frame` uses its locations to let callers write and callees
read. `Cpu0Functions` composes nothing: its modules have no state, and a step of
it is one call. `Cpu0Alu` executes what `Cpu0Select`, `Cpu0AnalyzeImm` and `Cpu0Asm` emit,
`Cpu0Memory` what `Cpu0ByVal` loads and stores.

`Cpu0Bits` defines for `Cpu0Alu` what the operator `^` and the module Bitwise
have as well: 2^n as `Power[n]`, and &, | and ^ of Verilog as `ByBits`, an operation
applied to one bit after the other. TLAPS knows no law of exponents, and Bitwise
is recursive in a form that nothing can be proved about. For the same reason the
loops of the tools (`Characters` of itoa, `GetInstSeqLs`) are recursive functions;
their domains are the values the code can call them with.

## 3. Runs

| Run | Instance | Shows |
|---|---|---|
| Core | all three-instruction bodies over 17 instructions, one handler; 8-bit words; 621 015 states | types, one reset, clean interrupts, bus discipline, sticky requests, also when programs load or link into $sw |
| Isa | all two-instruction bodies over all kinds; 69 161 states | `ImplementsIsa`, and `OverflowServed` (liveness) |
| Boot | boot.c with every two-instruction main over 8 instructions; 10 353 states | `MainEnvironment`, `EntersAtTop`, `BootReachesMain`, `ReturnEndsSimulation` (liveness) |
| Select | every node over 4-bit words, both subtargets; 39 488 states | seven exactness properties |
| Lowering | 3 528 machine programs of two functions and four blocks; 48 337 states | `ImplementsMir`, `SlotsHoldNops` |
| Functions | ten-bit words with five-bit immediates, 16 bytes of memory, digits of two bits; 74 980 calls | nine exactness properties |
| CallConv | every list of up to four arguments, structures of 1, 4, 7 and 12 bytes; 21 993 states | types, `ArgumentsDisjoint`, `StackWithinCallFrame`, `I64Whole` |
| Frame | 261 programs of three functions, three activations deep, offsets up to 63, 208 bytes of stack; 28 268 states | `ArgsArrive`, `FramesKept`, `ReturnsHome` |
| IrqRestarts, ByValIndex, LargeCallFrame, HiLo | as Boot, CallConv, Frame and Functions | a disagreement each, section 6 |

Why the bounds are enough:

- Bodies of two and three instructions hold every pair (triple) of adjacent
  instructions in the prologue-body-epilogue frame. A phase depends on the
  instruction in flight, on the one that left a transfer pending and on the
  interrupt raised by either, so three in a row with a handler that returns
  reach all combinations. Branches with negative offsets make loops of them.
- 8-bit words wrap in the runs (`MCAlu` is `Cpu0Alu` at that width) and hold the
  flags the programs use. The constants of boot.c keep their meaning at 8 bits
  with 4-bit immediates (`lui $sp, 7`).
- Select takes all pairs of 4-bit words, with 2-bit immediates so that all four
  constant patterns occur, and all legal shift amounts, zero and width-1
  included. The patterns treat words uniformly; sign, overflow and half-word
  boundaries all occur. The proofs remove the bound on the width.
- Lowering: main has a block that may be empty, branch forward, backward, to the
  next block, or end in a jump that is or is not useless; calls in the middle and
  in tail position; and a callee laid out behind it, which a missing slot would
  run into. Field widths are chosen so that offsets fit. The proofs remove these
  bounds. The run leaves out Trap (`Uninterrupted`), which is never enabled
  (`NeverInterrupted`).

- Functions: an immediate is half a word, as in the source, so the search for
  short sequences meets every case: a carry into the upper half, a carry out of
  the word, zero halves, and the replacement by LUi. `DigitBits` scales branch fields
  and words alike; all branch displacements at and around the ends of both field
  widths occur, and all low halves of an address with four high ones. The
  memory is small enough for all addresses on both sides of its bound. The proofs
  remove these bounds, and those on register and memory contents.
- CallConv: four arguments are two more than registers, so every way of running
  out of them occurs, with each kind of argument before and after. The sizes
  are less than, equal to and more than a word and both registers. The proofs
  remove both bounds.
- Frame: signatures in registers, on the stack, with an i64 that skips A1, with
  a structure in A1 and one on the stack; leaf and calling functions, with and
  without saved registers, of all conventions, mutually recursive. Three
  activations are a caller, a callee and a function that either replaces or
  calls. `ImmLimit` = 63 stands for 32767: one signature is too large to reserve,
  and locals of 32 to 52 bytes make frames that are inside the field in every
  offset, in all but incoming arguments and homes, or not even in the saved
  registers. 208 bytes of stack are enough to enter them. The proofs remove all of
  these bounds.

`CHECK_DEADLOCK FALSE` is set for Select, CallConv and Functions, where a
behaviour is one selection, one argument list or one call, and for Lowering,
where a program that returns to -1 has stopped. The clocked machine has `Finish`
for `$finish`, and deadlock is checked there, and in Frame.

Fairness: `WF_vars(Next)` of `Cpu0Cpu`. `always #10 clock=clock+1` (cpu0.v 567)
never stops, and each clock edge runs exactly one branch. No action is
favoured over another: at most one is enabled in a state.

Each property has a mutant (`PROJECT.json`), a plausible error in a definition
that the run must detect; mutants stand beside the definition they change.

## 4. Properties

Processor:

- `NoSecondReset`: `main` never takes `itype` off RESET, so only the order of the
  branches keeps an interrupt entry from being a second reset.
- `InterruptBetweenInstructions`: the handler's first instruction is not taken for
  a delay slot and EPC resumes correctly. For programs that neither load $sw from
  memory nor link into it: such instructions change IE too late for the check, and
  the interrupt then cuts off a WriteBack or leaves the slot flag set.
- `BusDiscipline`: the bus is driven only for the instruction in flight.
- `RequestsSticky`: only a write to $sw withdraws a request.
- `ImplementsIsa`: the clocked machine refines the instruction-level one. A load
  and a store to the terminal take effect at WriteBack, everything else at
  Execute.
- `OverflowServed`: an enabled overflow trap leads to the handler.

Start-up code: `MainEnvironment` says with what registers, flags and slot state
main starts, `EntersAtTop` that control never skips a part of RESET_START,
whichever vector it came from, and `BootReachesMain` and `ReturnEndsSimulation`
that it gets to main and out of it.

Selection: `SameSignExact` and `SltExact` say where comparisons are right,
`ContextsAgree` that setcc and brcond never disagree although both may be wrong
(except for the one difference that is its own negation), `ConstantsExact`,
`ShiftsExact`, `WideExact`, `CarryExact`. Each states the exact domain in which
the emitted code is right; section 6 has what is outside it.

Comparisons: `SameSignExact` states that branches of cpu032I are right exactly if
the difference of the operands fits a word, `SltExact` that seteq and setne of
cpu032II are right exactly if the signs agree, `ShiftsExact` that SRA is right
exactly for non-negative words and amounts below two.

Calls: `ArgumentsDisjoint` and `StackWithinCallFrame` are what lets the stores of
LowerCall be emitted in any order, and the callee save structures to their homes
while other arguments still wait on the stack. `I64Whole` says that halves stay
together. `ArgsArrive`, `FramesKept` and `ReturnsHome` are about the composition:
what every activation was given is still there after anything it called, also
when an activation was replaced by tail calls any number of times. Their domain is
`~damaged`: calls have a reserved call frame and the offsets of frames fit the
16-bit field (section 2). The mutant `isInt16_Unsigned`, a check that accepts
offsets up to twice as large, violates all three.

Functions: `StackAdjustExact`, `MemoryExact`, `ByValArrives`, `ExpansionExact`,
`PrintExact`, `FixupTable`, `DisplacementExact`, `HiLoExact`, `DecodeExact`. Where
the code is right for some inputs only, the property is an equivalence that
names them: a displacement arrives exactly if it fits its field, a decoded
branch is shown correctly exactly up to the threshold the code compares with.

Last passes: `ImplementsMir` and `SlotsHoldNops`. The image carries for every
word the position of the machine instruction it comes from, found by running the
passes on a program whose instructions are tagged; what the passes insert has
none.

## 5. Proofs

`Cpu0CpuProofs` proves for every word size of at least five bits, every set of
programs, every memory and every datapath that yields words (the assumptions of
`Cpu0Arch`):

| Theorem | Property |
|---|---|
| `TypeCorrect` | `TypeOK` |
| `Inductive` | `IInv` |
| `ResetOnce` | `NoSecondReset` |
| `InterruptsAreClean` | `InterruptBetweenInstructions` |
| `OneTransaction` | `BusDiscipline` |
| `RequestsStay` | `RequestsSticky` |

None of the safety properties is inductive by itself.
`IInv == TypeOK /\ ControlInv /\ SwInv /\ BusInv` adds what they rest on.

- `ControlInv`: `inExe` is clear only if an interrupt is due, EPC is then the PC,
  and no transfer is pending from Fetch to Execute. `NoSecondReset` and half of
  `InterruptBetweenInstructions` follow.
- `SwInv`: in a program that uses $sw ordinarily no interrupt is due while an
  instruction is in flight. It is proved with `ControlInv`: the check at the end
  of Execute is the only place where an interrupt can come due, and there the
  transfer the instruction set up has been given to EPC.
- `BusInv`: the operands latched at Decode are still those of the register file
  at Execute, and the bus is idle when nobody owns it. `BusDiscipline` needs the
  first because WriteBack recomputes the effective address.

One lemma per part says that a step preserves it (`TypeStep`, `ControlStep`,
`SwStep`, `BusStep`), with one step per action, and lemmas about `Wrap`, register
access and the ends of Execute serve them all.

The same module proves, from the same assumptions and for programs that neither
load $sw from memory nor link into it, the refinement:

| Theorem | Property |
|---|---|
| `RefinesIsa` | `ImplementsIsa` |

`InstrInv` (in `Cpu0CpuIsa`) is what the mapping needs besides `IInv`: an
instruction is fetched from an address that does not end the program, Execute
works on the instruction at pc0 and on the registers as they stand, and a load or
a store keeps that until it leaves WriteBack. Every step of the clocked block
then maps to one of the instruction-level machine or to none: the reset to Boot
(`BootStep`), the interrupt entry to Trap (`TrapStep`), Fetch, Decode and
MemAccess to nothing (`Stutters`), Execute to the outcome of its instruction
(`ExecuteOutcome`, one case per branch of `case (op)`) unless it is late
(`LateWaits`), and WriteBack to the outcome of a late one (`WriteBackStep`).
`Same...` are the lemmas that both machines mean the same by the operators of
`Cpu0Arch`. A write to $sw from memory is excluded because it makes an interrupt
due after the check at the end of Execute, and the instruction-level machine has
no state in which it is pending there.

About the start-up code it proves, for every image that has `Boot` at address 0
(`BootAssumption`) and a datapath that does what its instructions need
(`StartAssumption`):

| Theorem | Property |
|---|---|
| `StartUpRuns` | `BootInv`, the inductive invariant |
| `MainStarts` | `MainEnvironment` |

Both have two hypotheses. No instruction of the image that writes its register
past regSet, a load or SLT, has $zero as its destination (`KeepsZero`); such a
`main` would change what start-up code copies from $zero. And control is in
RESET_START or at the first instruction of main only if it came there through the
top (`EntersAtTop`): a `main` that jumps back to its own first instruction is there
again with other registers, so without this `MainEnvironment` is false. Run Boot
checks `EntersAtTop` on its programs; an interrupt that restarts the program does not
violate it.

`BootInv` has one part per instruction of RESET_START (`StartInv`): between the
fetch of the n-th and its Execute the first n - 1 have taken effect (`Ready`) and
the next address is known (`GoesOn`), afterwards the n-th has too (`Done`). The last
two instructions are where this is not obvious: `jr $3` and the nop behind it,
which is run in the slot of the jump and then once more as its target, because
the 8 added to $pc reaches the nop and not main behind it. `ExecuteDone` has one
case per instruction, `CameFrom` says which instruction was before an address, and
`StartStep` puts them together. TLC checked `BootInv` on the instance of run Boot
before it was proved.

`Cpu0CallConvProofs` proves for any number of arguments and any sizes of
structures (`ByValAssumption`: sizes are positive):

| Theorem | Property |
|---|---|
| `AssignmentsSound` | `Sound`, the inductive invariant |
| `CallTypes` | `TypeOK` |
| `CallDisjoint` | `ArgumentsDisjoint` |
| `CallWithinFrame` | `StackWithinCallFrame` |
| `CallI64Whole` | `I64Whole` |

The argument goes through one notion of `Cpu0CCProofs`, `Grows(st, t, l)`: an
assignment appends a location l that lies in the registers and stack between the
old state st and the new state t, and neither ever goes back. `ScalarGrows` and
`ByValGrows` establish it for the two kinds of argument, with all of their
cases, and `GrowsSound` derives the invariant from it once for both. `Sound`
strengthens the properties by what an append needs: every location ends below
the present registers and offset (`Within`), and structures are in registers only
under O32, where their homes are reserved below everything that goes on the
stack. `I64Adds` and `AppendWhole` do the same for the pairs of halves.

`Placement` assigns the whole argument list of a function. Its theorem,
`PlacementPlacing`, says that the result is sound and its halves are together,
for lists of every length. `Placement` is a recursive function, not a RECURSIVE
operator, so this can be proved by induction: `AfterExists` says that the function
is what its equations say, and `SetInduction` takes the *set* of
the lengths for which the claim holds. The induction theorems of the library take
an operator and cannot be used; `SetInduction` rests on two that do not, that the
natural numbers are well founded and that a well-founded order has minimal
elements.

`Cpu0SelectProofs` proves the seven properties of instruction selection for every
word size, the 32 bits of the processor included, on both subtargets and for all
operands:

| Theorem | Property |
|---|---|
| `SelectionInvariant` | `Selection`, the inductive invariant |
| `SameSigns` | `SameSignExact` |
| `SignedOrder` | `SltExact` |
| `Contexts` | `ContextsAgree` |
| `Constants` | `ConstantsExact` |
| `Shifts` | `ShiftsExact` |
| `WideResults` | `WideExact` |
| `Carries` | `CarryExact` |

The assumptions are `WidthAssumption` of `Cpu0Widths` (an immediate is half a word
and has at least two bits) and `FlagsAssumption` of `Cpu0Select` ($sw has anything
above its N and Z bits). `Selection` says that what a selected node left is what the words of
its pattern compute; the rest is what those words are.

- Words: `U` and `S` are remainders by 2^Bits. `SignedNear` gives S of a sum or a
  difference of two words by cases, `SignedUnsigned` and `SignedBack` the way
  between a word and its bits. Division by a divisor that is not a numeral is
  reduced to uniqueness of quotient and remainder (`DivisionUnique`).
- Comparisons: `CmpBits` finds the flags in the word of CMP, `CmpFlags` what they say
  of the operands when the difference fits and when it does not, `XorWord` the sign
  and the zero of XOR. With them `SetCmpFlagged` and `SetSltOrdered` reduce each
  pattern to the predicate it decides, `Flagged` or `Ordered`, and the properties
  compare these with `Holds`. `FlagJumps` and `EqualityDecides` prove the
  equivalences, the failures outside the domain included.
- Bits: `ByBitsBits` says that `ByBits` does its operation to every bit, by induction
  over the width. A constant is its halves (`Halves`, `OrLow`), a shift is known
  bit by bit (`LeftBits`, `RightBits`, `RotatedBits`), and SRA by the value of the
  bit it ors in (`SignedShiftDown`), from which `SignedShiftExact` derives that it
  is wrong for each amount above one.
- Wide results: the product of two words has a quotient by 2^Bits that is a word
  (`SignedProduct`, `UnsignedProduct`), and a quotient is a word unless it is the
  one that overflows (`SignedDivision`). `CarryRecovered` and `BorrowRecovered` use
  the theorem about comparisons for operands of the same sign.

`Cpu0AluProofs` has what these need of numbers and bits, for naturals of every
size.

`Cpu0FrameProofs` proves for every finite set of functions, every program over
them with argument lists of any length, any mix of conventions, any stack, any
depth of calls and any width of an offset, as long as `damaged` is FALSE: locals and
structures may be of any size for which the offsets of the frame fit the field, and
arguments of any for which the call frame is reserved.

| Theorem | Property |
|---|---|
| `FramesInvariant` | `IInv`, the inductive invariant |
| `FrameTypes` | `TypeOK` |
| `FramesHold` | `FramesKept` |
| `ArgumentsArrive` | `ArgsArrive` |
| `ReturnsToCaller` | `ReturnsHome` |

The assumptions are `ProgramsAssumption` and `StackAssumption` of `Cpu0Frame`
(section 2) and `FieldAssumption` (an offset field has as many values below zero
as from zero on, a multiple of eight, so that masking keeps an address aligned). What the properties say is not inductive: a step disturbs one
activation only if the others are known to be elsewhere.
`IInv == Typed /\ Stacked /\ (~damaged => Sane)` adds where they are.

- `Stacked`: the base of each activation is the base of its caller less the
  caller's frame, all multiples of eight, so that the stack pointer in an
  epilogue is the one the prologue left, and the alignment of an argument's offset
  is that of its address.
- `Nested`: the arguments of an activation end below the locals and spills of
  every activation that waits for it. A call gives this by the reserved call
  frame (`CallFrame`: `NextStackOffset` of what is called fits `StackSize` of the
  caller), and it is where `damaged` is needed: without a reserved call frame it
  is false. A tail call keeps it because `Eligible` compares the offsets. All that an
  activation ever writes is below the end of its own arguments (`EnterWrites`,
  `PassedMem`), hence below what the others must find again (`FrameStays`,
  `ArgumentsStay`).
- `Linked`: the $s0 with which an activation was entered is its caller's own, or
  one its caller in turn must preserve, and $lr is still the activation's own in a
  function that calls nothing and so does not save it.
- `Reached`: the frame of every activation that was entered is within reach, so
  that its epilogue and its tail calls address what its prologue did. `Fits` says
  that masking leaves an offset within reach as it is, and `AddressReached` derives
  the address of a frame object from it.

`Sane` is these three and the properties themselves. There is a lemma for each
action (`ReturnKeeps`, `TailCallKeeps`, `CallKeeps`, `EnterKeeps`), each with one
step per part of the invariant. What
they need of `Cpu0CC` is `ArgumentWhere` (an argument is aligned and within the
offset), `ArgumentObject` and `ArgumentsApart`, all from `PlacementPlacing`:
arguments must be apart for a callee to find each word that its caller stored
(`MemPassed`, `RegsPassed`). TLC checked `IInv` on the instance of run Frame before it
was proved.

`Cpu0FunctionsProofs` proves the nine properties of run Functions for every word
size that `WidthAssumption` admits, every size of a digit, and all contents of
memory and registers:

| Theorem | Property |
|---|---|
| `StackAdjustments` | `StackAdjustExact` |
| `MemoryAnswers` | `MemoryExact` |
| `StructuresArrive` | `ByValArrives` |
| `Expansions` | `ExpansionExact` |
| `Printing` | `PrintExact` |
| `Relocations` | `FixupTable` |
| `Displacements` | `DisplacementExact` |
| `HighAndLow` | `HiLoExact` |
| `Disassembly` | `DecodeExact` |

The assumptions besides `WidthAssumption` are `DigitAssumption` (a digit has a bit),
`BufferAssumption` (the 19 digits of itoa's buffer hold a word: at most 57 bits,
the code's `int` has 32), `AmountAssumption` (a shift by a word is a positive
constant, as 32 is of 16 bits) and `InputAssumption` (inputs are of their types,
the size of the memory is a multiple of four, $zero is zero). Each property is an
invariant because it holds of the state after any call; what there is to prove is
about the functions.

- Loops: a recursive function is what its equation says only if a function with
  that equation exists, which is an induction of its own. `CharactersExists` builds
  itoa's over the absolute value of its argument. `SearchExists` builds the one of
  `GetInstSeqLs` in three levels, since the search clears the low part of Imm before
  it shifts it out, and then has no more than half a word left. `Chain` does the
  same for the runs of instruction sequences and `SpelledSteps` for the value of
  a string of digits.
- Constants: `Found` lists the sequences the search can return, an ADDiu or an
  ORi after at most two instructions for the upper half; `PairLeaves` and `AddedUp`
  compute what they leave in the register, `ReplacedPair` and `ReplacedEnding` that
  the replacement by LUi leaves the same, and `Shortest` that any choice among
  them does. The equality is one of words: Imm is two words wide, and the carry
  of `Raised` may leave either.
- Pseudos: `LoadedLow` and `LoadedWide` are the two ways a constant is built,
  `ExecutedOne` to `ExecutedThree` run the sequences on a register file, and
  `Pseudos` compares the result for every choice of registers.
- Printing: `CharactersDecimal` is an induction over the absolute value, of which
  a tenth is smaller (`Tenth`), truncated division of negative numbers included.
  `DecimalFits` bounds the digits by the width.
- Memory: `Lanes` says that a lane is its own inverse in both byte orders. `Cells` and
  `LoadStored` are about one store and loads after it; `PassedBytes` composes two
  loads, shifts, `OrDisjoint` and a store for a structure in a register.
- Fixups and decoders: sizes of fields are powers of the digit (`DigitSizes`), on
  which `OrDigits` says that or is addition where bits do not overlap, `FixedUp` that
  the bytes written are those of the sum, and `Disassembled` for which fields each
  decoder agrees with the sign extension of the processor.

`Cpu0LoweringProofs` proves that the last passes preserve meaning, for any number
of functions, blocks and instructions, word sizes and widths of the branch
fields:

| Theorem | Property |
|---|---|
| `LoweredInv` | `IInv`, the inductive invariant |
| `NeverInterrupted` | `Uninterrupted`: the runs TLC explores are all there are |
| `SlotsAreFilled` | `SlotsHoldNops` |
| `LoweringImplements` | `ImplementsMir` |

The assumptions are those of `Cpu0Lowered`: `SavedAssumption` ($zero and $lr do not
serve as `Saved`), `MirAssumption` (programs are well formed, their branches in
reach, their images within the positive addresses), `CompiledAssumption` (an image
is what the passes make of its program, loaded at address 0), `MoveAssumption`
(adding $zero moves a word), and `OffsetAssumption` of `Cpu0Lowering` (fields have a
bit).

The first half is the layout. An image is a concatenation of concatenations
(`FlattenSeq`, a recursive function), so an element is found by the length of what
is in front of it: `Offsets` and `Elements` say so for any sequence of sequences,
by induction. The passes turn an instruction into one or two words (`Piece`) and
drop the jumps that `Kept` does not count; from this `AtAddr` finds which word is at
`Addr(p, f, b, k)`, that a slot's NOP is behind it, and that `Origin` has the
position there (`TaggedPieces` and the lemmas after it show that tags do not change
what a pass does). A jump that was deleted and the blocks that are empty make
several positions stand for one address: `Settled` says to which one they settle
and `Reaches` that going to any of them comes to the same. `EmittedTransfer`
uses `FieldExact`, that an offset that fits its field comes out of it unchanged, and
gives the target of each branch, jump and call of the image.

The second half is the run. `IInv` says that the processor is at an instruction
of the program with the next one behind it, or in a slot with an instruction's
address to go to, or at -1; that $zero is zero, and IE clear; and that $lr and
`Saved` hold such addresses (before its first instruction main's `Saved` may hold
anything, which is why that instruction must be the copy of $lr). Each kind of
instruction has a lemma that the step of `Cpu0Isa` re-establishes it and is the step
of `Cpu0Mir` (`ComputeFollows`, `CopyFollows`, `BranchFollows`, `CallFollows`,
`ReturnFollows` and the others); a step in a slot is a stutter (`SlotFollows`). TLC
checked `IInv` on the instance of run Lowering before it was proved.

Only model-checked: the liveness properties (`OverflowServed`, `BootReachesMain`,
`ReturnEndsSimulation`), which are outside the prover's reach; `EntersAtTop`, which is
an obligation on programs as much as on the start-up code; and CLZ and CLO of
`Cpu0Alu`, whose patterns `Cpu0Select` leaves out.

## 6. Disagreements found while modelling

- `boot.c` 11: the vector for interrupts is `jmp 4` and lands on RESET_START, so
  an interrupt restarts the program; its comment says it jumps to IRQ_HANDLE
  (`IrqRestarts`). Programs that overflow an `add` meet this.
- `Cpu0ISelLowering.cpp` 943: `I << NumIntArgRegs` where `I < NumIntArgRegs` was
  meant, so a structure that does not start in A0 and has more words than the
  registers left indexes a table out of bounds; and one that could start in A0
  gets no register at all
  (`ByValIndex`).
- `Cpu0FrameLowering.cpp` 105: calls whose arguments do not fit a reserved call
  frame get no stack at all (`LargeCallFrame`).
- `Cpu0AsmBackend.cpp` 48 with `Cpu0InstrInfo.td` 713: %hi is rounded for a
  sign-extended %lo, and ori zero-extends it (`HiLo`).

Met as well; the passing properties state the domain in which the code is right,
and so where it is not:

- SRA ors in the sign bit alone (`cpu0.v` 295; `ShiftsExact`).
- seteq by SLTiu, which compares signed (`Cpu0InstrInfo.td` 793; `SltExact`), and
  the carry of a 64-bit addition by SLTu (`cpu0.v` 334; `CarryExact`).
- CMP orders wrong when the difference overflows (`cpu0.v` 257; `SameSignExact`).
- a frame larger than the reach of a 16-bit offset: the prologue makes one of any
  size, but `Cpu0RegisterInfo.cpp` 138 only asserts that its offsets fit, so a
  build without assertions saves $lr or an argument in another place
  (`FramesKept`, `ArgsArrive`, `ReturnsHome`: `damaged`).
- branches out of reach are redirected silently (`Cpu0AsmBackend.cpp` 105;
  `DisplacementExact`), and the disassembler shows backward branches of 24 bits
  with the wrong offset (`Cpu0Disassembler.cpp` 247; `DecodeExact`).
- la with a base loses it if the destination is the base
  (`Cpu0AsmParser.cpp` 399; `ExpansionExact`).

Visible in the models only: loads and SLT write $zero (`cpu0.v` 373); ADD's
overflow test compares the register number `a` with Rb; an interrupt from a load
of $sw skips its WriteBack; no pattern selects an unsigned division; `not` is
selected as XORi with 1.

## 7. Not modelled

- Relocation types, the GOT and small sections: a linker completes these
  sequences, and the repository's is not among its sources. The HI/LO pair is
  modelled because the assembler can complete it alone.
- Variable sized objects: the compiler neither moves $sp back nor addresses
  objects from $fp, and no hook of the back end runs for them.
- Varargs, floating point, return values and sret: tables and copies without a
  decision that the argument model does not already have.
- `.set` options of the parser (reorder, macro, at): stored, and read by nothing.
- Lexing, matching, printing and streaming of assembly: text.
- The generated tables of encoder and disassembler, scheduling, registration.
- LLVM itself: it appears as external definitions where the back end leaves work
  to it, and by the lines of PrologEpilogInserter that lay out a frame.
