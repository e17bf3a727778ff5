---------------------------- MODULE Cpu0FrameProofs ----------------------------
(***************************************************************************)
(* Proofs about Cpu0Frame: for every finite set of functions, every        *)
(* program over them, every stack size, every width of an offset and every *)
(* depth of calls, locals and saved registers survive calls, arguments     *)
(* arrive and returns find their caller, as long as calls have a reserved  *)
(* call frame and frames are within reach of the offsets (~damaged).       *)
(*                                                                         *)
(* What the properties say is not inductive.  The invariant adds that the  *)
(* activations are stacked (each base is the frame of its caller lower),   *)
(* that they are nested (the arguments of one end below the frames of all  *)
(* that wait for it: the only words that the last activation writes are    *)
(* below that), that they are linked ($s0 as the caller expects it), and   *)
(* that their frames are within reach, where masking an offset leaves it   *)
(* as it is.                                                               *)
(* Where the arguments are comes from Cpu0CCProofs; the rest of the layout *)
(* is arithmetic.                                                          *)
(***************************************************************************)
EXTENDS Cpu0Frame, Cpu0CCProofs, FiniteSetTheorems

\* Types.
Value == {"none", "ret", "s0", "local", "arg"} \X Nat \X Nat \X Nat \X Nat
Words == {4 * k : k \in 0 .. StackTop \div 4 - 1}
ActivationType ==
  [fn : {"main"} \cup Callee, base : 0 .. StackTop, depth : Nat, gen : 0 .. 1,
   lr : Value, s0 : Value]

Typed ==
  /\ prog \in Programs /\ pc \in {"entry", "body"} /\ damaged \in BOOLEAN
  /\ regs \in [a : [0 .. NumIntArgRegs - 1 -> Value], s0 : Value, lr : Value, sp : 0 .. StackTop]
  /\ mem \in [Words -> Value]
  /\ acts \in Seq(ActivationType) /\ Len(acts) \in 1 .. MaxDepth

\* The stack pointer: every activation is entered below the frame of the one
\* that called it.
Stacked ==
  /\ acts[1].fn = "main"
  /\ \A k \in DOMAIN acts : acts[k].base % StackAlignment = 0
  /\ \A k \in 1 .. Len(acts) - 1 :
       /\ acts[k + 1].base = acts[k].base - StackSize(acts[k].fn)
       /\ prog[acts[k].fn].calls # {}
  /\ regs.sp = IF pc = "entry" THEN Top.base ELSE Top.base - StackSize(Top.fn)

\* The arguments of an activation are below the frames of all that wait for it.
Nested ==
  \A j, k \in DOMAIN acts : j < k =>
    acts[k].base + NextStackOffset(acts[k].fn) <= acts[j].base + Local(acts[j].fn)

\* The registers that a caller finds again.
Linked ==
  /\ \A k \in 1 .. Len(acts) - 1 :
       acts[k + 1].s0 = IF prog[acts[k].fn].saves THEN Own("s0", acts[k].depth, acts[k].gen)
                        ELSE acts[k].s0
  /\ pc = "entry" \/ prog[Top.fn].calls = {} => regs.lr = Top.lr

\* The frame of fn is within reach of its instructions.
Fitting(fn) == Addressable(fn, FrameOffsets(fn))

\* So is the frame of every activation that was entered.
Reached == \A k \in DOMAIN acts : Entered(k) => Fitting(acts[k].fn)

Sane ==
  /\ Nested /\ Linked /\ RegistersKept /\ Reached
  /\ \A k \in DOMAIN acts : FrameKept(k) /\ ArgumentsKept(k)
IInv == Typed /\ Stacked /\ (~damaged => Sane)

\* The functions of a program.
Names == {"main"} \cup Callee

-----------------------------------------------------------------------------
(* Arithmetic of addresses. *)

\* The first b integers from a on.
LEMMA Interval ==
  ASSUME NEW a \in Int, NEW b \in Int, NEW x \in Int
  PROVE  x \in a .. a + b - 1 <=> a <= x /\ x < a + b
OBVIOUS

\* An aligned base keeps the alignment of an offset.
LEMMA BaseAligned ==
  ASSUME NEW x \in Nat, x % 8 = 0, NEW y \in Nat, NEW a \in Alignment, y % a = 0
  PROVE  (x + y) % a = 0
<1>1. CASE a = 1
  BY <1>1
<1>2. CASE a = 2
  BY <1>2
<1>3. CASE a = 4
  BY <1>3
<1>4. CASE a = 8
  BY <1>4
<1>5. QED
  BY <1>1, <1>2, <1>3, <1>4 DEF Alignment

\* The address of a word of an object.
LEMMA WordSum ==
  ASSUME NEW x \in Nat, x % 4 = 0, NEW y \in Nat, y % 4 = 0, NEW w \in Nat
  PROVE  (x + y + 4 * w) % 4 = 0
OBVIOUS

\* The address of a word at an offset.
LEMMA WordOffset ==
  ASSUME NEW x \in Nat, x % 4 = 0, NEW o \in Int, o % 4 = 0
  PROVE  x + o \in Int /\ (x + o) % 4 = 0
OBVIOUS

\* A word of an object that is within an area is within the area.
LEMMA WordWithin ==
  ASSUME NEW base \in Nat, NEW addr \in Nat, NEW size \in Nat, NEW offset \in Nat,
         NEW w \in Nat, 4 * w <= size - 4, size > 0 => addr + size <= offset
  PROVE  LET x == base + addr + 4 * w IN x \in Int /\ base <= x /\ x < base + offset
OBVIOUS

\* A word of a frame is below its base and in the stack.
LEMMA FrameWithin ==
  ASSUME NEW base \in Nat, NEW size \in Nat, size <= base,
         NEW local \in Int, -local <= size, NEW o \in Int, local <= o, o <= -4
  PROVE  0 <= base + o /\ base + o < base /\ base + local <= base + o
OBVIOUS

\* Two objects that share a word overlap.
LEMMA Overlap ==
  ASSUME NEW base \in Nat, NEW a \in Nat, NEW m \in Nat, NEW w \in Nat, 4 * w <= m - 4,
         NEW b \in Nat, NEW n \in Nat, NEW v \in Nat, 4 * v <= n - 4,
         base + b + 4 * v = base + a + 4 * w
  PROVE  ~(a + m <= b \/ b + n <= a)
OBVIOUS

\* Transitivity.
LEMMA AtMost ==
  ASSUME NEW a \in Int, NEW b \in Int, NEW c \in Int, a <= b, b <= c
  PROVE  a <= c
OBVIOUS

\* An offset that fits its field is what the processor makes of it.
LEMMA Fits ==
  ASSUME NEW x \in Int, isInt16(x)
  PROVE  Masked(x) = x
<1> DEFINE H == ImmLimit + 1
<1>1. H \in Nat /\ 0 < H /\ ImmLimit \in Nat
  BY FieldAssumption
<1>2. -ImmLimit - 1 <= x /\ x <= ImmLimit
  BY DEF isInt16
<1>3. 0 <= x + ImmLimit + 1 /\ x + ImmLimit + 1 < 2 * H
  BY <1>1, <1>2
<1> HIDE DEF H
<1>4. (x + ImmLimit + 1) % (2 * H) = x + ImmLimit + 1
  BY ONLY <1>1, <1>3, x \in Int
<1>5. QED
  BY <1>1, <1>4 DEF Masked, H

\* What is before a number other than one.
LEMMA Before ==
  ASSUME NEW n \in Nat, 1 <= n, n # 1
  PROVE  n - 1 \in Nat /\ 1 <= n - 1
OBVIOUS

-----------------------------------------------------------------------------
(* Operators. *)

\* A function on a nonempty finite set is largest somewhere.
LEMMA Largest ==
  ASSUME NEW S, IsFiniteSet(S), S # {}, NEW f \in [S -> Nat]
  PROVE  \E x \in S : \A y \in S : f[y] <= f[x]
<1> DEFINE Has(U) == \E x \in U : \A y \in U : f[y] <= f[x]
           T == {n \in Nat : \A U \in SUBSET S : U # {} /\ Cardinality(U) = n => Has(U)}
<1>1. \A U \in SUBSET S : IsFiniteSet(U) /\ Cardinality(U) \in Nat
  BY FS_Subset, FS_CardinalityType
<1>2. 0 \in T
  BY <1>1, FS_EmptySet
<1>3. ASSUME NEW n \in Nat, n \in T PROVE n + 1 \in T
  <2>1. ASSUME NEW U \in SUBSET S, U # {}, Cardinality(U) = n + 1 PROVE Has(U)
    <3>1. PICK x \in U : TRUE
      BY <2>1
    <3> DEFINE V == U \ {x}
    <3>2. Cardinality(V) = n
      <4>1. Cardinality(V) = Cardinality(U) - 1
        BY <1>1, <3>1, FS_RemoveElement
      <4>2. QED
        BY <4>1, <2>1
    <3>3. f[x] \in Nat /\ \A y \in U : f[y] \in Nat
      BY <3>1
    <3>4. CASE V = {}
      <4>1. U = {x}
        BY <3>1, <3>4
      <4>2. QED
        BY <4>1, <3>3
    <3>5. CASE V # {}
      <4>1. PICK z \in V : \A y \in V : f[y] <= f[z]
        BY <1>3, <3>2, <3>5
      <4>2. CASE f[z] <= f[x]
        BY <4>1, <4>2, <3>1, <3>3
      <4>3. CASE ~(f[z] <= f[x])
        BY <4>1, <4>3, <3>1, <3>3
      <4>4. QED
        BY <4>2, <4>3
    <3>6. QED
      BY <3>4, <3>5
  <2> HIDE DEF Has
  <2>2. QED
    BY <2>1
<1> HIDE DEF T, Has
<1>4. \A n \in Nat : n \in T
  BY <1>2, <1>3, SetInduction
<1>5. Has(S)
  BY <1>1, <1>4 DEF T
<1>6. QED
  BY <1>5 DEF Has

\* The addresses of words.
LEMMA WordAddress ==
  ASSUME NEW x \in Int
  PROVE  x \in Words <=> 0 <= x /\ x < StackTop /\ x % 4 = 0
<1>1. StackTop \in Nat /\ StackTop % 4 = 0
  BY StackAssumption
<1>2. ASSUME 0 <= x, x < StackTop, x % 4 = 0 PROVE x \in Words
  <2>1. x = 4 * (x \div 4) /\ x \div 4 \in 0 .. StackTop \div 4 - 1
    BY <1>1, <1>2
  <2>2. QED
    BY <2>1 DEF Words
<1>3. ASSUME x \in Words PROVE 0 <= x /\ x < StackTop /\ x % 4 = 0
  <2>1. PICK k \in 0 .. StackTop \div 4 - 1 : x = 4 * k
    BY <1>3 DEF Words
  <2>2. QED
    BY <2>1, <1>1
<1>4. QED
  BY <1>2, <1>3

\* What a value is.
LEMMA Values ==
  /\ \A d, n, i, w \in Nat : Arg(d, n, i, w) \in Value
  /\ \A d, n \in Nat : /\ Own("none", d, n) \in Value /\ Own("ret", d, n) \in Value
                       /\ Own("s0", d, n) \in Value /\ Own("local", d, n) \in Value
  /\ None \in Value
BY DEF Value, Arg, Own, None

-----------------------------------------------------------------------------
(* Where the arguments of a function are. *)

\* One argument.
LEMMA PlacedWhere ==
  ASSUME NEW conv, NEW st, Placing(st, conv), ~st.overrun, NEW i \in DOMAIN st.locs
  PROVE  LET l == st.locs[i]
             o == Object(conv, l)
         IN  /\ l.first \in Nat /\ l.regs \in Nat /\ l.addr \in Nat /\ l.stack \in Nat
             /\ l.stack % 4 = 0 /\ l.addr % 4 = 0
             /\ l.align \in Alignment /\ l.addr % l.align = 0
             /\ l.regs > 0 => l.first + l.regs <= 2 /\ l.stack = 0
             /\ l.stack > 0 => l.addr + l.stack <= st.offset
             /\ l.kind = "byval" /\ l.regs > 0 =>
                  conv = "O32" /\ o = [addr |-> 4 * l.first, size |-> 4 * l.regs]
             /\ ~(l.kind = "byval" /\ l.regs > 0) => o = [addr |-> l.addr, size |-> l.stack]
             /\ o.addr \in Nat /\ o.size \in Nat /\ (o.size > 0 => o.addr + o.size <= st.offset)
<1> DEFINE l == st.locs[i]
           o == Object(conv, l)
<1>1. Sound(st) /\ Whole(st) /\ st.conv = conv
  BY DEF Placing
<1>2. st \in State /\ st.used \in 0 .. 2 /\ st.offset \in Nat /\ reservedArgArea(conv) <= st.offset
  BY <1>1 DEF Sound, State, NumIntArgRegs
<1>3. l \in LocType /\ Within(st, l) /\ Neat(l)
  BY <1>1, <1>2 DEF Sound, State, Whole
<1> HIDE DEF l
<1>4. l.first \in Nat /\ l.regs \in Nat /\ l.addr \in Nat /\ l.stack \in Nat /\ l.align \in Alignment
  BY <1>3 DEF LocType, NumIntArgRegs, Alignment
<1>5. /\ l.regs > 0 => l.first + l.regs <= 2 /\ l.stack = 0
      /\ l.stack > 0 => l.addr + l.stack <= st.offset
      /\ l.kind = "byval" /\ l.regs > 0 => conv = "O32"
      /\ l.stack % 4 = 0 /\ l.addr % 4 = 0 /\ l.addr % l.align = 0
  BY <1>1, <1>2, <1>3, <1>4 DEF Within, Neat
<1>6. CASE l.kind = "byval" /\ l.regs > 0
  <2>1. o = [addr |-> 4 * l.first, size |-> 4 * l.regs] /\ conv = "O32"
    BY <1>3, <1>5, <1>6, ObjectWhere
  <2>2. 8 <= st.offset
    BY <2>1, <1>2 DEF reservedArgArea, NumIntArgRegs, RegSize
  <2>3. o.addr \in Nat /\ o.size \in Nat /\ o.addr + o.size <= st.offset
    BY <2>1, <2>2, <1>2, <1>4, <1>5, <1>6
  <2>4. QED
    BY <2>1, <2>3, <1>4, <1>5, <1>6 DEF l
<1>7. CASE ~(l.kind = "byval" /\ l.regs > 0)
  <2>1. o = [addr |-> l.addr, size |-> l.stack]
    BY <1>3, <1>7, ObjectWhere
  <2>2. QED
    BY <2>1, <1>4, <1>5, <1>7 DEF l
<1>8. QED
  BY <1>6, <1>7

\* Two arguments share nothing.
LEMMA PlacedApart ==
  ASSUME NEW conv, NEW st, Placing(st, conv), ~st.overrun,
         NEW i \in DOMAIN st.locs, NEW j \in DOMAIN st.locs, i # j
  PROVE  LET a == st.locs[i]
             b == st.locs[j]
             o == Object(conv, a)
             p == Object(conv, b)
         IN  /\ a.regs > 0 /\ b.regs > 0 =>
                  a.first + a.regs <= b.first \/ b.first + b.regs <= a.first
             /\ o.size > 0 /\ p.size > 0 => o.addr + o.size <= p.addr \/ p.addr + p.size <= o.addr
<1>1. Sound(st) /\ st.conv = conv
  BY DEF Placing
<1>2. i \in Nat /\ j \in Nat
  BY <1>1 DEF Sound, State
<1>3. CASE i < j
  <2>1. Apart(conv, st.locs[i], st.locs[j])
    BY <1>1, <1>3 DEF Sound
  <2>2. QED
    BY <2>1 DEF Apart
<1>4. CASE j < i
  <2>1. Apart(conv, st.locs[j], st.locs[i])
    BY <1>1, <1>4 DEF Sound
  <2>2. QED
    BY <2>1 DEF Apart
<1>5. QED
  BY <1>2, <1>3, <1>4

\* The arguments of a function of a program.
LEMMA ArgumentsPlaced ==
  ASSUME prog \in Programs, NEW fn \in Names
  PROVE  /\ prog[fn] \in FunctionType
         /\ Placing(Arguments(fn), prog[fn].conv) /\ ~Arguments(fn).overrun
         /\ NextStackOffset(fn) \in Nat /\ NextStackOffset(fn) % 4 = 0
         /\ fn = "main" => ArgLocs(fn) = <<>>
<1>1. /\ prog[fn] \in FunctionType /\ ~Placement(prog[fn]).overrun
      /\ fn = "main" => prog[fn].args = <<>>
  BY ProgramsAssumption DEF Names
<1>2. prog[fn].conv \in Convention /\ prog[fn].args \in Seq(ArgType)
  BY <1>1 DEF FunctionType
<1>3. /\ Placing(Placement(prog[fn]), prog[fn].conv)
      /\ prog[fn].args = <<>> => Placement(prog[fn]).locs = <<>>
  BY <1>2, PlacementPlacing
<1>4. Placement(prog[fn]).offset \in Nat /\ Placement(prog[fn]).offset % 4 = 0
  BY <1>3 DEF Placing, Sound, State, Whole
<1>5. Arguments(fn) = Placement(prog[fn])
  <2>1. DOMAIN prog = Names
    BY ProgramsAssumption DEF Names
  <2>2. prog[fn] \in UNION {{p[n] : n \in DOMAIN p} : p \in Programs}
    BY <2>1
  <2>3. QED
    BY <2>2 DEF Arguments, Placed
<1>6. QED
  BY <1>1, <1>3, <1>4, <1>5 DEF NextStackOffset, ArgLocs

\* One argument of a function of a program.
LEMMA ArgumentWhere ==
  ASSUME prog \in Programs, NEW fn \in Names, NEW i \in DOMAIN ArgLocs(fn)
  PROVE  LET l == ArgLocs(fn)[i] IN
         /\ i \in Nat /\ l.first \in Nat /\ l.regs \in Nat /\ l.addr \in Nat /\ l.stack \in Nat
         /\ l.stack % 4 = 0 /\ l.addr % 4 = 0
         /\ l.align \in Alignment /\ l.addr % l.align = 0
         /\ l.regs > 0 => l.first + l.regs <= 2 /\ l.stack = 0
         /\ l.stack > 0 => l.addr + l.stack <= NextStackOffset(fn)
<1> DEFINE st == Arguments(fn)
           conv == prog[fn].conv
<1>1. /\ Placing(st, conv) /\ ~st.overrun
      /\ ArgLocs(fn) = st.locs /\ NextStackOffset(fn) = st.offset
  BY ArgumentsPlaced DEF ArgLocs, NextStackOffset
<1>2. i \in Nat
  BY <1>1 DEF Placing, Sound, State
<1> HIDE DEF st, conv
<1> DEFINE l == st.locs[i]
<1>3. i \in DOMAIN st.locs
  BY <1>1
<1>4. /\ l.first \in Nat /\ l.regs \in Nat /\ l.addr \in Nat /\ l.stack \in Nat
      /\ l.stack % 4 = 0 /\ l.addr % 4 = 0
      /\ l.align \in Alignment /\ l.addr % l.align = 0
  BY <1>1, <1>3, PlacedWhere
<1>5. /\ l.regs > 0 => l.first + l.regs <= 2 /\ l.stack = 0
      /\ l.stack > 0 => l.addr + l.stack <= st.offset
  BY <1>1, <1>3, PlacedWhere
<1>6. ArgLocs(fn)[i] = l
  BY <1>1
<1> HIDE DEF l
<1>7. QED
  BY <1>1, <1>2, <1>4, <1>5, <1>6

\* The object in which the function finds it.
LEMMA ArgumentObject ==
  ASSUME prog \in Programs, NEW fn \in Names, NEW i \in DOMAIN ArgLocs(fn)
  PROVE  LET l == ArgLocs(fn)[i]
             o == Object(prog[fn].conv, l)
         IN  /\ l.kind = "byval" /\ l.regs > 0 =>
                  prog[fn].conv = "O32" /\ o = [addr |-> 4 * l.first, size |-> 4 * l.regs]
             /\ ~(l.kind = "byval" /\ l.regs > 0) => o = [addr |-> l.addr, size |-> l.stack]
             /\ l.stack > 0 => o = [addr |-> l.addr, size |-> l.stack]
             /\ o.addr \in Nat /\ o.size \in Nat
             /\ o.size > 0 => o.addr + o.size <= NextStackOffset(fn)
<1> DEFINE st == Arguments(fn)
           conv == prog[fn].conv
           l == st.locs[i]
<1>1. /\ Placing(st, conv) /\ ~st.overrun
      /\ ArgLocs(fn) = st.locs /\ NextStackOffset(fn) = st.offset
  BY ArgumentsPlaced DEF ArgLocs, NextStackOffset
<1> HIDE DEF st, conv
<1>2. i \in DOMAIN st.locs
  BY <1>1
<1>3. /\ l.kind = "byval" /\ l.regs > 0 =>
           conv = "O32" /\ Object(conv, l) = [addr |-> 4 * l.first, size |-> 4 * l.regs]
      /\ ~(l.kind = "byval" /\ l.regs > 0) => Object(conv, l) = [addr |-> l.addr, size |-> l.stack]
      /\ Object(conv, l).addr \in Nat /\ Object(conv, l).size \in Nat
      /\ Object(conv, l).size > 0 => Object(conv, l).addr + Object(conv, l).size <= st.offset
  BY <1>1, <1>2, PlacedWhere
<1>4. l.regs \in Nat /\ l.stack \in Nat /\ (l.regs > 0 => l.stack = 0)
  BY <1>1, <1>2, PlacedWhere
<1>5. l.stack > 0 => ~(l.kind = "byval" /\ l.regs > 0)
  BY <1>4
<1>6. QED
  BY <1>1, <1>3, <1>5 DEF conv

\* That object is whole words.
LEMMA ObjectWords ==
  ASSUME prog \in Programs, NEW fn \in Names, NEW i \in DOMAIN ArgLocs(fn)
  PROVE  LET o == Object(prog[fn].conv, ArgLocs(fn)[i]) IN
         /\ o.addr \in Nat /\ o.size \in Nat /\ o.addr % 4 = 0 /\ o.size % 4 = 0
         /\ o.size > 0 => o.addr + o.size <= NextStackOffset(fn)
<1> DEFINE l == ArgLocs(fn)[i]
           o == Object(prog[fn].conv, l)
<1>1. /\ l.first \in Nat /\ l.regs \in Nat /\ l.addr \in Nat /\ l.stack \in Nat
      /\ l.stack % 4 = 0 /\ l.addr % 4 = 0
  BY ArgumentWhere
<1>2. /\ l.kind = "byval" /\ l.regs > 0 => o = [addr |-> 4 * l.first, size |-> 4 * l.regs]
      /\ ~(l.kind = "byval" /\ l.regs > 0) => o = [addr |-> l.addr, size |-> l.stack]
      /\ o.size > 0 => o.addr + o.size <= NextStackOffset(fn)
  BY ArgumentObject
<1> HIDE DEF o, l
<1>3. CASE l.kind = "byval" /\ l.regs > 0
  BY <1>1, <1>2, <1>3 DEF o, l
<1>4. CASE ~(l.kind = "byval" /\ l.regs > 0)
  BY <1>1, <1>2, <1>4 DEF o, l
<1>5. QED
  BY <1>3, <1>4

\* Two arguments of a function of a program.
LEMMA ArgumentsApart ==
  ASSUME prog \in Programs, NEW fn \in Names,
         NEW i \in DOMAIN ArgLocs(fn), NEW j \in DOMAIN ArgLocs(fn), i # j
  PROVE  LET a == ArgLocs(fn)[i]
             b == ArgLocs(fn)[j]
             o == Object(prog[fn].conv, a)
             p == Object(prog[fn].conv, b)
         IN  /\ a.regs > 0 /\ b.regs > 0 =>
                  a.first + a.regs <= b.first \/ b.first + b.regs <= a.first
             /\ o.size > 0 /\ p.size > 0 => o.addr + o.size <= p.addr \/ p.addr + p.size <= o.addr
<1> DEFINE st == Arguments(fn)
           conv == prog[fn].conv
<1>1. Placing(st, conv) /\ ~st.overrun /\ ArgLocs(fn) = st.locs
  BY ArgumentsPlaced DEF ArgLocs
<1> HIDE DEF st
<1>2. i \in DOMAIN st.locs /\ j \in DOMAIN st.locs
  BY <1>1
<1>3. QED
  BY <1>1, <1>2, PlacedApart

-----------------------------------------------------------------------------
(* The layout of a frame. *)

\* The registers a function saves: each once, $lr exactly if it calls and $s0
\* exactly if it uses it.
LEMMA CalleeSaved ==
  ASSUME NEW fn, prog[fn].saves \in BOOLEAN
  PROVE  LET csi == determineCalleeSaves(fn) IN
         /\ Len(csi) \in 0 .. 2 /\ DOMAIN csi = 1 .. Len(csi)
         /\ \A i \in DOMAIN csi : csi[i] \in {"lr", "s0"}
         /\ \A i, j \in DOMAIN csi : csi[i] = csi[j] => i = j
         /\ (\E i \in DOMAIN csi : csi[i] = "lr") <=> prog[fn].calls # {}
         /\ (\E i \in DOMAIN csi : csi[i] = "s0") <=> prog[fn].saves
<1> DEFINE csi == determineCalleeSaves(fn)
<1>1. CASE prog[fn].calls = {} /\ prog[fn].saves
  <2>1. csi = <<"s0">>
    BY <1>1 DEF determineCalleeSaves
  <2> HIDE DEF csi
  <2>2. Len(csi) = 1 /\ DOMAIN csi = 1 .. 1 /\ csi[1] = "s0"
    BY <2>1
  <2>3. QED
    BY <2>2, <1>1 DEF csi
<1>2. CASE prog[fn].calls = {} /\ ~prog[fn].saves
  <2>1. csi = <<>>
    BY <1>2 DEF determineCalleeSaves
  <2> HIDE DEF csi
  <2>2. Len(csi) = 0 /\ DOMAIN csi = 1 .. 0
    BY <2>1
  <2>3. QED
    BY <2>2, <1>2 DEF csi
<1>3. CASE prog[fn].calls # {} /\ prog[fn].saves
  <2>1. csi = <<"lr">> \o <<"s0">>
    BY <1>3 DEF determineCalleeSaves
  <2> HIDE DEF csi
  <2>2. Len(csi) = 2 /\ DOMAIN csi = 1 .. 2 /\ csi[1] = "lr" /\ csi[2] = "s0"
    BY <2>1
  <2>3. QED
    BY <2>2, <1>3 DEF csi
<1>4. CASE prog[fn].calls # {} /\ ~prog[fn].saves
  <2>1. csi = <<"lr">>
    BY <1>4 DEF determineCalleeSaves
  <2> HIDE DEF csi
  <2>2. Len(csi) = 1 /\ DOMAIN csi = 1 .. 1 /\ csi[1] = "lr"
    BY <2>1
  <2>3. QED
    BY <2>2, <1>4 DEF csi
<1>5. QED
  BY <1>1, <1>2, <1>3, <1>4

\* Rounding up to the alignment of the stack.
LEMMA StackAligned ==
  ASSUME NEW x \in Nat
  PROVE  /\ alignTo(x, StackAlignment) \in Nat /\ x <= alignTo(x, StackAlignment)
         /\ alignTo(x, StackAlignment) % 8 = 0
<1>1. 8 \in Alignment
  BY DEF Alignment
<1>2. QED
  BY <1>1, AlignTo DEF StackAlignment

\* The largest call frame has room for the arguments of every call.
LEMMA CallFrame ==
  ASSUME prog \in Programs, NEW fn \in Names
  PROVE  /\ MaxCallFrameSize(fn) \in Nat
         /\ \A g \in prog[fn].calls : NextStackOffset(g) <= MaxCallFrameSize(fn)
<1> DEFINE calls == prog[fn].calls
           size == [g \in calls |-> FrameSize(g)]
<1>1. calls \subseteq Callee /\ IsFiniteSet(calls)
  <2>1. calls \subseteq Callee
    BY ArgumentsPlaced DEF FunctionType
  <2>2. QED
    BY <2>1, ProgramsAssumption, FS_Subset
<1>2. ASSUME NEW g \in calls
      PROVE  NextStackOffset(g) \in Nat /\ FrameSize(g) \in Nat /\ NextStackOffset(g) <= FrameSize(g)
  <2>1. NextStackOffset(g) \in Nat
    BY <1>1, ArgumentsPlaced DEF Names
  <2>2. QED
    BY <2>1, StackAligned DEF FrameSize
<1>3. \E m \in {0} \cup {FrameSize(g) : g \in calls} : \A g \in calls : FrameSize(g) <= m
  <2>1. CASE calls = {}
    BY <2>1
  <2>2. CASE calls # {}
    <3>1. size \in [calls -> Nat]
      BY <1>2
    <3>2. PICK x \in calls : \A y \in calls : size[y] <= size[x]
      <4> HIDE DEF calls, size
      <4>1. QED
        BY <1>1, <2>2, <3>1, Largest
    <3>3. QED
      BY <3>2
  <2>3. QED
    BY <2>1, <2>2
<1>4. /\ MaxCallFrameSize(fn) \in {0} \cup {FrameSize(g) : g \in calls}
      /\ \A g \in calls : FrameSize(g) <= MaxCallFrameSize(fn)
  BY <1>3 DEF MaxCallFrameSize
<1>5. MaxCallFrameSize(fn) \in Nat
  BY <1>2, <1>4
<1>6. QED
  BY <1>2, <1>4, <1>5

\* The frame of a function has room for what it saves, for its locals and,
\* if it reserves any, for the arguments of its calls.
LEMMA Layout ==
  ASSUME prog \in Programs, NEW fn \in Names
  PROVE  /\ Local(fn) \in Int /\ Local(fn) <= 0 /\ Local(fn) % 4 = 0
         /\ prog[fn].locals > 0 => Local(fn) <= -4
         /\ \A i \in DOMAIN determineCalleeSaves(fn) :
              /\ Spill(i) \in Int /\ Spill(i) % 4 = 0
              /\ Local(fn) <= Spill(i) /\ Spill(i) <= -4
              /\ prog[fn].locals > 0 => Local(fn) < Spill(i)
         /\ StackSize(fn) \in Nat /\ StackSize(fn) % 8 = 0 /\ -Local(fn) <= StackSize(fn)
         /\ hasReservedCallFrame(fn) =>
              \A g \in prog[fn].calls : NextStackOffset(g) <= StackSize(fn) + Local(fn)
<1> DEFINE n == Len(determineCalleeSaves(fn))
           locals == prog[fn].locals
           m == MaxCallFrameSize(fn)
<1>1. locals \in Nat /\ locals % 4 = 0 /\ prog[fn].saves \in BOOLEAN /\ prog[fn].calls \subseteq Callee
  BY ArgumentsPlaced DEF FunctionType, RegSize
<1>2. n \in 0 .. 2 /\ DOMAIN determineCalleeSaves(fn) = 1 .. n
  BY <1>1, CalleeSaved
<1>3. m \in Nat /\ \A g \in prog[fn].calls : NextStackOffset(g) <= m
  BY CallFrame
<1>4. \A g \in prog[fn].calls : NextStackOffset(g) \in Nat
  BY <1>1, ArgumentsPlaced DEF Names
<1>5. Local(fn) = -4 * n - locals
  BY DEF Local
<1> HIDE DEF n, locals, m
<1>6. Local(fn) \in Int /\ Local(fn) <= 0 /\ Local(fn) % 4 = 0
  BY <1>1, <1>2, <1>5
<1>7. ASSUME NEW i \in 1 .. n
      PROVE  /\ Spill(i) \in Int /\ Spill(i) % 4 = 0
             /\ Local(fn) <= Spill(i) /\ Spill(i) <= -4
             /\ locals > 0 => Local(fn) < Spill(i)
  BY <1>1, <1>2, <1>5 DEF Spill
<1>8. locals > 0 => Local(fn) <= -4
  BY <1>1, <1>2, <1>5
<1>9. CASE hasReservedCallFrame(fn)
  <2>1. StackSize(fn) = alignTo(-Local(fn) + m, StackAlignment)
    BY <1>9 DEF StackSize, m
  <2>2. -Local(fn) + m \in Nat
    BY <1>3, <1>6
  <2>3. StackSize(fn) \in Nat /\ StackSize(fn) % 8 = 0 /\ -Local(fn) + m <= StackSize(fn)
    BY <2>1, <2>2, StackAligned
  <2>4. \A g \in prog[fn].calls : NextStackOffset(g) <= StackSize(fn) + Local(fn)
    BY <2>3, <1>3, <1>4, <1>6
  <2>5. QED
    BY <2>3, <2>4, <1>2, <1>3, <1>6, <1>7, <1>8 DEF locals
<1>10. CASE ~hasReservedCallFrame(fn)
  <2>1. StackSize(fn) = alignTo(-Local(fn), StackAlignment)
    BY <1>10, <1>6 DEF StackSize
  <2>2. StackSize(fn) \in Nat /\ StackSize(fn) % 8 = 0 /\ -Local(fn) <= StackSize(fn)
    BY <2>1, <1>6, StackAligned
  <2>3. QED
    BY <2>2, <1>2, <1>6, <1>7, <1>8, <1>10 DEF locals
<1>11. QED
  BY <1>9, <1>10

-----------------------------------------------------------------------------
(* Passing arguments. *)

\* The registers of a call hold its arguments.
LEMMA RegsPassed ==
  ASSUME Typed, NEW g \in Names, NEW d \in Nat, NEW n \in Nat
  PROVE  /\ PassedRegs(ArgLocs(g), d, n) \in [0 .. NumIntArgRegs - 1 -> Value]
         /\ \A i \in DOMAIN ArgLocs(g) : \A w \in 0 .. ArgLocs(g)[i].regs - 1 :
              PassedRegs(ArgLocs(g), d, n)[ArgLocs(g)[i].first + w] = Arg(d, n, i, w)
<1> DEFINE locs == ArgLocs(g)
           At(i, k) == locs[i].first <= k /\ k < locs[i].first + locs[i].regs
           P == PassedRegs(locs, d, n)
<1>1. prog \in Programs
  BY DEF Typed
<1>2. ASSUME NEW i \in DOMAIN locs
      PROVE  /\ i \in Nat /\ locs[i].first \in Nat /\ locs[i].regs \in Nat
             /\ locs[i].regs > 0 => locs[i].first + locs[i].regs <= 2
  BY <1>1, ArgumentWhere
<1>3. ASSUME NEW i \in DOMAIN locs, NEW j \in DOMAIN locs, NEW k \in Nat, At(i, k), At(j, k)
      PROVE  i = j
  <2> SUFFICES ASSUME i # j PROVE FALSE
    OBVIOUS
  <2>1. locs[i].regs > 0 /\ locs[j].regs > 0
    BY <1>2, <1>3
  <2>2. \/ locs[i].first + locs[i].regs <= locs[j].first
        \/ locs[j].first + locs[j].regs <= locs[i].first
    BY <1>1, <2>1, ArgumentsApart
  <2>3. QED
    BY <2>2, <1>2, <1>3
<1>4. P = [k \in 0 .. NumIntArgRegs - 1 |->
             IF \E i \in DOMAIN locs : At(i, k)
               THEN Arg(d, n, CHOOSE j \in DOMAIN locs : At(j, k),
                        k - locs[CHOOSE j \in DOMAIN locs : At(j, k)].first)
               ELSE regs.a[k]]
  <2>1. ASSUME NEW k \in 0 .. NumIntArgRegs - 1, NEW i \in DOMAIN locs
        PROVE  k \in locs[i].first .. locs[i].first + locs[i].regs - 1 <=> At(i, k)
    <3>1. locs[i].first \in Int /\ locs[i].regs \in Int /\ k \in Int
      BY <1>2 DEF NumIntArgRegs
    <3>2. QED
      BY <3>1, Interval
  <2> HIDE DEF At
  <2>2. QED
    BY <2>1 DEF PassedRegs
<1> HIDE DEF At, locs, P
<1>5. ASSUME NEW k \in 0 .. NumIntArgRegs - 1, NEW i \in DOMAIN locs, At(i, k)
      PROVE  P[k] = Arg(d, n, i, k - locs[i].first) /\ k - locs[i].first \in Nat
  <2>1. (CHOOSE j \in DOMAIN locs : At(j, k)) = i
    BY <1>3, <1>5 DEF NumIntArgRegs
  <2>2. P[k] = Arg(d, n, i, k - locs[i].first)
    BY <1>4, <1>5, <2>1
  <2>3. k - locs[i].first \in Nat
    BY <1>2, <1>5 DEF At, NumIntArgRegs
  <2>4. QED
    BY <2>2, <2>3
<1>6. ASSUME NEW k \in 0 .. NumIntArgRegs - 1 PROVE P[k] \in Value
  <2>1. CASE \E i \in DOMAIN locs : At(i, k)
    <3>1. PICK i \in DOMAIN locs : At(i, k)
      BY <2>1
    <3>2. P[k] = Arg(d, n, i, k - locs[i].first) /\ k - locs[i].first \in Nat /\ i \in Nat
      BY <1>2, <1>5, <3>1
    <3>3. QED
      BY <3>2, Values
  <2>2. CASE ~ \E i \in DOMAIN locs : At(i, k)
    BY <1>4, <2>2 DEF Typed
  <2>3. QED
    BY <2>1, <2>2
<1>7. P \in [0 .. NumIntArgRegs - 1 -> Value]
  BY <1>4, <1>6
<1>8. ASSUME NEW i \in DOMAIN locs, NEW w \in 0 .. locs[i].regs - 1
      PROVE  P[locs[i].first + w] = Arg(d, n, i, w)
  <2>1. /\ locs[i].first + w \in 0 .. NumIntArgRegs - 1 /\ At(i, locs[i].first + w)
        /\ (locs[i].first + w) - locs[i].first = w
    BY <1>2 DEF At, NumIntArgRegs
  <2>2. QED
    BY <1>5, <2>1
<1>9. QED
  BY <1>7, <1>8 DEF locs, P

\* The words of the arguments of g, addressed from at, in the memory m.
ArgWords(m, at, g, d, n) ==
  \A i \in DOMAIN ArgLocs(g) : \A w \in Nat : \A x \in Words :
    4 * w < ArgLocs(g)[i].stack /\ x = at + ArgLocs(g)[i].addr + 4 * w =>
      m[x] = Arg(d, n, i, w)

\* The other words of m are those of the stack.
Unwritten(m, at, g) ==
  \A x \in Words : x < at \/ at + NextStackOffset(g) <= x => m[x] = mem[x]

\* The memory after the arguments of g are stored from at on.
Stored(g, at, d, n) ==
  PassedMem(ArgLocs(g), [o \in StackOffsets(ArgLocs(g)) |-> at + o], d, n)

\* A word that a call stores is a word of one of its arguments.
LEMMA StackOffsetWhere ==
  ASSUME prog \in Programs, NEW g \in Names, NEW o
  PROVE  o \in StackOffsets(ArgLocs(g)) <=>
           \E i \in DOMAIN ArgLocs(g) : \E w \in Nat :
             4 * w < ArgLocs(g)[i].stack /\ o = ArgLocs(g)[i].addr + 4 * w
<1> DEFINE locs == ArgLocs(g)
<1>1. o \in StackOffsets(locs) <=>
        \E i \in DOMAIN locs : \E w \in 0 .. locs[i].stack \div 4 - 1 : o = locs[i].addr + 4 * w
  BY DEF StackOffsets
<1>2. ASSUME NEW i \in DOMAIN locs, NEW w
      PROVE  w \in 0 .. locs[i].stack \div 4 - 1 <=> w \in Nat /\ 4 * w < locs[i].stack
  <2>1. locs[i].stack \in Nat /\ locs[i].stack % 4 = 0
    BY ArgumentWhere
  <2> DEFINE stack == locs[i].stack
  <2> HIDE DEF stack
  <2>2. w \in 0 .. stack \div 4 - 1 <=> w \in Nat /\ 4 * w < stack
    BY <2>1 DEF stack
  <2>3. QED
    BY <2>2 DEF stack
<1>3. QED
  BY <1>1, <1>2

\* Wherever the arguments are stored, the memory is one of the stack.
LEMMA PassedTyped ==
  ASSUME Typed, NEW g \in Names, NEW d \in Nat, NEW n \in Nat, NEW at
  PROVE  PassedMem(ArgLocs(g), at, d, n) \in [Words -> Value]
<1> DEFINE locs == ArgLocs(g)
           offsets == StackOffsets(locs)
           from(x) == CHOOSE o \in offsets : x = at[o]
           Of(j, o) == o \in locs[j].addr .. locs[j].addr + locs[j].stack - 1
           at2(o) == CHOOSE j \in DOMAIN locs : Of(j, o)
           word(x) == Arg(d, n, at2(from(x)), (from(x) - locs[at2(from(x))].addr) \div 4)
<1>1. prog \in Programs /\ mem \in [Words -> Value]
  BY DEF Typed
<1>2. PassedMem(locs, at, d, n) =
        [x \in Words |-> IF \E o \in offsets : x = at[o] THEN word(x) ELSE mem[x]]
  BY <1>1 DEF PassedMem
<1>3. ASSUME NEW o \in offsets
      PROVE  Arg(d, n, at2(o), (o - locs[at2(o)].addr) \div 4) \in Value
  <2>1. PICK i \in DOMAIN locs : \E w \in Nat : 4 * w < locs[i].stack /\ o = locs[i].addr + 4 * w
    BY <1>1, <1>3, StackOffsetWhere
  <2>2. locs[i].addr \in Nat /\ locs[i].stack \in Nat
    BY <1>1, ArgumentWhere
  <2>3. Of(i, o)
    <3>1. PICK w \in Nat : 4 * w < locs[i].stack /\ o = locs[i].addr + 4 * w
      BY <2>1
    <3> DEFINE addr == locs[i].addr
               stack == locs[i].stack
    <3> HIDE DEF addr, stack
    <3>2. o \in addr .. addr + stack - 1
      BY <3>1, <2>2 DEF addr, stack
    <3>3. QED
      BY <3>2 DEF addr, stack
  <2>4. at2(o) \in DOMAIN locs /\ Of(at2(o), o)
    BY <2>3
  <2> DEFINE j == at2(o)
             addr == locs[j].addr
             stack == locs[j].stack
             w == (o - addr) \div 4
  <2>5. j \in Nat /\ addr \in Nat /\ stack \in Nat
    BY <2>4, <1>1, ArgumentWhere
  <2>6. o \in addr .. addr + stack - 1
    BY <2>4
  <2> HIDE DEF j, addr, stack
  <2>7. w \in Nat
    BY <2>5, <2>6
  <2> HIDE DEF w
  <2>8. Arg(d, n, j, w) \in Value
    BY <2>5, <2>7, Values
  <2>9. QED
    BY <2>8 DEF w, j, addr
<1> HIDE DEF at2, Of, locs
<1>4. ASSUME NEW x \in Words, \E o \in offsets : x = at[o] PROVE word(x) \in Value
  <2>1. from(x) \in offsets
    BY <1>4
  <2>2. QED
    BY <2>1, <1>3
<1> HIDE DEF word, offsets
<1>5. PassedMem(locs, at, d, n) \in [Words -> Value]
  BY <1>1, <1>2, <1>4
<1>6. QED
  BY <1>5 DEF locs

\* So do the words from at on, and the others are as they were.
LEMMA MemPassed ==
  ASSUME Typed, NEW g \in Names, NEW d \in Nat, NEW n \in Nat, NEW at \in Nat, at % 4 = 0
  PROVE  /\ Stored(g, at, d, n) \in [Words -> Value]
         /\ Unwritten(Stored(g, at, d, n), at, g)
         /\ ArgWords(Stored(g, at, d, n), at, g, d, n)
<1> DEFINE locs == ArgLocs(g)
           offset == NextStackOffset(g)
           conv == prog[g].conv
           At(i, x) == locs[i].addr <= x - at /\ x - at < locs[i].addr + locs[i].stack
           P == Stored(g, at, d, n)
<1>1. prog \in Programs
  BY DEF Typed
<1>2. offset \in Nat
  BY <1>1, ArgumentsPlaced
<1>3. ASSUME NEW i \in DOMAIN locs
      PROVE  /\ i \in Nat /\ locs[i].addr \in Nat /\ locs[i].stack \in Nat /\ locs[i].stack % 4 = 0
             /\ locs[i].stack > 0 => locs[i].addr + locs[i].stack <= offset
  BY <1>1, ArgumentWhere
<1>4. ASSUME NEW i \in DOMAIN locs, locs[i].stack > 0
       PROVE  Object(conv, locs[i]) = [addr |-> locs[i].addr, size |-> locs[i].stack]
  BY <1>1, <1>4, ArgumentObject
<1>5. ASSUME NEW i \in DOMAIN locs, NEW j \in DOMAIN locs, NEW x \in Words, At(i, x), At(j, x)
      PROVE  i = j
  <2> SUFFICES ASSUME i # j PROVE FALSE
    OBVIOUS
  <2>1. x \in Int
    BY DEF Words
  <2>2. locs[i].stack > 0 /\ locs[j].stack > 0
    BY <1>3, <1>5, <2>1
  <2>3. \/ locs[i].addr + locs[i].stack <= locs[j].addr
        \/ locs[j].addr + locs[j].stack <= locs[i].addr
    <3>1. /\ Object(conv, locs[i]) = [addr |-> locs[i].addr, size |-> locs[i].stack]
          /\ Object(conv, locs[j]) = [addr |-> locs[j].addr, size |-> locs[j].stack]
      BY <1>4, <2>2
    <3>2. Object(conv, locs[i]).size > 0 /\ Object(conv, locs[j]).size > 0
      BY <2>2, <3>1
    <3>3. \/ Object(conv, locs[i]).addr + Object(conv, locs[i]).size <= Object(conv, locs[j]).addr
          \/ Object(conv, locs[j]).addr + Object(conv, locs[j]).size <= Object(conv, locs[i]).addr
      BY <1>1, <3>2, ArgumentsApart
    <3>4. QED
      BY <3>1, <3>3
  <2>4. QED
    BY <2>1, <2>3, <1>3, <1>5
<1> DEFINE offsets == StackOffsets(locs)
           from(x) == CHOOSE o \in offsets : x = at + o
           Of(j, o) == o \in locs[j].addr .. locs[j].addr + locs[j].stack - 1
           at2(o) == CHOOSE j \in DOMAIN locs : Of(j, o)
<1>6. \A x \in Words :
        P[x] = IF \E o \in offsets : x = at + o
                 THEN Arg(d, n, at2(from(x)), (from(x) - locs[at2(from(x))].addr) \div 4)
                 ELSE mem[x]
  <2> DEFINE to == [o \in offsets |-> at + o]
             from2(x) == CHOOSE o \in offsets : x = to[o]
  <2>1. DOMAIN mem = Words
    BY DEF Typed
  <2>2. P = [x \in Words |->
               IF \E o \in offsets : x = to[o]
                 THEN Arg(d, n, at2(from2(x)), (from2(x) - locs[at2(from2(x))].addr) \div 4)
                 ELSE mem[x]]
    BY <2>1 DEF PassedMem, Stored
  <2>3. \A x : from2(x) = from(x)
    OBVIOUS
  <2>4. \A o \in offsets : to[o] = at + o
    OBVIOUS
  <2> HIDE DEF to, from, from2, offsets, at2, P
  <2>5. QED
    BY <2>2, <2>3, <2>4
<1>7. ASSUME NEW i \in DOMAIN locs, NEW o \in offsets, NEW x \in Words, x = at + o
       PROVE  Of(i, o) <=> At(i, x)
  <2>1. locs[i].addr \in Int /\ locs[i].stack \in Int
    BY <1>3
  <2>2. PICK j \in DOMAIN locs : \E w \in Nat : 4 * w < locs[j].stack /\ o = locs[j].addr + 4 * w
    BY <1>1, <1>7, StackOffsetWhere
  <2>3. o \in Int
    BY <2>2, <1>3
  <2>4. x - at = o
    BY <2>3, <1>7
  <2>5. QED
    BY <2>1, <2>3, <2>4, Interval
<1>8. ASSUME NEW o \in offsets, NEW x \in Words, x = at + o
       PROVE  o = x - at /\ \E i \in DOMAIN locs : At(i, x)
  <2>1. PICK i \in DOMAIN locs : \E w \in Nat : 4 * w < locs[i].stack /\ o = locs[i].addr + 4 * w
    BY <1>1, <1>8, StackOffsetWhere
  <2>2. PICK w \in Nat : 4 * w < locs[i].stack /\ o = locs[i].addr + 4 * w
    BY <2>1
  <2>3. locs[i].addr \in Nat /\ locs[i].stack \in Nat
    BY <1>3
  <2>4. o = x - at
    BY <2>2, <2>3, <1>8
  <2>5. At(i, x)
    BY <2>2, <2>3, <2>4
  <2>6. QED
    BY <2>4, <2>5
<1>9. ASSUME NEW x \in Words, NEW i \in DOMAIN locs, At(i, x)
       PROVE  x - at \in offsets /\ x = at + (x - at)
  <2> DEFINE addr == locs[i].addr
             stack == locs[i].stack
             w == (x - at - addr) \div 4
  <2>1. addr \in Nat /\ stack \in Nat /\ stack % 4 = 0 /\ addr % 4 = 0
    BY <1>1, ArgumentWhere
  <2>2. x \in Nat /\ x % 4 = 0
    BY StackAssumption DEF Words
  <2>3. addr <= x - at /\ x - at < addr + stack
    BY <1>9
  <2> HIDE DEF addr, stack
  <2>4. w \in Nat /\ 4 * w < stack /\ x - at = addr + 4 * w
    BY <2>1, <2>2, <2>3
  <2>5. x - at \in offsets
    BY <2>4, <1>1, StackOffsetWhere DEF addr, stack
  <2>6. QED
    BY <2>2, <2>5
<1> HIDE DEF At, Of, locs, P, conv, offset, offsets
<1>10. ASSUME NEW x \in Words, NEW i \in DOMAIN locs, At(i, x)
      PROVE  /\ P[x] = Arg(d, n, i, (x - at - locs[i].addr) \div 4)
             /\ (x - at - locs[i].addr) \div 4 \in Nat
             /\ at <= x /\ x < at + offset
  <2>1. x \in Int
    BY DEF Words
  <2>2. from(x) = x - at
    <3>1. \E o \in offsets : x = at + o
      BY <1>10, <1>9
    <3>2. from(x) \in offsets /\ x = at + from(x)
      BY <3>1
    <3>3. QED
      BY <3>2, <1>8
  <2>3. at2(x - at) = i
    <3>1. x - at \in offsets /\ x = at + (x - at)
      BY <1>10, <1>9
    <3>2. Of(i, x - at)
      BY <3>1, <1>10, <1>7
    <3>3. at2(x - at) \in DOMAIN locs /\ Of(at2(x - at), x - at)
      BY <3>2
    <3>4. At(at2(x - at), x)
      BY <3>1, <3>3, <1>7
    <3>5. QED
      BY <3>3, <3>4, <1>5, <1>10
  <2>4. P[x] = Arg(d, n, i, (x - at - locs[i].addr) \div 4)
    <3>1. \E o \in offsets : x = at + o
      BY <1>10, <1>9
    <3>2. P[x] = Arg(d, n, at2(from(x)), (from(x) - locs[at2(from(x))].addr) \div 4)
      BY <3>1, <1>6
    <3> HIDE DEF from, at2
    <3>3. QED
      BY <3>2, <2>2, <2>3
  <2>5. x - at - locs[i].addr \in Nat /\ locs[i].stack > 0 /\ x - at < locs[i].addr + locs[i].stack
    BY <1>3, <1>10, <2>1 DEF At
  <2>6. at <= x /\ x < at + offset
    BY <1>2, <1>3, <2>1, <2>5
  <2>7. QED
    BY <2>5, <2>6, <2>4
<1>11. P \in [Words -> Value]
  BY PassedTyped DEF P, Stored
<1>12. ASSUME NEW x \in Words, x < at \/ at + offset <= x PROVE P[x] = mem[x]
  <2>1. x \in Int
    BY DEF Words
  <2>2. ~ \E i \in DOMAIN locs : At(i, x)
    BY <1>2, <1>10, <1>12, <2>1
  <2>3. ~ \E o \in offsets : x = at + o
    BY <2>2, <1>8
  <2>4. QED
    BY <1>6, <2>3
<1>13. ASSUME NEW i \in DOMAIN locs, NEW w \in Nat, NEW x \in Words,
              4 * w < locs[i].stack, x = at + locs[i].addr + 4 * w
       PROVE  P[x] = Arg(d, n, i, w)
  <2>1. locs[i].addr \in Nat /\ locs[i].stack \in Nat /\ locs[i].stack % 4 = 0
    BY <1>3
  <2>2. x - at = locs[i].addr + 4 * w /\ x - at - locs[i].addr = 4 * w
    BY <2>1, <1>13
  <2>3. At(i, x)
    BY <2>1, <2>2, <1>13 DEF At
  <2>4. (x - at - locs[i].addr) \div 4 = w
    BY <2>2
  <2>5. QED
    BY <1>10, <2>3, <2>4
<1>14. QED
  <2>1. ArgWords(P, at, g, d, n)
    BY <1>13 DEF ArgWords, locs
  <2>2. Unwritten(P, at, g)
    BY <1>12 DEF Unwritten, offset
  <2>3. QED
    BY <2>1, <2>2, <1>11 DEF locs, P


-----------------------------------------------------------------------------
(* Words of the stack that a step leaves alone. *)

\* The types of one activation, and what it takes from its function.
LEMMA ActivationTyped ==
  ASSUME Typed, NEW k \in DOMAIN acts
  PROVE  /\ acts[k] \in ActivationType /\ acts[k].fn \in Names
         /\ acts[k].base \in 0 .. StackTop /\ acts[k].depth \in Nat /\ acts[k].gen \in 0 .. 1
         /\ acts[k].lr \in Value /\ acts[k].s0 \in Value
         /\ prog \in Programs /\ StackTop \in Nat /\ StackTop % 8 = 0
         /\ Len(acts) \in Nat \ {0} /\ DOMAIN acts = 1 .. Len(acts) /\ k \in 1 .. Len(acts)
<1>1. acts[k] \in ActivationType /\ DOMAIN acts = 1 .. Len(acts) /\ Len(acts) \in Nat
  BY DEF Typed
<1>2. QED
  BY <1>1, StackAssumption DEF ActivationType, Names, Typed

\* The last activation.
LEMMA TopActive ==
  ASSUME Typed
  PROVE  Len(acts) \in DOMAIN acts /\ Top = acts[Len(acts)]
BY DEF Typed, Top

\* The frame of an activation that was entered is in the stack.
LEMMA InFrame ==
  ASSUME Typed, Stacked, NEW k \in DOMAIN acts, Entered(k), NEW x \in Int, x % 4 = 0,
         acts[k].base + Local(acts[k].fn) <= x, x < acts[k].base
  PROVE  x \in Words
<1> DEFINE base == acts[k].base
           size == StackSize(acts[k].fn)
           local == Local(acts[k].fn)
<1>1. /\ base \in 0 .. StackTop /\ acts[k].fn \in Names /\ prog \in Programs
      /\ k \in 1 .. Len(acts) /\ Len(acts) \in Nat /\ StackTop \in Nat
  BY ActivationTyped
<1>2. size \in Nat /\ -local <= size /\ local \in Int
  BY <1>1, Layout
<1>3. size <= base
  <2>1. CASE k < Len(acts)
    <3>1. k + 1 \in DOMAIN acts /\ k \in 1 .. Len(acts) - 1
      BY <1>1, <2>1 DEF Typed
    <3>2. acts[k + 1].base \in Nat
      BY <3>1, ActivationTyped
    <3>3. acts[k + 1].base = base - size
      BY <3>1 DEF Stacked
    <3>4. QED
      BY <1>1, <1>2, <3>2, <3>3
  <2>2. CASE k = Len(acts)
    <3>1. pc # "entry"
      BY <1>1, <2>2 DEF Entered
    <3>2. regs.sp = base - size /\ regs.sp \in Nat
      BY <2>2, <3>1 DEF Stacked, Typed, Top
    <3>3. QED
      BY <1>1, <1>2, <3>2
  <2>3. QED
    BY <1>1, <2>1, <2>2
<1> HIDE DEF base, size, local
<1>4. 0 <= x /\ x < StackTop
  <2>1. base + local <= x /\ x < base
    BY DEF base, local
  <2>2. QED
    BY <2>1, <1>1, <1>2, <1>3 DEF base
<1>5. QED
  BY <1>4, WordAddress

\* So are the arguments of an activation that was called.
LEMMA InArguments ==
  ASSUME Typed, Nested, NEW k \in DOMAIN acts, k # 1, NEW x \in Int, x % 4 = 0,
         acts[k].base <= x, x < acts[k].base + NextStackOffset(acts[k].fn)
  PROVE  x \in Words
<1>1. /\ 1 \in DOMAIN acts /\ 1 < k /\ acts[k].base \in Nat /\ acts[k].fn \in Names
      /\ prog \in Programs /\ StackTop \in Nat
  BY ActivationTyped
<1>2. acts[1].base \in 0 .. StackTop /\ acts[1].fn \in Names
  BY <1>1, ActivationTyped
<1>3. Local(acts[1].fn) \in Int /\ Local(acts[1].fn) <= 0
  BY <1>1, <1>2, Layout
<1>4. NextStackOffset(acts[k].fn) \in Nat
  BY <1>1, ArgumentsPlaced
<1>5. acts[k].base + NextStackOffset(acts[k].fn) <= acts[1].base + Local(acts[1].fn)
  BY <1>1 DEF Nested
<1>6. 0 <= x /\ x < StackTop
  BY <1>1, <1>2, <1>3, <1>4, <1>5
<1>7. QED
  BY <1>6, WordAddress

\* No step changes the program, and so none changes what is laid out by it.
LEMMA SameProgram ==
  ASSUME prog' = prog, NEW fn
  PROVE  /\ ArgLocs(fn)' = ArgLocs(fn) /\ NextStackOffset(fn)' = NextStackOffset(fn)
         /\ determineCalleeSaves(fn)' = determineCalleeSaves(fn) /\ Local(fn)' = Local(fn)
         /\ StackSize(fn)' = StackSize(fn) /\ (Fitting(fn)' <=> Fitting(fn))
<1>1. ArgLocs(fn)' = ArgLocs(fn)
  BY DEF ArgLocs, Arguments
<1>2. NextStackOffset(fn)' = NextStackOffset(fn)
  BY DEF NextStackOffset, Arguments
<1>3. determineCalleeSaves(fn)' = determineCalleeSaves(fn)
  BY DEF determineCalleeSaves
<1>4. Local(fn)' = Local(fn)
  BY <1>3 DEF Local
<1>5. MaxCallFrameSize(fn)' = MaxCallFrameSize(fn)
  BY DEF MaxCallFrameSize, FrameSize, NextStackOffset, Arguments
<1>6. hasReservedCallFrame(fn)' <=> hasReservedCallFrame(fn)
  BY <1>5 DEF hasReservedCallFrame
<1>7. StackSize(fn)' = StackSize(fn)
  BY <1>4, <1>5, <1>6 DEF StackSize
<1>8. FrameOffsets(fn)' = FrameOffsets(fn)
  BY <1>1, <1>3, <1>4 DEF FrameOffsets, Objects
<1>9. Fitting(fn)' <=> Fitting(fn)
  BY <1>7, <1>8 DEF Fitting, Addressable, isInt16
<1>10. QED
  BY <1>1, <1>2, <1>3, <1>4, <1>7, <1>9

\* A frame is kept by a step that leaves its words alone.
LEMMA FrameStays ==
  ASSUME Typed, Stacked, NEW k \in DOMAIN acts, Entered(k), FrameKept(k),
         prog' = prog, acts'[k] = acts[k],
         \A x \in Words : acts[k].base + Local(acts[k].fn) <= x /\ x < acts[k].base =>
           mem'[x] = mem[x]
  PROVE  FrameKept(k)'
<1> DEFINE a == acts[k]
           csi == determineCalleeSaves(a.fn)
           saved == [lr |-> a.lr, s0 |-> a.s0]
           local == Local(a.fn)
<1>1. a.fn \in Names /\ a.base \in 0 .. StackTop /\ prog \in Programs
  BY ActivationTyped
<1>2. a.base % 4 = 0
  <2>1. a.base % 8 = 0
    BY DEF Stacked, StackAlignment
  <2>2. QED
    BY <1>1, <2>1
<1>3. /\ local \in Int /\ local % 4 = 0 /\ (prog[a.fn].locals > 0 => local <= -4)
      /\ \A i \in DOMAIN csi : Spill(i) \in Int /\ Spill(i) % 4 = 0 /\ local <= Spill(i) /\ Spill(i) <= -4
  BY <1>1, Layout
<1>4. /\ \A i \in DOMAIN csi : mem[a.base + Spill(i)] = saved[csi[i]]
      /\ prog[a.fn].locals > 0 => mem[a.base + local] = Own("local", a.depth, a.gen)
  BY DEF FrameKept
<1>5. ASSUME NEW o \in Int, o % 4 = 0, local <= o, o <= -4
      PROVE  mem'[a.base + o] = mem[a.base + o]
  <2>1. a.base + o \in Int /\ (a.base + o) % 4 = 0 /\ a.base + local <= a.base + o /\ a.base + o < a.base
    BY <1>1, <1>2, <1>3, <1>5
  <2>2. a.base + o \in Words
    BY <2>1, InFrame
  <2>3. QED
    BY <2>1, <2>2
<1>6. csi' = csi /\ local' = local /\ a' = a
  <2>1. a' = a
    OBVIOUS
  <2>2. QED
    BY <2>1, SameProgram
<1>7. /\ \A i \in DOMAIN csi : mem'[a.base + Spill(i)] = saved[csi[i]]
      /\ prog[a.fn].locals > 0 => mem'[a.base + local] = Own("local", a.depth, a.gen)
  BY <1>3, <1>4, <1>5
<1>8. QED
  BY <1>6, <1>7 DEF FrameKept

\* An activation a finds its argument i in the object at addr, of size bytes.
Found(m, a, i, addr, size) ==
  \A w \in 0 .. size \div 4 - 1 : m[a.base + addr + 4 * w] = Arg(a.depth, a.gen, i, w)

\* The arguments of an activation are kept by a step that leaves their words
\* alone.
LEMMA ArgumentsStay ==
  ASSUME Typed, Stacked, Nested, NEW k \in DOMAIN acts, Entered(k), Entered(k)',
         ArgumentsKept(k), prog' = prog, acts'[k] = acts[k],
         \A x \in Words : acts[k].base <= x /\ x < acts[k].base + NextStackOffset(acts[k].fn) =>
           mem'[x] = mem[x]
  PROVE  ArgumentsKept(k)'
<1> DEFINE a == acts[k]
           locs == ArgLocs(a.fn)
           conv == prog[a.fn].conv
           offset == NextStackOffset(a.fn)
<1>1. a.fn \in Names /\ a.base \in 0 .. StackTop /\ prog \in Programs
  BY ActivationTyped
<1>2. a.base % 4 = 0
  <2>1. a.base % 8 = 0
    BY DEF Stacked, StackAlignment
  <2>2. QED
    BY <1>1, <2>1
<1>3. /\ acts[1].fn = "main" /\ offset \in Nat
      /\ \A fn \in Names : fn = "main" => ArgLocs(fn) = <<>>
  BY <1>1, ArgumentsPlaced DEF Stacked
<1>4. (ArgLocs(a.fn)' = locs) /\ a' = a /\ (conv' = conv)
  <2>1. a' = a
    OBVIOUS
  <2>2. QED
    BY <2>1, SameProgram
<1>5. ASSUME NEW i \in DOMAIN locs
      PROVE  /\ locs[i].stack > 0 => (a.base + locs[i].addr) % locs[i].align = 0
             /\ Found(mem', a, i, Object(conv, locs[i]).addr, Object(conv, locs[i]).size)
  <2> DEFINE o == Object(conv, locs[i])
  <2>1. /\ locs[i].stack > 0 => (a.base + locs[i].addr) % locs[i].align = 0
        /\ Found(mem, a, i, o.addr, o.size)
    BY <1>5 DEF ArgumentsKept, Found
  <2>2. /\ o.addr \in Nat /\ o.size \in Nat /\ o.addr % 4 = 0 /\ o.size % 4 = 0
        /\ o.size > 0 => o.addr + o.size <= offset
    BY <1>1, <1>5, ObjectWords
  <2> HIDE DEF o, offset
  <2>3. ASSUME NEW w \in 0 .. o.size \div 4 - 1
        PROVE  mem'[a.base + o.addr + 4 * w] = mem[a.base + o.addr + 4 * w]
    <3>1. w \in Nat /\ 4 * w <= o.size - 4
      BY <2>2
    <3> DEFINE x == a.base + o.addr + 4 * w
    <3>2. x \in Int /\ x % 4 = 0 /\ a.base <= x /\ x < a.base + offset
      <4>1. a.base \in Nat /\ o.addr \in Nat /\ o.size \in Nat /\ offset \in Nat
        BY <1>1, <1>3, <2>2
      <4>2. x % 4 = 0
        BY <4>1, <1>2, <2>2, <3>1, WordSum
      <4>3. x \in Int /\ a.base <= x /\ x < a.base + offset
        BY <4>1, <2>2, <3>1, WordWithin
      <4>4. QED
        BY <4>2, <4>3
    <3>3. k # 1
      BY <1>1, <1>3, <1>5
    <3> HIDE DEF x
    <3>4. x \in Words
      BY <3>2, <3>3, InArguments DEF offset
    <3>5. mem'[x] = mem[x]
      BY <3>2, <3>4 DEF offset
    <3>6. QED
      BY <3>5 DEF x
  <2>4. QED
    BY <2>1, <2>3 DEF Found, o
<1>6. QED
  BY <1>4, <1>5 DEF ArgumentsKept, Found

-----------------------------------------------------------------------------
(* Registers that are restored. *)

\* An address within reach of its instruction is the one that was meant.
LEMMA AddressReached ==
  ASSUME NEW fn, NEW sp \in Int, StackSize(fn) \in Nat, NEW o \in Int, isInt16(StackSize(fn) + o)
  PROVE  FrameAddress(sp, fn, o) = sp + StackSize(fn) + o
<1>1. Masked(StackSize(fn) + o) = StackSize(fn) + o
  BY Fits
<1>2. FrameAddress(sp, fn, o) = sp + (StackSize(fn) + o)
  BY <1>1 DEF FrameAddress
<1>3. QED
  BY <1>2

\* The epilogue restores the stack pointer of the entry.
LEMMA RestoredTyped ==
  ASSUME Typed, Stacked, pc = "body", NEW m, m \in [Words -> Value]
  PROVE  LET r == Restored(m)
         IN  /\ r = [a |-> regs.a, s0 |-> r.s0, lr |-> r.lr, sp |-> Top.base]
             /\ r.s0 \in Value /\ r.lr \in Value
<1> DEFINE fn == Top.fn
           base == Top.base
           csi == determineCalleeSaves(fn)
           saved(c) == Loaded(m, FrameAddress(regs.sp, fn, Spill(CHOOSE i \in DOMAIN csi : csi[i] = c)))
           back(c) == IF \E i \in DOMAIN csi : csi[i] = c THEN saved(c) ELSE regs[c]
<1>1. /\ fn \in Names /\ base \in 0 .. StackTop /\ prog \in Programs
      /\ Len(acts) \in DOMAIN acts /\ Top = acts[Len(acts)]
  BY ActivationTyped, TopActive
<1>2. /\ regs = [a |-> regs.a, s0 |-> regs.s0, lr |-> regs.lr, sp |-> regs.sp]
      /\ regs.s0 \in Value /\ regs.lr \in Value /\ regs.sp = base - StackSize(fn)
  BY DEF Typed, Stacked
<1>3. StackSize(fn) \in Nat
  BY <1>1, Layout
<1>4. regs.sp + StackSize(fn) = base
  BY <1>1, <1>2, <1>3
<1>5. ASSUME NEW c \in {"lr", "s0"} PROVE back(c) \in Value
  <2>1. \A x : Loaded(m, x) \in Value
    BY Values DEF Loaded
  <2>2. QED
    BY <2>1, <1>2
<1>6. Restored(m) = [regs EXCEPT !.lr = back("lr"), !.s0 = back("s0"), !.sp = @ + StackSize(fn)]
  BY DEF Restored
<1> HIDE DEF back
<1>7. Restored(m) = [a |-> regs.a, s0 |-> back("s0"), lr |-> back("lr"), sp |-> base]
  BY <1>2, <1>4, <1>6
<1>8. QED
  BY <1>5, <1>7

\* The registers that the function saved are those of its spills.
LEMMA RestoredWhere ==
  ASSUME Typed, Stacked, pc = "body", Fitting(Top.fn), NEW m, m \in [Words -> Value]
  PROVE  LET r == Restored(m)
             csi == determineCalleeSaves(Top.fn)
         IN  /\ r = [a |-> regs.a, s0 |-> r.s0, lr |-> r.lr, sp |-> Top.base]
             /\ r.s0 \in Value /\ r.lr \in Value
             /\ \A i \in DOMAIN csi :
                  /\ csi[i] = "lr" => r.lr = m[Top.base + Spill(i)]
                  /\ csi[i] = "s0" => r.s0 = m[Top.base + Spill(i)]
             /\ prog[Top.fn].calls = {} => r.lr = regs.lr
             /\ ~prog[Top.fn].saves => r.s0 = regs.s0
<1> DEFINE fn == Top.fn
           base == Top.base
           csi == determineCalleeSaves(fn)
           saved(c) == m[base + Spill(CHOOSE i \in DOMAIN csi : csi[i] = c)]
           back(c) == IF \E i \in DOMAIN csi : csi[i] = c THEN saved(c) ELSE regs[c]
<1>1. /\ fn \in Names /\ base \in 0 .. StackTop /\ prog \in Programs
      /\ Len(acts) \in DOMAIN acts /\ Top = acts[Len(acts)]
  BY ActivationTyped, TopActive
<1>2. prog[fn].saves \in BOOLEAN
  BY <1>1, ArgumentsPlaced DEF FunctionType
<1>3. /\ \A i, j \in DOMAIN csi : csi[i] = csi[j] => i = j
      /\ (\E i \in DOMAIN csi : csi[i] = "lr") <=> prog[fn].calls # {}
      /\ (\E i \in DOMAIN csi : csi[i] = "s0") <=> prog[fn].saves
  BY <1>2, CalleeSaved
<1>4. /\ regs = [a |-> regs.a, s0 |-> regs.s0, lr |-> regs.lr, sp |-> regs.sp]
      /\ regs.s0 \in Value /\ regs.lr \in Value /\ regs.sp = base - StackSize(fn)
  BY DEF Typed, Stacked
<1>5. /\ StackSize(fn) \in Nat /\ Local(fn) \in Int
      /\ \A i \in DOMAIN csi : /\ Spill(i) \in Int /\ Spill(i) % 4 = 0
                               /\ Local(fn) <= Spill(i) /\ Spill(i) <= -4
  BY <1>1, Layout
<1>6. base % 4 = 0
  <2>1. base % 8 = 0
    BY <1>1 DEF Stacked, StackAlignment
  <2>2. QED
    BY <1>1, <2>1
<1>7. ASSUME NEW i \in DOMAIN csi PROVE base + Spill(i) \in Words
  <2>1. /\ base \in Nat /\ Spill(i) \in Int /\ Spill(i) % 4 = 0
        /\ Local(fn) \in Int /\ Local(fn) <= Spill(i) /\ Spill(i) <= -4
    BY <1>1, <1>5
  <2>2. /\ base + Spill(i) \in Int /\ (base + Spill(i)) % 4 = 0
        /\ base + Local(fn) <= base + Spill(i) /\ base + Spill(i) < base
    <3>1. base + Spill(i) \in Int /\ (base + Spill(i)) % 4 = 0
      BY <2>1, <1>6, WordOffset
    <3>2. base + Local(fn) <= base + Spill(i) /\ base + Spill(i) < base
      BY <2>1
    <3>3. QED
      BY <3>1, <3>2
  <2>3. Entered(Len(acts))
    BY DEF Entered
  <2>4. QED
    BY <1>1, <2>2, <2>3, InFrame
<1>8. regs.sp + StackSize(fn) = base
  BY <1>1, <1>4, <1>5
<1>9. ASSUME NEW i \in DOMAIN csi
      PROVE  Loaded(m, FrameAddress(regs.sp, fn, Spill(i))) = m[base + Spill(i)]
  <2>1. isInt16(StackSize(fn) + Spill(i))
    BY DEF Fitting, Addressable, FrameOffsets
  <2>2. regs.sp \in Int
    BY <1>1, <1>4, <1>5
  <2>3. FrameAddress(regs.sp, fn, Spill(i)) = regs.sp + StackSize(fn) + Spill(i)
    BY <2>1, <2>2, <1>5, AddressReached
  <2>4. FrameAddress(regs.sp, fn, Spill(i)) = base + Spill(i)
    BY <2>3, <1>8
  <2>5. QED
    BY <2>4, <1>7 DEF Loaded
<1>10. ASSUME NEW c \in {"lr", "s0"}
       PROVE  /\ \A i \in DOMAIN csi : csi[i] = c => back(c) = m[base + Spill(i)]
              /\ (~ \E i \in DOMAIN csi : csi[i] = c) => back(c) = regs[c]
              /\ back(c) \in Value
  <2>1. ASSUME NEW i \in DOMAIN csi, csi[i] = c
        PROVE  back(c) = m[base + Spill(i)] /\ back(c) \in Value
    <3>1. (CHOOSE j \in DOMAIN csi : csi[j] = c) = i
      BY <1>3, <2>1
    <3>2. back(c) = m[base + Spill(i)]
      BY <2>1, <3>1
    <3>3. QED
      BY <1>7, <3>2
  <2>2. ASSUME ~ \E i \in DOMAIN csi : csi[i] = c
        PROVE  back(c) = regs[c] /\ back(c) \in Value
    BY <1>4, <2>2
  <2>3. QED
    BY <2>1, <2>2
<1>11. Restored(m) = [a |-> regs.a, s0 |-> back("s0"), lr |-> back("lr"), sp |-> base]
  <2> DEFINE saved2(c) == Loaded(m, FrameAddress(regs.sp, fn, Spill(CHOOSE i \in DOMAIN csi : csi[i] = c)))
             back2(c) == IF \E i \in DOMAIN csi : csi[i] = c THEN saved2(c) ELSE regs[c]
  <2>1. Restored(m) = [regs EXCEPT !.lr = back2("lr"), !.s0 = back2("s0"), !.sp = @ + StackSize(fn)]
    BY DEF Restored
  <2>2. ASSUME NEW c PROVE back2(c) = back(c)
    <3>1. CASE \E i \in DOMAIN csi : csi[i] = c
      <4>1. (CHOOSE i \in DOMAIN csi : csi[i] = c) \in DOMAIN csi
        BY <3>1
      <4>2. QED
        BY <1>9, <4>1
    <3>2. CASE ~ \E i \in DOMAIN csi : csi[i] = c
      BY <3>2
    <3>3. QED
      BY <3>1, <3>2
  <2> HIDE DEF back, back2
  <2>3. Restored(m) = [regs EXCEPT !.lr = back("lr"), !.s0 = back("s0"), !.sp = base]
    BY <1>8, <2>1, <2>2
  <2>4. QED
    BY <1>4, <2>3
<1> HIDE DEF back
<1>12. /\ Restored(m).s0 = back("s0") /\ Restored(m).lr = back("lr")
       /\ Restored(m) = [a |-> regs.a, s0 |-> Restored(m).s0, lr |-> Restored(m).lr, sp |-> base]
  BY <1>11
<1>13. /\ Restored(m).s0 \in Value /\ Restored(m).lr \in Value
       /\ \A i \in DOMAIN csi :
            /\ csi[i] = "lr" => Restored(m).lr = m[base + Spill(i)]
            /\ csi[i] = "s0" => Restored(m).s0 = m[base + Spill(i)]
  BY <1>10, <1>12
<1>14. /\ prog[fn].calls = {} => Restored(m).lr = regs.lr
       /\ ~prog[fn].saves => Restored(m).s0 = regs.s0
  BY <1>3, <1>10, <1>12
<1>15. QED
  BY <1>12, <1>13, <1>14

\* What it restores is what the caller left, if the frame is kept.
LEMMA RestoredCaller ==
  ASSUME Typed, Stacked, pc = "body", Fitting(Top.fn), Linked, RegistersKept, FrameKept(Len(acts)),
         NEW m, m \in [Words -> Value],
         \A x \in Words : x < Top.base => m[x] = mem[x]
  PROVE  Restored(m).lr = Top.lr /\ Restored(m).s0 = Top.s0
<1> DEFINE fn == Top.fn
           base == Top.base
           csi == determineCalleeSaves(fn)
<1>1. /\ fn \in Names /\ base \in 0 .. StackTop /\ prog \in Programs
      /\ Len(acts) \in DOMAIN acts /\ Top = acts[Len(acts)]
  BY ActivationTyped, TopActive
<1>2. prog[fn].saves \in BOOLEAN
  BY <1>1, ArgumentsPlaced DEF FunctionType
<1>3. /\ (\E i \in DOMAIN csi : csi[i] = "lr") <=> prog[fn].calls # {}
      /\ (\E i \in DOMAIN csi : csi[i] = "s0") <=> prog[fn].saves
  BY <1>2, CalleeSaved
<1>4. \A i \in DOMAIN csi :
        /\ csi[i] = "lr" => Restored(m).lr = m[base + Spill(i)]
        /\ csi[i] = "s0" => Restored(m).s0 = m[base + Spill(i)]
  BY RestoredWhere
<1>5. Entered(Len(acts))
  BY DEF Entered
<1>6. \A i \in DOMAIN csi : mem[base + Spill(i)] = [lr |-> Top.lr, s0 |-> Top.s0][csi[i]]
  BY <1>1, <1>5 DEF FrameKept
<1>7. ASSUME NEW i \in DOMAIN csi PROVE m[base + Spill(i)] = mem[base + Spill(i)]
  <2>1. /\ Spill(i) \in Int /\ Spill(i) % 4 = 0 /\ Local(fn) \in Int
        /\ Local(fn) <= Spill(i) /\ Spill(i) <= -4
    BY <1>1, Layout
  <2>2. base % 8 = 0
    BY <1>1 DEF Stacked, StackAlignment
  <2>3. /\ base + Spill(i) \in Int /\ (base + Spill(i)) % 4 = 0
        /\ base + Local(fn) <= base + Spill(i) /\ base + Spill(i) < base
    <3>1. base \in Nat
      BY <1>1
    <3>2. base % 4 = 0
      BY <3>1, <2>2
    <3>3. base + Spill(i) \in Int /\ (base + Spill(i)) % 4 = 0
      BY <3>1, <3>2, <2>1, WordOffset
    <3>4. base + Local(fn) <= base + Spill(i) /\ base + Spill(i) < base
      BY <3>1, <2>1
    <3>5. QED
      BY <3>3, <3>4
  <2>4. base + Spill(i) \in Words
    BY <1>1, <1>5, <2>3, InFrame
  <2>5. QED
    BY <2>3, <2>4
<1>8. Restored(m).lr = Top.lr
  <2>1. CASE prog[fn].calls = {}
    BY <2>1, RestoredWhere DEF Linked
  <2>2. CASE prog[fn].calls # {}
    BY <2>2, <1>3, <1>4, <1>6, <1>7
  <2>3. QED
    BY <2>1, <2>2
<1>9. Restored(m).s0 = Top.s0
  <2>1. CASE ~prog[fn].saves
    BY <2>1, RestoredWhere DEF RegistersKept
  <2>2. CASE prog[fn].saves
    BY <2>2, <1>3, <1>4, <1>6, <1>7
  <2>3. QED
    BY <2>1, <2>2
<1>10. QED
  BY <1>8, <1>9

-----------------------------------------------------------------------------
(* Steps. *)

\* The words of an activation that waits are above everything that the last
\* one may write.
LEMMA Waiting ==
  ASSUME Typed, Nested, NEW k \in 1 .. Len(acts) - 1
  PROVE  /\ k \in DOMAIN acts /\ Local(acts[k].fn) \in Int /\ Local(acts[k].fn) <= 0
         /\ Top.base + NextStackOffset(Top.fn) <= acts[k].base + Local(acts[k].fn)
         /\ acts[k].base \in Nat /\ Top.base \in Nat /\ NextStackOffset(Top.fn) \in Nat
<1>1. k \in DOMAIN acts /\ Len(acts) \in DOMAIN acts /\ Top = acts[Len(acts)] /\ k < Len(acts)
  BY TopActive DEF Typed
<1>2. /\ acts[k].fn \in Names /\ acts[k].base \in Nat /\ prog \in Programs
      /\ Top.fn \in Names /\ Top.base \in Nat
  BY <1>1, ActivationTyped
<1>3. Local(acts[k].fn) \in Int /\ Local(acts[k].fn) <= 0 /\ NextStackOffset(Top.fn) \in Nat
  BY <1>2, Layout, ArgumentsPlaced
<1>4. QED
  BY <1>1, <1>2, <1>3 DEF Nested

\* A step that writes nothing above what the last activation may write keeps
\* what is said of those that wait.
LEMMA WaitingKept ==
  ASSUME Typed, Stacked, Nested, NEW k \in 1 .. Len(acts) - 1, FrameKept(k), ArgumentsKept(k),
         prog' = prog, acts'[k] = acts[k], Entered(k)',
         \A x \in Words : Top.base + NextStackOffset(Top.fn) <= x => mem'[x] = mem[x]
  PROVE  FrameKept(k)' /\ ArgumentsKept(k)'
<1> DEFINE high == Top.base + NextStackOffset(Top.fn)
           local == Local(acts[k].fn)
           base == acts[k].base
<1>1. /\ k \in DOMAIN acts /\ high <= base + local /\ local <= 0
      /\ high \in Nat /\ base \in Nat /\ local \in Int
  BY Waiting
<1>2. Entered(k)
  BY DEF Entered
<1> HIDE DEF high
<1>3. ASSUME NEW x \in Words, base + local <= x PROVE mem'[x] = mem[x]
  <2>1. x \in Int
    BY DEF Words
  <2>2. high <= x
    BY <1>1, <1>3, <2>1
  <2>3. QED
    BY <2>2 DEF high
<1>4. FrameKept(k)'
  BY <1>1, <1>2, <1>3, FrameStays
<1>5. ASSUME NEW x \in Words, base <= x PROVE mem'[x] = mem[x]
  <2>1. x \in Int
    BY DEF Words
  <2>2. base + local <= x
    BY <1>1, <1>5, <2>1
  <2>3. QED
    BY <1>3, <2>2
<1>6. ArgumentsKept(k)'
  BY <1>1, <1>2, <1>5, ArgumentsStay
<1>7. QED
  BY <1>4, <1>6

\* Return.
LEMMA ReturnKeeps ==
  ASSUME IInv, Return
  PROVE  IInv' /\ (~damaged => regs'.lr = Top.lr)
<1> DEFINE n == Len(acts) - 1
           high == Top.base + NextStackOffset(Top.fn)
<1>1. Typed /\ Stacked /\ (~damaged => Sane)
  BY DEF IInv
<1>2. /\ pc = "body" /\ Top.fn # "main" /\ prog' = prog /\ pc' = pc /\ damaged' = damaged
      /\ acts' = SubSeq(acts, 1, n) /\ regs' = Restored(mem)
      /\ mem' = [x \in Words |-> IF x < regs'.sp THEN None ELSE mem[x]]
  BY <1>1 DEF Return, Typed
<1>3. /\ Len(acts) \in DOMAIN acts /\ Top = acts[Len(acts)] /\ acts \in Seq(ActivationType)
      /\ Len(acts) \in 1 .. MaxDepth /\ MaxDepth \in Nat
  BY <1>1, TopActive, StackAssumption DEF Typed
<1>4. n \in 1 .. MaxDepth /\ n \in 1 .. Len(acts) - 1
  <2>1. Len(acts) # 1
    BY <1>1, <1>2, <1>3 DEF Stacked
  <2>2. Len(acts) \in Nat /\ 1 <= Len(acts) /\ Len(acts) <= MaxDepth /\ MaxDepth \in Nat
    BY <1>3
  <2>3. n \in Nat /\ 1 <= n
    BY <2>1, <2>2, Before
  <2>4. n <= MaxDepth /\ n <= Len(acts) - 1
    BY <2>2
  <2>5. QED
    BY <2>2, <2>3, <2>4
<1>5. /\ acts' \in Seq(ActivationType) /\ Len(acts') = n /\ DOMAIN acts' = 1 .. n
      /\ \A k \in 1 .. n : acts'[k] = acts[k]
  BY <1>2, <1>3, <1>4
<1>6. /\ regs' = [a |-> regs.a, s0 |-> regs'.s0, lr |-> regs'.lr, sp |-> Top.base]
      /\ regs'.s0 \in Value /\ regs'.lr \in Value
  BY <1>1, <1>2, RestoredTyped DEF Typed
<1>7. Top' = acts[n]
  BY <1>4, <1>5 DEF Top
<1>8. Top.base \in 0 .. StackTop
  BY <1>1, <1>3, ActivationTyped
<1>9. Typed'
  <2>1. regs' \in [a : [0 .. NumIntArgRegs - 1 -> Value], s0 : Value, lr : Value, sp : 0 .. StackTop]
    BY <1>1, <1>6, <1>8 DEF Typed
  <2>2. mem' \in [Words -> Value]
    BY <1>1, <1>2, Values DEF Typed
  <2>3. QED
    BY <2>1, <2>2, <1>1, <1>2, <1>4, <1>5 DEF Typed
<1>10. Stacked'
  <2>1. /\ acts[n + 1].base = acts[n].base - StackSize(acts[n].fn) /\ n + 1 = Len(acts)
        /\ acts[n].fn \in Names
    BY <1>1, <1>3, <1>4, ActivationTyped DEF Stacked, Typed
  <2>2. \A fn : StackSize(fn)' = StackSize(fn)
    BY <1>2, SameProgram
  <2>3. regs'.sp = Top'.base - StackSize(Top'.fn)
    BY <2>1, <1>3, <1>6, <1>7
  <2>4. acts'[1].fn = "main" /\ \A k \in 1 .. n : acts'[k].base % StackAlignment = 0
    BY <1>1, <1>3, <1>4, <1>5 DEF Stacked
  <2>5. ASSUME NEW k \in 1 .. n - 1
        PROVE  /\ acts'[k + 1].base = acts'[k].base - StackSize(acts'[k].fn)
               /\ prog'[acts'[k].fn].calls # {}
    <3>1. k \in 1 .. Len(acts) - 1 /\ k \in 1 .. n /\ k + 1 \in 1 .. n
      BY <1>3, <1>4
    <3>2. QED
      BY <3>1, <1>1, <1>2, <1>5 DEF Stacked
  <2>6. QED
    BY <2>2, <2>3, <2>4, <2>5, <1>2, <1>5 DEF Stacked
<1>11. ASSUME ~damaged
       PROVE  Sane' /\ regs'.lr = Top.lr
  <2>1. /\ Nested /\ Linked /\ RegistersKept /\ Reached
        /\ \A k \in DOMAIN acts : FrameKept(k) /\ ArgumentsKept(k)
    BY <1>1, <1>11 DEF Sane
  <2>2. Fitting(Top.fn)
    BY <2>1, <1>2, <1>3 DEF Reached, Entered
  <2>3. regs'.lr = Top.lr /\ regs'.s0 = Top.s0
    BY <2>1, <2>2, <1>1, <1>2, <1>3, RestoredCaller DEF Typed
  <2>4. Nested'
    <3>1. ASSUME NEW j \in 1 .. n, NEW k \in 1 .. n, j < k
          PROVE  acts'[k].base + NextStackOffset(acts'[k].fn) <= acts'[j].base + Local(acts'[j].fn)
      <4>1. j \in DOMAIN acts /\ k \in DOMAIN acts
        BY <1>3, <1>4
      <4>2. QED
        BY <3>1, <4>1, <2>1, <1>5 DEF Nested
    <3>2. \A f : NextStackOffset(f)' = NextStackOffset(f) /\ Local(f)' = Local(f)
      BY <1>2, SameProgram
    <3>3. DOMAIN acts' = 1 .. n
      BY <1>5
    <3>4. QED
      BY <3>1, <3>2, <3>3 DEF Nested
  <2>5. Linked'
    <3>1. ASSUME NEW k \in 1 .. n - 1
          PROVE  acts'[k + 1].s0 = IF prog'[acts'[k].fn].saves
                                     THEN Own("s0", acts'[k].depth, acts'[k].gen) ELSE acts'[k].s0
      <4>1. k \in 1 .. Len(acts) - 1 /\ k \in 1 .. n /\ k + 1 \in 1 .. n
        BY <1>3, <1>4
      <4>2. QED
        BY <4>1, <2>1, <1>2, <1>5 DEF Linked
    <3>2. prog'[Top'.fn].calls # {}
      BY <1>1, <1>2, <1>4, <1>7 DEF Stacked
    <3>3. QED
      BY <3>1, <3>2, <1>2, <1>5 DEF Linked
  <2>6. RegistersKept'
    <3>1. regs'.s0 = IF prog'[Top'.fn].saves THEN Own("s0", Top'.depth, Top'.gen) ELSE Top'.s0
      <4>1. n + 1 = Len(acts)
        BY <1>3
      <4>2. QED
        BY <4>1, <2>1, <2>3, <1>2, <1>3, <1>4, <1>7 DEF Linked
    <3>2. pc' = "body" /\ regs'.sp = Top'.base - StackSize(Top.fn)'
      BY <1>2, <1>10 DEF Stacked
    <3>3. QED
      BY <3>1, <3>2, <1>2 DEF RegistersKept
  <2>7. ASSUME NEW k \in 1 .. n PROVE FrameKept(k)' /\ ArgumentsKept(k)'
    <3>1. k \in 1 .. Len(acts) - 1 /\ k \in DOMAIN acts
      BY <1>3, <1>4
    <3>2. Entered(k)'
      BY <1>2 DEF Entered
    <3>3. ASSUME NEW x \in Words, high <= x PROVE mem'[x] = mem[x]
      <4>1. x \in Int
        BY DEF Words
      <4>2. Top.base \in Nat /\ NextStackOffset(Top.fn) \in Nat
        BY <3>1, <1>1, <2>1, Waiting
      <4>3. ~(x < Top.base)
        BY <4>1, <4>2, <3>3
      <4>4. QED
        BY <4>3, <1>2, <1>6
    <3>4. acts'[k] = acts[k]
      BY <1>5
    <3>5. QED
      BY <3>1, <3>2, <3>3, <3>4, <2>1, <1>1, <1>2, WaitingKept
  <2>8. Reached'
    <3>1. ASSUME NEW k \in 1 .. n PROVE Fitting(acts'[k].fn)
      <4>1. k \in DOMAIN acts /\ Entered(k)
        BY <1>2, <1>3, <1>4 DEF Entered
      <4>2. QED
        BY <4>1, <2>1, <1>5 DEF Reached
    <3>2. \A f : Fitting(f)' <=> Fitting(f)
      BY <1>2, SameProgram
    <3>3. QED
      BY <3>1, <3>2, <1>5 DEF Reached
  <2>9. QED
    BY <2>3, <2>4, <2>5, <2>6, <2>7, <2>8, <1>5 DEF Sane
<1>12. QED
  BY <1>2, <1>9, <1>10, <1>11 DEF IInv

\* A function that a call or a tail call has just started finds its arguments.
LEMMA PassedFound ==
  ASSUME Typed, NEW g \in Names, NEW d \in Nat, NEW n \in Nat,
         NEW at \in Nat, at % 8 = 0, at + NextStackOffset(g) <= StackTop,
         prog' = prog, pc' = "entry", NEW k \in Nat, Len(acts') = k,
         acts'[k].fn = g, acts'[k].base = at, acts'[k].depth = d, acts'[k].gen = n,
         mem' = Stored(g, at, d, n), regs'.a = PassedRegs(ArgLocs(g), d, n)
  PROVE  ArgumentsKept(k)' /\ FrameKept(k)'
<1> DEFINE locs == ArgLocs(g)
           offset == NextStackOffset(g)
<1>1. prog \in Programs /\ StackTop \in Nat
  BY StackAssumption DEF Typed
<1>2. (~Entered(k))' /\ at % 4 = 0 /\ at \in Nat
  BY DEF Entered
<1> DEFINE m == Stored(g, at, d, n)
<1> HIDE DEF m
<1>3. ArgWords(m, at, g, d, n)
  BY <1>2, MemPassed DEF m
<1>4. \A i \in DOMAIN locs : \A w \in Nat : \A x \in Words :
        4 * w < locs[i].stack /\ x = at + locs[i].addr + 4 * w => m[x] = Arg(d, n, i, w)
  BY <1>3 DEF ArgWords
<1>5. mem' = m
  BY DEF m
<1>6. ASSUME NEW i \in DOMAIN locs
      PROVE  /\ locs[i].stack > 0 => (at + locs[i].addr) % locs[i].align = 0
             /\ \A w \in 0 .. locs[i].stack \div 4 - 1 :
                  mem'[at + locs[i].addr + 4 * w] = Arg(d, n, i, w)
             /\ \A w \in 0 .. locs[i].regs - 1 : regs'.a[locs[i].first + w] = Arg(d, n, i, w)
  <2> DEFINE addr == locs[i].addr
             stack == locs[i].stack
  <2>1. /\ addr \in Nat /\ stack \in Nat /\ stack % 4 = 0 /\ addr % 4 = 0
        /\ locs[i].align \in Alignment /\ addr % locs[i].align = 0
        /\ stack > 0 => addr + stack <= offset
    BY <1>1, ArgumentWhere
  <2>2. (at + addr) % locs[i].align = 0
    <3>1. locs[i].align \in Alignment /\ addr \in Nat /\ addr % locs[i].align = 0
      BY <2>1
    <3> HIDE DEF locs, addr
    <3>2. QED
      BY <3>1, BaseAligned
  <2>3. \A w \in 0 .. locs[i].regs - 1 : regs'.a[locs[i].first + w] = Arg(d, n, i, w)
    BY RegsPassed
  <2>4. ASSUME NEW w \in 0 .. stack \div 4 - 1
        PROVE  mem'[at + addr + 4 * w] = Arg(d, n, i, w)
    <3>1. at + addr + 4 * w \in Words /\ w \in Nat /\ 4 * w < stack
      <4> HIDE DEF addr, stack, offset
      <4>1. w \in Nat /\ 4 * w < stack
        BY <2>1
      <4>2. offset \in Nat
        BY <1>1, ArgumentsPlaced DEF offset
      <4>3. /\ at + addr + 4 * w \in Int /\ 0 <= at + addr + 4 * w
            /\ at + addr + 4 * w < at + offset
        <5>1. /\ addr \in Nat /\ stack \in Nat /\ at \in Nat /\ w \in Nat /\ offset \in Nat
              /\ 4 * w < stack /\ (stack > 0 => addr + stack <= offset)
          BY <4>1, <4>2, <2>1, <1>2
        <5>2. QED
          BY ONLY <5>1
      <4>4. (at + addr + 4 * w) % 4 = 0
        <5>1. addr \in Nat /\ addr % 4 = 0
          BY <2>1
        <5>2. QED
          BY ONLY <4>1, <5>1, <1>2, WordSum
      <4>5. at + addr + 4 * w < StackTop
        BY <4>2, <4>3, <1>1 DEF offset
      <4>6. QED
        BY <4>1, <4>3, <4>4, <4>5, WordAddress
    <3>2. m[at + addr + 4 * w] = Arg(d, n, i, w)
      BY <3>1, <1>4
    <3>3. QED
      BY <3>2, <1>5
  <2>5. QED
    BY <2>2, <2>3, <2>4
<1>7. ArgLocs(g)' = locs
  BY SameProgram
<1>8. ArgumentsKept(k)'
  BY <1>2, <1>6, <1>7 DEF ArgumentsKept
<1>9. FrameKept(k)'
  BY <1>2 DEF FrameKept
<1>10. QED
  BY <1>8, <1>9

\* TailCall.
LEMMA TailCallKeeps ==
  ASSUME IInv, NEW g \in Callee, TailCall(g)
  PROVE  IInv'
<1> DEFINE d == Len(acts)
           n == 1 - Top.gen
           base == Top.base
           offsets == StackOffsets(ArgLocs(g))
           m == PassedMem(ArgLocs(g), [o \in offsets |-> FrameAddress(regs.sp, Top.fn, o)], d, n)
           P == PassedRegs(ArgLocs(g), d, n)
           new == Activation(g, base, d, n, Top.lr, Top.s0)
<1>1. Typed /\ Stacked /\ (~damaged => Sane) /\ g \in Names
  BY DEF IInv, Names
<1>2. /\ d \in DOMAIN acts /\ Top = acts[d] /\ acts \in Seq(ActivationType)
      /\ d \in 1 .. MaxDepth /\ MaxDepth \in Nat /\ DOMAIN acts = 1 .. d
      /\ Top.fn \in Names /\ base \in 0 .. StackTop /\ Top.gen \in 0 .. 1 /\ n \in 0 .. 1
      /\ Top.lr \in Value /\ Top.s0 \in Value /\ prog \in Programs /\ StackTop \in Nat
      /\ regs.sp = base - StackSize(Top.fn) /\ StackSize(Top.fn) \in Nat
      /\ base % 8 = 0
  <2>1. d \in DOMAIN acts /\ Top = acts[d] /\ acts \in Seq(ActivationType)
    BY <1>1, TopActive DEF Typed
  <2>2. d \in 1 .. MaxDepth /\ MaxDepth \in Nat /\ DOMAIN acts = 1 .. d
    BY <1>1, StackAssumption DEF Typed
  <2>3. /\ Top.fn \in Names /\ base \in 0 .. StackTop /\ Top.gen \in 0 .. 1
        /\ Top.lr \in Value /\ Top.s0 \in Value /\ prog \in Programs /\ StackTop \in Nat
    BY <1>1, <2>1, ActivationTyped
  <2>4. regs.sp = base - StackSize(Top.fn) /\ base % 8 = 0
    BY <1>1, <2>1 DEF Stacked, StackAlignment, TailCall
  <2>5. StackSize(Top.fn) \in Nat
    BY <2>3, Layout
  <2>6. n \in 0 .. 1
    BY <2>3
  <2>7. QED
    BY <2>1, <2>2, <2>3, <2>4, <2>5, <2>6
<1>3. base \in Nat /\ d \in Nat /\ n \in Nat /\ base % 4 = 0
  <2>1. base \in Nat /\ d \in Nat /\ n \in Nat
    BY <1>2
  <2>2. base % 8 = 0
    BY <1>2
  <2>3. base % 4 = 0
    BY <2>1, <2>2
  <2>4. QED
    BY <2>1, <2>3
<1>4. ASSUME Addressable(Top.fn, offsets)
      PROVE  m = Stored(g, base, d, n)
  <2>1. ASSUME NEW o \in offsets PROVE FrameAddress(regs.sp, Top.fn, o) = base + o
    <3>1. isInt16(StackSize(Top.fn) + o)
      BY <1>4 DEF Addressable
    <3>2. PICK i \in DOMAIN ArgLocs(g) : \E w \in Nat : o = ArgLocs(g)[i].addr + 4 * w
      BY <2>1, <1>1, <1>2, StackOffsetWhere
    <3>3. o \in Int
      BY <3>2, <1>1, <1>2, ArgumentWhere
    <3>4. regs.sp \in Int /\ regs.sp + StackSize(Top.fn) = base
      BY <1>2
    <3>5. FrameAddress(regs.sp, Top.fn, o) = regs.sp + StackSize(Top.fn) + o
      BY <3>1, <3>3, <3>4, <1>2, AddressReached
    <3>6. QED
      BY <3>4, <3>5
  <2>2. [o \in offsets |-> FrameAddress(regs.sp, Top.fn, o)] = [o \in offsets |-> base + o]
    BY <2>1
  <2>3. QED
    BY <2>2 DEF Stored
<1>5. /\ pc = "body" /\ pc' = "entry" /\ Top.fn # "main" /\ prog' = prog
      /\ damaged' = (damaged \/ ~Addressable(Top.fn, offsets))
      /\ mem' = m /\ regs' = [Restored(m) EXCEPT !.a = P] /\ acts' = [acts EXCEPT ![d] = new]
      /\ NextStackOffset(g) <= NextStackOffset(Top.fn)
  BY <1>2 DEF TailCall, Eligible
<1> HIDE DEF m, P, offsets
<1>6. m \in [Words -> Value] /\ P \in [0 .. NumIntArgRegs - 1 -> Value]
  BY <1>1, <1>3, PassedTyped, RegsPassed DEF m, P
<1>7. /\ regs' = [a |-> P, s0 |-> Restored(m).s0, lr |-> Restored(m).lr, sp |-> base]
      /\ Restored(m).s0 \in Value /\ Restored(m).lr \in Value
  <2>1. /\ Restored(m) = [a |-> regs.a, s0 |-> Restored(m).s0, lr |-> Restored(m).lr, sp |-> base]
        /\ Restored(m).s0 \in Value /\ Restored(m).lr \in Value
    BY <1>1, <1>5, <1>6, RestoredTyped
  <2>2. QED
    BY <2>1, <1>5
<1>8. /\ d # 1 /\ acts'[d] = new /\ \A k \in 1 .. d - 1 : acts'[k] = acts[k]
      /\ Len(acts') = d /\ DOMAIN acts' = 1 .. d /\ Top' = new
  <2>1. d # 1
    BY <1>1, <1>2, <1>5 DEF Stacked
  <2>2. acts'[d] = new /\ (\A k \in 1 .. d - 1 : acts'[k] = acts[k]) /\ Len(acts') = d
    BY <1>2, <1>5
  <2>3. QED
    BY <2>1, <2>2, <1>2, <1>5 DEF Top
<1>9. /\ new.fn = g /\ new.base = base /\ new.depth = d /\ new.gen = n
      /\ new.lr = Top.lr /\ new.s0 = Top.s0 /\ new \in ActivationType
  BY <1>1, <1>2, <1>3 DEF Activation, ActivationType, Names
<1> HIDE DEF new
<1>10. Typed'
  <2>1. regs' \in [a : [0 .. NumIntArgRegs - 1 -> Value], s0 : Value, lr : Value, sp : 0 .. StackTop]
    BY <1>2, <1>6, <1>7
  <2>2. acts' \in Seq(ActivationType)
    BY <1>2, <1>5, <1>9
  <2>3. QED
    BY <2>1, <2>2, <1>1, <1>2, <1>5, <1>6, <1>8 DEF Typed
<1>11. ASSUME NEW k \in 1 .. d PROVE acts'[k].base = acts[k].base
  BY <1>2, <1>8, <1>9
<1>12. Stacked'
  <2>1. \A fn : StackSize(fn)' = StackSize(fn)
    BY <1>5, SameProgram
  <2>2. regs'.sp = Top'.base
    BY <1>7, <1>8, <1>9
  <2>3. acts'[1].fn = "main" /\ \A k \in 1 .. d : acts'[k].base % StackAlignment = 0
    <3>1. 1 \in 1 .. d - 1
      <4>1. 1 <= d
        BY <1>2
      <4>2. QED
        BY <4>1, <1>3, <1>8
    <3>2. acts'[1].fn = "main"
      BY <3>1, <1>1, <1>8 DEF Stacked
    <3>3. \A k \in 1 .. d : acts'[k].base % StackAlignment = 0
      BY <1>1, <1>2, <1>11 DEF Stacked
    <3>4. QED
      BY <3>2, <3>3
  <2>4. ASSUME NEW k \in 1 .. d - 1
        PROVE  /\ acts'[k + 1].base = acts'[k].base - StackSize(acts'[k].fn)
               /\ prog'[acts'[k].fn].calls # {}
    <3>1. k \in 1 .. Len(acts) - 1 /\ k \in 1 .. d /\ k + 1 \in 1 .. d
      BY <1>2
    <3>2. acts'[k + 1].base = acts[k + 1].base /\ acts'[k] = acts[k]
      BY <3>1, <1>8, <1>11
    <3>3. QED
      BY <3>1, <3>2, <1>1, <1>5 DEF Stacked
  <2>5. QED
    BY <2>1, <2>2, <2>3, <2>4, <1>5, <1>8 DEF Stacked
<1>13. ASSUME ~damaged'
       PROVE  Sane'
  <2>1. /\ Nested /\ Linked /\ RegistersKept /\ Reached
        /\ \A k \in DOMAIN acts : FrameKept(k) /\ ArgumentsKept(k)
    BY <1>1, <1>5, <1>13 DEF Sane
  <2>2. Fitting(Top.fn)
    BY <2>1, <1>2, <1>5 DEF Reached, Entered
  <2>3. m = Stored(g, base, d, n)
    BY <1>4, <1>5, <1>13
  <2>4. NextStackOffset(g) \in Nat /\ NextStackOffset(Top.fn) \in Nat
    BY <1>1, <1>2, ArgumentsPlaced
  <2>5. \A x \in Words : x < base \/ base + NextStackOffset(g) <= x => m[x] = mem[x]
    <3>1. Unwritten(m, base, g)
      BY <2>3, <1>1, <1>3, MemPassed
    <3>2. QED
      BY <3>1 DEF Unwritten
  <2>6. Restored(m).lr = Top.lr /\ Restored(m).s0 = Top.s0
    BY <2>1, <2>5, <2>2, <1>1, <1>2, <1>5, <1>6, RestoredCaller
  <2>7. Nested'
    <3>1. ASSUME NEW j \in 1 .. d, NEW k \in 1 .. d, j < k
          PROVE  acts'[k].base + NextStackOffset(acts'[k].fn) <= acts'[j].base + Local(acts'[j].fn)
      <4>1. acts'[j] = acts[j] /\ j \in DOMAIN acts /\ j \in 1 .. Len(acts) - 1
        BY <3>1, <1>2, <1>8
      <4>2. acts[k].base + NextStackOffset(acts[k].fn) <= acts[j].base + Local(acts[j].fn)
        BY <3>1, <4>1, <2>1, <1>2 DEF Nested
      <4>3. CASE k # d
        <5>1. k \in 1 .. d - 1
          BY <4>3, <1>3
        <5>2. acts'[k] = acts[k]
          BY <5>1, <1>8
        <5>3. QED
          BY <5>2, <4>1, <4>2
      <4>4. CASE k = d
        <5>1. Local(acts[j].fn) \in Int /\ acts[j].base \in Nat
          BY <4>1, <2>1, <1>1, Waiting
        <5>2. base + NextStackOffset(Top.fn) <= acts[j].base + Local(acts[j].fn)
          BY <4>2, <4>4, <1>2
        <5>3. base + NextStackOffset(g) <= base + NextStackOffset(Top.fn)
          BY <2>4, <1>3, <1>5
        <5>4. /\ base + NextStackOffset(g) \in Int /\ base + NextStackOffset(Top.fn) \in Int
              /\ acts[j].base + Local(acts[j].fn) \in Int
          <6>1. base + NextStackOffset(g) \in Int
            BY <2>4, <1>3
          <6>2. base + NextStackOffset(Top.fn) \in Int
            BY <2>4, <1>3
          <6>3. acts[j].base + Local(acts[j].fn) \in Int
            BY <5>1
          <6>4. QED
            BY <6>1, <6>2, <6>3
        <5>5. base + NextStackOffset(g) <= acts[j].base + Local(acts[j].fn)
          BY <5>2, <5>3, <5>4, AtMost
        <5>6. QED
          BY <5>5, <4>1, <4>4, <1>8, <1>9
      <4>5. QED
        BY <4>3, <4>4
    <3>2. \A f : NextStackOffset(f)' = NextStackOffset(f) /\ Local(f)' = Local(f)
      BY <1>5, SameProgram
    <3>3. DOMAIN acts' = 1 .. d
      BY <1>8
    <3>4. QED
      BY <3>1, <3>2, <3>3 DEF Nested
  <2>8. Linked'
    <3>1. ASSUME NEW k \in 1 .. d - 1
          PROVE  acts'[k + 1].s0 = IF prog'[acts'[k].fn].saves
                                     THEN Own("s0", acts'[k].depth, acts'[k].gen) ELSE acts'[k].s0
      <4>1. k \in 1 .. Len(acts) - 1 /\ k \in 1 .. d /\ k + 1 \in 1 .. d
        BY <1>2
      <4>2. acts'[k + 1].s0 = acts[k + 1].s0 /\ acts'[k] = acts[k]
        <5>1. acts'[k] = acts[k]
          BY <1>8
        <5>2. CASE k + 1 = d
          BY <5>2, <1>2, <1>8, <1>9
        <5>3. CASE k + 1 # d
          <6>1. k + 1 \in 1 .. d - 1
            BY <4>1, <5>3, <1>3
          <6>2. QED
            BY <5>1, <6>1, <1>8
        <5>4. QED
          BY <5>1, <5>2, <5>3
      <4>3. QED
        BY <4>1, <4>2, <2>1, <1>5 DEF Linked
    <3>2. regs'.lr = Top'.lr
      BY <2>6, <1>7, <1>8, <1>9
    <3>3. QED
      BY <3>1, <3>2, <1>8 DEF Linked
  <2>9. RegistersKept'
    BY <2>6, <1>5, <1>7, <1>8, <1>9 DEF RegistersKept
  <2>10. ASSUME NEW k \in 1 .. d PROVE FrameKept(k)' /\ ArgumentsKept(k)'
    <3>1. CASE k # d
      <4>1. k \in 1 .. Len(acts) - 1 /\ k \in DOMAIN acts
        <5>1. k \in 1 .. d - 1
          BY <3>1, <1>3
        <5>2. QED
          BY <5>1, <1>2
      <4>2. Entered(k)'
        BY <4>1, <1>8 DEF Entered
      <4>3. ASSUME NEW x \in Words, base + NextStackOffset(Top.fn) <= x PROVE mem'[x] = mem[x]
        <5>1. x \in Int
          BY DEF Words
        <5>2. base + NextStackOffset(g) <= x
          BY <4>3, <5>1, <2>4, <1>3, <1>5
        <5>3. QED
          BY <5>2, <2>5, <1>5
      <4>4. acts'[k] = acts[k]
        BY <4>1, <1>8
      <4>5. QED
        BY <4>1, <4>2, <4>3, <4>4, <2>1, <1>1, <1>5, WaitingKept
    <3>2. CASE k = d
      <4>1. base + NextStackOffset(g) <= StackTop
        <5>1. 1 \in 1 .. Len(acts) - 1 /\ 1 \in DOMAIN acts
          BY <1>2, <1>8
        <5>2. /\ Local(acts[1].fn) \in Int /\ Local(acts[1].fn) <= 0
              /\ base + NextStackOffset(Top.fn) <= acts[1].base + Local(acts[1].fn)
          BY <5>1, <2>1, <1>1, Waiting
        <5>3. acts[1].base \in 0 .. StackTop
          BY <5>1, <1>1, ActivationTyped
        <5>4. base + NextStackOffset(g) <= base + NextStackOffset(Top.fn)
          BY <2>4, <1>3, <1>5
        <5>5. acts[1].base + Local(acts[1].fn) <= StackTop /\ StackTop \in Nat
          BY <5>2, <5>3, <1>2
        <5>6. acts[1].base \in Nat /\ Local(acts[1].fn) \in Int
          BY <5>2, <5>3
        <5>7. /\ base + NextStackOffset(g) \in Int /\ base + NextStackOffset(Top.fn) \in Int
              /\ acts[1].base + Local(acts[1].fn) \in Int
          <6>1. base + NextStackOffset(g) \in Int
            BY <2>4, <1>3
          <6>2. base + NextStackOffset(Top.fn) \in Int
            BY <2>4, <1>3
          <6>3. acts[1].base + Local(acts[1].fn) \in Int
            BY <5>6
          <6>4. QED
            BY <6>1, <6>2, <6>3
        <5>8. base + NextStackOffset(g) <= acts[1].base + Local(acts[1].fn)
          BY <5>2, <5>4, <5>7, AtMost
        <5>9. QED
          BY <5>5, <5>7, <5>8, AtMost
      <4>2. /\ acts'[k].fn = g /\ acts'[k].base = base /\ acts'[k].depth = d /\ acts'[k].gen = n
            /\ Len(acts') = k /\ k \in Nat
        BY <3>2, <1>3, <1>8, <1>9
      <4>3. mem' = Stored(g, base, d, n) /\ regs'.a = PassedRegs(ArgLocs(g), d, n)
        BY <2>3, <1>5, <1>7 DEF P
      <4>4. base \in Nat /\ base % 8 = 0 /\ d \in Nat /\ n \in Nat /\ prog' = prog /\ pc' = "entry"
        BY <1>2, <1>3, <1>5
      <4>5. QED
        BY <4>1, <4>2, <4>3, <4>4, <1>1, PassedFound
    <3>3. QED
      BY <3>1, <3>2
  <2>11. Reached'
    <3>1. ASSUME NEW k \in 1 .. d, Entered(k)' PROVE Fitting(acts'[k].fn)
      <4>1. k \in DOMAIN acts /\ Entered(k) /\ k \in 1 .. d - 1
        BY <3>1, <1>2, <1>3, <1>5, <1>8 DEF Entered
      <4>2. QED
        BY <4>1, <2>1, <1>8 DEF Reached
    <3>2. \A f : Fitting(f)' <=> Fitting(f)
      BY <1>5, SameProgram
    <3>3. QED
      BY <3>1, <3>2, <1>8 DEF Reached
  <2>12. QED
    BY <2>7, <2>8, <2>9, <2>10, <2>11, <1>8 DEF Sane
<1>14. QED
  BY <1>5, <1>10, <1>12, <1>13 DEF IInv

\* Call.
LEMMA CallKeeps ==
  ASSUME IInv, NEW g \in Callee, Call(g)
  PROVE  IInv'
<1> DEFINE L == Len(acts)
           d == L + 1
           sp == regs.sp
           m == Stored(g, sp, d, 0)
           P == PassedRegs(ArgLocs(g), d, 0)
           lr == Own("ret", d, 0)
           new == Activation(g, sp, d, 0, lr, regs.s0)
<1>1. Typed /\ Stacked /\ (~damaged => Sane) /\ g \in Names
  BY DEF IInv, Names
<1>2. /\ L \in DOMAIN acts /\ Top = acts[L] /\ acts \in Seq(ActivationType) /\ DOMAIN acts = 1 .. L
      /\ Top.fn \in Names /\ prog \in Programs
  <2>1. L \in DOMAIN acts /\ Top = acts[L]
    BY <1>1, TopActive
  <2>2. acts \in Seq(ActivationType) /\ DOMAIN acts = 1 .. L
    BY <1>1 DEF Typed
  <2>3. QED
    BY <2>1, <2>2, <1>1, ActivationTyped
<1>3. L \in Nat /\ 1 <= L /\ d \in Nat /\ MaxDepth \in Nat /\ StackTop \in Nat
  BY <1>1, StackAssumption DEF Typed
<1>4. Top.base \in 0 .. StackTop /\ Top.base % 8 = 0
  BY <1>1, <1>2, ActivationTyped DEF Stacked, StackAlignment
<1>5. /\ pc = "body" /\ pc' = "entry" /\ prog' = prog
      /\ damaged' = (damaged \/ ~hasReservedCallFrame(Top.fn))
      /\ g \in prog[Top.fn].calls /\ L < MaxDepth
      /\ mem' = m /\ regs' = [regs EXCEPT !.a = P, !.lr = lr] /\ acts' = Append(acts, new)
  BY DEF Call, Stored
<1>6. /\ sp = Top.base - StackSize(Top.fn) /\ sp \in 0 .. StackTop /\ sp \in Nat
      /\ StackSize(Top.fn) \in Nat /\ sp % 8 = 0 /\ sp % 4 = 0
  <2>1. sp = Top.base - StackSize(Top.fn) /\ sp \in 0 .. StackTop
    BY <1>1, <1>5 DEF Stacked, Typed
  <2>2. StackSize(Top.fn) \in Nat /\ StackSize(Top.fn) % 8 = 0
    BY <1>2, Layout
  <2>3. sp \in Nat
    BY <2>1, <1>3
  <2> HIDE DEF sp
  <2>4. sp % 8 = 0
    BY <2>1, <2>2, <2>3, <1>4
  <2>5. QED
    BY <2>1, <2>2, <2>3, <2>4
<1> HIDE DEF m, P, lr
<1>7. m \in [Words -> Value] /\ P \in [0 .. NumIntArgRegs - 1 -> Value]
  BY <1>1, <1>3, <1>6, MemPassed, RegsPassed DEF m, P
<1>8. lr \in Value /\ regs.s0 \in Value
  BY <1>1, <1>3, Values DEF lr, Typed
<1>9. regs' = [a |-> P, s0 |-> regs.s0, lr |-> lr, sp |-> sp]
  BY <1>1, <1>5 DEF Typed
<1>10. /\ acts'[d] = new /\ \A k \in 1 .. L : acts'[k] = acts[k]
       /\ Len(acts') = d /\ DOMAIN acts' = 1 .. d /\ Top' = new
  <2>1. acts'[d] = new /\ (\A k \in 1 .. L : acts'[k] = acts[k]) /\ Len(acts') = d
        /\ DOMAIN acts' = 1 .. d
    BY <1>2, <1>3, <1>5
  <2>2. QED
    BY <2>1 DEF Top
<1>11. /\ new.fn = g /\ new.base = sp /\ new.depth = d /\ new.gen = 0
       /\ new.lr = lr /\ new.s0 = regs.s0 /\ new \in ActivationType
  BY <1>1, <1>3, <1>6, <1>8 DEF Activation, ActivationType, Names
<1> HIDE DEF new
<1>12. Typed'
  <2>1. regs' \in [a : [0 .. NumIntArgRegs - 1 -> Value], s0 : Value, lr : Value, sp : 0 .. StackTop]
    BY <1>6, <1>7, <1>8, <1>9
  <2>2. acts' \in Seq(ActivationType)
    BY <1>2, <1>5, <1>11
  <2>3. d \in 1 .. MaxDepth
    BY <1>3, <1>5
  <2>4. QED
    BY <2>1, <2>2, <2>3, <1>1, <1>5, <1>7, <1>10 DEF Typed
<1>13. Stacked'
  <2>1. \A fn : StackSize(fn)' = StackSize(fn)
    BY <1>5, SameProgram
  <2>2. regs'.sp = Top'.base
    BY <1>9, <1>10, <1>11
  <2>3. ASSUME NEW k \in 1 .. d PROVE acts'[k].base % StackAlignment = 0
    <3>1. CASE k \in 1 .. L
      BY <3>1, <1>1, <1>2, <1>10 DEF Stacked
    <3>2. CASE k = d
      BY <3>2, <1>6, <1>10, <1>11 DEF StackAlignment
    <3>3. QED
      BY <3>1, <3>2, <1>3
  <2>4. acts'[1].fn = "main"
    <3>1. 1 \in 1 .. L
      BY <1>3
    <3>2. QED
      BY <3>1, <1>1, <1>10 DEF Stacked
  <2>5. ASSUME NEW k \in 1 .. d - 1
        PROVE  /\ acts'[k + 1].base = acts'[k].base - StackSize(acts'[k].fn)
               /\ prog'[acts'[k].fn].calls # {}
    <3>1. k \in 1 .. L /\ acts'[k] = acts[k]
      BY <1>3, <1>10
    <3>2. CASE k = L
      BY <3>1, <3>2, <1>2, <1>5, <1>6, <1>10, <1>11
    <3>3. CASE k # L
      <4>1. k \in 1 .. L - 1 /\ k + 1 \in 1 .. L
        BY <3>1, <3>3, <1>3
      <4>2. QED
        BY <3>1, <4>1, <1>1, <1>5, <1>10 DEF Stacked
    <3>4. QED
      BY <3>2, <3>3
  <2>6. QED
    BY <2>1, <2>2, <2>3, <2>4, <2>5, <1>5, <1>10 DEF Stacked
<1>14. ASSUME ~damaged'
       PROVE  Sane'
  <2>1. /\ Nested /\ Linked /\ RegistersKept /\ Reached /\ hasReservedCallFrame(Top.fn)
        /\ \A k \in DOMAIN acts : FrameKept(k) /\ ArgumentsKept(k)
    BY <1>1, <1>5, <1>14 DEF Sane
  <2>2. /\ NextStackOffset(g) \in Nat /\ NextStackOffset(Top.fn) \in Nat
        /\ Local(Top.fn) \in Int /\ Local(Top.fn) <= 0
    BY <1>1, <1>2, ArgumentsPlaced, Layout
  <2>3. sp + NextStackOffset(g) <= Top.base + Local(Top.fn)
    <3>1. NextStackOffset(g) <= StackSize(Top.fn) + Local(Top.fn)
      BY <2>1, <1>2, <1>5, Layout
    <3>2. sp = Top.base - StackSize(Top.fn) /\ Top.base \in Nat /\ StackSize(Top.fn) \in Nat
      BY <1>3, <1>4, <1>6
    <3> HIDE DEF sp
    <3>3. QED
      BY <3>1, <3>2, <2>2
  <2>4. \A x \in Words : x < sp \/ sp + NextStackOffset(g) <= x => m[x] = mem[x]
    <3>1. Unwritten(m, sp, g)
      BY <1>1, <1>3, <1>6, MemPassed DEF m
    <3>2. QED
      BY <3>1 DEF Unwritten
  <2>5. ASSUME NEW x \in Words, Top.base + Local(Top.fn) <= x PROVE mem'[x] = mem[x]
    <3>1. x \in Int
      BY DEF Words
    <3>2. sp + NextStackOffset(g) \in Int
      BY <2>2, <1>6
    <3>3. Top.base + Local(Top.fn) \in Int
      BY <2>2, <1>3, <1>4
    <3>4. sp + NextStackOffset(g) <= x
      BY <3>1, <3>2, <3>3, <2>3, <2>5, AtMost
    <3>5. QED
      BY <3>4, <2>4, <1>5
  <2>6. Nested'
    <3>1. ASSUME NEW j \in 1 .. d, NEW k \in 1 .. d, j < k
          PROVE  acts'[k].base + NextStackOffset(acts'[k].fn) <= acts'[j].base + Local(acts'[j].fn)
      <4>1. j \in 1 .. L /\ acts'[j] = acts[j]
        BY <3>1, <1>3, <1>10
      <4>2. CASE k # d
        <5>1. k \in 1 .. L /\ acts'[k] = acts[k]
          BY <4>2, <1>3, <1>10
        <5>2. QED
          BY <3>1, <4>1, <5>1, <2>1, <1>2 DEF Nested
      <4>3. CASE k = d
        <5>1. sp + NextStackOffset(g) <= acts[j].base + Local(acts[j].fn)
          <6>1. CASE j = L
            BY <6>1, <2>3, <1>2
          <6>2. CASE j # L
            <7>1. j \in 1 .. Len(acts) - 1
              BY <6>2, <4>1, <1>3
            <7>2. /\ Top.base + NextStackOffset(Top.fn) <= acts[j].base + Local(acts[j].fn)
                  /\ acts[j].base \in Nat /\ Local(acts[j].fn) \in Int
              BY <7>1, <2>1, <1>1, Waiting
            <7>3. Top.base + Local(Top.fn) <= Top.base + NextStackOffset(Top.fn)
              BY <2>2, <1>3, <1>4
            <7>4. /\ sp + NextStackOffset(g) \in Int /\ Top.base + Local(Top.fn) \in Int
                  /\ Top.base + NextStackOffset(Top.fn) \in Int
                  /\ acts[j].base + Local(acts[j].fn) \in Int
              <8>1. Top.base + Local(Top.fn) \in Int /\ Top.base + NextStackOffset(Top.fn) \in Int
                BY <2>2, <1>3, <1>4
              <8>2. sp + NextStackOffset(g) \in Int
                BY <2>2, <1>6
              <8>3. acts[j].base + Local(acts[j].fn) \in Int
                BY <7>2
              <8>4. QED
                BY <8>1, <8>2, <8>3
            <7>5. QED
              BY <7>2, <7>3, <7>4, <2>3
          <6>3. QED
            BY <6>1, <6>2
        <5>2. QED
          BY <5>1, <4>1, <4>3, <1>10, <1>11
      <4>4. QED
        BY <4>2, <4>3
    <3>2. \A f : NextStackOffset(f)' = NextStackOffset(f) /\ Local(f)' = Local(f)
      BY <1>5, SameProgram
    <3>3. DOMAIN acts' = 1 .. d
      BY <1>10
    <3>4. QED
      BY <3>1, <3>2, <3>3 DEF Nested
  <2>7. Linked'
    <3>1. ASSUME NEW k \in 1 .. d - 1
          PROVE  acts'[k + 1].s0 = IF prog'[acts'[k].fn].saves
                                     THEN Own("s0", acts'[k].depth, acts'[k].gen) ELSE acts'[k].s0
      <4>1. k \in 1 .. L /\ acts'[k] = acts[k]
        BY <1>3, <1>10
      <4>2. CASE k = L
        BY <4>1, <4>2, <2>1, <1>2, <1>5, <1>10, <1>11 DEF RegistersKept
      <4>3. CASE k # L
        <5>1. k \in 1 .. L - 1 /\ k + 1 \in 1 .. L
          BY <4>1, <4>3, <1>3
        <5>2. QED
          BY <4>1, <5>1, <2>1, <1>5, <1>10 DEF Linked
      <4>4. QED
        BY <4>2, <4>3
    <3>2. regs'.lr = Top'.lr
      BY <1>9, <1>10, <1>11
    <3>3. QED
      BY <3>1, <3>2, <1>10 DEF Linked
  <2>8. RegistersKept'
    BY <1>5, <1>9, <1>10, <1>11 DEF RegistersKept
  <2>9. ASSUME NEW k \in 1 .. d PROVE FrameKept(k)' /\ ArgumentsKept(k)'
    <3>1. CASE k \in 1 .. L - 1
      <4>1. k \in 1 .. Len(acts) - 1 /\ k \in DOMAIN acts /\ acts'[k] = acts[k]
        BY <3>1, <1>2, <1>3, <1>10
      <4>2. Entered(k)'
        BY <4>1, <1>3, <1>10 DEF Entered
      <4>3. ASSUME NEW x \in Words, Top.base + NextStackOffset(Top.fn) <= x PROVE mem'[x] = mem[x]
        <5>1. x \in Int
          BY DEF Words
        <5>2. Top.base + Local(Top.fn) <= x
          BY <4>3, <5>1, <2>2, <1>3, <1>4
        <5>3. QED
          BY <5>2, <2>5
      <4>4. QED
        BY <4>1, <4>2, <4>3, <2>1, <1>1, <1>5, WaitingKept
    <3>2. CASE k = L
      <4>1. k \in DOMAIN acts /\ acts'[k] = acts[k] /\ acts[k] = Top
        BY <3>2, <1>2, <1>10
      <4>2. Entered(k) /\ Entered(k)'
        <5>1. k < d
          BY <3>2, <1>3
        <5>2. QED
          BY <5>1, <1>5, <1>10 DEF Entered
      <4>3. FrameKept(k)'
        BY <4>1, <4>2, <2>1, <2>5, <1>1, <1>5, FrameStays
      <4>4. ASSUME NEW x \in Words, Top.base <= x PROVE mem'[x] = mem[x]
        <5>1. x \in Int
          BY DEF Words
        <5>2. Top.base + Local(Top.fn) <= x
          BY <4>4, <5>1, <2>2, <1>3, <1>4
        <5>3. QED
          BY <5>2, <2>5
      <4>5. ArgumentsKept(k)'
        BY <4>1, <4>2, <4>4, <2>1, <1>1, <1>5, ArgumentsStay
      <4>6. QED
        BY <4>3, <4>5
    <3>3. CASE k = d
      <4>1. sp + NextStackOffset(g) <= StackTop
        <5>1. Top.base + Local(Top.fn) \in Int /\ Top.base + Local(Top.fn) <= StackTop
          BY <2>2, <1>3, <1>4
        <5>2. sp + NextStackOffset(g) \in Int
          BY <2>2, <1>6
        <5>3. QED
          BY <5>1, <5>2, <2>3, <1>3
      <4>2. /\ acts'[k].fn = g /\ acts'[k].base = sp /\ acts'[k].depth = d /\ acts'[k].gen = 0
            /\ Len(acts') = k /\ k \in Nat
        BY <3>3, <1>3, <1>10, <1>11
      <4>3. mem' = Stored(g, sp, d, 0) /\ regs'.a = PassedRegs(ArgLocs(g), d, 0)
        BY <1>5, <1>9 DEF m, P
      <4>4. sp \in Nat /\ sp % 8 = 0 /\ d \in Nat /\ prog' = prog /\ pc' = "entry"
        BY <1>3, <1>5, <1>6
      <4>5. QED
        BY <4>1, <4>2, <4>3, <4>4, <1>1, PassedFound
    <3>4. QED
      BY <3>1, <3>2, <3>3, <1>3
  <2>10. Reached'
    <3>1. ASSUME NEW k \in 1 .. d, Entered(k)' PROVE Fitting(acts'[k].fn)
      <4>1. k \in 1 .. L /\ Entered(k)
        BY <3>1, <1>3, <1>5, <1>10 DEF Entered
      <4>2. QED
        BY <4>1, <2>1, <1>2, <1>10 DEF Reached
    <3>2. \A f : Fitting(f)' <=> Fitting(f)
      BY <1>5, SameProgram
    <3>3. QED
      BY <3>1, <3>2, <1>10 DEF Reached
  <2>11. QED
    BY <2>6, <2>7, <2>8, <2>9, <2>10, <1>10 DEF Sane
<1>15. QED
  BY <1>12, <1>13, <1>14 DEF IInv

\* x is the home of the word w of argument j of the last activation.
Home(j, w, x) ==
  LET l == ArgLocs(Top.fn)[j] IN
  /\ l.kind = "byval" /\ w < l.regs
  /\ x = Top.base + 4 * l.first + 4 * w

\* x is a home of the last activation.
Homes(x) == \E j \in DOMAIN ArgLocs(Top.fn) : \E w \in Nat : Home(j, w, x)

\* A home is within the arguments of its activation.
LEMMA HomeWhere ==
  ASSUME Typed, NEW j \in DOMAIN ArgLocs(Top.fn), NEW w \in Nat, NEW x \in Words, Home(j, w, x)
  PROVE  LET l == ArgLocs(Top.fn)[j] IN
         /\ prog[Top.fn].conv = "O32" /\ l.first \in Nat /\ l.first + w \in 0 .. NumIntArgRegs - 1
         /\ (x - Top.base) \div 4 = l.first + w
         /\ Top.base <= x /\ x < Top.base + NextStackOffset(Top.fn)
         /\ Object(prog[Top.fn].conv, l) = [addr |-> 4 * l.first, size |-> 4 * l.regs]
<1> DEFINE l == ArgLocs(Top.fn)[j]
           base == Top.base
           offset == NextStackOffset(Top.fn)
<1>1. /\ Top.fn \in Names /\ prog \in Programs /\ base \in 0 .. StackTop /\ StackTop \in Nat
  BY TopActive, ActivationTyped
<1>2. /\ l.kind = "byval" /\ w < l.regs /\ x = base + 4 * l.first + 4 * w
  BY DEF Home
<1>3. l.first \in Nat /\ l.regs \in Nat /\ (l.regs > 0 => l.first + l.regs <= 2)
  BY <1>1, ArgumentWhere
<1>4. l.regs > 0 /\ x \in Int /\ offset \in Nat
  <2>1. l.regs > 0
    BY <1>2, <1>3
  <2>2. x \in Int
    BY DEF Words
  <2>3. offset \in Nat
    BY <1>1, ArgumentsPlaced
  <2>4. QED
    BY <2>1, <2>2, <2>3
<1>5. /\ prog[Top.fn].conv = "O32"
      /\ Object(prog[Top.fn].conv, l) = [addr |-> 4 * l.first, size |-> 4 * l.regs]
  BY <1>1, <1>2, <1>4, ArgumentObject
<1>6. 4 * l.regs > 0 => 4 * l.first + 4 * l.regs <= offset
  <2> DEFINE o == Object(prog[Top.fn].conv, l)
  <2>1. o.size > 0 => o.addr + o.size <= offset
    BY <1>1, ArgumentObject
  <2> HIDE DEF o, l, offset
  <2>2. o.addr = 4 * l.first /\ o.size = 4 * l.regs
    BY <1>5 DEF o
  <2>3. QED
    BY <2>1, <2>2
<1> HIDE DEF l, base, offset
<1>7. l.first + w \in 0 .. NumIntArgRegs - 1 /\ x - base = 4 * (l.first + w)
  BY <1>1, <1>2, <1>3, <1>4 DEF NumIntArgRegs
<1>8. (x - base) \div 4 = l.first + w
  BY <1>7, <1>3
<1>9. base <= x /\ x < base + offset
  BY <1>1, <1>2, <1>3, <1>4, <1>6
<1>10. QED
  BY <1>3, <1>5, <1>7, <1>8, <1>9 DEF l, base, offset

\* The registers that structures of fn came in, and the offset of the home of one.
Homed(fn) ==
  UNION {ArgLocs(fn)[i].first .. ArgLocs(fn)[i].first + ArgLocs(fn)[i].regs - 1 :
           i \in {j \in DOMAIN ArgLocs(fn) : ArgLocs(fn)[j].kind = "byval"}}
HomeOffset(fn, k) == reservedArgArea(prog[fn].conv) - (NumIntArgRegs - k) * RegSize

\* The home of a register is its word of the reserved area, and within reach.
LEMMA HomedWhere ==
  ASSUME prog \in Programs, NEW fn \in Names
  PROVE  \A k : k \in Homed(fn) <=>
           \E j \in DOMAIN ArgLocs(fn) : \E w \in Nat :
             /\ ArgLocs(fn)[j].kind = "byval" /\ w < ArgLocs(fn)[j].regs
             /\ k = ArgLocs(fn)[j].first + w
             /\ k \in 0 .. NumIntArgRegs - 1 /\ HomeOffset(fn, k) = 4 * k
             /\ Fitting(fn) => isInt16(StackSize(fn) + 4 * k)
<1> DEFINE locs == ArgLocs(fn)
           first(j) == locs[j].first
           regs2(j) == locs[j].regs
<1>1. ASSUME NEW j \in DOMAIN locs
      PROVE  /\ first(j) \in Nat /\ regs2(j) \in Nat
             /\ regs2(j) > 0 => first(j) + regs2(j) <= 2
  BY ArgumentWhere
<1>2. ASSUME NEW j \in DOMAIN locs, NEW w \in Nat, locs[j].kind = "byval", w < regs2(j)
      PROVE  LET k == first(j) + w IN
             /\ k \in 0 .. NumIntArgRegs - 1 /\ HomeOffset(fn, k) = 4 * k
             /\ Fitting(fn) => isInt16(StackSize(fn) + 4 * k)
  <2> DEFINE k == first(j) + w
             o == Object(prog[fn].conv, locs[j])
  <2>1. first(j) \in Nat /\ regs2(j) \in Nat /\ first(j) + regs2(j) <= 2
    BY <1>1, <1>2
  <2>2. prog[fn].conv = "O32" /\ o = [addr |-> 4 * first(j), size |-> 4 * regs2(j)]
    <3>1. ArgLocs(fn)[j].regs > 0
      BY <1>2, <2>1
    <3>2. ArgLocs(fn)[j].kind = "byval"
      BY <1>2
    <3>3. QED
      BY <3>1, <3>2, ArgumentObject
  <2>3. k \in 0 .. NumIntArgRegs - 1
    BY <1>2, <2>1 DEF NumIntArgRegs
  <2>4. HomeOffset(fn, k) = 4 * k
    BY <2>2, <2>3 DEF HomeOffset, reservedArgArea, NumIntArgRegs, RegSize
  <2>5. ASSUME Fitting(fn) PROVE isInt16(StackSize(fn) + 4 * k)
    <3>1. Objects(fn)[j] = o
      BY DEF Objects
    <3>2. o.addr = 4 * first(j) /\ o.size = 4 * regs2(j)
      BY <2>2
    <3> HIDE DEF o, first, regs2
    <3>3. w \in 0 .. o.size \div 4 - 1 /\ o.addr + 4 * w = 4 * k
      BY <1>2, <2>1, <3>2
    <3>4. o.addr + 4 * w \in FrameOffsets(fn)
      <4> DEFINE size(i) == Objects(fn)[i].size \div 4 - 1
                 words(i) == {Objects(fn)[i].addr + 4 * v : v \in 0 .. size(i)}
      <4>1. o.addr + 4 * w \in words(j)
        BY <3>1, <3>3
      <4>2. UNION {words(i) : i \in DOMAIN ArgLocs(fn)} \subseteq FrameOffsets(fn)
        BY DEF FrameOffsets
      <4> HIDE DEF words
      <4>3. QED
        BY <4>1, <4>2
    <3>5. QED
      BY <3>3, <3>4, <2>5 DEF Fitting, Addressable
  <2>6. QED
    BY <2>3, <2>4, <2>5
<1>3. ASSUME NEW k, k \in Homed(fn)
      PROVE  \E j \in DOMAIN locs : \E w \in Nat :
               locs[j].kind = "byval" /\ w < regs2(j) /\ k = first(j) + w
  <2>1. PICK j \in DOMAIN locs : locs[j].kind = "byval" /\ k \in first(j) .. first(j) + regs2(j) - 1
    BY <1>3 DEF Homed
  <2>2. first(j) \in Nat /\ regs2(j) \in Nat
    BY <1>1
  <2> HIDE DEF first, regs2
  <2>3. k - first(j) \in Nat /\ k - first(j) < regs2(j) /\ k = first(j) + (k - first(j))
    BY <2>1, <2>2
  <2>4. QED
    BY <2>1, <2>3
<1>4. ASSUME NEW k, NEW j \in DOMAIN locs, NEW w \in Nat,
             locs[j].kind = "byval", w < regs2(j), k = first(j) + w
      PROVE  k \in Homed(fn)
  <2>1. first(j) \in Nat /\ regs2(j) \in Nat
    BY <1>1
  <2>2. k \in first(j) .. first(j) + regs2(j) - 1
    <3> HIDE DEF first, regs2
    <3>1. QED
      BY <1>4, <2>1
  <2>3. QED
    BY <1>4, <2>2 DEF Homed
<1>5. QED
  BY <1>2, <1>3, <1>4

\* A prologue leaves the memory one of the stack.
LEMMA EnterTyped ==
  ASSUME Typed, Stacked, Enter
  PROVE  mem' \in [Words -> Value]
<1> DEFINE fn == Top.fn
           csi == determineCalleeSaves(fn)
           at(offset) == FrameAddress(regs.sp - StackSize(fn), fn, offset)
           spilled(x) == CHOOSE i \in DOMAIN csi : x = at(Spill(i))
           home(x) == CHOOSE k \in Homed(fn) : x = at(HomeOffset(fn, k))
<1>1. /\ fn \in Names /\ prog \in Programs /\ Top.depth \in Nat /\ Top.gen \in Nat
      /\ mem \in [Words -> Value]
  BY TopActive, ActivationTyped DEF Typed
<1>2. mem' = [x \in Words |->
                IF \E i \in DOMAIN csi : x = at(Spill(i)) THEN regs[csi[spilled(x)]]
                ELSE IF prog[fn].locals > 0 /\ x = at(Local(fn)) THEN Own("local", Top.depth, Top.gen)
                ELSE IF \E k \in Homed(fn) : x = at(HomeOffset(fn, k)) THEN regs.a[home(x)]
                ELSE mem[x]]
  BY DEF Enter, Typed, Homed, HomeOffset
<1>3. ASSUME NEW x \in Words, \E i \in DOMAIN csi : x = at(Spill(i)) PROVE regs[csi[spilled(x)]] \in Value
  <2>1. spilled(x) \in DOMAIN csi
    BY <1>3
  <2>2. prog[fn].saves \in BOOLEAN
    BY <1>1, ArgumentsPlaced DEF FunctionType
  <2> HIDE DEF spilled, csi
  <2>3. csi[spilled(x)] \in {"lr", "s0"}
    BY <2>1, <2>2, CalleeSaved DEF csi
  <2>4. QED
    BY <2>3 DEF Typed
<1>4. Own("local", Top.depth, Top.gen) \in Value
  BY <1>1, Values
<1>5. ASSUME NEW x \in Words, \E k \in Homed(fn) : x = at(HomeOffset(fn, k)) PROVE regs.a[home(x)] \in Value
  <2>1. home(x) \in Homed(fn)
    BY <1>5
  <2> HIDE DEF home
  <2>2. home(x) \in 0 .. NumIntArgRegs - 1
    BY <2>1, <1>1, HomedWhere
  <2>3. QED
    BY <2>2 DEF Typed
<1> HIDE DEF spilled, home, at, csi
<1>6. QED
  BY <1>1, <1>2, <1>3, <1>4, <1>5

\* The words that a prologue writes.
LEMMA EnterWrites ==
  ASSUME Typed, Stacked, Enter, Fitting(Top.fn)
  PROVE  /\ \A i \in DOMAIN determineCalleeSaves(Top.fn) : \A x \in Words :
              x = Top.base + Spill(i) => mem'[x] = regs[determineCalleeSaves(Top.fn)[i]]
         /\ \A x \in Words :
              prog[Top.fn].locals > 0 /\ x = Top.base + Local(Top.fn) =>
                mem'[x] = Own("local", Top.depth, Top.gen)
         /\ \A j \in DOMAIN ArgLocs(Top.fn) : \A w \in Nat : \A x \in Words :
              Home(j, w, x) => mem'[x] = regs.a[ArgLocs(Top.fn)[j].first + w]
         /\ \A x \in Words : Top.base <= x /\ ~Homes(x) => mem'[x] = mem[x]
<1> DEFINE fn == Top.fn
           base == Top.base
           sp == regs.sp - StackSize(fn)
           csi == determineCalleeSaves(fn)
           locs == ArgLocs(fn)
           at(offset) == FrameAddress(sp, fn, offset)
           SavesAt(x) == \E i \in DOMAIN csi : x = at(Spill(i))
           HomesAt(x) == \E k \in Homed(fn) : x = at(HomeOffset(fn, k))
<1>1. /\ fn \in Names /\ prog \in Programs /\ base \in 0 .. StackTop /\ StackTop \in Nat
  BY TopActive, ActivationTyped
<1>2. StackSize(fn) \in Nat /\ \A i \in DOMAIN csi : Spill(i) \in Int
  BY <1>1, Layout
<1>3. regs.sp = base
  BY DEF Stacked, Enter
<1>4. ASSUME NEW o \in Int, isInt16(StackSize(fn) + o) PROVE at(o) = base + o
  <2>1. sp \in Int /\ sp + StackSize(fn) = base
    BY <1>1, <1>2, <1>3
  <2>2. at(o) = sp + StackSize(fn) + o
    BY <2>1, <1>2, <1>4, AddressReached
  <2>3. QED
    BY <2>1, <2>2
<1>5. Local(fn) \in Int
  BY <1>1, Layout
<1> HIDE DEF at
<1>6. ASSUME NEW k \in Homed(fn)
      PROVE  at(HomeOffset(fn, k)) = base + 4 * k /\ k \in 0 .. NumIntArgRegs - 1
  <2>1. HomeOffset(fn, k) = 4 * k /\ isInt16(StackSize(fn) + 4 * k) /\ k \in 0 .. NumIntArgRegs - 1
    BY <1>1, HomedWhere
  <2>2. 4 * k \in Int
    BY <2>1
  <2>3. QED
    BY <2>1, <2>2, <1>4
<1>7. ASSUME NEW x \in Words PROVE HomesAt(x) <=> Homes(x)
  <2>1. ASSUME HomesAt(x) PROVE Homes(x)
    <3>1. PICK k \in Homed(fn) : x = base + 4 * k
      BY <2>1, <1>6
    <3>2. PICK j \in DOMAIN locs : \E w \in Nat :
            locs[j].kind = "byval" /\ w < locs[j].regs /\ k = locs[j].first + w
      BY <1>1, HomedWhere
    <3>3. PICK w \in Nat : locs[j].kind = "byval" /\ w < locs[j].regs /\ k = locs[j].first + w
      BY <3>2
    <3>4. locs[j].first \in Nat
      BY <1>1, ArgumentWhere
    <3>5. base + 4 * k = base + 4 * locs[j].first + 4 * w
      BY <3>3, <3>4, <1>1
    <3>6. Home(j, w, x)
      BY <3>1, <3>3, <3>5 DEF Home
    <3>7. QED
      BY <3>6 DEF Homes
  <2>2. ASSUME Homes(x) PROVE HomesAt(x)
    <3>1. PICK j \in DOMAIN locs : \E w \in Nat : Home(j, w, x)
      BY <2>2 DEF Homes
    <3>2. PICK w \in Nat : Home(j, w, x)
      BY <3>1
    <3>3. /\ locs[j].kind = "byval" /\ w < locs[j].regs
          /\ x = base + 4 * locs[j].first + 4 * w /\ locs[j].first \in Nat
      BY <3>2, <1>1, ArgumentWhere DEF Home
    <3> DEFINE k == locs[j].first + w
    <3>4. x = base + 4 * k
      BY <3>3, <1>1
    <3>5. Homes(x) /\ locs[j].first + w \in 0 .. NumIntArgRegs - 1
      BY <3>2, <2>2, HomeWhere
    <3>6. k \in Homed(fn)
      <4>1. locs[j].regs \in Nat
        BY <1>1, ArgumentWhere
      <4>2. k \in locs[j].first .. locs[j].first + locs[j].regs - 1
        BY <3>3, <4>1
      <4>3. QED
        BY <3>3, <4>2 DEF Homed
    <3>7. QED
      BY <3>4, <3>6, <1>6
  <2>3. QED
    BY <2>1, <2>2
<1>8. mem' = [x \in Words |->
                IF SavesAt(x)
                  THEN regs[csi[CHOOSE i \in DOMAIN csi : x = at(Spill(i))]]
                ELSE IF prog[fn].locals > 0 /\ x = at(Local(fn))
                  THEN Own("local", Top.depth, Top.gen)
                ELSE IF HomesAt(x)
                  THEN regs.a[CHOOSE k \in Homed(fn) : x = at(HomeOffset(fn, k))]
                ELSE mem[x]]
  BY DEF Enter, Typed, at, Homed, HomeOffset
<1>9. \A i \in DOMAIN csi : at(Spill(i)) = base + Spill(i)
  <2>1. \A i \in DOMAIN csi : isInt16(StackSize(fn) + Spill(i))
    BY DEF Fitting, Addressable, FrameOffsets
  <2>2. QED
    BY <2>1, <1>2, <1>4
<1>10. ASSUME prog[fn].locals > 0 PROVE at(Local(fn)) = base + Local(fn)
  <2>1. prog[fn].locals \in Nat /\ prog[fn].locals % 4 = 0
    BY <1>1, ArgumentsPlaced DEF FunctionType, RegSize
  <2> DEFINE locals == prog[fn].locals
  <2> HIDE DEF locals
  <2>2. 0 \in 0 .. locals \div 4 - 1
    BY <2>1, <1>10 DEF locals
  <2>3. Local(fn) + 4 * 0 \in FrameOffsets(fn)
    BY <2>2 DEF FrameOffsets, locals
  <2>4. Local(fn) + 4 * 0 = Local(fn)
    BY <1>5
  <2>5. isInt16(StackSize(fn) + Local(fn))
    BY <2>3, <2>4 DEF Fitting, Addressable
  <2>6. QED
    BY <2>5, <1>4, <1>5
<1>11. /\ base % 4 = 0 /\ Local(fn) % 4 = 0 /\ (prog[fn].locals > 0 => Local(fn) <= -4)
       /\ DOMAIN csi \subseteq Int
       /\ \A i \in DOMAIN csi : /\ Spill(i) <= -4 /\ csi[i] \in {"lr", "s0"}
                                /\ prog[fn].locals > 0 => Local(fn) < Spill(i)
  <2>1. base % 8 = 0
    BY TopActive DEF Stacked, StackAlignment
  <2>2. prog[fn].saves \in BOOLEAN
    BY <1>1, ArgumentsPlaced DEF FunctionType
  <2>3. DOMAIN csi \subseteq Int /\ \A i \in DOMAIN csi : csi[i] \in {"lr", "s0"}
    BY <2>2, CalleeSaved
  <2>4. base % 4 = 0
    BY <2>1, <1>1
  <2>5. QED
    BY <2>3, <2>4, <1>1, Layout
<1>12. ASSUME NEW x \in Words
       PROVE  mem'[x] =
                IF SavesAt(x)
                  THEN regs[csi[CHOOSE i \in DOMAIN csi : x = at(Spill(i))]]
                ELSE IF prog[fn].locals > 0 /\ x = at(Local(fn))
                  THEN Own("local", Top.depth, Top.gen)
                ELSE IF HomesAt(x)
                  THEN regs.a[CHOOSE k \in Homed(fn) : x = at(HomeOffset(fn, k))]
                ELSE mem[x]
  BY <1>8
<1>13. ASSUME NEW i \in DOMAIN csi, NEW x \in Words, x = base + Spill(i)
       PROVE  mem'[x] = regs[csi[i]] /\ mem'[x] \in Value
  <2>1. x = at(Spill(i)) /\ SavesAt(x)
    BY <1>9, <1>13
  <2>2. ASSUME NEW j \in DOMAIN csi, x = at(Spill(j)) PROVE j = i
    <3>1. base + Spill(j) = base + Spill(i) /\ i \in Int /\ j \in Int
      BY <2>2, <1>9, <1>11, <1>13
    <3>2. QED
      BY <3>1, <1>1 DEF Spill
  <2>3. (CHOOSE j \in DOMAIN csi : x = at(Spill(j))) = i
    BY <2>1, <2>2
  <2>4. mem'[x] = regs[csi[i]]
    BY <2>1, <2>3, <1>12
  <2>5. csi[i] \in {"lr", "s0"} /\ regs.lr \in Value /\ regs.s0 \in Value
    BY <1>11 DEF Typed
  <2>6. QED
    BY <2>4, <2>5
<1>14. ASSUME NEW x \in Words, SavesAt(x)
       PROVE  x < base /\ mem'[x] \in Value /\ ~(prog[fn].locals > 0 /\ x = base + Local(fn))
  <2>1. PICK i \in DOMAIN csi : x = base + Spill(i)
    BY <1>9, <1>14
  <2>2. x < base /\ ~(prog[fn].locals > 0 /\ x = base + Local(fn))
    BY <2>1, <1>1, <1>2, <1>5, <1>11
  <2>3. QED
    BY <2>1, <2>2, <1>13
<1>15. ASSUME NEW x \in Words, prog[fn].locals > 0, x = base + Local(fn)
       PROVE  /\ mem'[x] = Own("local", Top.depth, Top.gen) /\ x < base
              /\ mem'[x] \in Value
  <2>1. x < base
    BY <1>1, <1>5, <1>11, <1>15
  <2>2. mem'[x] = Own("local", Top.depth, Top.gen)
    BY <1>10, <1>12, <1>14, <1>15
  <2>3. Top.depth \in Nat /\ Top.gen \in Nat
    BY TopActive, ActivationTyped
  <2>4. QED
    BY <2>1, <2>2, <2>3, Values
<1>16. ASSUME NEW x \in Words, base <= x
       PROVE  ~SavesAt(x) /\ ~(prog[fn].locals > 0 /\ x = at(Local(fn)))
  <2>1. x \in Int
    BY DEF Words
  <2>2. QED
    BY <2>1, <1>1, <1>10, <1>14, <1>15, <1>16
<1>17. ASSUME NEW j \in DOMAIN locs, NEW w \in Nat, NEW x \in Words, Home(j, w, x)
       PROVE  mem'[x] = regs.a[locs[j].first + w] /\ mem'[x] \in Value
  <2>1. /\ locs[j].first + w \in 0 .. NumIntArgRegs - 1
        /\ (x - base) \div 4 = locs[j].first + w /\ base <= x
    BY <1>17, HomeWhere
  <2>2. Homes(x) /\ HomesAt(x)
    BY <1>7, <1>17 DEF Homes
  <2> DEFINE k == CHOOSE k \in Homed(fn) : x = at(HomeOffset(fn, k))
  <2>3. mem'[x] = regs.a[k]
    BY <2>1, <2>2, <1>12, <1>16
  <2>4. k \in Homed(fn) /\ x = at(HomeOffset(fn, k))
    BY <2>2
  <2> HIDE DEF k
  <2>5. x = base + 4 * k /\ k \in 0 .. NumIntArgRegs - 1
    BY <2>4, <1>6
  <2>6. k = locs[j].first + w
    <3>1. (x - base) \div 4 = k
      BY <2>5, <1>1 DEF NumIntArgRegs
    <3>2. QED
      BY <3>1, <2>1
  <2>7. QED
    BY <2>1, <2>3, <2>6 DEF Typed
<1>18. ASSUME NEW x \in Words, ~SavesAt(x), ~(prog[fn].locals > 0 /\ x = at(Local(fn))), ~Homes(x)
       PROVE  mem'[x] = mem[x] /\ mem'[x] \in Value
  <2>1. mem'[x] = mem[x]
    BY <1>7, <1>12, <1>18
  <2>2. QED
    BY <2>1 DEF Typed
<1>19. ASSUME NEW x \in Words, base <= x, ~Homes(x) PROVE mem'[x] = mem[x]
  BY <1>16, <1>18, <1>19
<1>20. QED
  BY <1>13, <1>15, <1>17, <1>19

\* A function that is entered finds its arguments: those on the stack where
\* they are, and the structures that come in registers in their homes.
LEMMA EnterFound ==
  ASSUME Typed, Stacked, Nested, Enter, Fitting(Top.fn),
         NEW k \in DOMAIN acts, k = Len(acts), ArgumentsKept(k),
         NEW i \in DOMAIN ArgLocs(acts[k].fn)
  PROVE  LET a == acts[k]
             o == Object(prog[a.fn].conv, ArgLocs(a.fn)[i])
         IN  Found(mem', a, i, o.addr, o.size)
<1> DEFINE a == acts[k]
           fn == a.fn
           base == a.base
           locs == ArgLocs(fn)
           l == locs[i]
           conv == prog[fn].conv
           o == Object(conv, l)
           offset == NextStackOffset(fn)
<1>1. Top = a
  BY DEF Top
<1>2. /\ fn \in Names /\ prog \in Programs /\ base \in Nat /\ i \in DOMAIN locs
  BY ActivationTyped
<1>3. base % 4 = 0
  <2>1. base % 8 = 0
    BY DEF Stacked, StackAlignment
  <2>2. QED
    BY <1>2, <2>1
<1>4. k # 1
  <2>1. fn # "main"
    BY <1>2, ArgumentsPlaced
  <2>2. QED
    BY <2>1 DEF Stacked
<1>5. /\ o.addr \in Nat /\ o.size \in Nat /\ o.addr % 4 = 0 /\ o.size % 4 = 0
      /\ o.size > 0 => o.addr + o.size <= offset
      /\ offset \in Nat
  BY <1>2, ObjectWords, ArgumentsPlaced
<1>6. l.first \in Nat /\ l.regs \in Nat /\ l.addr \in Nat /\ l.stack \in Nat
  BY <1>2, ArgumentWhere
<1>7. /\ l.kind = "byval" /\ l.regs > 0 => o = [addr |-> 4 * l.first, size |-> 4 * l.regs]
      /\ ~(l.kind = "byval" /\ l.regs > 0) => o = [addr |-> l.addr, size |-> l.stack]
  BY <1>2, ArgumentObject
<1>8. pc = "entry" /\ ~Entered(k)
  BY ActivationTyped DEF Enter, Entered
<1>9. /\ Found(mem, a, i, l.addr, l.stack)
      /\ \A w \in 0 .. l.regs - 1 : regs.a[l.first + w] = Arg(a.depth, a.gen, i, w)
  BY <1>8 DEF ArgumentsKept, Found
<1> HIDE DEF a, fn, base, locs, l, conv, o, offset
<1>10. ASSUME NEW w \in 0 .. o.size \div 4 - 1
       PROVE  mem'[base + o.addr + 4 * w] = Arg(a.depth, a.gen, i, w)
  <2> DEFINE x == base + o.addr + 4 * w
  <2>1. w \in Nat /\ 4 * w <= o.size - 4
    BY <1>5
  <2>2. x \in Int /\ base <= x /\ x < base + offset
    BY <1>2, <1>5, <2>1, WordWithin
  <2>3. x % 4 = 0
    BY <1>2, <1>3, <1>5, <2>1, WordSum
  <2> HIDE DEF x
  <2>4. x \in Words
    BY <1>4, <2>2, <2>3, InArguments DEF base, offset, fn, a
  <2>5. CASE l.kind = "byval" /\ l.regs > 0
    <3>1. o.addr = 4 * l.first /\ o.size = 4 * l.regs
      BY <1>7, <2>5
    <3>2. w < l.regs /\ w \in 0 .. l.regs - 1
      BY <3>1, <2>1, <1>6
    <3>3. Home(i, w, x)
      <4>1. x = base + 4 * l.first + 4 * w
        BY <3>1 DEF x
      <4>2. QED
        BY <4>1, <3>2, <2>5, <1>1 DEF Home, l, locs, fn, base
    <3>4. mem'[x] = regs.a[l.first + w]
      <4>1. ArgLocs(Top.fn) = locs
        BY <1>1 DEF locs, fn
      <4>2. QED
        BY <4>1, <3>3, <2>1, <2>4, <1>2, EnterWrites DEF l
    <3>5. QED
      BY <3>2, <3>4, <1>9 DEF x
  <2>6. CASE ~(l.kind = "byval" /\ l.regs > 0)
    <3>1. o.addr = l.addr /\ o.size = l.stack
      BY <1>7, <2>6
    <3>2. mem[x] = Arg(a.depth, a.gen, i, w)
      BY <3>1, <1>9 DEF Found, x, base
    <3>3. ~Homes(x)
      <4>1. SUFFICES ASSUME Homes(x) PROVE FALSE
        OBVIOUS
      <4>2. PICK j \in DOMAIN ArgLocs(Top.fn) : \E v \in Nat : Home(j, v, x)
        BY <4>1 DEF Homes
      <4>3. PICK v \in Nat : Home(j, v, x)
        BY <4>2
      <4> DEFINE q == locs[j]
                 p == Object(conv, q)
      <4>4. j \in DOMAIN locs /\ ArgLocs(Top.fn) = locs /\ Top.base = base /\ prog[Top.fn].conv = conv
        BY <1>1 DEF locs, fn, base, conv
      <4>5. q.kind = "byval" /\ v < q.regs /\ x = base + 4 * q.first + 4 * v
        BY <4>3, <4>4 DEF Home
      <4>6. q.first \in Nat /\ q.regs \in Nat
        BY <4>4, <1>2, ArgumentWhere DEF locs
      <4>7. p = [addr |-> 4 * q.first, size |-> 4 * q.regs]
        <5>1. Object(prog[Top.fn].conv, ArgLocs(Top.fn)[j])
                = [addr |-> 4 * ArgLocs(Top.fn)[j].first, size |-> 4 * ArgLocs(Top.fn)[j].regs]
          BY <4>3, <2>4, HomeWhere
        <5>2. QED
          BY <5>1, <4>4
      <4>8. i # j
        <5>1. SUFFICES ASSUME i = j PROVE FALSE
          OBVIOUS
        <5>2. l.kind = "byval" /\ l.regs > 0
          BY <5>1, <4>5, <4>6 DEF l
        <5>3. QED
          BY <5>2, <2>6
      <4>9. p.addr = 4 * q.first /\ p.size = 4 * q.regs /\ p.size > 0 /\ o.size > 0
        <5>1. p.addr = 4 * q.first /\ p.size = 4 * q.regs
          BY <4>7
        <5>2. q.regs > 0
          BY <4>5, <4>6
        <5>3. o.size > 0
          BY <2>1, <1>5
        <5> HIDE DEF p, q
        <5>4. p.size > 0
          BY <5>1, <5>2, <4>6
        <5>5. QED
          BY <5>1, <5>3, <5>4
      <4>10. o.addr + o.size <= p.addr \/ p.addr + p.size <= o.addr
        BY <4>4, <4>8, <4>9, <1>2, ArgumentsApart DEF locs, conv, o, l
      <4> HIDE DEF p, q
      <4>11. x = base + o.addr + 4 * w
        BY DEF x
      <4>12. base + p.addr + 4 * v = base + o.addr + 4 * w
        BY <4>5, <4>9, <4>11
      <4>13. p.addr \in Nat /\ p.size \in Nat /\ 4 * v <= p.size - 4
        <5>1. 4 * v <= 4 * q.regs - 4
          BY <4>5, <4>6
        <5>2. 4 * q.first \in Nat /\ 4 * q.regs \in Nat
          BY <4>6
        <5>3. QED
          BY <5>1, <5>2, <4>9
      <4>14. o.addr \in Nat /\ o.size \in Nat
        BY <1>5
      <4>15. QED
        BY <4>10, <4>12, <4>13, <4>14, <2>1, <1>2, Overlap
    <3>4. QED
      BY <3>2, <3>3, <2>2, <2>4, <1>1, EnterWrites DEF x, base
  <2>7. QED
    BY <2>5, <2>6
<1>11. QED
  BY <1>10 DEF Found, o, l, locs, conv, fn, base, a

\* Enter.
LEMMA EnterKeeps ==
  ASSUME IInv, Enter
  PROVE  IInv'
<1> DEFINE L == Len(acts)
           fn == Top.fn
           base == Top.base
           high == base + NextStackOffset(fn)
           csi == determineCalleeSaves(fn)
           sp == regs.sp - StackSize(fn)
           s0 == IF prog[fn].saves THEN Own("s0", Top.depth, Top.gen) ELSE regs.s0
           none == [j \in DOMAIN regs.a |-> None]
<1>1. Typed /\ Stacked /\ (~damaged => Sane)
  BY DEF IInv
<1>2. /\ L \in DOMAIN acts /\ Top = acts[L] /\ DOMAIN acts = 1 .. L
      /\ fn \in Names /\ prog \in Programs /\ base \in 0 .. StackTop /\ StackTop \in Nat
      /\ Top.depth \in Nat /\ Top.gen \in Nat /\ L \in Nat
  BY <1>1, TopActive, ActivationTyped
<1>3. /\ pc = "entry" /\ pc' = "body" /\ prog' = prog /\ acts' = acts
      /\ damaged' = (damaged \/ ~Fitting(fn))
      /\ StackSize(fn) <= regs.sp
      /\ regs' = [regs EXCEPT !.sp = sp, !.a = none, !.s0 = s0]
  BY DEF Enter, Fitting
<1>4. regs.sp = base
  BY <1>1, <1>3 DEF Stacked
<1>5. StackSize(fn) \in Nat /\ -Local(fn) <= StackSize(fn) /\ Local(fn) \in Int /\ prog[fn].saves \in BOOLEAN
  BY <1>2, Layout, ArgumentsPlaced DEF FunctionType
<1>6. sp \in 0 .. StackTop /\ sp = base - StackSize(fn)
  BY <1>2, <1>3, <1>4, <1>5
<1>7. s0 \in Value /\ none \in [0 .. NumIntArgRegs - 1 -> Value]
  <2>1. regs.s0 \in Value /\ DOMAIN regs.a = 0 .. NumIntArgRegs - 1
    BY <1>1 DEF Typed
  <2>2. Own("s0", Top.depth, Top.gen) \in Value /\ None \in Value
    BY <1>2, Values
  <2>3. QED
    BY <2>1, <2>2
<1> HIDE DEF sp, s0, none
<1>8. regs' = [a |-> none, s0 |-> s0, lr |-> regs.lr, sp |-> sp]
  BY <1>1, <1>3 DEF Typed
<1>9. Top' = Top
  BY <1>3 DEF Top
<1>10. Typed'
  <2>1. mem' \in [Words -> Value]
    BY <1>1, EnterTyped
  <2>2. regs.lr \in Value
    BY <1>1 DEF Typed
  <2>3. regs' \in [a : [0 .. NumIntArgRegs - 1 -> Value], s0 : Value, lr : Value, sp : 0 .. StackTop]
    BY <2>2, <1>6, <1>7, <1>8
  <2>4. QED
    BY <2>1, <2>3, <1>1, <1>3 DEF Typed
<1>11. Stacked'
  <2>1. \A f : StackSize(f)' = StackSize(f)
    BY <1>3, SameProgram
  <2>2. regs'.sp = Top'.base - StackSize(Top'.fn)
    BY <1>6, <1>8, <1>9
  <2>3. QED
    BY <2>1, <2>2, <1>1, <1>3 DEF Stacked
<1>12. ASSUME ~damaged'
       PROVE  Sane'
  <2>1. /\ Nested /\ Linked /\ RegistersKept /\ Reached /\ Fitting(Top.fn)
        /\ \A k \in DOMAIN acts : FrameKept(k) /\ ArgumentsKept(k)
    BY <1>1, <1>3, <1>12 DEF Sane
  <2>2. regs.lr = Top.lr /\ regs.s0 = Top.s0
    BY <2>1, <1>3 DEF Linked, RegistersKept
  <2>3. Nested'
    BY <2>1, <1>3, SameProgram DEF Nested
  <2>4. Linked'
    BY <2>1, <2>2, <1>3, <1>8, <1>9 DEF Linked
  <2>5. RegistersKept'
    <3>1. \A f : StackSize(f)' = StackSize(f)
      BY <1>3, SameProgram
    <3>2. regs'.s0 = IF prog[fn].saves THEN Own("s0", Top.depth, Top.gen) ELSE Top.s0
      BY <2>2, <1>8 DEF s0
    <3>3. QED
      BY <3>1, <3>2, <1>3, <1>6, <1>8, <1>9 DEF RegistersKept
  <2>6. ASSUME NEW k \in 1 .. L PROVE FrameKept(k)' /\ ArgumentsKept(k)'
    <3>1. Entered(k)'
      BY <1>3 DEF Entered
    <3>2. k \in DOMAIN acts /\ acts'[k] = acts[k]
      BY <1>2, <1>3
    <3>3. CASE k # L
      <4>1. k \in 1 .. Len(acts) - 1
        <5>1. L \in Nat
          BY <1>2
        <5>2. QED
          BY <5>1, <3>3
      <4>2. ASSUME NEW x \in Words, high <= x PROVE mem'[x] = mem[x]
        <5>1. x \in Int /\ high \in Int /\ base <= high
          <6>1. x \in Int
            BY <4>2 DEF Words
          <6>2. base \in Nat /\ high = base + NextStackOffset(fn)
            BY <1>2
          <6>3. NextStackOffset(fn) \in Nat
            BY <1>2, ArgumentsPlaced
          <6>4. QED
            BY <6>1, <6>2, <6>3
        <5>2. ~Homes(x)
          <6>1. ASSUME NEW j \in DOMAIN ArgLocs(Top.fn), NEW w \in Nat, Home(j, w, x) PROVE FALSE
            <7>1. x < high
              BY <6>1, <1>1, HomeWhere
            <7>2. QED
              BY <7>1, <5>1, <4>2
          <6>2. QED
            BY <6>1 DEF Homes
        <5>3. base <= x
          BY <5>1, <4>2, <1>2
        <5>4. QED
            BY <5>2, <5>3, <2>1, <1>1, EnterWrites
      <4>3. QED
        BY <4>1, <4>2, <3>1, <3>2, <2>1, <1>1, <1>3, WaitingKept
    <3>4. CASE k = L
      <4>1. acts[k] = Top
        BY <3>4, <1>2
      <4>2. /\ base % 4 = 0 /\ Local(fn) % 4 = 0 /\ (prog[fn].locals > 0 => Local(fn) <= -4)
            /\ \A i \in DOMAIN csi : /\ Spill(i) \in Int /\ Spill(i) % 4 = 0
                                     /\ Local(fn) <= Spill(i) /\ Spill(i) <= -4
        <5>1. base % 8 = 0
          BY <1>1, <1>2 DEF Stacked, StackAlignment
        <5>2. base % 4 = 0
          BY <5>1, <1>2
        <5>3. QED
          BY <5>2, <1>2, Layout
      <4>3. ASSUME NEW o \in Int, o % 4 = 0, Local(fn) <= o, o <= -4
            PROVE  base + o \in Words
        <5>1. base \in Nat /\ base <= StackTop /\ StackSize(fn) <= base
          BY <1>2, <1>3, <1>4
        <5>2. 0 <= base + o /\ base + o < base
          BY <5>1, <4>3, <1>5, FrameWithin
        <5>3. base + o \in Int /\ (base + o) % 4 = 0
          BY <5>1, <4>2, <4>3, WordOffset
        <5>4. base + o < StackTop
          BY <5>1, <5>2, <5>3, <1>2
        <5>5. QED
          BY <5>2, <5>3, <5>4, WordAddress
      <4>4. ASSUME NEW i \in DOMAIN csi
            PROVE  mem'[base + Spill(i)] = [lr |-> Top.lr, s0 |-> Top.s0][csi[i]]
        <5>1. base + Spill(i) \in Words
          BY <4>2, <4>3
        <5>2. mem'[base + Spill(i)] = regs[csi[i]]
          BY <5>1, <2>1, <1>1, EnterWrites
        <5>3. csi[i] \in {"lr", "s0"}
          BY <1>5, CalleeSaved
        <5>4. QED
          BY <5>2, <5>3, <2>2
      <4>5. ASSUME prog[fn].locals > 0
            PROVE  mem'[base + Local(fn)] = Own("local", Top.depth, Top.gen)
        <5>1. base + Local(fn) \in Words
          BY <4>2, <4>3, <4>5, <1>5
        <5>2. QED
          BY <5>1, <4>5, <2>1, <1>1, EnterWrites
      <4>6. FrameKept(k)'
        <5>1. csi' = csi /\ Local(Top.fn)' = Local(fn) /\ acts'[k] = Top /\ acts' = acts
          BY <4>1, <1>3, <1>9, SameProgram
        <5>2. QED
          BY <4>1, <4>4, <4>5, <1>3, SameProgram DEF FrameKept
      <4>7. ArgumentsKept(k)'
        <5> DEFINE a == acts[k]
                   locs == ArgLocs(a.fn)
        <5>1. ASSUME NEW i \in DOMAIN locs
              PROVE  /\ locs[i].stack > 0 => (a.base + locs[i].addr) % locs[i].align = 0
                     /\ Found(mem', a, i, Object(prog[a.fn].conv, locs[i]).addr,
                              Object(prog[a.fn].conv, locs[i]).size)
          <6>1. ArgumentsKept(k)
            BY <2>1, <3>2
          <6>2. locs[i].stack > 0 => (a.base + locs[i].addr) % locs[i].align = 0
            BY <6>1 DEF ArgumentsKept
          <6>3. QED
            BY <6>1, <6>2, <3>2, <3>4, <2>1, <1>1, EnterFound
        <5>2. (ArgLocs(a.fn)' = locs) /\ a' = a /\ (prog[a.fn].conv)' = prog[a.fn].conv
          <6>1. a' = a
            BY <3>2
          <6>2. QED
            BY <6>1, <1>3, SameProgram
        <5>3. QED
          BY <5>1, <5>2, <3>1 DEF ArgumentsKept, Found
      <4>8. QED
        BY <4>6, <4>7
    <3>5. QED
      BY <3>3, <3>4
  <2>7. Reached'
    <3>1. ASSUME NEW k \in 1 .. L PROVE Fitting(acts'[k].fn)
      <4>1. CASE k = L
        BY <4>1, <2>1, <1>2, <1>3
      <4>2. CASE k # L
        <5>1. L \in Nat
          BY <1>2
        <5>2. k < L
          BY <5>1, <4>2
        <5>3. Entered(k) /\ k \in DOMAIN acts
          BY <5>2, <1>2 DEF Entered
        <5>4. QED
          BY <5>3, <2>1, <1>3 DEF Reached
      <4>3. QED
        BY <4>1, <4>2
    <3>2. \A f : Fitting(f)' <=> Fitting(f)
      BY <1>3, SameProgram
    <3>3. QED
      BY <3>1, <3>2, <1>2, <1>3 DEF Reached
  <2>8. QED
    BY <2>3, <2>4, <2>5, <2>6, <2>7, <1>2, <1>3 DEF Sane
<1>13. QED
  BY <1>3, <1>10, <1>11, <1>12 DEF IInv

\* The start.
LEMMA InitKept ==
  ASSUME Init
  PROVE  IInv
<1> DEFINE main == Activation("main", StackTop, 1, 0, Own("ret", 0, 0), Own("s0", 0, 0))
<1>1. /\ prog \in Programs /\ pc = "entry" /\ damaged = FALSE
      /\ regs = [a |-> [k \in 0 .. NumIntArgRegs - 1 |-> None],
                 s0 |-> Own("s0", 0, 0), lr |-> Own("ret", 0, 0), sp |-> StackTop]
      /\ mem = [x \in Words |-> None] /\ acts = <<main>>
  BY DEF Init, Words
<1>2. StackTop \in Nat /\ StackTop % 8 = 0 /\ MaxDepth \in Nat \ {0}
  BY StackAssumption
<1>3. /\ Own("ret", 0, 0) \in Value /\ Own("s0", 0, 0) \in Value /\ None \in Value
  BY Values
<1>4. /\ main.fn = "main" /\ main.base = StackTop /\ main.depth = 1 /\ main.gen = 0
      /\ main.lr = Own("ret", 0, 0) /\ main.s0 = Own("s0", 0, 0) /\ main \in ActivationType
  BY <1>2, <1>3 DEF Activation, ActivationType
<1> HIDE DEF main
<1>5. /\ Len(acts) = 1 /\ DOMAIN acts = 1 .. 1 /\ acts[1] = main /\ Top = main
      /\ acts \in Seq(ActivationType)
  BY <1>1, <1>4 DEF Top
<1>6. Typed
  <2>1. regs \in [a : [0 .. NumIntArgRegs - 1 -> Value], s0 : Value, lr : Value, sp : 0 .. StackTop]
    BY <1>1, <1>2, <1>3
  <2>2. mem \in [Words -> Value]
    BY <1>1, <1>3
  <2>3. Len(acts) \in 1 .. MaxDepth
    BY <1>2, <1>5
  <2>4. damaged \in BOOLEAN /\ pc \in {"entry", "body"}
    BY <1>1
  <2>5. QED
    BY <2>1, <2>2, <2>3, <2>4, <1>1, <1>5 DEF Typed
<1>7. Stacked
  BY <1>1, <1>2, <1>4, <1>5 DEF Stacked, StackAlignment
<1>8. Nested /\ Linked /\ RegistersKept
  BY <1>1, <1>4, <1>5 DEF Nested, Linked, RegistersKept
<1>9. ~Entered(1)
  BY <1>1, <1>5 DEF Entered
<1>10. FrameKept(1)
  BY <1>9 DEF FrameKept
<1>11. ArgumentsKept(1)
  <2>1. ArgLocs(main.fn) = <<>>
    BY <1>1, <1>4, ArgumentsPlaced DEF Names
  <2>2. QED
    BY <2>1, <1>5 DEF ArgumentsKept
<1>12. Reached
  BY <1>5, <1>9 DEF Reached
<1>13. QED
  BY <1>5, <1>6, <1>7, <1>8, <1>10, <1>11, <1>12 DEF IInv, Sane

-----------------------------------------------------------------------------
(* Theorems. *)

\* What every step keeps.
LEMMA StepKept ==
  ASSUME IInv, [Next]_vars
  PROVE  IInv'
<1>1. CASE Enter
  BY <1>1, EnterKeeps
<1>2. CASE Return
  BY <1>2, ReturnKeeps
<1>3. CASE \E g \in Callee : Call(g) \/ TailCall(g)
  BY <1>3, CallKeeps, TailCallKeeps
<1>4. CASE UNCHANGED vars
  <2>1. /\ prog' = prog /\ pc' = pc /\ regs' = regs /\ mem' = mem /\ acts' = acts
        /\ damaged' = damaged /\ Top' = Top
    BY <1>4 DEF vars, Top
  <2>2. Typed /\ Stacked /\ (~damaged => Sane)
    BY DEF IInv
  <2>3. Typed'
    BY <2>1, <2>2 DEF Typed
  <2>4. Stacked'
    BY <2>1, <2>2, SameProgram DEF Stacked
  <2>5. ASSUME ~damaged PROVE Sane'
    <3>1. /\ Nested /\ Linked /\ RegistersKept /\ Reached
          /\ \A k \in DOMAIN acts : FrameKept(k) /\ ArgumentsKept(k)
      BY <2>2, <2>5 DEF Sane
    <3>2. Nested'
      BY <3>1, <2>1, SameProgram DEF Nested
    <3>3. Linked'
      BY <3>1, <2>1 DEF Linked
    <3>4. RegistersKept'
      BY <3>1, <2>1, SameProgram DEF RegistersKept
    <3>5. ASSUME NEW k \in DOMAIN acts PROVE FrameKept(k)' /\ ArgumentsKept(k)'
      <4> DEFINE a == acts[k]
      <4>1. a' = a /\ (Entered(k)' <=> Entered(k))
        BY <2>1 DEF Entered
      <4>2. /\ (ArgLocs(a.fn)' = ArgLocs(a.fn)) /\ (Local(a.fn)' = Local(a.fn))
            /\ (determineCalleeSaves(a.fn)' = determineCalleeSaves(a.fn))
        BY <4>1, <2>1, SameProgram
      <4>3. FrameKept(k)'
        BY <4>1, <4>2, <3>1, <2>1 DEF FrameKept
      <4>4. ArgumentsKept(k)'
        BY <4>1, <4>2, <3>1, <2>1 DEF ArgumentsKept
      <4>5. QED
        BY <4>3, <4>4
    <3>6. Reached'
      <4>1. \A f : Fitting(f)' <=> Fitting(f)
        BY <2>1, SameProgram
      <4>2. QED
        BY <4>1, <3>1, <2>1 DEF Reached, Entered
    <3>7. QED
      BY <3>2, <3>3, <3>4, <3>5, <3>6, <2>1 DEF Sane
  <2>6. QED
    BY <2>1, <2>3, <2>4, <2>5 DEF IInv
<1>5. QED
  BY <1>1, <1>2, <1>3, <1>4 DEF Next

\* Every reachable state has the invariant: types and the stacking of frames
\* always, the rest (Sane) as long as calls have a reserved call frame and frames
\* are within reach of their instructions.
THEOREM FramesInvariant == Spec => []IInv
BY InitKept, StepKept, PTL DEF Spec

\* The stack pointer stays in the stack and aligned, and there are as many
\* activations as there may be.
THEOREM FrameTypes == Spec => []TypeOK
<1>1. ASSUME IInv PROVE TypeOK
  <2>1. Typed /\ Stacked
    BY <1>1 DEF IInv
  <2>2. regs.sp % 8 = 0
    <3>1. /\ Len(acts) \in DOMAIN acts /\ Top = acts[Len(acts)]
          /\ Top.fn \in Names /\ prog \in Programs /\ Top.base \in Nat
      BY <2>1, TopActive, ActivationTyped
    <3>2. Top.base % 8 = 0
      BY <2>1, <3>1 DEF Stacked, StackAlignment
    <3>3. StackSize(Top.fn) \in Nat /\ StackSize(Top.fn) % 8 = 0
      BY <3>1, Layout
    <3>4. regs.sp = Top.base \/ regs.sp = Top.base - StackSize(Top.fn)
      BY <2>1 DEF Stacked
    <3>5. regs.sp \in Nat
      BY <2>1, StackAssumption DEF Typed
    <3>6. QED
      BY <3>1, <3>2, <3>3, <3>4, <3>5
  <2>3. QED
    BY <2>1, <2>2 DEF Typed, TypeOK, StackAlignment
<1>2. QED
  BY <1>1, FramesInvariant, PTL

\* Locals and saved registers survive what their function calls: prologues,
\* spills, stores of arguments, tail calls and structures saved to their homes
\* write only to their own frame or to the call frame reserved for them.  This is
\* so until a call is made without a reserved call frame, or a function entered
\* or tail called with an offset that does not fit its field: then `damaged' is
\* set, and FramesKept promises nothing.
THEOREM FramesHold == Spec => []FramesKept
<1>1. ASSUME IInv PROVE FramesKept
  BY <1>1 DEF IInv, Sane, FramesKept
<1>2. QED
  BY <1>1, FramesInvariant, PTL

\* Every function finds its arguments where Cpu0CC put them, and keeps those on
\* the stack as long as it is active, in the domain of FramesHold: the offsets of
\* incoming arguments and of homes fit their field.
THEOREM ArgumentsArrive == Spec => []ArgsArrive
<1>1. ASSUME IInv PROVE ArgsArrive
  BY <1>1 DEF IInv, Sane, ArgsArrive
<1>2. QED
  BY <1>1, FramesInvariant, PTL

\* Only a return ends an activation, and it finds in $lr the call that waits
\* for it, also after any number of tail calls in its place, in the domain of
\* FramesHold: the offset of the saved $lr fits its field.
THEOREM ReturnsToCaller == Spec => ReturnsHome
<1>1. ASSUME IInv, [Next]_vars
      PROVE  [Len(acts') < Len(acts) => damaged \/ regs'.lr = Top.lr]_vars
  <2>1. Len(acts) \in Nat /\ acts \in Seq(ActivationType)
    BY <1>1 DEF IInv, Typed
  <2>2. CASE Enter
    BY <2>1, <2>2 DEF Enter
  <2>3. CASE Return
    BY <1>1, <2>3, ReturnKeeps
  <2>4. ASSUME NEW g \in Callee, Call(g) PROVE ~(Len(acts') < Len(acts))
    <3>1. \E x : acts' = Append(acts, x)
      BY <2>4 DEF Call
    <3>2. Len(acts') = Len(acts) + 1
      BY <3>1, <2>1
    <3>3. QED
      BY <3>2, <2>1
  <2>5. ASSUME NEW g \in Callee, TailCall(g) PROVE ~(Len(acts') < Len(acts))
    <3>1. \E x : acts' = [acts EXCEPT ![Len(acts)] = x]
      BY <2>5 DEF TailCall
    <3>2. Len(acts') = Len(acts)
      BY <3>1, <2>1
    <3>3. QED
      BY <3>2, <2>1
  <2>6. QED
    BY <1>1, <2>2, <2>3, <2>4, <2>5 DEF Next
<1>2. QED
  BY <1>1, FramesInvariant, PTL DEF Spec, ReturnsHome

===============================================================================
