------------------------------ MODULE Cpu0CCProofs ------------------------------
(***************************************************************************)
(* What an assignment of Cpu0CC does, for every state it starts from: it   *)
(* only grows what is taken, registers from st.used on and stack from      *)
(* st.offset on (Grows), which keeps what was assigned before apart from   *)
(* it (Sound).  PlacementPlacing carries this over whole argument lists,   *)
(* of any length, by induction.                                            *)
(***************************************************************************)
EXTENDS Cpu0CC, WellFoundedInduction, TLAPS

\* The order of the natural numbers, as a relation.
Smaller == {p \in Nat \X Nat : p[1] < p[2]}

\* The order of the natural numbers is well founded.
LEMMA SmallerWellFounded == IsWellFoundedOn(Smaller, Nat)
<1>1. OpToRel(<, Nat) = Smaller
  BY DEF OpToRel, Smaller
<1>2. QED
  BY <1>1, NatLessThanWellFounded

\* A set with 0 and every successor of a member has all natural numbers.
LEMMA SetInduction ==
  ASSUME NEW T, 0 \in T, \A n \in Nat : n \in T => n + 1 \in T
  PROVE  \A n \in Nat : n \in T
<1> DEFINE Left == {n \in Nat : n \notin T}
<1>1. SUFFICES ASSUME Left # {} PROVE FALSE
  OBVIOUS
<1>2. PICK x \in Left : \A y \in Left : <<y, x>> \notin Smaller
  <2>1. Left \subseteq Nat
    OBVIOUS
  <2> HIDE DEF Left
  <2>2. QED
    BY <1>1, <2>1, SmallerWellFounded, WFMin
<1>3. x \in Nat /\ x # 0 /\ x - 1 \in Nat /\ x - 1 + 1 = x
  OBVIOUS
<1>4. x - 1 \in Left
  BY <1>3
<1>5. <<x - 1, x>> \in Smaller
  BY <1>3 DEF Smaller
<1>6. QED
  BY <1>2, <1>4, <1>5

Alignment == {1, 2, 4, 8}
State ==
  [conv : Convention, used : 0 .. NumIntArgRegs, offset : Nat, locs : Seq(LocType),
   overrun : BOOLEAN]

\* l is what the assignment from st to t added.
Grows(st, t, l) ==
  /\ t \in State /\ l \in LocType
  /\ t.conv = st.conv /\ t.locs = Append(st.locs, l)
  /\ st.used <= t.used /\ st.offset <= t.offset
  /\ t.conv = "S32" => t.used = 0
  /\ ~t.overrun =>
       /\ l.regs > 0 => st.used <= l.first /\ l.first + l.regs <= t.used
       /\ l.stack > 0 => st.offset <= l.addr /\ l.addr + l.stack <= t.offset
       /\ l.kind = "byval" /\ l.regs > 0 => st.conv = "O32"

\* One argument within what is taken.
Within(st, l) ==
  /\ l.regs > 0 => l.first + l.regs <= st.used
  /\ l.stack > 0 => reservedArgArea(st.conv) <= l.addr /\ l.addr + l.stack <= st.offset
  /\ l.kind = "byval" /\ l.regs > 0 => st.conv = "O32"

\* Two arguments apart.
Apart(conv, a, b) ==
  /\ a.regs > 0 /\ b.regs > 0 => a.first + a.regs <= b.first \/ b.first + b.regs <= a.first
  /\ Object(conv, a).size > 0 /\ Object(conv, b).size > 0 =>
       \/ Object(conv, a).addr + Object(conv, a).size <= Object(conv, b).addr
       \/ Object(conv, b).addr + Object(conv, b).size <= Object(conv, a).addr

Sound(st) ==
  /\ st \in State
  /\ reservedArgArea(st.conv) <= st.offset
  /\ st.conv = "S32" => st.used = 0
  /\ ~st.overrun => \A i \in DOMAIN st.locs : Within(st, st.locs[i])
  /\ ~st.overrun => \A i, j \in DOMAIN st.locs : i < j => Apart(st.conv, st.locs[i], st.locs[j])

-----------------------------------------------------------------------------
(* Operators. *)

\* Rounding up.
LEMMA AlignTo ==
  ASSUME NEW x \in Nat, NEW a \in Alignment
  PROVE  alignTo(x, a) \in Nat /\ x <= alignTo(x, a) /\ alignTo(x, a) % a = 0
<1>1. CASE a = 1
  BY <1>1 DEF alignTo
<1>2. CASE a = 2
  BY <1>2 DEF alignTo
<1>3. CASE a = 4
  BY <1>3 DEF alignTo
<1>4. CASE a = 8
  BY <1>4 DEF alignTo
<1>5. QED
  BY <1>1, <1>2, <1>3, <1>4 DEF Alignment

\* The numbers of an argument.
LEMMA LocFields ==
  ASSUME NEW l \in LocType
  PROVE  l.first \in Nat /\ l.regs \in Nat /\ l.addr \in Nat /\ l.stack \in Nat
BY DEF LocType, NumIntArgRegs

\* A scalar takes the next register or the next word.
LEMMA ScalarGrows ==
  ASSUME NEW st \in State, st.conv = "S32" => st.used = 0,
         NEW kind \in {"i32", "half1", "half2"}, NEW align \in Alignment
  PROVE  /\ \E l \in LocType : l.kind = kind /\ Grows(st, AssignScalar(st, kind, align), l)
         /\ AssignScalar(st, kind, align).overrun = st.overrun
<1> DEFINE addr == alignTo(st.offset, align)
           t == AssignScalar(st, kind, align)
<1>0. /\ st.offset \in Nat /\ st.used \in 0 .. 2 /\ st.locs \in Seq(LocType)
      /\ st.conv \in Convention /\ st.overrun \in BOOLEAN
  BY DEF State, NumIntArgRegs
<1>1. addr \in Nat /\ st.offset <= addr
  BY <1>0, AlignTo
<1>2. CASE st.conv # "S32" /\ st.used < NumIntArgRegs /\ ~Skips(st, align)
  <2> DEFINE l == Loc(kind, align, st.used, 1, 0, 0)
  <2>1. l \in LocType /\ l.kind = kind
    BY <1>0 DEF Loc, LocType, Alignment, NumIntArgRegs
  <2>2. t = [conv |-> st.conv, used |-> st.used + 1, offset |-> st.offset,
             locs |-> Append(st.locs, l), overrun |-> st.overrun]
    BY <1>2 DEF AssignScalar, Assigned
  <2>3. t \in State
    BY <2>1, <2>2, <1>0, <1>2 DEF State, NumIntArgRegs
  <2>4. Grows(st, t, l)
    BY <2>1, <2>2, <2>3, <1>0, <1>2 DEF Grows, Loc, NumIntArgRegs
  <2>5. QED
    BY <2>1, <2>2, <2>4
<1>3. CASE ~(st.conv # "S32" /\ st.used < NumIntArgRegs /\ ~Skips(st, align))
  <2> DEFINE l == Loc(kind, align, 0, 0, addr, RegSize)
             u == IF Skips(st, align) THEN NumIntArgRegs ELSE st.used
  <2>1. l \in LocType /\ l.kind = kind
    BY <1>1 DEF Loc, LocType, Alignment, NumIntArgRegs, RegSize
  <2>2. t = [conv |-> st.conv, used |-> u, offset |-> addr + RegSize,
             locs |-> Append(st.locs, l), overrun |-> st.overrun]
    BY <1>3 DEF AssignScalar, Assigned
  <2>3. u \in 0 .. NumIntArgRegs /\ st.used <= u /\ (st.conv = "S32" => u = 0)
    BY <1>0 DEF NumIntArgRegs, Skips
  <2>4. t \in State
    BY <2>1, <2>2, <2>3, <1>0, <1>1 DEF State, NumIntArgRegs, RegSize
  <2>5. Grows(st, t, l)
    BY <2>1, <2>2, <2>3, <2>4, <1>0, <1>1 DEF Grows, Loc, NumIntArgRegs, RegSize
  <2>6. QED
    BY <2>1, <2>2, <2>5
<1>4. QED
  BY <1>2, <1>3

\* A structure takes the registers from FirstIdx on, and its stack is whole.
LEMMA ByValGrows ==
  ASSUME NEW st \in State, st.conv = "S32" => st.used = 0,
         NEW size \in Nat, NEW align \in Alignment
  PROVE  /\ \E l \in LocType : l.kind = "byval" /\ Grows(st, AssignByVal(st, size, align), l)
         /\ ~AssignByVal(st, size, align).overrun => ~st.overrun
<1> DEFINE regs == NumRegs(st, size, align)
           first == FirstIdx(st, align)
           a == ByValAlign(align)
           addr == alignTo(st.offset, a)
           stack == ByValStack(st, size, align)
           used == ByValUsed(st, size, align)
           over == st.overrun \/ (regs > 0 /\ first + regs > NumIntArgRegs)
           l == Loc("byval", a, first, regs, addr, stack)
           t == AssignByVal(st, size, align)
<1>0. /\ st.offset \in Nat /\ st.used \in 0 .. 2 /\ st.locs \in Seq(LocType)
      /\ st.conv \in Convention /\ st.overrun \in BOOLEAN
  BY DEF State, NumIntArgRegs
<1>1. a \in Alignment
  BY DEF ByValAlign, Min, Max, RegSize, Alignment
<1>2. addr \in Nat /\ st.offset <= addr
  BY <1>0, <1>1, AlignTo
<1>3. first \in 0 .. 2 /\ st.used <= first /\ (first > 0 => st.used > 0)
  BY <1>0 DEF FirstIdx
<1>4. /\ alignTo(size, 4) \in Nat /\ alignTo(size, 4) \div 4 \in Nat
      /\ alignTo(size, 4) - 4 * (alignTo(size, 4) \div 4) = 0
  <2>1. 4 \in Alignment
    BY DEF Alignment
  <2>2. alignTo(size, 4) \in Nat /\ alignTo(size, 4) % 4 = 0
    BY <2>1, AlignTo
  <2>3. QED
    BY <2>2
<1>5. regs \in Nat /\ (regs > 0 => first > 0 /\ st.conv = "O32") /\ stack \in Nat
  <2>1. CASE st.conv = "Fast" \/ first = 0
    <3>1. regs = 0
      BY <2>1 DEF NumRegs
    <3>2. stack = alignTo(size, 4)
      BY <3>1, <1>4 DEF ByValStack, RegSize
    <3>3. QED
      BY <3>1, <3>2, <1>4
  <2>2. CASE ~(st.conv = "Fast" \/ first = 0)
    <3>1. regs = alignTo(size, 4) \div 4
      BY <2>2 DEF NumRegs, RegSize
    <3>2. stack = 0
      BY <3>1, <1>4 DEF ByValStack, RegSize
    <3>3. first > 0 /\ st.conv = "O32"
      BY <2>2, <1>0, <1>3 DEF Convention
    <3>4. QED
      BY <3>1, <3>2, <3>3, <1>4
  <2>3. QED
    BY <2>1, <2>2
<1>6. used \in 0 .. 2 /\ st.used <= used /\ (regs > 0 => used = 2) /\ (st.conv = "S32" => used = 0)
  BY <1>0, <1>5 DEF ByValUsed, NumIntArgRegs
<1>7. l \in LocType /\ l.kind = "byval"
  BY <1>1, <1>2, <1>3, <1>5 DEF Loc, LocType, Alignment, NumIntArgRegs
<1>8. t = [conv |-> st.conv, used |-> used, offset |-> addr + stack,
           locs |-> Append(st.locs, l), overrun |-> over]
  BY DEF AssignByVal, Assigned
<1>9. t \in State
  BY <1>0, <1>2, <1>5, <1>6, <1>7, <1>8 DEF State, NumIntArgRegs
<1>10. Grows(st, t, l)
  <2>1. /\ l.first = first /\ l.regs = regs /\ l.addr = addr /\ l.stack = stack
    BY DEF Loc
  <2>2. /\ t.conv = st.conv /\ t.used = used /\ t.offset = addr + stack
        /\ t.locs = Append(st.locs, l) /\ t.overrun = over
    BY <1>8
  <2>3. st.offset <= t.offset
    BY <2>2, <1>0, <1>2, <1>5
  <2>4. ASSUME ~t.overrun, regs > 0 PROVE first + regs <= used
    <3>1. ~over
      BY <2>4, <2>2
    <3>2. ~(first + regs > 2) /\ used = 2
      BY <3>1, <2>4, <1>6 DEF NumIntArgRegs
    <3> HIDE DEF first, regs, used
    <3>3. QED
      BY <3>2, <1>3, <1>5
  <2>5. QED
    BY <2>1, <2>2, <2>3, <2>4, <1>2, <1>3, <1>5, <1>6, <1>7, <1>9 DEF Grows
<1>11. ~t.overrun => ~st.overrun
  <2>1. t.overrun = over
    BY DEF AssignByVal, Assigned
  <2>2. QED
    BY <2>1
<1>12. QED
  BY <1>7, <1>10, <1>11

\* An argument stays within what is taken.
LEMMA WithinLater ==
  ASSUME NEW st, NEW t, NEW a \in LocType, Within(st, a),
         st.used \in Nat, t.used \in Nat, st.used <= t.used,
         st.offset \in Nat, t.offset \in Nat, st.offset <= t.offset, t.conv = st.conv
  PROVE  Within(t, a)
<1>1. a.first \in Nat /\ a.regs \in Nat /\ a.addr \in Nat /\ a.stack \in Nat
  BY LocFields
<1>2. a.regs > 0 => a.first + a.regs <= t.used
  BY <1>1 DEF Within
<1>3. a.stack > 0 => a.addr + a.stack <= t.offset
  BY <1>1 DEF Within
<1>4. QED
  BY <1>2, <1>3 DEF Within

\* The object of a structure that came in registers is their homes, which are
\* within the reserved area; every other object is what is on the stack.
LEMMA ObjectWhere ==
  ASSUME NEW conv, NEW l \in LocType
  PROVE  /\ l.kind = "byval" /\ l.regs > 0 /\ conv = "O32" =>
              Object(conv, l) = [addr |-> 4 * l.first, size |-> 4 * l.regs]
         /\ ~(l.kind = "byval" /\ l.regs > 0) =>
              Object(conv, l) = [addr |-> l.addr, size |-> l.stack]
<1>1. l.first \in Nat /\ l.regs \in Nat
  BY LocFields
<1>2. ASSUME conv = "O32"
      PROVE  reservedArgArea(conv) - (NumIntArgRegs - l.first) * RegSize = 4 * l.first
  BY <1>1, <1>2 DEF reservedArgArea, NumIntArgRegs, RegSize
<1>3. l.regs * RegSize = 4 * l.regs
  BY <1>1 DEF RegSize
<1>4. QED
  BY <1>2, <1>3 DEF Object

\* Arithmetic of the three ways in which two objects are apart.
LEMMA Ranges ==
  ASSUME NEW af \in Nat, NEW ar \in Nat, NEW lf \in Nat, NEW lr \in Nat,
         NEW aa \in Nat, NEW sz \in Nat, NEW la \in Nat, NEW offset \in Nat
  PROVE  /\ af + ar <= lf => 4 * af + 4 * ar <= 4 * lf
         /\ af + ar <= 2 /\ 8 <= la => 4 * af + 4 * ar <= la
         /\ lf + lr <= 2 /\ 8 <= aa => 4 * lf + 4 * lr <= aa
         /\ aa + sz <= offset /\ offset <= la => aa + sz <= la
<1>1. af + ar <= lf => 4 * af + 4 * ar <= 4 * lf
  OBVIOUS
<1>2. af + ar <= 2 /\ 8 <= la => 4 * af + 4 * ar <= la
  OBVIOUS
<1>3. lf + lr <= 2 /\ 8 <= aa => 4 * lf + 4 * lr <= aa
  OBVIOUS
<1>4. aa + sz <= offset /\ offset <= la => aa + sz <= la
  OBVIOUS
<1>5. QED
  BY <1>1, <1>2, <1>3, <1>4

\* A later argument, beyond what is taken, is apart from an earlier one.
LEMMA ApartLater ==
  ASSUME NEW conv, NEW used \in 0 .. 2, NEW offset \in Nat,
         NEW a \in LocType, NEW l \in LocType,
         a.regs > 0 => a.first + a.regs <= used,
         a.stack > 0 => reservedArgArea(conv) <= a.addr /\ a.addr + a.stack <= offset,
         a.kind = "byval" /\ a.regs > 0 => conv = "O32",
         reservedArgArea(conv) <= offset,
         l.regs > 0 => used <= l.first /\ l.first + l.regs <= 2,
         l.stack > 0 => offset <= l.addr,
         l.kind = "byval" /\ l.regs > 0 => conv = "O32"
  PROVE  Apart(conv, a, l)
<1>1. /\ a.first \in Nat /\ a.regs \in Nat /\ a.addr \in Nat /\ a.stack \in Nat
      /\ l.first \in Nat /\ l.regs \in Nat /\ l.addr \in Nat /\ l.stack \in Nat
  BY LocFields
<1>2. a.regs > 0 /\ l.regs > 0 => a.first + a.regs <= l.first
  BY <1>1
<1>3. a.regs > 0 => a.first + a.regs <= 2
  BY <1>1
<1>4. conv = "O32" => reservedArgArea(conv) = 8
  BY DEF reservedArgArea, NumIntArgRegs, RegSize
<1>5. CASE (a.kind = "byval" /\ a.regs > 0) /\ (l.kind = "byval" /\ l.regs > 0)
  <2>1. 4 * a.first + 4 * a.regs <= 4 * l.first
    BY <1>1, <1>2, <1>5, Ranges
  <2>2. QED
    BY <1>2, <1>5, <2>1, ObjectWhere DEF Apart
<1>6. CASE (a.kind = "byval" /\ a.regs > 0) /\ ~(l.kind = "byval" /\ l.regs > 0)
  <2>1. l.stack > 0 => 8 <= l.addr
    BY <1>1, <1>4, <1>6
  <2>2. l.stack > 0 => 4 * a.first + 4 * a.regs <= l.addr
    BY <1>1, <1>3, <1>6, <2>1, Ranges
  <2>3. QED
    BY <1>2, <1>6, <2>2, ObjectWhere DEF Apart
<1>7. CASE ~(a.kind = "byval" /\ a.regs > 0) /\ (l.kind = "byval" /\ l.regs > 0)
  <2>1. a.stack > 0 => 8 <= a.addr
    BY <1>4, <1>7
  <2>2. a.stack > 0 => 4 * l.first + 4 * l.regs <= a.addr
    BY <1>1, <1>7, <2>1, Ranges
  <2>3. QED
    BY <1>2, <1>7, <2>2, ObjectWhere DEF Apart
<1>8. CASE ~(a.kind = "byval" /\ a.regs > 0) /\ ~(l.kind = "byval" /\ l.regs > 0)
  <2>1. a.stack > 0 /\ l.stack > 0 => a.addr + a.stack <= l.addr
    BY <1>1, Ranges
  <2>2. QED
    BY <1>2, <1>8, <2>1, ObjectWhere DEF Apart
<1>9. QED
  BY <1>5, <1>6, <1>7, <1>8

\* What grows stays sound.
LEMMA GrowsSound ==
  ASSUME NEW st, Sound(st), NEW t, NEW l \in LocType, Grows(st, t, l),
         ~t.overrun => ~st.overrun
  PROVE  Sound(t)
<1> DEFINE n == Len(st.locs)
<1>0. /\ st \in State /\ t \in State /\ st.locs \in Seq(LocType)
      /\ st.offset \in Nat /\ t.offset \in Nat /\ st.used \in 0 .. 2 /\ t.used \in 0 .. 2
      /\ st.conv \in Convention
  BY DEF Sound, Grows, State, NumIntArgRegs
<1>1. reservedArgArea(st.conv) \in Nat /\ reservedArgArea(st.conv) <= st.offset
  BY <1>0 DEF Sound, reservedArgArea, NumIntArgRegs, RegSize
<1>2. /\ t.conv = st.conv /\ t.locs = Append(st.locs, l)
      /\ st.used <= t.used /\ st.offset <= t.offset /\ (t.conv = "S32" => t.used = 0)
  BY DEF Grows
<1>3. /\ DOMAIN t.locs = 1 .. n + 1 /\ DOMAIN st.locs = 1 .. n /\ n \in Nat
      /\ \A i \in 1 .. n : t.locs[i] = st.locs[i] /\ st.locs[i] \in LocType
      /\ t.locs[n + 1] = l
  BY <1>0, <1>2
<1>4. reservedArgArea(t.conv) <= t.offset
  BY <1>0, <1>1, <1>2
<1>5. ASSUME ~t.overrun
      PROVE  /\ l.regs > 0 => st.used <= l.first /\ l.first + l.regs <= t.used
             /\ l.stack > 0 => st.offset <= l.addr /\ l.addr + l.stack <= t.offset
             /\ l.kind = "byval" /\ l.regs > 0 => st.conv = "O32"
  BY <1>5 DEF Grows
<1>6. ASSUME ~t.overrun PROVE Within(t, l)
  <2>1. l.addr \in Nat
    BY LocFields
  <2>2. l.stack > 0 => reservedArgArea(t.conv) <= l.addr
    BY <2>1, <1>0, <1>1, <1>2, <1>5, <1>6
  <2>3. QED
    BY <1>2, <1>5, <1>6, <2>2 DEF Within
<1>7. ASSUME ~t.overrun, NEW i \in 1 .. n PROVE Within(st, st.locs[i])
  BY <1>3, <1>7 DEF Sound
<1>8. ASSUME ~t.overrun, NEW i \in 1 .. n PROVE Within(t, st.locs[i])
  <2>1. Within(st, st.locs[i]) /\ st.locs[i] \in LocType
    BY <1>3, <1>7, <1>8
  <2>2. st.used \in Nat /\ t.used \in Nat
    BY <1>0
  <2>3. QED
    BY <2>1, <2>2, <1>0, <1>2, WithinLater
<1>9. ASSUME ~t.overrun, NEW i \in 1 .. n PROVE Apart(t.conv, st.locs[i], l)
  <2>1. Within(st, st.locs[i]) /\ st.locs[i] \in LocType
    BY <1>3, <1>7, <1>9
  <2>2. l.regs > 0 => l.first + l.regs <= 2
    <3>1. l.first \in Nat /\ l.regs \in Nat
      BY LocFields
    <3>2. QED
      BY <3>1, <1>0, <1>5, <1>9
  <2>3. /\ st.locs[i].regs > 0 => st.locs[i].first + st.locs[i].regs <= st.used
        /\ st.locs[i].stack > 0 => /\ reservedArgArea(st.conv) <= st.locs[i].addr
                                   /\ st.locs[i].addr + st.locs[i].stack <= st.offset
        /\ st.locs[i].kind = "byval" /\ st.locs[i].regs > 0 => st.conv = "O32"
    BY <2>1 DEF Within
  <2>4. Apart(st.conv, st.locs[i], l)
    BY <2>1, <2>2, <2>3, <1>0, <1>1, <1>5, <1>9, ApartLater
  <2>5. QED
    BY <2>4, <1>2
<1>10. ~t.overrun => \A i \in DOMAIN t.locs : Within(t, t.locs[i])
  BY <1>3, <1>6, <1>8
<1>11. ~t.overrun => \A i, j \in DOMAIN t.locs : i < j => Apart(t.conv, t.locs[i], t.locs[j])
  <2> SUFFICES ASSUME ~t.overrun, NEW i \in DOMAIN t.locs, NEW j \in DOMAIN t.locs, i < j
               PROVE  Apart(t.conv, t.locs[i], t.locs[j])
    OBVIOUS
  <2>1. CASE j = n + 1
    BY <2>1, <1>3, <1>9
  <2>2. CASE j # n + 1
    <3>1. i \in DOMAIN st.locs /\ j \in DOMAIN st.locs
      BY <2>2, <1>3
    <3>2. Apart(st.conv, st.locs[i], st.locs[j])
      BY <3>1 DEF Sound
    <3>3. QED
      BY <3>1, <3>2, <1>2, <1>3
  <2>3. QED
    BY <2>1, <2>2
<1>12. QED
  BY <1>0, <1>2, <1>4, <1>10, <1>11 DEF Sound

-----------------------------------------------------------------------------
(* Whole words. *)

\* An argument takes whole words at its alignment, in registers or on the
\* stack.
Neat(l) ==
  /\ l.stack % 4 = 0 /\ l.addr % 4 = 0 /\ l.addr % l.align = 0
  /\ l.regs > 0 => l.stack = 0

Whole(st) == st.offset % 4 = 0 /\ \A i \in DOMAIN st.locs : Neat(st.locs[i])

\* A multiple of 4 rounded up to an alignment is one.
LEMMA AlignToWord ==
  ASSUME NEW x \in Nat, x % 4 = 0, NEW a \in Alignment
  PROVE  alignTo(x, a) % 4 = 0
<1>1. CASE a = 1
  BY <1>1 DEF alignTo
<1>2. CASE a = 2
  BY <1>2 DEF alignTo
<1>3. CASE a = 4
  BY <1>3 DEF alignTo
<1>4. CASE a = 8
  BY <1>4 DEF alignTo
<1>5. QED
  BY <1>1, <1>2, <1>3, <1>4 DEF Alignment

\* What one neat argument is added to stays whole.
LEMMA AppendNeat ==
  ASSUME NEW st \in State, Whole(st), NEW l \in LocType, Neat(l),
         NEW t, t.locs = Append(st.locs, l), t.offset % 4 = 0
  PROVE  Whole(t)
<1>1. st.locs \in Seq(LocType)
  BY DEF State
<1>2. /\ DOMAIN t.locs = 1 .. Len(st.locs) + 1 /\ DOMAIN st.locs = 1 .. Len(st.locs)
      /\ Len(st.locs) \in Nat
      /\ \A i \in 1 .. Len(st.locs) : t.locs[i] = st.locs[i]
      /\ t.locs[Len(st.locs) + 1] = l
  BY <1>1
<1>3. ASSUME NEW i \in DOMAIN t.locs PROVE Neat(t.locs[i])
  <2>1. CASE i = Len(st.locs) + 1
    BY <2>1, <1>2
  <2>2. CASE i # Len(st.locs) + 1
    BY <2>2, <1>2 DEF Whole
  <2>3. QED
    BY <2>1, <2>2
<1>4. QED
  BY <1>3 DEF Whole

\* A scalar is neat.
LEMMA ScalarWhole ==
  ASSUME NEW st \in State, Whole(st),
         NEW kind \in {"i32", "half1", "half2"}, NEW align \in Alignment
  PROVE  Whole(AssignScalar(st, kind, align))
<1> DEFINE addr == alignTo(st.offset, align)
           t == AssignScalar(st, kind, align)
<1>0. st.offset \in Nat /\ st.used \in 0 .. 2
  BY DEF State, NumIntArgRegs
<1>1. addr \in Nat /\ addr % 4 = 0 /\ addr % align = 0
  BY <1>0, AlignTo, AlignToWord DEF Whole
<1>2. CASE st.conv # "S32" /\ st.used < NumIntArgRegs /\ ~Skips(st, align)
  <2> DEFINE l == Loc(kind, align, st.used, 1, 0, 0)
  <2>1. l \in LocType
    BY <1>0 DEF Loc, LocType, Alignment, NumIntArgRegs
  <2>2. 0 % align = 0
    BY DEF Alignment
  <2>3. Neat(l)
    BY <2>2 DEF Neat, Loc
  <2>4. t.locs = Append(st.locs, l) /\ t.offset = st.offset
    BY <1>2 DEF AssignScalar, Assigned
  <2>5. QED
    BY <2>1, <2>3, <2>4, AppendNeat DEF Whole
<1>3. CASE ~(st.conv # "S32" /\ st.used < NumIntArgRegs /\ ~Skips(st, align))
  <2> DEFINE l == Loc(kind, align, 0, 0, addr, RegSize)
  <2>1. l \in LocType
    BY <1>1 DEF Loc, LocType, Alignment, NumIntArgRegs, RegSize
  <2>2. Neat(l)
    BY <1>1 DEF Neat, Loc, RegSize
  <2>3. t.locs = Append(st.locs, l) /\ t.offset = addr + RegSize
    BY <1>3 DEF AssignScalar, Assigned
  <2>4. t.offset % 4 = 0
    BY <2>3, <1>1 DEF RegSize
  <2>5. QED
    BY <2>1, <2>2, <2>3, <2>4, AppendNeat
<1>4. QED
  BY <1>2, <1>3

\* So is a structure.
LEMMA ByValWhole ==
  ASSUME NEW st \in State, Whole(st), NEW size \in Nat, NEW align \in Alignment
  PROVE  Whole(AssignByVal(st, size, align))
<1> DEFINE regs == NumRegs(st, size, align)
           first == FirstIdx(st, align)
           a == ByValAlign(align)
           addr == alignTo(st.offset, a)
           stack == ByValStack(st, size, align)
           l == Loc("byval", a, first, regs, addr, stack)
           t == AssignByVal(st, size, align)
<1>0. st.offset \in Nat /\ st.used \in 0 .. 2
  BY DEF State, NumIntArgRegs
<1>1. a \in Alignment
  BY DEF ByValAlign, Min, Max, RegSize, Alignment
<1>2. addr \in Nat /\ addr % 4 = 0 /\ addr % a = 0
  BY <1>0, <1>1, AlignTo, AlignToWord DEF Whole
<1>3. alignTo(size, 4) \in Nat /\ alignTo(size, 4) % 4 = 0
  <2>1. 4 \in Alignment
    BY DEF Alignment
  <2>2. QED
    BY <2>1, AlignTo
<1>4. regs \in Nat /\ stack \in Nat /\ stack % 4 = 0 /\ (regs > 0 => stack = 0)
  <2>1. CASE st.conv = "Fast" \/ first = 0
    <3>1. regs = 0
      BY <2>1 DEF NumRegs
    <3>2. stack = alignTo(size, 4)
      BY <3>1, <1>3 DEF ByValStack, RegSize
    <3>3. QED
      BY <3>1, <3>2, <1>3
  <2>2. CASE ~(st.conv = "Fast" \/ first = 0)
    <3>1. regs = alignTo(size, 4) \div 4
      BY <2>2 DEF NumRegs, RegSize
    <3>2. stack = 0
      BY <3>1, <1>3 DEF ByValStack, RegSize
    <3>3. QED
      BY <3>1, <3>2, <1>3
  <2>3. QED
    BY <2>1, <2>2
<1>5. first \in 0 .. 2
  BY <1>0 DEF FirstIdx
<1>6. l \in LocType
  BY <1>1, <1>2, <1>4, <1>5 DEF Loc, LocType, Alignment, NumIntArgRegs
<1>7. Neat(l)
  BY <1>2, <1>4 DEF Neat, Loc
<1>8. t.locs = Append(st.locs, l) /\ t.offset = addr + stack
  BY DEF AssignByVal, Assigned
<1>9. t.offset % 4 = 0
  <2> HIDE DEF addr, stack, t
  <2>1. QED
    BY <1>2, <1>4, <1>8
<1>10. QED
  BY <1>6, <1>7, <1>8, <1>9, AppendNeat

-----------------------------------------------------------------------------
(* All the arguments of a function. *)

\* What holds after any number of arguments.
Placing(st, conv) == Sound(st) /\ Whole(st) /\ st.conv = conv

\* One argument more.
LEMMA AssignPlacing ==
  ASSUME NEW conv, NEW st, Placing(st, conv), NEW arg \in ArgType
  PROVE  Placing(Assign(st, arg), conv)
<1>0. /\ st \in State /\ (st.conv = "S32" => st.used = 0) /\ Sound(st) /\ Whole(st)
      /\ st.conv = conv
  BY DEF Placing, Sound
<1>1. ASSUME NEW kind \in {"i32", "half1", "half2"}, NEW align \in Alignment,
             NEW s, Placing(s, conv)
      PROVE  Placing(AssignScalar(s, kind, align), conv)
  <2>0. /\ s \in State /\ (s.conv = "S32" => s.used = 0) /\ Sound(s) /\ Whole(s)
        /\ s.conv = conv
    BY <1>1 DEF Placing, Sound
  <2>1. PICK l \in LocType : l.kind = kind /\ Grows(s, AssignScalar(s, kind, align), l)
    BY <2>0, ScalarGrows
  <2>2. AssignScalar(s, kind, align).overrun = s.overrun
    BY <2>0, ScalarGrows
  <2>3. Sound(AssignScalar(s, kind, align)) /\ AssignScalar(s, kind, align).conv = conv
    BY <2>0, <2>1, <2>2, GrowsSound DEF Grows
  <2>4. QED
    BY <2>0, <2>3, ScalarWhole DEF Placing
<1>2. CASE arg.kind = "i32"
  <2>1. Assign(st, arg) = AssignScalar(st, "i32", arg.align)
    BY <1>2 DEF Assign
  <2>2. arg.align \in Alignment
    BY <1>2 DEF ArgType, Alignment
  <2>3. QED
    BY <1>1, <2>1, <2>2
<1>3. CASE arg.kind = "i64"
  <2>1. Assign(st, arg) = AssignScalar(AssignScalar(st, "half1", 8), "half2", 1)
    BY <1>3 DEF Assign, AssignI64
  <2>2. 8 \in Alignment /\ 1 \in Alignment
    BY DEF Alignment
  <2>3. Placing(AssignScalar(st, "half1", 8), conv)
    BY <1>1, <2>2
  <2>4. QED
    BY <1>1, <2>1, <2>2, <2>3
<1>4. CASE arg.kind = "byval"
  <2>1. Assign(st, arg) = AssignByVal(st, arg.size, arg.align)
    BY <1>4 DEF Assign
  <2>2. arg.size \in Nat /\ arg.align \in Alignment
    BY <1>4 DEF ArgType, Alignment
  <2>3. PICK l \in LocType : l.kind = "byval" /\ Grows(st, Assign(st, arg), l)
    BY <1>0, <2>1, <2>2, ByValGrows
  <2>4. ~Assign(st, arg).overrun => ~st.overrun
    BY <1>0, <2>1, <2>2, ByValGrows
  <2>5. Sound(Assign(st, arg)) /\ Assign(st, arg).conv = conv
    BY <1>0, <2>3, <2>4, GrowsSound DEF Grows
  <2>6. QED
    BY <1>0, <2>1, <2>2, <2>5, ByValWhole DEF Placing
<1>5. QED
  BY <1>2, <1>3, <1>4 DEF ArgType

\* Nothing is assigned yet.
LEMMA StartPlacing ==
  ASSUME NEW conv \in Convention
  PROVE  Placing(Start(conv), conv) /\ Start(conv).locs = <<>>
<1> DEFINE st == Start(conv)
<1>1. st = [conv |-> conv, used |-> 0, offset |-> reservedArgArea(conv), locs |-> <<>>,
            overrun |-> FALSE]
  BY DEF Start
<1>2. reservedArgArea(conv) \in Nat /\ reservedArgArea(conv) % 4 = 0
  BY DEF reservedArgArea, NumIntArgRegs, RegSize
<1>3. Sound(st)
  BY <1>1, <1>2 DEF Sound, State, NumIntArgRegs
<1>4. Whole(st)
  BY <1>1, <1>2 DEF Whole
<1>5. QED
  BY <1>1, <1>3, <1>4 DEF Placing

-----------------------------------------------------------------------------
(* Argument lists of any length, by SetInduction. *)

\* h is the recursive function of Placement, up to n arguments.
IsAfter(h, f, n) ==
  h = [m \in 0 .. n |-> IF m = 0 THEN Start(f.conv) ELSE Assign(h[m - 1], f.args[m])]

\* There is one, however long the list of arguments.
LEMMA AfterExists ==
  ASSUME NEW f
  PROVE  \A n \in Nat : \E h : IsAfter(h, f, n)
<1> DEFINE T == {n \in Nat : \E h : IsAfter(h, f, n)}
<1>1. 0 \in T
  <2> DEFINE h == [m \in 0 .. 0 |-> Start(f.conv)]
  <2>1. h = [m \in 0 .. 0 |-> IF m = 0 THEN Start(f.conv) ELSE Assign(h[m - 1], f.args[m])]
    OBVIOUS
  <2>2. IsAfter(h, f, 0)
    BY <2>1 DEF IsAfter
  <2>3. QED
    BY <2>2
<1>2. ASSUME NEW n \in Nat, n \in T PROVE n + 1 \in T
  <2>1. PICK g : IsAfter(g, f, n)
    BY <1>2
  <2> DEFINE h == [m \in 0 .. n + 1 |-> IF m = n + 1 THEN Assign(g[n], f.args[n + 1]) ELSE g[m]]
             k == [m \in 0 .. n + 1 |->
                     IF m = 0 THEN Start(f.conv) ELSE Assign(h[m - 1], f.args[m])]
  <2>2. ASSUME NEW m \in 0 .. n + 1 PROVE h[m] = k[m]
    <3>1. CASE m = n + 1
      <4>1. h[m] = Assign(g[n], f.args[n + 1])
        BY <3>1
      <4>2. m # 0 /\ m - 1 = n /\ n \in 0 .. n + 1 /\ n # n + 1
        BY <3>1
      <4>3. h[m - 1] = g[n]
        BY <4>2
      <4>4. QED
        BY <3>1, <4>1, <4>2, <4>3
    <3>2. CASE m # n + 1
      <4>1. m \in 0 .. n
        BY <3>2
      <4>2. h[m] = g[m]
        BY <3>2
      <4>3. g[m] = IF m = 0 THEN Start(f.conv) ELSE Assign(g[m - 1], f.args[m])
        BY <2>1, <4>1 DEF IsAfter
      <4>4. ASSUME m # 0 PROVE h[m - 1] = g[m - 1]
        BY <4>1, <4>4
      <4>5. k[m] = IF m = 0 THEN Start(f.conv) ELSE Assign(h[m - 1], f.args[m])
        OBVIOUS
      <4> HIDE DEF h, k
      <4>6. QED
        BY <4>2, <4>3, <4>4, <4>5
    <3>3. QED
      BY <3>1, <3>2
  <2>3. h = k
    <3>1. DOMAIN h = 0 .. n + 1 /\ DOMAIN k = 0 .. n + 1
      OBVIOUS
    <3>2. h = [m \in 0 .. n + 1 |-> h[m]] /\ k = [m \in 0 .. n + 1 |-> k[m]]
      OBVIOUS
    <3> HIDE DEF h, k
    <3>3. QED
      BY <2>2, <3>2
  <2>4. IsAfter(h, f, n + 1)
    BY <2>3 DEF IsAfter
  <2>5. QED
    BY <2>4
<1> HIDE DEF T
<1>3. \A n \in Nat : n \in T
  BY <1>1, <1>2, SetInduction
<1>4. QED
  BY <1>3 DEF T

\* What holds after every prefix of the arguments of a function holds of where
\* they all are placed.
THEOREM PlacementPlacing ==
  ASSUME NEW f, f.conv \in Convention, f.args \in Seq(ArgType)
  PROVE  /\ Placing(Placement(f), f.conv)
         /\ f.args = <<>> => Placement(f).locs = <<>>
<1> DEFINE N == Len(f.args)
           h == CHOOSE g : IsAfter(g, f, N)
<1>1. N \in Nat
  OBVIOUS
<1>2. IsAfter(h, f, N)
  BY <1>1, AfterExists
<1>3. Placement(f) = h[N]
  BY DEF Placement, After, IsAfter
<1> DEFINE T == {n \in Nat : n <= N => Placing(h[n], f.conv)}
<1> HIDE DEF h
<1>4. h[0] = Start(f.conv)
  BY <1>1, <1>2 DEF IsAfter
<1>5. 0 \in T
  BY <1>4, StartPlacing
<1>6. ASSUME NEW n \in Nat, n \in T PROVE n + 1 \in T
  <2>1. CASE n + 1 <= N
    <3>1. n <= N /\ n + 1 \in 0 .. N /\ n + 1 # 0 /\ n + 1 - 1 = n
      BY <1>1, <2>1
    <3>2. h[n + 1] = Assign(h[n], f.args[n + 1])
      BY <1>2, <3>1 DEF IsAfter
    <3>3. Placing(h[n], f.conv)
      BY <1>6, <3>1
    <3>4. f.args[n + 1] \in ArgType
      BY <3>1
    <3>5. QED
      BY <3>2, <3>3, <3>4, AssignPlacing
  <2>2. CASE ~(n + 1 <= N)
    BY <2>2
  <2>3. QED
    BY <2>1, <2>2
<1> HIDE DEF T
<1>7. N \in T
  BY <1>1, <1>5, <1>6, SetInduction
<1>8. Placing(h[N], f.conv)
  BY <1>1, <1>7 DEF T
<1>9. f.args = <<>> => N = 0
  OBVIOUS
<1>10. QED
  BY <1>3, <1>4, <1>8, <1>9, StartPlacing
===============================================================================
