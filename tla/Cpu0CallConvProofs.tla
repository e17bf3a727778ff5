-------------------------- MODULE Cpu0CallConvProofs --------------------------
(***************************************************************************)
(* The properties of Cpu0CallConv hold for every number of arguments and   *)
(* all sizes of structures: what is assigned stays sound.                  *)
(***************************************************************************)
EXTENDS Cpu0CallConv, Cpu0CCProofs

-----------------------------------------------------------------------------
(* The specification. *)

\* Every initial state is sound.
LEMMA InitSound == Init => Sound(cc)
<1> SUFFICES ASSUME NEW conv \in Convention, cc = Start(conv) PROVE Sound(cc)
  BY DEF Init
<1>1. cc = [conv |-> conv, used |-> 0, offset |-> reservedArgArea(conv), locs |-> <<>>,
            overrun |-> FALSE]
  BY DEF Start
<1>2. reservedArgArea(conv) \in Nat
  BY DEF reservedArgArea, NumIntArgRegs, RegSize
<1>3. QED
  BY <1>1, <1>2 DEF Sound, State, NumIntArgRegs

\* So is every state a step leads to.  An i64 is two assignments.
LEMMA StepSound == Sound(cc) /\ [Next]_cc => Sound(cc')
<1> SUFFICES ASSUME Sound(cc), [Next]_cc PROVE Sound(cc')
  OBVIOUS
<1>0. cc \in State /\ (cc.conv = "S32" => cc.used = 0)
  BY DEF Sound
<1>1. ASSUME ~cc.overrun, I32 PROVE Sound(cc')
  <2>1. PICK align \in {1, 2, 4} : cc' = AssignScalar(cc, "i32", align)
    BY <1>1 DEF I32
  <2>2. align \in Alignment
    BY DEF Alignment
  <2>3. QED
    BY <2>1, <2>2, <1>0, ScalarGrows, GrowsSound
<1>2. ASSUME ~cc.overrun, I64 PROVE Sound(cc')
  <2> DEFINE m == AssignScalar(cc, "half1", 8)
  <2>1. cc' = AssignScalar(m, "half2", 1)
    BY <1>2 DEF I64, AssignI64
  <2>2. 8 \in Alignment /\ 1 \in Alignment
    BY DEF Alignment
  <2>3. Sound(m) /\ m.overrun = cc.overrun
    BY <2>2, <1>0, ScalarGrows, GrowsSound
  <2>4. m \in State /\ (m.conv = "S32" => m.used = 0)
    BY <2>3 DEF Sound
  <2> HIDE DEF m
  <2>5. QED
    BY <2>1, <2>2, <2>3, <2>4, ScalarGrows, GrowsSound
<1>3. ASSUME ~cc.overrun, ByVal PROVE Sound(cc')
  <2>1. PICK size \in ByValSizes, align \in {1, 2, 4, 8} : cc' = AssignByVal(cc, size, align)
    BY <1>3 DEF ByVal
  <2>2. size \in Nat /\ align \in Alignment
    BY ByValAssumption DEF Alignment
  <2>3. QED
    BY <2>1, <2>2, <1>0, <1>3, ByValGrows, GrowsSound
<1>4. CASE UNCHANGED cc
  BY <1>4
<1>5. QED
  BY <1>1, <1>2, <1>3, <1>4 DEF Next

\* What has been assigned is sound, whatever the arguments.
THEOREM AssignmentsSound == Spec => []Sound(cc)
<1>1. Init => Sound(cc)
  BY InitSound
<1>2. Sound(cc) /\ [Next]_cc => Sound(cc)'
  BY StepSound
<1>3. QED
  BY <1>1, <1>2, PTL DEF Spec

\* The state of the assignment keeps its type: no register beyond A1, no
\* negative offset.
THEOREM CallTypes == Spec => []TypeOK
<1>1. Sound(cc) => TypeOK
  BY DEF Sound, State, TypeOK
<1>2. QED
  BY <1>1, AssignmentsSound, PTL

\* Two arguments of a call never share a register or a byte of the stack.
THEOREM CallDisjoint == Spec => []ArgumentsDisjoint
<1>1. Sound(cc) => ArgumentsDisjoint
  BY DEF Sound, Apart, ArgumentsDisjoint, ObjectOf
<1>2. QED
  BY <1>1, AssignmentsSound, PTL

\* Every argument is within the bytes reserved for the call.
THEOREM CallWithinFrame == Spec => []StackWithinCallFrame
<1>1. ASSUME Sound(cc), ~cc.overrun, NEW i \in DOMAIN cc.locs
      PROVE  LET l == cc.locs[i] IN
             /\ l.stack > 0 => reservedArgArea(cc.conv) <= l.addr /\ l.addr + l.stack <= cc.offset
             /\ ObjectOf(l).size > 0 =>
                  ObjectOf(l).addr >= 0 /\ ObjectOf(l).addr + ObjectOf(l).size <= cc.offset
  <2> DEFINE l == cc.locs[i]
  <2>1. Within(cc, l) /\ l \in LocType /\ cc.used \in 0 .. 2 /\ cc.offset \in Nat
        /\ reservedArgArea(cc.conv) <= cc.offset
    BY <1>1 DEF Sound, State, NumIntArgRegs
  <2> HIDE DEF l
  <2>2. l.first \in Nat /\ l.regs \in Nat /\ l.addr \in Nat /\ l.stack \in Nat
    BY <2>1, LocFields
  <2>3. CASE l.kind = "byval" /\ l.regs > 0
    <3>1. l.first + l.regs <= 2 /\ cc.conv = "O32"
      BY <2>1, <2>2, <2>3 DEF Within
    <3>2. 8 <= cc.offset
      BY <2>1, <3>1 DEF reservedArgArea, NumIntArgRegs, RegSize
    <3>3. ObjectOf(l) = [addr |-> 4 * l.first, size |-> 4 * l.regs]
      BY <2>1, <2>3, <3>1, ObjectWhere DEF ObjectOf
    <3>4. 4 * l.first >= 0 /\ 4 * l.first + 4 * l.regs <= cc.offset
      BY <2>1, <2>2, <3>1, <3>2
    <3>5. QED
      BY <2>1, <3>3, <3>4 DEF Within, l
  <2>4. CASE ~(l.kind = "byval" /\ l.regs > 0)
    <3>1. ObjectOf(l) = [addr |-> l.addr, size |-> l.stack]
      BY <2>1, <2>4, ObjectWhere DEF ObjectOf
    <3>2. QED
      BY <2>1, <2>2, <3>1 DEF Within, l
  <2>5. QED
    BY <2>3, <2>4
<1>2. Sound(cc) => StackWithinCallFrame
  BY <1>1 DEF StackWithinCallFrame
<1>3. QED
  BY <1>2, AssignmentsSound, PTL

-----------------------------------------------------------------------------
(* The halves of an i64. *)

Together(a, b) ==
  /\ b.kind = "half2"
  /\ \/ a.regs = 1 /\ b.regs = 1 /\ a.first = 0 /\ b.first = 1
     \/ a.regs = 0 /\ b.regs = 0 /\ a.addr % 8 = 0 /\ b.addr = a.addr + RegSize

\* The two assignments of an i64 add two halves that are together.
LEMMA I64Adds ==
  ASSUME NEW st \in State, st.conv = "S32" => st.used = 0
  PROVE  \E a, b \in LocType : /\ AssignI64(st).locs = Append(Append(st.locs, a), b)
                              /\ Together(a, b)
<1> DEFINE m == AssignScalar(st, "half1", 8)
           addr == alignTo(st.offset, 8)
<1>0. st.offset \in Nat /\ st.used \in 0 .. 2
  BY DEF State, NumIntArgRegs
<1>1. addr \in Nat /\ addr % 8 = 0
  <2>1. 8 \in Alignment
    BY DEF Alignment
  <2>2. QED
    BY <2>1, <1>0, AlignTo
<1>2. AssignI64(st) = AssignScalar(m, "half2", 1)
  BY DEF AssignI64
<1>3. CASE st.conv # "S32" /\ st.used = 0
  <2> DEFINE a == Loc("half1", 8, 0, 1, 0, 0)
             b == Loc("half2", 1, 1, 1, 0, 0)
  <2>1. m.conv = st.conv /\ m.used = 1 /\ m.locs = Append(st.locs, a)
    BY <1>3 DEF AssignScalar, Assigned, Skips, NumIntArgRegs
  <2>2. AssignScalar(m, "half2", 1).locs = Append(m.locs, b)
    <3> HIDE DEF m
    <3>1. QED
      BY <2>1, <1>3 DEF AssignScalar, Assigned, Skips, NumIntArgRegs
  <2>3. a \in LocType /\ b \in LocType /\ Together(a, b)
    BY DEF Loc, LocType, Together, NumIntArgRegs
  <2>4. QED
    BY <1>2, <2>1, <2>2, <2>3
<1>4. CASE ~(st.conv # "S32" /\ st.used = 0)
  <2> DEFINE a == Loc("half1", 8, 0, 0, addr, RegSize)
             b == Loc("half2", 1, 0, 0, addr + RegSize, RegSize)
  <2>1. ~(st.conv # "S32" /\ st.used < NumIntArgRegs /\ ~Skips(st, 8))
    BY <1>0, <1>4 DEF Skips, NumIntArgRegs
  <2>2. m = [conv |-> st.conv, used |-> IF Skips(st, 8) THEN NumIntArgRegs ELSE st.used,
             offset |-> addr + RegSize, locs |-> Append(st.locs, a), overrun |-> st.overrun]
    BY <2>1 DEF AssignScalar, Assigned
  <2>3. /\ m.conv = st.conv /\ m.offset = addr + RegSize /\ m.locs = Append(st.locs, a)
        /\ m.used = IF Skips(st, 8) THEN NumIntArgRegs ELSE st.used
    BY <2>2
  <2> HIDE DEF m
  <2>4. m.conv = "S32" \/ ~(m.used < NumIntArgRegs)
    BY <2>3, <1>0, <1>4 DEF Skips, NumIntArgRegs
  <2>5. alignTo(m.offset, 1) = addr + RegSize
    BY <2>3, <1>1 DEF alignTo, RegSize
  <2>6. AssignScalar(m, "half2", 1).locs = Append(m.locs, b)
    BY <2>4, <2>5 DEF AssignScalar, Assigned
  <2>7. a \in LocType /\ b \in LocType
    BY <1>1 DEF Loc, LocType, NumIntArgRegs, RegSize
  <2>8. Together(a, b)
    BY <1>1 DEF Loc, Together
  <2>9. QED
    BY <1>2, <2>3, <2>6, <2>7, <2>8
<1>5. QED
  BY <1>3, <1>4

\* Appending what is no first half separates no halves.
LEMMA AppendWhole ==
  ASSUME NEW s \in Seq(LocType), NEW l \in LocType, l.kind # "half1", NEW r,
         r = Append(s, l),
         \A i \in DOMAIN s : s[i].kind = "half1" =>
           i + 1 \in DOMAIN s /\ Together(s[i], s[i + 1])
  PROVE  \A i \in DOMAIN r : r[i].kind = "half1" =>
           i + 1 \in DOMAIN r /\ Together(r[i], r[i + 1])
<1> SUFFICES ASSUME NEW i \in DOMAIN r, r[i].kind = "half1"
             PROVE  i + 1 \in DOMAIN r /\ Together(r[i], r[i + 1])
  OBVIOUS
<1>1. /\ DOMAIN r = 1 .. Len(s) + 1 /\ DOMAIN s = 1 .. Len(s) /\ Len(s) \in Nat
      /\ r[Len(s) + 1] = l /\ \A j \in DOMAIN s : r[j] = s[j]
  OBVIOUS
<1>2. i \in DOMAIN s
  BY <1>1
<1>3. i + 1 \in DOMAIN s /\ Together(s[i], s[i + 1])
  BY <1>1, <1>2
<1>4. QED
  BY <1>1, <1>2, <1>3

\* The halves of an i64 are in A0 and A1, or in eight aligned bytes.
THEOREM CallI64Whole == Spec => []I64Whole
<1> DEFINE Halves == \A i \in DOMAIN cc.locs : cc.locs[i].kind = "half1" =>
                       i + 1 \in DOMAIN cc.locs /\ Together(cc.locs[i], cc.locs[i + 1])
<1>1. Init => Halves
  BY DEF Init, Start
<1>2. ASSUME Sound(cc), Halves, [Next]_cc PROVE Halves'
  <2>0. cc \in State /\ (cc.conv = "S32" => cc.used = 0) /\ cc.locs \in Seq(LocType)
    BY <1>2 DEF Sound, State
  <2>1. CASE I32
    <3>1. PICK align \in {1, 2, 4} : cc' = AssignScalar(cc, "i32", align)
      BY <2>1 DEF I32
    <3>2. align \in Alignment
      BY DEF Alignment
    <3>3. PICK l \in LocType : l.kind = "i32" /\ Grows(cc, cc', l)
      BY <3>1, <3>2, <2>0, ScalarGrows
    <3>4. l.kind # "half1" /\ cc'.locs = Append(cc.locs, l)
      BY <3>3 DEF Grows
    <3>5. QED
      BY <3>4, <2>0, <1>2, AppendWhole
  <2>2. CASE I64
    <3>1. PICK a \in LocType, b \in LocType :
            cc'.locs = Append(Append(cc.locs, a), b) /\ Together(a, b)
      BY <2>2, <2>0, I64Adds DEF I64
    <3> DEFINE n == Len(cc.locs)
               s == cc.locs
               r == cc'.locs
    <3>2. /\ n \in Nat /\ DOMAIN r = 1 .. n + 2 /\ DOMAIN s = 1 .. n
          /\ r[n + 1] = a /\ r[n + 2] = b /\ \A j \in 1 .. n : r[j] = s[j]
      BY <3>1, <2>0
    <3>3. \A i \in 1 .. n : s[i].kind = "half1" => i + 1 \in 1 .. n /\ Together(s[i], s[i + 1])
      BY <3>2, <1>2
    <3>4. b.kind # "half1"
      BY <3>1 DEF Together
    <3> HIDE DEF n, s, r
    <3>5. ASSUME NEW i \in DOMAIN r, r[i].kind = "half1"
          PROVE  i + 1 \in DOMAIN r /\ Together(r[i], r[i + 1])
      <4>1. CASE i \in 1 .. n
        BY <4>1, <3>2, <3>3, <3>5
      <4>2. CASE i = n + 1
        <5>1. i + 1 = n + 2 /\ n + 2 \in DOMAIN r
          BY <4>2, <3>2
        <5>2. QED
          BY <5>1, <4>2, <3>1, <3>2
      <4>3. CASE i = n + 2
        BY <4>3, <3>2, <3>4, <3>5
      <4>4. QED
        BY <4>1, <4>2, <4>3, <3>2, <3>5
    <3>6. QED
      BY <3>5 DEF r
  <2>3. CASE ByVal
    <3>1. PICK size \in ByValSizes, align \in {1, 2, 4, 8} : cc' = AssignByVal(cc, size, align)
      BY <2>3 DEF ByVal
    <3>2. size \in Nat /\ align \in Alignment
      BY ByValAssumption DEF Alignment
    <3>3. PICK l \in LocType : l.kind = "byval" /\ Grows(cc, cc', l)
      BY <3>1, <3>2, <2>0, ByValGrows
    <3>4. l.kind # "half1" /\ cc'.locs = Append(cc.locs, l)
      BY <3>3 DEF Grows
    <3>5. QED
      BY <3>4, <2>0, <1>2, AppendWhole
  <2>4. CASE UNCHANGED cc
    BY <2>4, <1>2
  <2>5. QED
    BY <2>1, <2>2, <2>3, <2>4, <1>2 DEF Next
<1>3. Halves => I64Whole
  BY DEF I64Whole, Together
<1> HIDE DEF Halves
<1>4. QED
  BY <1>1, <1>2, <1>3, AssignmentsSound, PTL DEF Spec
=============================================================================
