------------------------- MODULE Cpu0LoweringProofs -------------------------
(***************************************************************************)
(* What the last passes produce implements the machine program, for every  *)
(* set of well-formed programs whose branches reach, words of every size   *)
(* and every datapath.                                                     *)
(*                                                                         *)
(* First the layout: FlattenSeq puts the words of an instruction, of a     *)
(* block and of a function where Before counts them to be, which gives     *)
(* what is at an address (AtAddr) and where an emitted offset leads        *)
(* (EmittedTransfer).  Then the run: IInv says that the machine is at an   *)
(* instruction that is left, or in its slot, and that the link registers   *)
(* hold addresses of such instructions; every step keeps it and is a step  *)
(* or a stutter of Cpu0Mir (NextFollows).                                  *)
(***************************************************************************)
EXTENDS Cpu0Lowered, SequenceTheorems, WellFoundedInduction, TLAPS

-----------------------------------------------------------------------------
(* Induction: the order of the natural numbers, as a relation. *)

Smaller == {p \in Nat \X Nat : p[1] < p[2]}

\* A set with 0 and every successor of a member has all natural numbers.
LEMMA SetInduction ==
  ASSUME NEW T, 0 \in T, \A n \in Nat : n \in T => n + 1 \in T
  PROVE  \A n \in Nat : n \in T
<1> DEFINE U == {n \in Nat : n \notin T}
<1>1. SUFFICES ASSUME U # {} PROVE FALSE
  OBVIOUS
<1>2. IsWellFoundedOn(Smaller, Nat)
  <2>1. OpToRel(<, Nat) = Smaller
    BY DEF OpToRel, Smaller
  <2>2. QED
    BY <2>1, NatLessThanWellFounded
<1>3. PICK x \in U : \A y \in U : <<y, x>> \notin Smaller
  <2>1. U \subseteq Nat
    OBVIOUS
  <2> HIDE DEF U
  <2>2. QED
    BY <1>1, <1>2, <2>1, WFMin
<1>4. x \in Nat /\ x # 0 /\ x - 1 \in Nat /\ x - 1 + 1 = x
  OBVIOUS
<1>5. x - 1 \in U
  BY <1>4
<1>6. <<x - 1, x>> \in Smaller
  BY <1>4 DEF Smaller
<1>7. QED
  BY <1>3, <1>5, <1>6

-----------------------------------------------------------------------------
(* The concatenation of a sequence of sequences. *)

\* h[k] is the concatenation of the first k sequences of s, for k up to e.
Joins(h, s, e) == h[0] = <<>> /\ \A k \in 1 .. e : h[k] = h[k - 1] \o s[k]

\* There are such prefixes.
LEMMA JoinsExist ==
  ASSUME NEW T, NEW s \in Seq(Seq(T))
  PROVE  \E h \in [0 .. Len(s) -> Seq(T)] : Joins(h, s, Len(s))
<1> DEFINE n == Len(s)
           I == {e \in Nat : e <= n => \E h \in [0 .. e -> Seq(T)] : Joins(h, s, e)}
<1>1. n \in Nat /\ \A k \in 1 .. n : s[k] \in Seq(T)
  OBVIOUS
<1>2. 0 \in I
  <2> DEFINE h == [k \in 0 .. 0 |-> <<>>]
  <2>1. h \in [0 .. 0 -> Seq(T)] /\ Joins(h, s, 0)
    BY DEF Joins
  <2>2. QED
    BY <2>1
<1> HIDE DEF n
<1>3. ASSUME NEW e \in Nat, e \in I PROVE e + 1 \in I
  <2>1. ASSUME e + 1 <= n PROVE \E h \in [0 .. e + 1 -> Seq(T)] : Joins(h, s, e + 1)
    <3>1. PICK g \in [0 .. e -> Seq(T)] : Joins(g, s, e)
      BY <1>1, <1>3, <2>1
    <3> DEFINE next == g[e] \o s[e + 1]
               h == [k \in 0 .. e + 1 |-> IF k = e + 1 THEN next ELSE g[k]]
    <3>2. next \in Seq(T)
      <4>1. e + 1 \in 1 .. n /\ e \in 0 .. e
        BY <1>1, <2>1
      <4>2. s[e + 1] \in Seq(T) /\ g[e] \in Seq(T)
        BY <1>1, <4>1
      <4>3. QED
        BY <4>2
    <3> HIDE DEF next
    <3>3. h \in [0 .. e + 1 -> Seq(T)]
      BY <3>2
    <3>4. h[0] = <<>>
      BY <3>1 DEF Joins
    <3>5. ASSUME NEW k \in 1 .. e + 1 PROVE h[k] = h[k - 1] \o s[k]
      <4>1. k - 1 \in 0 .. e /\ k - 1 # e + 1 /\ k - 1 \in 0 .. e + 1
        OBVIOUS
      <4>2. h[k - 1] = g[k - 1]
        BY <4>1
      <4>3. CASE k = e + 1
        <5>1. k - 1 = e /\ h[k] = next
          BY <4>3
        <5>2. QED
          BY <4>2, <4>3, <5>1 DEF next
      <4>4. CASE k # e + 1
        <5>1. k \in 1 .. e /\ h[k] = g[k]
          BY <4>4
        <5>2. QED
          BY <3>1, <4>2, <5>1 DEF Joins
      <4>5. QED
        BY <4>3, <4>4
    <3> HIDE DEF h
    <3>6. Joins(h, s, e + 1)
      BY <3>4, <3>5 DEF Joins
    <3>7. QED
      BY <3>3, <3>6
  <2>2. QED
    BY <2>1
<1>4. n \in I
  <2> HIDE DEF I
  <2>1. \A e \in Nat : e \in I
    BY <1>2, <1>3, SetInduction
  <2>2. QED
    BY <1>1, <2>1
<1>5. QED
  BY <1>1, <1>4 DEF n

\* The last of them is what FlattenSeq computes.
LEMMA FlattenJoins ==
  ASSUME NEW T, NEW s \in Seq(Seq(T)), NEW h \in [0 .. Len(s) -> Seq(T)],
         Joins(h, s, Len(s))
  PROVE  FlattenSeq(s) = h[Len(s)]
<1> DEFINE n == Len(s)
           IsFlat(g) == g = [i \in 1 .. n |-> IF i = 1 THEN s[i] ELSE g[i - 1] \o s[i]]
           f == CHOOSE g : IsFlat(g)
<1>1. n \in Nat /\ \A k \in 1 .. n : s[k] \in Seq(T)
  OBVIOUS
<1>2. CASE n = 0
  <2>1. s = <<>> /\ Len(s) = 0
    BY <1>2
  <2>2. FlattenSeq(s) = s
    BY <2>1 DEF FlattenSeq
  <2>3. QED
    BY <2>1, <2>2 DEF Joins
<1>3. CASE n # 0
  <2> DEFINE g == [i \in 1 .. n |-> h[i]]
  <2>1. FlattenSeq(s) = f[n]
    BY <1>3 DEF FlattenSeq, n
  <2> HIDE DEF n
  <2>2. ASSUME NEW i \in 1 .. n PROVE h[i] = IF i = 1 THEN s[i] ELSE h[i - 1] \o s[i]
    <3>1. h[i] = h[i - 1] \o s[i]
      BY DEF Joins, n
    <3>2. CASE i = 1
      <4>1. i - 1 = 0 /\ h[0] = <<>>
        BY <3>2 DEF Joins
      <4>2. s[i] \in Seq(T)
        BY <1>1
      <4>3. <<>> \o s[i] = s[i]
        BY <4>2
      <4>4. QED
        BY <3>1, <3>2, <4>1, <4>3
    <3>3. QED
      BY <3>1, <3>2
  <2>3. ASSUME NEW i \in 1 .. n PROVE g[i] = IF i = 1 THEN s[i] ELSE g[i - 1] \o s[i]
    <3>1. i # 1 => g[i - 1] = h[i - 1]
      BY <1>1
    <3>2. g[i] = h[i]
      OBVIOUS
    <3> HIDE DEF g
    <3>3. QED
      BY <2>2, <3>1, <3>2
  <2>4. IsFlat(g)
    <3> DEFINE k == [i \in 1 .. n |-> IF i = 1 THEN s[i] ELSE g[i - 1] \o s[i]]
    <3>1. g = [i \in 1 .. n |-> g[i]]
      OBVIOUS
    <3> HIDE DEF g
    <3>2. QED
      BY <2>3, <3>1
  <2>5. IsFlat(f)
    <3> HIDE DEF g, IsFlat
    <3>1. QED
      BY <2>4
  <2>6. f[1] = s[1] /\ \A i \in 2 .. n : f[i] = f[i - 1] \o s[i]
    <3> DEFINE k == [i \in 1 .. n |-> IF i = 1 THEN s[i] ELSE f[i - 1] \o s[i]]
    <3>1. f = k
      BY <2>5
    <3> HIDE DEF f
    <3>2. \A i \in 1 .. n : k[i] = IF i = 1 THEN s[i] ELSE f[i - 1] \o s[i]
      OBVIOUS
    <3> HIDE DEF k
    <3>3. QED
      <4>1. 1 \in 1 .. n /\ \A i \in 2 .. n : i \in 1 .. n /\ i # 1
        BY <1>1, <1>3
      <4>2. k[1] = s[1] /\ \A i \in 2 .. n : k[i] = f[i - 1] \o s[i]
        BY <3>2, <4>1
      <4>3. QED
        BY <3>1, <4>2
  <2> DEFINE I == {e \in Nat : e + 1 <= n => f[e + 1] = h[e + 1]}
  <2>7. 0 \in I
    <3>1. 1 \in 1 .. n /\ 0 + 1 = 1
      BY <1>1, <1>3
    <3>2. f[1] = h[1]
      BY <2>2, <2>6, <3>1
    <3>3. QED
      BY <3>1, <3>2
  <2>8. ASSUME NEW e \in Nat, e \in I PROVE e + 1 \in I
    <3>1. ASSUME e + 1 + 1 <= n PROVE f[e + 1 + 1] = h[e + 1 + 1]
      <4>1. /\ e + 1 + 1 \in 2 .. n /\ e + 1 + 1 \in 1 .. n /\ e + 1 + 1 # 1
            /\ (e + 1 + 1) - 1 = e + 1 /\ e + 1 <= n
        BY <1>1, <3>1
      <4>2. f[e + 1] = h[e + 1]
        BY <2>8, <4>1
      <4>3. f[e + 1 + 1] = f[e + 1] \o s[e + 1 + 1]
        BY <2>6, <4>1
      <4>4. h[e + 1 + 1] = h[e + 1] \o s[e + 1 + 1]
        BY <2>2, <4>1
      <4>5. QED
        BY <4>2, <4>3, <4>4
    <3>2. QED
      BY <3>1
  <2>9. n - 1 \in I
    <3> HIDE DEF I
    <3>1. \A e \in Nat : e \in I
      BY <2>7, <2>8, SetInduction
    <3>2. QED
      BY <1>1, <1>3, <3>1
  <2>10. f[n] = h[n]
    <3>1. n - 1 + 1 = n
      BY <1>1
    <3> HIDE DEF f
    <3>2. QED
      BY <1>1, <2>9, <3>1
  <2>11. QED
    BY <2>1, <2>10 DEF n
<1>4. QED
  BY <1>2, <1>3

\* A function on 1 .. n is a sequence.
LEMMA FunctionSeq ==
  ASSUME NEW S, NEW n \in Nat, NEW g \in [1 .. n -> S]
  PROVE  g \in Seq(S) /\ Len(g) = n
OBVIOUS

\* Elements of a concatenation.
LEMMA JoinLeft ==
  ASSUME NEW T, NEW s \in Seq(T), NEW t \in Seq(T), NEW j \in 1 .. Len(s)
  PROVE  j \in 1 .. Len(s \o t) /\ (s \o t)[j] = s[j]
OBVIOUS

\* ... of its second part.
LEMMA JoinRight ==
  ASSUME NEW T, NEW s \in Seq(T), NEW t \in Seq(T), NEW j \in 1 .. Len(t)
  PROVE  Len(s) + j \in 1 .. Len(s \o t) /\ (s \o t)[Len(s) + j] = t[j]
OBVIOUS

\* FlattenSeq of every prefix.
LEMMA FlattenPrefixes ==
  ASSUME NEW T, NEW s \in Seq(Seq(T))
  PROVE  \E h \in [0 .. Len(s) -> Seq(T)] :
           /\ Joins(h, s, Len(s))
           /\ FlattenSeq(s) = h[Len(s)]
           /\ \A k \in 0 .. Len(s) : FlattenSeq(SubSeq(s, 1, k)) = h[k]
<1>1. PICK h \in [0 .. Len(s) -> Seq(T)] : Joins(h, s, Len(s))
  BY JoinsExist
<1>2. ASSUME NEW k \in 0 .. Len(s) PROVE FlattenSeq(SubSeq(s, 1, k)) = h[k]
  <2> DEFINE t == SubSeq(s, 1, k)
             g == [e \in 0 .. k |-> h[e]]
  <2>1. /\ t \in Seq(Seq(T)) /\ Len(t) = k
        /\ \A e \in 1 .. k : t[e] = s[e] /\ e \in 1 .. Len(s) /\ e - 1 \in 0 .. k /\ e \in 0 .. k
        /\ 0 \in 0 .. k /\ k \in 0 .. k
    OBVIOUS
  <2>2. g \in [0 .. k -> Seq(T)]
    <3>1. \A e \in 0 .. k : e \in 0 .. Len(s)
      OBVIOUS
    <3>2. \A e \in 0 .. k : h[e] \in Seq(T)
      BY <3>1
    <3>3. QED
      BY <3>2
  <2>3. \A e \in 0 .. k : g[e] = h[e]
    OBVIOUS
  <2> HIDE DEF g, t
  <2>4. Joins(g, t, k)
    BY <1>1, <2>1, <2>3 DEF Joins
  <2>5. FlattenSeq(t) = g[k]
    BY <2>1, <2>2, <2>4, FlattenJoins
  <2>6. QED
    BY <2>1, <2>3, <2>5 DEF t
<1>3. FlattenSeq(s) = h[Len(s)]
  BY <1>1, FlattenJoins
<1>4. QED
  BY <1>1, <1>2, <1>3

\* How many elements the first k sequences of s have.
Offset(s, k) == Len(FlattenSeq(SubSeq(s, 1, k)))

\* They add up.
LEMMA Offsets ==
  ASSUME NEW T, NEW s \in Seq(Seq(T))
  PROVE  /\ FlattenSeq(s) \in Seq(T)
         /\ Offset(s, 0) = 0
         /\ \A k \in 0 .. Len(s) : Offset(s, k) \in Nat
         /\ \A k \in 1 .. Len(s) : Offset(s, k) = Offset(s, k - 1) + Len(s[k])
         /\ Len(FlattenSeq(s)) = Offset(s, Len(s))
<1>1. PICK h \in [0 .. Len(s) -> Seq(T)] :
           /\ Joins(h, s, Len(s))
           /\ FlattenSeq(s) = h[Len(s)]
           /\ \A k \in 0 .. Len(s) : FlattenSeq(SubSeq(s, 1, k)) = h[k]
  BY FlattenPrefixes
<1>2. Len(s) \in Nat /\ 0 \in 0 .. Len(s) /\ Len(s) \in 0 .. Len(s)
  OBVIOUS
<1>3. \A k \in 0 .. Len(s) : Offset(s, k) = Len(h[k])
  BY <1>1 DEF Offset
<1>4. \A k \in 0 .. Len(s) : Offset(s, k) \in Nat
  BY <1>3
<1>5. ASSUME NEW k \in 1 .. Len(s) PROVE Offset(s, k) = Offset(s, k - 1) + Len(s[k])
  <2>1. k \in 0 .. Len(s) /\ k - 1 \in 0 .. Len(s)
    BY <1>2
  <2>2. h[k] = h[k - 1] \o s[k]
    BY <1>1 DEF Joins
  <2>3. h[k - 1] \in Seq(T) /\ s[k] \in Seq(T)
    <3>1. s[k] \in Seq(T)
      OBVIOUS
    <3>2. QED
      BY <2>1, <3>1
  <2>4. Len(h[k]) = Len(h[k - 1]) + Len(s[k])
    BY <2>2, <2>3
  <2>5. QED
    BY <1>3, <2>1, <2>4
<1>6. Offset(s, 0) = 0
  <2>1. h[0] = <<>>
    BY <1>1 DEF Joins
  <2>2. QED
    BY <1>2, <1>3, <2>1
<1>7. QED
  BY <1>1, <1>2, <1>3, <1>4, <1>5, <1>6

\* An offset is a number.
LEMMA OffsetNat ==
  ASSUME NEW T, NEW s \in Seq(Seq(T)), NEW k \in 1 .. Len(s) + 1
  PROVE  Offset(s, k - 1) \in Nat
<1>1. k - 1 \in 0 .. Len(s)
  OBVIOUS
<1>2. QED
  BY <1>1, Offsets

\* ... and the next is as far behind it as its element is long.
LEMMA OffsetStep ==
  ASSUME NEW T, NEW s \in Seq(Seq(T)), NEW k \in 1 .. Len(s)
  PROVE  /\ Offset(s, k) = Offset(s, k - 1) + Len(s[k])
         /\ Offset(s, k - 1) \in Nat /\ Offset(s, k) \in Nat /\ Len(s[k]) \in Nat
<1>1. k - 1 \in 0 .. Len(s) /\ k \in 0 .. Len(s)
  OBVIOUS
<1>2. s[k] \in Seq(T)
  OBVIOUS
<1>3. Len(s[k]) \in Nat
  BY <1>2
<1>4. QED
  BY <1>1, <1>3, Offsets

\* Where element j of sequence k ends up.
LEMMA Elements ==
  ASSUME NEW T, NEW s \in Seq(Seq(T)), NEW k \in 1 .. Len(s), NEW j \in 1 .. Len(s[k])
  PROVE  /\ Offset(s, k - 1) + j \in 1 .. Len(FlattenSeq(s))
         /\ FlattenSeq(s)[Offset(s, k - 1) + j] = s[k][j]
<1>1. PICK h \in [0 .. Len(s) -> Seq(T)] :
           /\ Joins(h, s, Len(s))
           /\ FlattenSeq(s) = h[Len(s)]
           /\ \A e \in 0 .. Len(s) : FlattenSeq(SubSeq(s, 1, e)) = h[e]
  BY FlattenPrefixes
<1> DEFINE n == Len(s)
           o == Offset(s, k - 1)
           I == {d \in Nat : k + d <= n =>
                  o + j \in 1 .. Len(h[k + d]) /\ h[k + d][o + j] = s[k][j]}
<1>2. n \in Nat /\ k \in 1 .. n /\ k - 1 \in 0 .. n
  OBVIOUS
<1>3. o = Len(h[k - 1]) /\ o \in Nat
  <2>1. o = Len(h[k - 1])
    BY <1>1, <1>2 DEF Offset
  <2>2. h[k - 1] \in Seq(T)
    BY <1>2
  <2>3. QED
    BY <2>1, <2>2
<1>4. \A e \in 1 .. n : h[e] = h[e - 1] \o s[e] /\ h[e - 1] \in Seq(T) /\ s[e] \in Seq(T)
  <2>1. \A e \in 1 .. n : e - 1 \in 0 .. n /\ s[e] \in Seq(T)
    BY <1>2
  <2>2. \A e \in 1 .. n : h[e - 1] \in Seq(T)
    BY <2>1
  <2>3. QED
    BY <1>1, <2>1, <2>2 DEF Joins
<1> HIDE DEF n, o
<1>5. 0 \in I
  <2>1. h[k] = h[k - 1] \o s[k] /\ h[k - 1] \in Seq(T) /\ s[k] \in Seq(T)
    BY <1>2, <1>4
  <2>2. o + j \in 1 .. Len(h[k]) /\ h[k][o + j] = s[k][j]
    <3> DEFINE u == h[k - 1]
               v == s[k]
    <3>1. u \in Seq(T) /\ v \in Seq(T) /\ j \in 1 .. Len(v) /\ h[k] = u \o v /\ o = Len(u)
      BY <1>3, <2>1
    <3> HIDE DEF u, v
    <3>2. Len(u) + j \in 1 .. Len(u \o v) /\ (u \o v)[Len(u) + j] = v[j]
      BY ONLY <3>1, JoinRight
    <3>3. o + j \in 1 .. Len(h[k]) /\ h[k][o + j] = v[j]
      BY ONLY <3>1, <3>2
    <3>4. QED
      BY <3>3 DEF v
  <2>3. k + 0 = k
    BY <1>2
  <2>4. QED
    BY <2>2, <2>3
<1>6. ASSUME NEW d \in Nat, d \in I PROVE d + 1 \in I
  <2>1. ASSUME k + (d + 1) <= n
        PROVE  o + j \in 1 .. Len(h[k + (d + 1)]) /\ h[k + (d + 1)][o + j] = s[k][j]
    <3> DEFINE e == k + (d + 1)
    <3>1. e \in 1 .. n /\ e - 1 = k + d /\ k + d <= n
      BY <1>2, <2>1
    <3>2. o + j \in 1 .. Len(h[e - 1]) /\ h[e - 1][o + j] = s[k][j]
      BY <1>6, <3>1
    <3> HIDE DEF e
    <3>3. h[e] = h[e - 1] \o s[e] /\ h[e - 1] \in Seq(T) /\ s[e] \in Seq(T)
      BY <1>4, <3>1
    <3>4. o + j \in 1 .. Len(h[e]) /\ h[e][o + j] = h[e - 1][o + j]
      <4> DEFINE u == h[e - 1]
                 v == s[e]
                 x == o + j
      <4>1. u \in Seq(T) /\ v \in Seq(T) /\ x \in 1 .. Len(u) /\ h[e] = u \o v
        BY <3>2, <3>3
      <4> HIDE DEF u, v, x
      <4>2. x \in 1 .. Len(u \o v) /\ (u \o v)[x] = u[x]
        BY ONLY <4>1, JoinLeft
      <4>3. x \in 1 .. Len(h[e]) /\ h[e][x] = u[x]
        BY ONLY <4>1, <4>2
      <4>4. QED
        BY <4>3 DEF u, x
    <3>5. QED
      BY <3>2, <3>4 DEF e
  <2>2. QED
    BY <2>1
<1>7. \A d \in Nat : d \in I
  <2> HIDE DEF I
  <2>1. QED
    BY <1>5, <1>6, SetInduction
<1>8. n - k \in Nat /\ k + (n - k) = n
  BY <1>2
<1>9. o + j \in 1 .. Len(h[n]) /\ h[n][o + j] = s[k][j]
  <2> DEFINE e == n - k
  <2>1. e \in Nat /\ k + e = n /\ k + e <= n
    BY <1>2, <1>8
  <2> HIDE DEF e
  <2>2. o + j \in 1 .. Len(h[k + e]) /\ h[k + e][o + j] = s[k][j]
    BY <1>7, <2>1
  <2>3. QED
    BY ONLY <2>1, <2>2
<1>10. QED
  BY <1>1, <1>9 DEF n, o

\* Where they end up depends on the lengths alone.
LEMMA OffsetsSame ==
  ASSUME NEW T, NEW s \in Seq(Seq(T)), NEW U, NEW t \in Seq(Seq(U)), Len(s) = Len(t),
         \A k \in 1 .. Len(s) : Len(s[k]) = Len(t[k])
  PROVE  /\ \A k \in 0 .. Len(s) : Offset(s, k) = Offset(t, k)
         /\ Len(FlattenSeq(s)) = Len(FlattenSeq(t))
<1> DEFINE n == Len(s)
           I == {k \in Nat : k <= n => Offset(s, k) = Offset(t, k)}
<1>1. n \in Nat /\ n = Len(t)
  OBVIOUS
<1>2. /\ Offset(s, 0) = 0
      /\ \A k \in 1 .. n : Offset(s, k) = Offset(s, k - 1) + Len(s[k])
      /\ Len(FlattenSeq(s)) = Offset(s, n)
  BY Offsets
<1>3. /\ Offset(t, 0) = 0
      /\ \A k \in 1 .. n : Offset(t, k) = Offset(t, k - 1) + Len(t[k])
      /\ Len(FlattenSeq(t)) = Offset(t, n)
  BY <1>1, Offsets
<1>4. \A k \in 1 .. n : Len(s[k]) = Len(t[k])
  OBVIOUS
<1> HIDE DEF n
<1>5. 0 \in I
  BY <1>2, <1>3
<1>6. ASSUME NEW k \in Nat, k \in I PROVE k + 1 \in I
  <2>1. ASSUME k + 1 <= n PROVE Offset(s, k + 1) = Offset(t, k + 1)
    <3>1. k + 1 \in 1 .. n /\ (k + 1) - 1 = k /\ k <= n
      BY <1>1, <2>1
    <3>2. Offset(s, k) = Offset(t, k)
      BY <1>6, <3>1
    <3>3. /\ Offset(s, k + 1) = Offset(s, k) + Len(s[k + 1])
          /\ Offset(t, k + 1) = Offset(t, k) + Len(t[k + 1])
          /\ Len(s[k + 1]) = Len(t[k + 1])
      BY <1>2, <1>3, <1>4, <3>1
    <3>4. QED
      BY <3>2, <3>3
  <2>2. QED
    BY <2>1
<1>7. \A k \in Nat : k \in I
  <2> HIDE DEF I
  <2>1. QED
    BY <1>5, <1>6, SetInduction
<1>8. \A k \in 0 .. n : Offset(s, k) = Offset(t, k)
  BY <1>1, <1>7
<1>9. Len(FlattenSeq(s)) = Len(FlattenSeq(t))
  BY <1>1, <1>2, <1>3, <1>8
<1>10. QED
  BY <1>8, <1>9 DEF n

-----------------------------------------------------------------------------
(* The layout of a program after the last passes. *)

\* The set J has what the passes make of the instructions of I.
Expands(I, J) ==
  /\ Nop \in J
  /\ \A i \in I :
       /\ ExpandRet(i) \in J
       /\ ExpandRet(i).op = (IF i.op = "RetLR" THEN "RET" ELSE i.op)
       /\ ExpandRet(i).cx = i.cx

\* How many instructions of block b are left, and what the passes make of them:
\* the words of instruction i, of block b, of function f and of the program.
Kept(p, f, b) == IF EndsUseless(p[f], b) THEN Len(p[f][b]) - 1 ELSE Len(p[f][b])
Piece(i) == IF hasDelaySlot(i.op) THEN <<ExpandRet(i), Nop>> ELSE <<ExpandRet(i)>>
Pieces(p, f, b) == [k \in 1 .. Kept(p, f, b) |-> Piece(p[f][b][k])]
Blocks(p, f) == [b \in 1 .. Len(p[f]) |-> FlattenSeq(Pieces(p, f, b))]
Fns(p) == [f \in 1 .. Len(p) |-> FlattenSeq(Blocks(p, f))]

\* At most the last instruction of a block goes.
LEMMA KeptType ==
  ASSUME NEW I, NEW p \in Seq(Seq(Seq(I))), NEW f \in 1 .. Len(p), NEW b \in 1 .. Len(p[f])
  PROVE  Kept(p, f, b) \in 0 .. Len(p[f][b])
<1>1. p[f] \in Seq(Seq(I))
  OBVIOUS
<1>2. p[f][b] \in Seq(I)
  BY <1>1
<1>3. EndsUseless(p[f], b) => Len(p[f][b]) # 0
  BY <1>2 DEF EndsUseless
<1> DEFINE n == Len(p[f][b])
<1>4. n \in Nat /\ (EndsUseless(p[f], b) => n # 0)
  BY <1>2, <1>3
<1>5. Kept(p, f, b) = IF EndsUseless(p[f], b) THEN n - 1 ELSE n
  BY DEF Kept
<1> HIDE DEF n
<1>6. Kept(p, f, b) \in 0 .. n
  BY ONLY <1>4, <1>5
<1>7. QED
  BY <1>6 DEF n

\* An instruction becomes one word, or two with a slot.
LEMMA PieceType ==
  ASSUME NEW I, NEW J, Expands(I, J), NEW i \in I
  PROVE  /\ Piece(i) \in Seq(J)
         /\ Len(Piece(i)) = (IF hasDelaySlot(i.op) THEN 2 ELSE 1)
BY DEF Expands, Piece

\* The words of a block, by instruction.
LEMMA PiecesType ==
  ASSUME NEW I, NEW J, Expands(I, J), NEW p \in Seq(Seq(Seq(I))),
         NEW f \in 1 .. Len(p), NEW b \in 1 .. Len(p[f])
  PROVE  /\ Pieces(p, f, b) \in Seq(Seq(J))
         /\ Len(Pieces(p, f, b)) = Kept(p, f, b)
         /\ \A k \in 1 .. Kept(p, f, b) :
              Pieces(p, f, b)[k] = Piece(p[f][b][k]) /\ p[f][b][k] \in I
<1>1. p[f] \in Seq(Seq(I))
  OBVIOUS
<1>2. p[f][b] \in Seq(I)
  BY <1>1
<1>3. Kept(p, f, b) \in 0 .. Len(p[f][b])
  BY KeptType
<1>4. \A k \in 1 .. Kept(p, f, b) : p[f][b][k] \in I
  BY <1>2, <1>3
<1>5. \A k \in 1 .. Kept(p, f, b) : Piece(p[f][b][k]) \in Seq(J)
  BY <1>4, PieceType
<1>6. Kept(p, f, b) \in Nat
  BY <1>2, <1>3
<1>7. Pieces(p, f, b) \in [1 .. Kept(p, f, b) -> Seq(J)]
  BY <1>5 DEF Pieces
<1>8. Pieces(p, f, b) \in Seq(Seq(J)) /\ Len(Pieces(p, f, b)) = Kept(p, f, b)
  BY <1>6, <1>7, FunctionSeq
<1>9. QED
  BY <1>4, <1>8 DEF Pieces

\* ... and those of one instruction.
LEMMA PieceAt ==
  ASSUME NEW I, NEW J, Expands(I, J), NEW p \in Seq(Seq(Seq(I))),
         NEW f \in 1 .. Len(p), NEW b \in 1 .. Len(p[f]), NEW k \in 1 .. Kept(p, f, b)
  PROVE  /\ p[f][b][k] \in I
         /\ Pieces(p, f, b)[k] = Piece(p[f][b][k])
         /\ k \in 1 .. Len(Pieces(p, f, b)) /\ k \in 1 .. Kept(p, f, b) + 1
         /\ Kept(p, f, b) \in Nat
<1>1. /\ Pieces(p, f, b) \in Seq(Seq(J))
      /\ Len(Pieces(p, f, b)) = Kept(p, f, b)
      /\ \A e \in 1 .. Kept(p, f, b) :
           Pieces(p, f, b)[e] = Piece(p[f][b][e]) /\ p[f][b][e] \in I
  BY PiecesType
<1>2. Kept(p, f, b) \in Nat
  BY <1>1
<1>3. QED
  BY <1>1, <1>2

\* The words of a function, by block.
LEMMA BlocksType ==
  ASSUME NEW I, NEW J, Expands(I, J), NEW p \in Seq(Seq(Seq(I))), NEW f \in 1 .. Len(p)
  PROVE  Blocks(p, f) \in Seq(Seq(J)) /\ Len(Blocks(p, f)) = Len(p[f])
<1>1. \A b \in 1 .. Len(p[f]) : FlattenSeq(Pieces(p, f, b)) \in Seq(J)
  BY PiecesType, Offsets
<1>2. p[f] \in Seq(Seq(I)) /\ Len(p[f]) \in Nat
  OBVIOUS
<1>3. QED
  BY <1>1, <1>2 DEF Blocks

\* The words of a program, by function.
LEMMA FnsType ==
  ASSUME NEW I, NEW J, Expands(I, J), NEW p \in Seq(Seq(Seq(I)))
  PROVE  Fns(p) \in Seq(Seq(J)) /\ Len(Fns(p)) = Len(p)
<1>1. \A f \in 1 .. Len(p) : FlattenSeq(Blocks(p, f)) \in Seq(J)
  BY BlocksType, Offsets
<1>2. Len(p) \in Nat
  OBVIOUS
<1>3. QED
  BY <1>1, <1>2 DEF Fns

\* A block after the expansion of returns and the deletion of useless jumps.
LEMMA BlockLeft ==
  ASSUME NEW I, NEW J, Expands(I, J), NEW p \in Seq(Seq(Seq(I))),
         NEW f \in 1 .. Len(p), NEW b \in 1 .. Len(p[f])
  PROVE  LET blk == DelJmp(Expand(p)[f])[b]
         IN  /\ DOMAIN blk = 1 .. Kept(p, f, b)
             /\ \A k \in 1 .. Kept(p, f, b) : blk[k] = ExpandRet(p[f][b][k])
<1> DEFINE fn == Expand(p)[f]
           n == Len(p[f][b])
           blk == DelJmp(fn)[b]
<1>1. /\ p[f] \in Seq(Seq(I)) /\ DOMAIN p = 1 .. Len(p)
      /\ DOMAIN p[f] = 1 .. Len(p[f]) /\ Len(p[f]) \in Nat
  OBVIOUS
<1>2. p[f][b] \in Seq(I) /\ DOMAIN p[f][b] = 1 .. n /\ n \in Nat
  BY <1>1
<1>3. fn = [c \in 1 .. Len(p[f]) |-> [k \in DOMAIN p[f][c] |-> ExpandRet(p[f][c][k])]]
  BY <1>1 DEF Expand
<1>4. DOMAIN fn = 1 .. Len(p[f]) /\ Len(fn) = Len(p[f])
  BY <1>1, <1>3
<1>5. fn[b] = [k \in 1 .. n |-> ExpandRet(p[f][b][k])]
  BY <1>2, <1>3
<1>6. ASSUME NEW k \in 1 .. n
      PROVE  fn[b][k] = ExpandRet(p[f][b][k]) /\ p[f][b][k] \in I /\ fn[b][k] \in J
  <2>1. p[f][b][k] \in I
    BY <1>2
  <2>2. QED
    BY <1>5, <2>1 DEF Expands
<1>7. fn[b] \in Seq(J) /\ Len(fn[b]) = n
  <2>1. fn[b] = [k \in 1 .. n |-> fn[b][k]]
    BY <1>5
  <2>2. \A k \in 1 .. n : fn[b][k] \in J
    BY <1>6
  <2> HIDE DEF fn, n
  <2>3. fn[b] \in [1 .. n -> J]
    BY <2>1, <2>2
  <2>4. QED
    BY <1>2, <2>3
<1>8. EndsUseless(fn, b) <=> EndsUseless(p[f], b)
  <2>1. CASE n = 0
    <3>1. fn[b] = <<>> /\ p[f][b] = <<>>
      BY <1>2, <1>7, <2>1
    <3>2. QED
      BY <3>1 DEF EndsUseless
  <2>2. CASE n # 0
    <3>1. n \in 1 .. n /\ fn[b] # <<>> /\ p[f][b] # <<>>
      BY <1>2, <1>7, <2>2
    <3>2. Last(fn[b]) = ExpandRet(Last(p[f][b])) /\ Last(p[f][b]) \in I
      BY <1>6, <1>7, <3>1 DEF Last
    <3>3. /\ Last(fn[b]).op = (IF Last(p[f][b]).op = "RetLR" THEN "RET" ELSE Last(p[f][b]).op)
          /\ Last(fn[b]).cx = Last(p[f][b]).cx
      BY <3>2 DEF Expands
    <3> HIDE DEF fn
    <3>4. QED
      BY <1>4, <3>1, <3>3 DEF EndsUseless
  <2>3. QED
    BY <2>1, <2>2
<1>9. blk = IF EndsUseless(fn, b) THEN Front(fn[b]) ELSE fn[b]
  BY <1>4 DEF DelJmp
<1>10. CASE EndsUseless(fn, b)
  <2>1. n # 0 /\ Kept(p, f, b) = n - 1
    BY <1>2, <1>8, <1>10 DEF EndsUseless, Kept
  <2>2. blk = SubSeq(fn[b], 1, n - 1)
    BY <1>7, <1>9, <1>10 DEF Front
  <2> HIDE DEF blk, fn, n
  <2>3. /\ n - 1 \in 0 .. n /\ \A k \in 1 .. n - 1 : k \in 1 .. n
        /\ DOMAIN blk = 1 .. n - 1
        /\ \A k \in 1 .. n - 1 : blk[k] = fn[b][k]
    BY <1>2, <1>7, <2>1, <2>2
  <2>4. QED
    BY <1>6, <2>1, <2>3 DEF blk, fn, n
<1>11. CASE ~EndsUseless(fn, b)
  <2>1. Kept(p, f, b) = n /\ blk = fn[b]
    BY <1>8, <1>9, <1>11 DEF Kept
  <2>2. DOMAIN fn[b] = 1 .. n
    BY <1>5
  <2> HIDE DEF blk, fn, n
  <2>3. QED
    BY <1>6, <2>1, <2>2 DEF blk, fn, n
<1>12. QED
  BY <1>10, <1>11

\* What addPreEmitPass leaves of a function.
LEMMA PreEmitFunction ==
  ASSUME NEW I, NEW J, Expands(I, J), NEW p \in Seq(Seq(Seq(I))), NEW f \in 1 .. Len(p)
  PROVE  PreEmit(p)[f] = Blocks(p, f)
<1> DEFINE fn == DelJmp(Expand(p)[f])
<1>1. DOMAIN p = 1 .. Len(p) /\ DOMAIN p[f] = 1 .. Len(p[f])
  OBVIOUS
<1>2. DOMAIN fn = 1 .. Len(p[f])
  BY <1>1 DEF DelJmp, Expand
<1>3. PreEmit(p)[f] = [b \in 1 .. Len(p[f]) |-> Filler(fn[b])]
  BY <1>1, <1>2 DEF PreEmit
<1>4. ASSUME NEW b \in 1 .. Len(p[f]) PROVE Filler(fn[b]) = FlattenSeq(Pieces(p, f, b))
  <2> DEFINE blk == fn[b]
             K == Kept(p, f, b)
  <2>1. DOMAIN blk = 1 .. K /\ \A k \in 1 .. K : blk[k] = ExpandRet(p[f][b][k])
    BY BlockLeft
  <2>2. \A k \in 1 .. K : p[f][b][k] \in I
    BY PiecesType
  <2> HIDE DEF blk, K
  <2>3. ASSUME NEW k \in 1 .. K
        PROVE  (IF hasDelaySlot(blk[k].op) THEN <<blk[k], Nop>> ELSE <<blk[k]>>) = Piece(p[f][b][k])
    <3>1. blk[k].op = (IF p[f][b][k].op = "RetLR" THEN "RET" ELSE p[f][b][k].op)
      BY <2>1, <2>2 DEF Expands
    <3>2. hasDelaySlot(blk[k].op) <=> hasDelaySlot(p[f][b][k].op)
      BY <3>1 DEF hasDelaySlot
    <3>3. QED
      BY <2>1, <3>2 DEF Piece
  <2>4. [k \in DOMAIN blk |-> IF hasDelaySlot(blk[k].op) THEN <<blk[k], Nop>> ELSE <<blk[k]>>]
          = Pieces(p, f, b)
    BY <2>1, <2>3 DEF Pieces, K
  <2>5. QED
    BY <2>4 DEF Filler, blk
<1> HIDE DEF fn
<1>5. QED
  BY <1>3, <1>4 DEF Blocks

\* ... and what they make of a program.
LEMMA PreEmitProgram ==
  ASSUME NEW I, NEW J, Expands(I, J), NEW p \in Seq(Seq(Seq(I)))
  PROVE  /\ PreEmit(p) = [f \in 1 .. Len(p) |-> Blocks(p, f)]
         /\ Code(PreEmit(p)) = FlattenSeq(Fns(p))
<1> DEFINE q == PreEmit(p)
<1>1. DOMAIN q = 1 .. Len(p) /\ q = [f \in 1 .. Len(p) |-> q[f]]
  BY DEF PreEmit
<1>2. \A f \in 1 .. Len(p) : q[f] = Blocks(p, f)
  BY PreEmitFunction
<1> HIDE DEF q
<1>3. q = [f \in 1 .. Len(p) |-> Blocks(p, f)]
  BY <1>1, <1>2
<1>4. [f \in DOMAIN q |-> FlattenSeq(q[f])] = Fns(p)
  BY <1>1, <1>2 DEF Fns
<1>5. Code(q) = FlattenSeq(Fns(p))
  BY <1>4 DEF Code
<1>6. QED
  BY <1>3, <1>5 DEF q

\* The number of words before instruction k of block b of function f, and its
\* address; k may be one more than the instructions that are left.
Within(p, f, b, k) == Offset(Blocks(p, f), b - 1) + Offset(Pieces(p, f, b), k - 1)
Before(p, f, b, k) == Offset(Fns(p), f - 1) + Within(p, f, b, k)
Addr(p, f, b, k) == 4 * Before(p, f, b, k)

\* Distances are numbers.
LEMMA WithinType ==
  ASSUME NEW I, NEW J, Expands(I, J), NEW p \in Seq(Seq(Seq(I))),
         NEW f \in 1 .. Len(p), NEW b \in 1 .. Len(p[f]), NEW k \in 1 .. Kept(p, f, b) + 1
  PROVE  /\ Within(p, f, b, k) \in Nat /\ Before(p, f, b, k) \in Nat
         /\ Offset(Fns(p), f - 1) \in Nat /\ Offset(Blocks(p, f), b - 1) \in Nat
         /\ Offset(Pieces(p, f, b), k - 1) \in Nat
<1>1. Fns(p) \in Seq(Seq(J)) /\ Len(Fns(p)) = Len(p)
  BY FnsType
<1>2. Blocks(p, f) \in Seq(Seq(J)) /\ Len(Blocks(p, f)) = Len(p[f])
  BY BlocksType
<1>3. Pieces(p, f, b) \in Seq(Seq(J)) /\ Len(Pieces(p, f, b)) = Kept(p, f, b)
  BY PiecesType
<1>4. Len(p) \in Nat /\ Len(p[f]) \in Nat /\ Kept(p, f, b) \in Nat
  BY <1>1, <1>2, <1>3
<1>5. Offset(Fns(p), f - 1) \in Nat
  <2>1. f \in 1 .. Len(Fns(p)) + 1
    BY <1>1, <1>4
  <2>2. QED
    BY ONLY <1>1, <2>1, OffsetNat
<1>6. Offset(Blocks(p, f), b - 1) \in Nat
  <2>1. b \in 1 .. Len(Blocks(p, f)) + 1
    BY <1>2, <1>4
  <2>2. QED
    BY ONLY <1>2, <2>1, OffsetNat
<1>7. Offset(Pieces(p, f, b), k - 1) \in Nat
  <2>1. k \in 1 .. Len(Pieces(p, f, b)) + 1
    BY <1>3, <1>4
  <2>2. QED
    BY ONLY <1>3, <2>1, OffsetNat
<1>8. Within(p, f, b, k) \in Nat
  BY <1>6, <1>7 DEF Within
<1>9. Before(p, f, b, k) \in Nat
  BY <1>5, <1>8 DEF Before
<1>10. QED
  BY <1>5, <1>6, <1>7, <1>8, <1>9

\* Word j of what becomes of an instruction, in its function and in the program.
LEMMA Words ==
  ASSUME NEW I, NEW J, Expands(I, J), NEW p \in Seq(Seq(Seq(I))),
         NEW f \in 1 .. Len(p), NEW b \in 1 .. Len(p[f]), NEW k \in 1 .. Kept(p, f, b),
         NEW j \in 1 .. Len(Piece(p[f][b][k]))
  PROVE  /\ Within(p, f, b, k) + j \in 1 .. Len(Fns(p)[f])
         /\ Fns(p)[f][Within(p, f, b, k) + j] = Piece(p[f][b][k])[j]
         /\ Before(p, f, b, k) + j \in 1 .. Len(FlattenSeq(Fns(p)))
         /\ FlattenSeq(Fns(p))[Before(p, f, b, k) + j] = Piece(p[f][b][k])[j]
<1> DEFINE P == Pieces(p, f, b)
           Q == Blocks(p, f)
           N == Fns(p)
           x == Offset(P, k - 1) + j
           y == Offset(Q, b - 1) + x
           z == Offset(N, f - 1) + y
<1>1. N \in Seq(Seq(J)) /\ Len(N) = Len(p)
  BY FnsType
<1>2. Q \in Seq(Seq(J)) /\ Len(Q) = Len(p[f])
  BY BlocksType
<1>3. P \in Seq(Seq(J)) /\ Len(P) = Kept(p, f, b) /\ P[k] = Piece(p[f][b][k])
  <2>1. P \in Seq(Seq(J)) /\ Len(P) = Kept(p, f, b)
    BY PiecesType
  <2>2. P[k] = Piece(p[f][b][k])
    BY PieceAt
  <2>3. QED
    BY <2>1, <2>2
<1>4. N[f] = FlattenSeq(Q) /\ Q[b] = FlattenSeq(P)
  BY DEF Fns, Blocks
<1>5. Within(p, f, b, k) + j = y /\ Before(p, f, b, k) + j = z
  <2>1. k \in 1 .. Kept(p, f, b) + 1
    BY PieceAt
  <2>2. /\ Offset(P, k - 1) \in Nat /\ Offset(Q, b - 1) \in Nat
        /\ Offset(N, f - 1) \in Nat
    BY <2>1, WithinType
  <2>5. j \in Nat
    <3>1. p[f][b][k] \in I
      BY PieceAt
    <3>2. Len(Piece(p[f][b][k])) \in Nat
      BY <3>1, PieceType
    <3>3. QED
      BY <3>2
  <2> DEFINE o1 == Offset(P, k - 1)
             o2 == Offset(Q, b - 1)
             o3 == Offset(N, f - 1)
  <2>6. Within(p, f, b, k) = o2 + o1 /\ Before(p, f, b, k) = o3 + (o2 + o1)
    BY DEF Within, Before
  <2>7. y = o2 + (o1 + j) /\ z = o3 + (o2 + (o1 + j))
    OBVIOUS
  <2>8. o1 \in Nat /\ o2 \in Nat /\ o3 \in Nat
    BY <2>2
  <2> HIDE DEF o1, o2, o3, x, y, z
  <2>9. QED
    BY ONLY <2>5, <2>6, <2>7, <2>8
<1> HIDE DEF P, Q, N
<1>6. x \in 1 .. Len(FlattenSeq(P)) /\ FlattenSeq(P)[x] = P[k][j]
  <2>1. k \in 1 .. Len(P) /\ j \in 1 .. Len(P[k])
    BY <1>3
  <2>2. QED
    BY ONLY <1>3, <2>1, Elements
<1> HIDE DEF x
<1>7. y \in 1 .. Len(FlattenSeq(Q)) /\ FlattenSeq(Q)[y] = Q[b][x]
  <2>1. b \in 1 .. Len(Q) /\ x \in 1 .. Len(Q[b])
    BY <1>2, <1>4, <1>6
  <2>2. QED
    BY ONLY <1>2, <2>1, Elements
<1> HIDE DEF y
<1>8. z \in 1 .. Len(FlattenSeq(N)) /\ FlattenSeq(N)[z] = N[f][y]
  <2>1. f \in 1 .. Len(N) /\ y \in 1 .. Len(N[f])
    BY <1>1, <1>4, <1>7
  <2>2. QED
    BY ONLY <1>1, <2>1, Elements
<1> HIDE DEF z
<1>9. QED
  <2>1. Len(N[f]) = Len(FlattenSeq(Q))
    BY <1>4
  <2>2. QED
    BY <1>3, <1>4, <1>5, <1>6, <1>7, <1>8, <2>1 DEF N

\* The instruction behind one, the next block and the next function.
LEMMA NextWord ==
  ASSUME NEW I, NEW J, Expands(I, J), NEW p \in Seq(Seq(Seq(I))),
         NEW f \in 1 .. Len(p), NEW b \in 1 .. Len(p[f]), NEW k \in 1 .. Kept(p, f, b)
  PROVE  Before(p, f, b, k + 1)
           = Before(p, f, b, k) + (IF hasDelaySlot(p[f][b][k].op) THEN 2 ELSE 1)
<1> DEFINE P == Pieces(p, f, b)
<1>1. p[f][b][k] \in I /\ P[k] = Piece(p[f][b][k])
  BY PieceAt
<1>2. Len(P[k]) = IF hasDelaySlot(p[f][b][k].op) THEN 2 ELSE 1
  BY <1>1, PieceType
<1>3. P \in Seq(Seq(J)) /\ k \in 1 .. Len(P) /\ k \in 1 .. Kept(p, f, b) + 1
  BY PiecesType, PieceAt
<1>4. /\ Offset(P, k) = Offset(P, k - 1) + Len(P[k])
      /\ Offset(P, k - 1) \in Nat /\ Len(P[k]) \in Nat
  <2> HIDE DEF P
  <2>1. QED
    BY ONLY <1>3, OffsetStep
<1>5. Offset(Fns(p), f - 1) \in Nat /\ Offset(Blocks(p, f), b - 1) \in Nat
  BY <1>3, WithinType
<1>6. k + 1 - 1 = k
  BY PieceAt
<1> DEFINE w == Len(P[k])
<1>7. Within(p, f, b, k + 1) = Within(p, f, b, k) + w
  <2> DEFINE x == Offset(Blocks(p, f), b - 1)
             y == Offset(P, k)
             z == Offset(P, k - 1)
  <2>1. Within(p, f, b, k + 1) = x + y
    BY <1>6 DEF Within
  <2>2. Within(p, f, b, k) = x + z
    BY DEF Within
  <2>3. y = z + w /\ x \in Nat /\ z \in Nat /\ w \in Nat
    BY <1>4, <1>5
  <2> HIDE DEF P, x, y, z, w
  <2>4. QED
    BY ONLY <2>1, <2>2, <2>3
<1>8. Within(p, f, b, k) \in Nat
  BY <1>3, WithinType
<1> HIDE DEF P
<1>9. w \in Nat
  BY <1>4
<1> HIDE DEF w
<1>10. Before(p, f, b, k + 1) = Before(p, f, b, k) + w
  BY <1>5, <1>7, <1>8, <1>9 DEF Before
<1>11. QED
  BY <1>2, <1>10 DEF w

\* The end of a block is where the next one begins.
LEMMA NextBlock ==
  ASSUME NEW I, NEW J, Expands(I, J), NEW p \in Seq(Seq(Seq(I))),
         NEW f \in 1 .. Len(p), NEW b \in 1 .. Len(p[f]), b < Len(p[f])
  PROVE  Before(p, f, b, Kept(p, f, b) + 1) = Before(p, f, b + 1, 1)
<1> DEFINE K == Kept(p, f, b)
           P == Pieces(p, f, b)
           Q == Blocks(p, f)
<1>1. P \in Seq(Seq(J)) /\ Len(P) = K
  BY PiecesType
<1>2. Q \in Seq(Seq(J)) /\ Len(Q) = Len(p[f]) /\ Q[b] = FlattenSeq(P)
  BY BlocksType DEF Blocks
<1>3. K \in Nat
  BY <1>1
<1>4. Offset(Q, b) = Offset(Q, b - 1) + Len(Q[b]) /\ Offset(Q, b - 1) \in Nat
  <2>1. Q \in Seq(Seq(J)) /\ b \in 1 .. Len(Q)
    BY <1>2
  <2> HIDE DEF Q
  <2>2. QED
    BY ONLY <2>1, OffsetStep
<1>5. Len(FlattenSeq(P)) = Offset(P, K) /\ Offset(P, K) \in Nat
  <2>1. K \in 0 .. Len(P)
    BY <1>1, <1>3
  <2>2. QED
    BY <1>1, <2>1, Offsets
<1>6. Offset(Pieces(p, f, b + 1), 0) = 0
  <2>1. b + 1 \in 1 .. Len(p[f])
    OBVIOUS
  <2>2. Pieces(p, f, b + 1) \in Seq(Seq(J))
    BY <2>1, PiecesType
  <2>3. QED
    BY <2>2, Offsets
<1>7. K + 1 - 1 = K /\ b + 1 - 1 = b /\ 1 - 1 = 0
  BY <1>3
<1> HIDE DEF K, P, Q
<1>8. Within(p, f, b, K + 1) = Offset(Q, b - 1) + Offset(P, K)
  <2> DEFINE e == K + 1
  <2>1. e - 1 = K
    BY ONLY <1>3
  <2> HIDE DEF e
  <2>2. Within(p, f, b, e) = Offset(Q, b - 1) + Offset(P, e - 1)
    BY DEF Within, P, Q
  <2>3. QED
    BY <2>1, <2>2 DEF e
<1>9. Within(p, f, b + 1, 1) = Offset(Q, b)
  <2>1. Within(p, f, b + 1, 1) = Offset(Q, b + 1 - 1) + Offset(Pieces(p, f, b + 1), 1 - 1)
    BY DEF Within, Q
  <2>2. Len(Q[b]) \in Nat
    BY <1>2, <1>5
  <2>3. QED
    BY <1>4, <1>6, <1>7, <2>1, <2>2
<1>10. Within(p, f, b, K + 1) = Within(p, f, b + 1, 1)
  BY <1>2, <1>4, <1>5, <1>8, <1>9
<1>11. QED
  BY <1>10 DEF Before, K

-----------------------------------------------------------------------------
(* The image of a program and the positions its words come from. *)

TaggedInstr == [op : Op \cup {"RetLR", "TAILCALL"}, a : RegNum, b : RegNum, c : RegNum,
                cx : Int, pos : Nat \X Nat \X Nat]

\* Machine instructions become machine instructions.
LEMMA MachineExpands == Expands(MachineInstr, MachineInstr)
<1>1. Nop \in MachineInstr
  BY DEF Nop, MachineInstr, Op, NopOp, RegNum
<1>2. ASSUME NEW i \in MachineInstr
      PROVE  /\ ExpandRet(i) \in MachineInstr
             /\ ExpandRet(i).op = (IF i.op = "RetLR" THEN "RET" ELSE i.op)
             /\ ExpandRet(i).cx = i.cx
  <2>1. CASE i.op = "RetLR"
    <3>1. ExpandRet(i) = [i EXCEPT !.op = "RET", !.a = LR]
      BY <2>1 DEF ExpandRet
    <3>2. "RET" \in Op /\ LR \in RegNum
      BY DEF Op, LR, RegNum
    <3>3. QED
      BY <2>1, <3>1, <3>2 DEF MachineInstr
  <2>2. CASE i.op # "RetLR"
    BY <2>2 DEF ExpandRet
  <2>3. QED
    BY <2>1, <2>2
<1>3. QED
  BY <1>1, <1>2 DEF Expands

\* Tagged ones become tagged ones and NOPs.
LEMMA TaggedExpands == Expands(TaggedInstr, TaggedInstr \cup {Nop})
<1>1. ASSUME NEW i \in TaggedInstr
      PROVE  /\ ExpandRet(i) \in TaggedInstr
             /\ ExpandRet(i).op = (IF i.op = "RetLR" THEN "RET" ELSE i.op)
             /\ ExpandRet(i).cx = i.cx
  <2>1. CASE i.op = "RetLR"
    <3>1. ExpandRet(i) = [i EXCEPT !.op = "RET", !.a = LR]
      BY <2>1 DEF ExpandRet
    <3>2. "RET" \in Op /\ LR \in RegNum
      BY DEF Op, LR, RegNum
    <3>3. QED
      BY <2>1, <3>1, <3>2 DEF TaggedInstr
  <2>2. CASE i.op # "RetLR"
    BY <2>2 DEF ExpandRet
  <2>3. QED
    BY <2>1, <2>2
<1>2. QED
  BY <1>1 DEF Expands

\* Tagging changes nothing else.
LEMMA TaggedProgram ==
  ASSUME NEW p \in Seq(Seq(Seq(MachineInstr)))
  PROVE  /\ Tagged(p) \in Seq(Seq(Seq(TaggedInstr)))
         /\ Len(Tagged(p)) = Len(p)
<1> DEFINE t == Tagged(p)
<1>1. DOMAIN p = 1 .. Len(p) /\ Len(p) \in Nat
  OBVIOUS
<1>2. ASSUME NEW f \in 1 .. Len(p) PROVE t[f] \in Seq(Seq(TaggedInstr))
  <2>1. p[f] \in Seq(Seq(MachineInstr)) /\ DOMAIN p[f] = 1 .. Len(p[f]) /\ Len(p[f]) \in Nat
    OBVIOUS
  <2>2. t[f] = [b \in 1 .. Len(p[f]) |-> [k \in DOMAIN p[f][b] |-> Tag(p[f][b][k], <<f, b, k>>)]]
    BY <1>1, <2>1 DEF Tagged
  <2>3. ASSUME NEW b \in 1 .. Len(p[f]) PROVE t[f][b] \in Seq(TaggedInstr)
    <3>1. p[f][b] \in Seq(MachineInstr)
      BY <2>1
    <3>2. DOMAIN p[f][b] = 1 .. Len(p[f][b]) /\ Len(p[f][b]) \in Nat
      BY <3>1
    <3>3. t[f][b] = [k \in 1 .. Len(p[f][b]) |-> Tag(p[f][b][k], <<f, b, k>>)]
      BY <2>2, <3>2
    <3>4. ASSUME NEW k \in 1 .. Len(p[f][b])
          PROVE  Tag(p[f][b][k], <<f, b, k>>) \in TaggedInstr
      <4>1. p[f][b][k] \in MachineInstr
        BY <3>1
      <4>2. <<f, b, k>> \in Nat \X Nat \X Nat
        BY <1>1, <2>1, <3>2
      <4>3. QED
        BY <4>1, <4>2 DEF Tag, TaggedInstr, MachineInstr
    <3> HIDE DEF t
    <3>5. t[f][b] \in [1 .. Len(p[f][b]) -> TaggedInstr]
      BY <3>3, <3>4
    <3>6. QED
      BY <3>2, <3>5, FunctionSeq
  <2>4. t[f] \in [1 .. Len(p[f]) -> Seq(TaggedInstr)]
    <3>1. t[f] = [b \in 1 .. Len(p[f]) |-> t[f][b]]
      BY <2>2
    <3> HIDE DEF t
    <3>2. QED
      BY <2>3, <3>1
  <2>5. QED
    BY <2>1, <2>4, FunctionSeq
<1>3. t \in [1 .. Len(p) -> Seq(Seq(TaggedInstr))]
  <2>1. t = [f \in 1 .. Len(p) |-> t[f]]
    BY <1>1 DEF Tagged
  <2> HIDE DEF t
  <2>2. QED
    BY <1>2, <2>1
<1>4. QED
  BY <1>1, <1>3, FunctionSeq

\* ... block by block.
LEMMA TaggedBlock ==
  ASSUME NEW p \in Seq(Seq(Seq(MachineInstr))), NEW f \in 1 .. Len(p), NEW b \in 1 .. Len(p[f])
  PROVE  /\ Len(Tagged(p)[f]) = Len(p[f])
         /\ Len(Tagged(p)[f][b]) = Len(p[f][b])
         /\ \A k \in 1 .. Len(p[f][b]) : Tagged(p)[f][b][k] = Tag(p[f][b][k], <<f, b, k>>)
<1>1. DOMAIN p = 1 .. Len(p) /\ DOMAIN p[f] = 1 .. Len(p[f]) /\ Len(p[f]) \in Nat
  OBVIOUS
<1>2. p[f] \in Seq(Seq(MachineInstr))
  OBVIOUS
<1>3. p[f][b] \in Seq(MachineInstr)
  BY <1>2
<1>4. DOMAIN p[f][b] = 1 .. Len(p[f][b]) /\ Len(p[f][b]) \in Nat
  BY <1>3
<1>5. Tagged(p)[f] = [c \in 1 .. Len(p[f]) |->
        [k \in DOMAIN p[f][c] |-> Tag(p[f][c][k], <<f, c, k>>)]]
  BY <1>1 DEF Tagged
<1>6. Tagged(p)[f][b] = [k \in 1 .. Len(p[f][b]) |-> Tag(p[f][b][k], <<f, b, k>>)]
  BY <1>4, <1>5
<1>7. QED
  BY <1>1, <1>4, <1>5, <1>6

\* Tagged or not, a program is laid out in the same way.
LEMMA TaggedKept ==
  ASSUME NEW p \in Seq(Seq(Seq(MachineInstr))), NEW f \in 1 .. Len(p), NEW b \in 1 .. Len(p[f])
  PROVE  Kept(Tagged(p), f, b) = Kept(p, f, b)
<1> DEFINE t == Tagged(p)
           n == Len(p[f][b])
<1>1. /\ Len(t[f]) = Len(p[f]) /\ Len(t[f][b]) = n
      /\ \A k \in 1 .. n : t[f][b][k] = Tag(p[f][b][k], <<f, b, k>>)
  BY TaggedBlock
<1>2. t[f][b] \in Seq(TaggedInstr) /\ p[f][b] \in Seq(MachineInstr)
  <2>1. t \in Seq(Seq(Seq(TaggedInstr))) /\ Len(t) = Len(p)
    BY TaggedProgram
  <2>2. p[f] \in Seq(Seq(MachineInstr))
    OBVIOUS
  <2> HIDE DEF t
  <2>3. t[f] \in Seq(Seq(TaggedInstr)) /\ b \in 1 .. Len(t[f])
    BY <1>1, <2>1
  <2>4. t[f][b] \in Seq(TaggedInstr)
    BY ONLY <2>3
  <2>5. p[f][b] \in Seq(MachineInstr)
    BY <2>2
  <2>6. QED
    BY <2>4, <2>5
<1> HIDE DEF t
<1>3. t[f][b] = <<>> <=> p[f][b] = <<>>
  BY <1>1, <1>2
<1>4. ASSUME p[f][b] # <<>>
      PROVE  Last(t[f][b]).op = Last(p[f][b]).op /\ Last(t[f][b]).cx = Last(p[f][b]).cx
  <2>1. n \in 1 .. n
    BY <1>2, <1>4
  <2>2. Last(t[f][b]) = Tag(p[f][b][n], <<f, b, n>>) /\ Last(p[f][b]) = p[f][b][n]
    BY <1>1, <2>1 DEF Last
  <2>3. QED
    BY <2>2 DEF Tag
<1>5. EndsUseless(t[f], b) <=> EndsUseless(p[f], b)
  BY <1>1, <1>3, <1>4 DEF EndsUseless
<1>6. QED
  BY <1>1, <1>5 DEF Kept, t

\* ... so that instructions are at the same offset of their block
LEMMA TaggedPieces ==
  ASSUME NEW p \in Seq(Seq(Seq(MachineInstr))), NEW f \in 1 .. Len(p), NEW b \in 1 .. Len(p[f])
  PROVE  /\ \A k \in 0 .. Kept(p, f, b) :
              Offset(Pieces(Tagged(p), f, b), k) = Offset(Pieces(p, f, b), k)
         /\ Len(FlattenSeq(Pieces(Tagged(p), f, b))) = Len(FlattenSeq(Pieces(p, f, b)))
<1> DEFINE t == Tagged(p)
           S == Pieces(p, f, b)
           U == Pieces(t, f, b)
<1>1. t \in Seq(Seq(Seq(TaggedInstr))) /\ f \in 1 .. Len(t) /\ b \in 1 .. Len(t[f])
  BY TaggedProgram, TaggedBlock
<1>2. Kept(t, f, b) = Kept(p, f, b)
  BY TaggedKept
<1>3. S \in Seq(Seq(MachineInstr)) /\ Len(S) = Kept(p, f, b)
  BY MachineExpands, PiecesType
<1> HIDE DEF t
<1>4. U \in Seq(Seq(TaggedInstr \cup {Nop})) /\ Len(U) = Kept(p, f, b)
  BY <1>1, <1>2, TaggedExpands, PiecesType
<1>5. ASSUME NEW k \in 1 .. Kept(p, f, b) PROVE Len(S[k]) = Len(U[k])
  <2>1. p[f][b][k] \in MachineInstr /\ S[k] = Piece(p[f][b][k])
    BY MachineExpands, PieceAt
  <2>2. k \in 1 .. Kept(t, f, b)
    BY <1>2
  <2>3. t[f][b][k] \in TaggedInstr /\ Pieces(t, f, b)[k] = Piece(t[f][b][k])
    BY ONLY <1>1, <2>2, TaggedExpands, PieceAt, SMTT(30)
  <2>4. t[f][b][k] = Tag(p[f][b][k], <<f, b, k>>)
    <3>1. k \in 1 .. Len(p[f][b])
      BY KeptType
    <3>2. QED
      BY <3>1, TaggedBlock DEF t
  <2>5. t[f][b][k].op = p[f][b][k].op
    BY <2>4 DEF Tag
  <2>6. Len(S[k]) = (IF hasDelaySlot(p[f][b][k].op) THEN 2 ELSE 1)
    BY <2>1, MachineExpands, PieceType
  <2>7. Len(U[k]) = (IF hasDelaySlot(t[f][b][k].op) THEN 2 ELSE 1)
    BY <2>3, TaggedExpands, PieceType
  <2>8. QED
    BY <2>5, <2>6, <2>7
<1> HIDE DEF S, U
<1>6. Len(S) = Len(U) /\ \A k \in 1 .. Len(S) : Len(S[k]) = Len(U[k])
  BY <1>3, <1>4, <1>5
<1>7. /\ (\A k \in 0 .. Len(S) : Offset(S, k) = Offset(U, k))
      /\ Len(FlattenSeq(S)) = Len(FlattenSeq(U))
  BY ONLY <1>3, <1>4, <1>6, OffsetsSame
<1>8. QED
  BY <1>3, <1>7 DEF S, U, t

\* ... blocks at the same offset of their function
LEMMA TaggedBlocks ==
  ASSUME NEW p \in Seq(Seq(Seq(MachineInstr))), NEW f \in 1 .. Len(p)
  PROVE  /\ \A b \in 0 .. Len(p[f]) :
              Offset(Blocks(Tagged(p), f), b) = Offset(Blocks(p, f), b)
         /\ Len(FlattenSeq(Blocks(Tagged(p), f))) = Len(FlattenSeq(Blocks(p, f)))
<1> DEFINE t == Tagged(p)
           S == Blocks(p, f)
           U == Blocks(t, f)
<1>1. t \in Seq(Seq(Seq(TaggedInstr))) /\ f \in 1 .. Len(t)
  BY TaggedProgram
<1>2. Len(t[f]) = Len(p[f])
  <2>1. p[f] \in Seq(Seq(MachineInstr)) /\ DOMAIN p = 1 .. Len(p) /\ DOMAIN p[f] = 1 .. Len(p[f])
    OBVIOUS
  <2>2. Len(p[f]) \in Nat
    BY <2>1
  <2>3. DOMAIN t[f] = 1 .. Len(p[f])
    BY <2>1 DEF Tagged
  <2>4. t[f] \in Seq(Seq(TaggedInstr))
    <3> HIDE DEF t
    <3>1. QED
      BY <1>1
  <2>5. QED
    BY <2>2, <2>3, <2>4
<1>3. S \in Seq(Seq(MachineInstr)) /\ Len(S) = Len(p[f])
  BY MachineExpands, BlocksType
<1>4. \A b \in 1 .. Len(p[f]) :
        Len(FlattenSeq(Pieces(t, f, b))) = Len(FlattenSeq(Pieces(p, f, b)))
  BY TaggedPieces
<1> HIDE DEF t
<1>5. U \in Seq(Seq(TaggedInstr \cup {Nop})) /\ Len(U) = Len(p[f])
  BY <1>1, <1>2, TaggedExpands, BlocksType
<1>6. \A b \in 1 .. Len(p[f]) : Len(S[b]) = Len(U[b])
  BY <1>2, <1>4 DEF Blocks
<1> HIDE DEF S, U
<1>7. Len(S) = Len(U) /\ \A b \in 1 .. Len(S) : Len(S[b]) = Len(U[b])
  BY <1>3, <1>5, <1>6
<1>8. /\ (\A b \in 0 .. Len(S) : Offset(S, b) = Offset(U, b))
      /\ Len(FlattenSeq(S)) = Len(FlattenSeq(U))
  BY ONLY <1>3, <1>5, <1>7, OffsetsSame
<1>9. QED
  BY <1>3, <1>8 DEF S, U, t

\* ... and functions at the same offset of the program.
LEMMA TaggedFns ==
  ASSUME NEW p \in Seq(Seq(Seq(MachineInstr)))
  PROVE  /\ \A f \in 0 .. Len(p) : Offset(Fns(Tagged(p)), f) = Offset(Fns(p), f)
         /\ Len(FlattenSeq(Fns(Tagged(p)))) = Len(FlattenSeq(Fns(p)))
<1> DEFINE t == Tagged(p)
           S == Fns(p)
           U == Fns(t)
<1>1. t \in Seq(Seq(Seq(TaggedInstr))) /\ Len(t) = Len(p)
  BY TaggedProgram
<1>2. S \in Seq(Seq(MachineInstr)) /\ Len(S) = Len(p)
  BY MachineExpands, FnsType
<1>3. \A f \in 1 .. Len(p) : Len(FlattenSeq(Blocks(t, f))) = Len(FlattenSeq(Blocks(p, f)))
  BY TaggedBlocks
<1> HIDE DEF t
<1>4. U \in Seq(Seq(TaggedInstr \cup {Nop})) /\ Len(U) = Len(p)
  BY <1>1, TaggedExpands, FnsType
<1>5. \A f \in 1 .. Len(p) : Len(S[f]) = Len(U[f])
  BY <1>1, <1>3 DEF Fns
<1> HIDE DEF S, U
<1>6. Len(S) = Len(U) /\ \A f \in 1 .. Len(S) : Len(S[f]) = Len(U[f])
  BY <1>2, <1>4, <1>5
<1>7. /\ (\A f \in 0 .. Len(S) : Offset(S, f) = Offset(U, f))
      /\ Len(FlattenSeq(S)) = Len(FlattenSeq(U))
  BY ONLY <1>2, <1>4, <1>6, OffsetsSame
<1>8. QED
  BY <1>2, <1>7 DEF S, U, t

\* Tags move no instruction.
LEMMA TaggedBefore ==
  ASSUME NEW p \in Seq(Seq(Seq(MachineInstr))), NEW f \in 1 .. Len(p), NEW b \in 1 .. Len(p[f]),
         NEW k \in 1 .. Kept(p, f, b)
  PROVE  Before(Tagged(p), f, b, k) = Before(p, f, b, k)
<1>1. f - 1 \in 0 .. Len(p)
  OBVIOUS
<1>2. p[f] \in Seq(Seq(MachineInstr))
  OBVIOUS
<1>3. b - 1 \in 0 .. Len(p[f])
  BY <1>2
<1>4. Kept(p, f, b) \in Nat
  BY MachineExpands, PieceAt
<1>5. k - 1 \in 0 .. Kept(p, f, b)
  BY <1>4
<1>6. Offset(Fns(Tagged(p)), f - 1) = Offset(Fns(p), f - 1)
  BY <1>1, TaggedFns
<1>7. Offset(Blocks(Tagged(p), f), b - 1) = Offset(Blocks(p, f), b - 1)
  BY <1>3, TaggedBlocks
<1>8. Offset(Pieces(Tagged(p), f, b), k - 1) = Offset(Pieces(p, f, b), k - 1)
  BY <1>5, TaggedPieces
<1>9. QED
  BY <1>6, <1>7, <1>8 DEF Before, Within

\* The words of an instruction come from its position, the nop from none.
LEMMA OriginAt ==
  ASSUME NEW p \in Seq(Seq(Seq(MachineInstr))), NEW f \in 1 .. Len(p), NEW b \in 1 .. Len(p[f]),
         NEW k \in 1 .. Kept(p, f, b)
  PROVE  LET x == Before(p, f, b, k)
         IN  /\ x + 1 \in DOMAIN Origin(p)
             /\ Origin(p)[x + 1] = <<f, b, k>>
             /\ hasDelaySlot(p[f][b][k].op) =>
                  x + 2 \in DOMAIN Origin(p) /\ Origin(p)[x + 2] = NoPos
<1> DEFINE t == Tagged(p)
           q == Code(PreEmit(t))
           x == Before(p, f, b, k)
           i == t[f][b][k]
           J == TaggedInstr \cup {Nop}
<1>1. t \in Seq(Seq(Seq(TaggedInstr))) /\ f \in 1 .. Len(t) /\ b \in 1 .. Len(t[f])
  BY TaggedProgram, TaggedBlock
<1>2. k \in 1 .. Kept(t, f, b) /\ Before(t, f, b, k) = x
  BY TaggedKept, TaggedBefore
<1>3. i = Tag(p[f][b][k], <<f, b, k>>)
  <2>1. k \in 1 .. Len(p[f][b])
    BY KeptType
  <2>2. QED
    BY <2>1, TaggedBlock
<1> HIDE DEF t
<1>4. q = FlattenSeq(Fns(t))
  BY <1>1, TaggedExpands, PreEmitProgram
<1>5. FlattenSeq(Fns(t)) \in Seq(J)
  <2>1. Fns(t) \in Seq(Seq(J))
    BY <1>1, TaggedExpands, FnsType
  <2>2. QED
    BY <2>1, Offsets
<1>6. DOMAIN q = 1 .. Len(q)
  BY <1>4, <1>5
<1>7. i \in TaggedInstr
  BY <1>1, <1>2, TaggedExpands, PieceAt
<1>8. ASSUME NEW j \in 1 .. Len(Piece(i))
      PROVE  x + j \in DOMAIN q /\ q[x + j] = Piece(i)[j]
  <2>1. /\ Before(t, f, b, k) + j \in 1 .. Len(FlattenSeq(Fns(t)))
        /\ FlattenSeq(Fns(t))[Before(t, f, b, k) + j] = Piece(t[f][b][k])[j]
    <3>1. j \in 1 .. Len(Piece(t[f][b][k])) /\ k \in 1 .. Kept(t, f, b)
      BY <1>2
    <3> HIDE DEF i, x, q
    <3>2. QED
      BY ONLY <1>1, <3>1, TaggedExpands, Words
  <2> HIDE DEF q, J
  <2>2. QED
    BY <1>2, <1>4, <1>6, <2>1
<1>9. Origin(p) = [e \in DOMAIN q |-> IF q[e] = Nop THEN NoPos ELSE q[e].pos]
  BY DEF Origin, t
<1> HIDE DEF q, x, i, J
<1>10. 1 \in 1 .. Len(Piece(i)) /\ Piece(i)[1] = ExpandRet(i)
  BY <1>7, TaggedExpands, PieceType DEF Piece
<1>11. ExpandRet(i) # Nop /\ ExpandRet(i).pos = <<f, b, k>>
  <2>1. i = [op |-> p[f][b][k].op, a |-> p[f][b][k].a, b |-> p[f][b][k].b,
             c |-> p[f][b][k].c, cx |-> p[f][b][k].cx, pos |-> <<f, b, k>>]
    BY <1>3 DEF Tag
  <2>2. DOMAIN ExpandRet(i) = DOMAIN i /\ ExpandRet(i).pos = i.pos
    BY <2>1 DEF ExpandRet
  <2>3. "pos" \in DOMAIN i /\ i.pos = <<f, b, k>>
    BY <2>1
  <2>4. "pos" \notin DOMAIN Nop
    BY DEF Nop
  <2>5. QED
    BY <2>2, <2>3, <2>4
<1>12. x + 1 \in DOMAIN Origin(p) /\ Origin(p)[x + 1] = <<f, b, k>>
  BY <1>8, <1>9, <1>10, <1>11
<1>13. ASSUME hasDelaySlot(p[f][b][k].op)
       PROVE  x + 2 \in DOMAIN Origin(p) /\ Origin(p)[x + 2] = NoPos
  <2>1. hasDelaySlot(i.op)
    BY <1>3, <1>13 DEF Tag
  <2>2. 2 \in 1 .. Len(Piece(i)) /\ Piece(i)[2] = Nop
    BY <2>1, <1>7, TaggedExpands, PieceType DEF Piece
  <2>3. QED
    BY <1>8, <1>9, <2>2
<1>14. QED
  BY <1>12, <1>13 DEF x

\* The address of a block.
LEMMA BlockAt ==
  ASSUME NEW p \in Seq(Seq(Seq(MachineInstr))), NEW f \in 1 .. Len(p), NEW b \in 1 .. Len(p[f])
  PROVE  BlockAddress(PreEmit(p), f, b) = Addr(p, f, b, 1)
<1> DEFINE q == PreEmit(p)
           N == Fns(p)
           s == SubSeq(q, 1, f - 1)
<1>1. q = [g \in 1 .. Len(p) |-> Blocks(p, g)]
  BY MachineExpands, PreEmitProgram
<1>2. N \in Seq(Seq(MachineInstr)) /\ Len(N) = Len(p) /\ Len(p) \in Nat
  BY MachineExpands, FnsType
<1>3. q \in Seq(Seq(Seq(MachineInstr))) /\ Len(q) = Len(p)
  <2>1. \A g \in 1 .. Len(p) : Blocks(p, g) \in Seq(Seq(MachineInstr))
    BY MachineExpands, BlocksType
  <2> HIDE DEF q
  <2>2. q \in [1 .. Len(p) -> Seq(Seq(MachineInstr))]
    BY <1>1, <2>1
  <2>3. QED
    BY <1>2, <2>2, FunctionSeq
<1> HIDE DEF q
<1>4. DOMAIN s = 1 .. f - 1 /\ \A g \in 1 .. f - 1 : s[g] = Blocks(p, g)
  BY <1>1, <1>3
<1>5. [g \in DOMAIN s |-> FlattenSeq(s[g])] = [g \in 1 .. f - 1 |-> N[g]]
  <2>1. \A g \in 1 .. f - 1 : N[g] = FlattenSeq(Blocks(p, g))
    BY DEF Fns
  <2> HIDE DEF s, N
  <2>2. QED
    BY <1>4, <2>1
<1>6. SubSeq(N, 1, f - 1) = [g \in 1 .. f - 1 |-> N[g]]
  <2> HIDE DEF N
  <2>1. QED
    BY <1>2
<1>7. Len(Code(s)) = Offset(N, f - 1)
  BY <1>5, <1>6 DEF Code, Offset
<1>8. q[f] = Blocks(p, f)
  BY <1>1
<1>9. Offset(Pieces(p, f, b), 0) = 0
  <2>1. Pieces(p, f, b) \in Seq(Seq(MachineInstr))
    BY MachineExpands, PiecesType
  <2>2. QED
    BY <2>1, Offsets
<1>10. Offset(N, f - 1) \in Nat /\ Offset(Blocks(p, f), b - 1) \in Nat
  <2>1. Kept(p, f, b) \in Nat
    <3>1. Pieces(p, f, b) \in Seq(Seq(MachineInstr)) /\ Len(Pieces(p, f, b)) = Kept(p, f, b)
      BY MachineExpands, PiecesType
    <3>2. QED
      BY <3>1
  <2>2. 1 \in 1 .. Kept(p, f, b) + 1
    BY <2>1
  <2>3. QED
    BY <2>2, MachineExpands, WithinType
<1>11. BlockAddress(q, f, b) = 4 * (Offset(N, f - 1) + Offset(Blocks(p, f), b - 1))
  BY <1>7, <1>8 DEF BlockAddress, Offset
<1>12. Within(p, f, b, 1) = Offset(Blocks(p, f), b - 1)
  <2>1. Within(p, f, b, 1) = Offset(Blocks(p, f), b - 1) + Offset(Pieces(p, f, b), 1 - 1)
    BY DEF Within
  <2>2. 1 - 1 = 0
    OBVIOUS
  <2>3. QED
    BY <1>9, <1>10, <2>1, <2>2
<1>13. QED
  BY <1>11, <1>12 DEF Addr, Before, q

\* The words of an instruction in the image.
LEMMA LoweredAt ==
  ASSUME NEW p \in Seq(Seq(Seq(MachineInstr))), NEW f \in 1 .. Len(p), NEW b \in 1 .. Len(p[f]),
         NEW k \in 1 .. Kept(p, f, b)
  PROVE  LET x == Before(p, f, b, k)
             q == PreEmit(p)
         IN  /\ x + 1 \in DOMAIN Lowered(p) /\ x + 1 <= Len(Lowered(p)) /\ Len(Lowered(p)) \in Nat
             /\ Lowered(p)[x + 1] = Emitted(q, f, ExpandRet(p[f][b][k]), 4 * x)
             /\ hasDelaySlot(p[f][b][k].op) =>
                  x + 2 \in DOMAIN Lowered(p) /\ x + 2 <= Len(Lowered(p)) /\ Lowered(p)[x + 2] = Nop
<1> DEFINE q == PreEmit(p)
           N == Fns(p)
           i == p[f][b][k]
           x == Before(p, f, b, k)
           w == Within(p, f, b, k)
           Em(g) == [e \in 1 .. Len(N[g]) |->
                      Emitted(q, g, N[g][e], BlockAddress(q, g, 1) + 4 * (e - 1))]
           E == [g \in 1 .. Len(p) |-> Em(g)]
           T == UNION {{Em(g)[e] : e \in 1 .. Len(N[g])} : g \in 1 .. Len(p)}
<1>1. q = [g \in 1 .. Len(p) |-> Blocks(p, g)]
  BY MachineExpands, PreEmitProgram
<1>2. N \in Seq(Seq(MachineInstr)) /\ Len(N) = Len(p) /\ Len(p) \in Nat
  BY MachineExpands, FnsType
<1>3. \A g \in 1 .. Len(p) : N[g] = FlattenSeq(q[g]) /\ N[g] \in Seq(MachineInstr)
  <2>1. \A g \in 1 .. Len(p) : N[g] = FlattenSeq(q[g])
    BY <1>1 DEF Fns
  <2> HIDE DEF N, q
  <2>2. QED
    BY <1>2, <2>1
<1>4. Lowered(p) = FlattenSeq(E)
  <2>1. DOMAIN q = 1 .. Len(p)
    BY <1>1
  <2>2. \A g \in 1 .. Len(p) : DOMAIN N[g] = 1 .. Len(N[g])
    <3> HIDE DEF N, q
    <3>1. QED
      BY <1>3
  <2>3. Lowered(p) = FlattenSeq([g \in DOMAIN q |-> [e \in DOMAIN FlattenSeq(q[g]) |->
                       Emitted(q, g, FlattenSeq(q[g])[e], BlockAddress(q, g, 1) + 4 * (e - 1))]])
    BY DEF Lowered
  <2> HIDE DEF N, q
  <2>4. [g \in DOMAIN q |-> [e \in DOMAIN FlattenSeq(q[g]) |->
           Emitted(q, g, FlattenSeq(q[g])[e], BlockAddress(q, g, 1) + 4 * (e - 1))]] = E
    BY <1>3, <2>1, <2>2
  <2>5. QED
    BY <2>3, <2>4
<1> HIDE DEF N, q
<1>5. E \in Seq(Seq(T)) /\ Len(E) = Len(p) /\ \A g \in 1 .. Len(p) : Len(E[g]) = Len(N[g])
  <2>1. ASSUME NEW g \in 1 .. Len(p)
        PROVE  Em(g) \in Seq(T) /\ Len(Em(g)) = Len(N[g]) /\ E[g] = Em(g)
    <3>1. Len(N[g]) \in Nat
      BY <1>3
    <3>2. ASSUME NEW e \in 1 .. Len(N[g]) PROVE Em(g)[e] \in T
      <4> HIDE DEF Em
      <4>1. Em(g)[e] \in {Em(g)[d] : d \in 1 .. Len(N[g])}
        OBVIOUS
      <4>2. QED
        BY <4>1
    <3> HIDE DEF T
    <3>3. Em(g) \in [1 .. Len(N[g]) -> T]
      BY <3>2
    <3>4. E[g] = Em(g)
      OBVIOUS
    <3> HIDE DEF Em
    <3>5. QED
      BY <3>1, <3>3, <3>4, FunctionSeq
  <2>2. E \in [1 .. Len(p) -> Seq(T)]
    <3> HIDE DEF Em, T
    <3>1. QED
      BY <2>1
  <2> HIDE DEF Em, T, E
  <2>3. E \in Seq(Seq(T)) /\ Len(E) = Len(p)
    BY <1>2, <2>2, FunctionSeq
  <2>4. QED
    BY <2>1, <2>3
<1>6. ASSUME NEW e \in 1 .. Len(N[f])
      PROVE  E[f][e] = Emitted(q, f, N[f][e], BlockAddress(q, f, 1) + 4 * (e - 1))
  OBVIOUS
<1> HIDE DEF T, E, Em
<1>7. Offset(E, f - 1) = Offset(N, f - 1) /\ Offset(N, f - 1) \in Nat
  <2>1. Len(E) = Len(N) /\ \A g \in 1 .. Len(E) : Len(E[g]) = Len(N[g])
    BY <1>2, <1>5
  <2>2. \A g \in 0 .. Len(E) : Offset(E, g) = Offset(N, g)
    BY ONLY <1>2, <1>5, <2>1, OffsetsSame
  <2>3. f - 1 \in 0 .. Len(E) /\ f \in 1 .. Len(N) + 1
    BY <1>2, <1>5
  <2>4. Offset(N, f - 1) \in Nat
    BY ONLY <1>2, <2>3, OffsetNat
  <2>5. QED
    BY <2>2, <2>3, <2>4
<1>8. w \in Nat /\ x \in Nat /\ x = Offset(N, f - 1) + w
  <2>1. k \in 1 .. Kept(p, f, b) + 1
    BY MachineExpands, PieceAt
  <2>2. QED
    BY <2>1, MachineExpands, WithinType DEF Before, N
<1>9. BlockAddress(q, f, 1) = 4 * Offset(N, f - 1)
  <2>1. 1 \in 1 .. Len(p[f])
    <3>1. p[f] \in Seq(Seq(MachineInstr))
      OBVIOUS
    <3>2. QED
      BY <3>1
  <2>2. BlockAddress(q, f, 1) = Addr(p, f, 1, 1)
    BY <2>1, BlockAt DEF q
  <2>3. Offset(Blocks(p, f), 0) = 0 /\ Offset(Pieces(p, f, 1), 0) = 0
    <3>1. Blocks(p, f) \in Seq(Seq(MachineInstr)) /\ Pieces(p, f, 1) \in Seq(Seq(MachineInstr))
      BY <2>1, MachineExpands, BlocksType, PiecesType
    <3>2. QED
      BY <3>1, Offsets
  <2>4. Before(p, f, 1, 1)
          = Offset(N, f - 1) + (Offset(Blocks(p, f), 1 - 1) + Offset(Pieces(p, f, 1), 1 - 1))
    BY DEF Before, Within, N
  <2>5. 1 - 1 = 0
    OBVIOUS
  <2>6. Before(p, f, 1, 1) = Offset(N, f - 1)
    BY <1>7, <2>3, <2>4, <2>5
  <2>7. QED
    BY <2>2, <2>6 DEF Addr
<1>10. ASSUME NEW j \in 1 .. Len(Piece(i)), j \in Nat
       PROVE  /\ x + j \in 1 .. Len(Lowered(p))
              /\ Lowered(p)[x + j] = Emitted(q, f, Piece(i)[j], 4 * (x + j - 1))
  <2>1. w + j \in 1 .. Len(N[f]) /\ N[f][w + j] = Piece(i)[j]
    <3> HIDE DEF i, w, x
    <3>1. j \in 1 .. Len(Piece(p[f][b][k]))
      BY DEF i
    <3>2. /\ Within(p, f, b, k) + j \in 1 .. Len(Fns(p)[f])
          /\ Fns(p)[f][Within(p, f, b, k) + j] = Piece(p[f][b][k])[j]
      BY <3>1, MachineExpands, Words
    <3>3. QED
      BY <3>2 DEF N, w, i
  <2>2. w + j \in 1 .. Len(E[f])
    BY <1>5, <2>1
  <2>3. /\ Offset(E, f - 1) + (w + j) \in 1 .. Len(FlattenSeq(E))
        /\ FlattenSeq(E)[Offset(E, f - 1) + (w + j)] = E[f][w + j]
    <3>1. f \in 1 .. Len(E)
      BY <1>5
    <3> HIDE DEF w
    <3>2. QED
      BY ONLY <1>5, <2>2, <3>1, Elements
  <2>4. Offset(E, f - 1) + (w + j) = x + j
    BY <1>7, <1>8, <1>10
  <2> DEFINE e == w + j
             o == Offset(N, f - 1)
             a == BlockAddress(q, f, 1)
  <2>5. e \in 1 .. Len(N[f]) /\ N[f][e] = Piece(i)[j] /\ E[f][w + j] = E[f][e]
    BY <2>1
  <2>6. o \in Nat /\ a = 4 * o /\ x = o + w /\ w \in Nat /\ j \in Nat /\ e = w + j
    BY <1>7, <1>8, <1>9, <1>10
  <2> HIDE DEF e, i, w, x
  <2>7. E[f][e] = Emitted(q, f, N[f][e], a + 4 * (e - 1))
    BY <1>6, <2>5
  <2> HIDE DEF a, o
  <2>8. a + 4 * (e - 1) = 4 * (x + j - 1)
    BY ONLY <2>6
  <2>9. E[f][w + j] = Emitted(q, f, Piece(i)[j], 4 * (x + j - 1))
    BY <2>5, <2>7, <2>8
  <2>10. QED
    BY <1>4, <2>3, <2>4, <2>9
<1>11. i \in MachineInstr
  BY MachineExpands, PieceAt
<1>12. Lowered(p) \in Seq(T)
  BY <1>4, <1>5, Offsets
<1> HIDE DEF i, w, x
<1>13. DOMAIN Lowered(p) = 1 .. Len(Lowered(p)) /\ Len(Lowered(p)) \in Nat
  BY <1>12
<1>14. 1 \in 1 .. Len(Piece(i)) /\ Piece(i)[1] = ExpandRet(i) /\ x + 1 - 1 = x
  BY <1>8, <1>11, MachineExpands, PieceType DEF Piece
<1>15. /\ x + 1 \in DOMAIN Lowered(p) /\ x + 1 <= Len(Lowered(p))
       /\ Lowered(p)[x + 1] = Emitted(q, f, ExpandRet(i), 4 * x)
  BY <1>10, <1>13, <1>14
<1>16. ASSUME hasDelaySlot(i.op)
       PROVE  x + 2 \in DOMAIN Lowered(p) /\ x + 2 <= Len(Lowered(p)) /\ Lowered(p)[x + 2] = Nop
  <2>1. 2 \in 1 .. Len(Piece(i)) /\ Piece(i)[2] = Nop
    BY <1>11, <1>16, MachineExpands, PieceType DEF Piece
  <2>2. \A y : Emitted(q, f, Nop, y) = Nop
    BY DEF Emitted, Nop, PC16, PC24
  <2>3. QED
    BY <1>10, <1>13, <2>1, <2>2
<1>17. QED
  BY <1>13, <1>15, <1>16 DEF i, x, q

-----------------------------------------------------------------------------
(* Compiled programs. *)

\* What the assumptions say of one of them.
LEMMA ProgramFacts ==
  ASSUME NEW c \in Programs
  PROVE  /\ c.mir \in MirPrograms
         /\ c.image = Lowered(c.mir) /\ c.origin = Origin(c.mir)
         /\ c.mir \in Seq(Seq(Seq(MachineInstr)))
         /\ WellFormed(c.mir) /\ InReach(c.mir)
         /\ 4 * Len(Lowered(c.mir)) < Half
<1>1. PICK p \in MirPrograms : c = Compiled(p)
  BY CompiledAssumption
<1>2. c.mir = p /\ c.image = Lowered(p) /\ c.origin = Origin(p)
  BY <1>1 DEF Compiled
<1>3. WellFormed(p) /\ InReach(p) /\ 4 * Len(Lowered(p)) < Half
  BY MirAssumption
<1>4. p \in Seq(Seq(Seq(MachineInstr)))
  BY <1>3 DEF WellFormed
<1>5. QED
  BY <1>2, <1>3, <1>4

\* What is at address x of the image of c, if an instruction that is left is.
Placed(c, p, f, b, k, x) ==
  /\ x \in Nat /\ x + 4 < Half
  /\ PosOf(c, x) = <<f, b, k>>
  /\ Fetched(c, x) = Emitted(PreEmit(p), f, ExpandRet(p[f][b][k]), x)
  /\ hasDelaySlot(p[f][b][k].op) =>
       /\ x + 8 < Half
       /\ PosOf(c, x + 4) = NoPos
       /\ Fetched(c, x + 4) = Nop

\* An instruction that is left is at its address.
LEMMA AtAddr ==
  ASSUME NEW c \in Programs, NEW p, p = c.mir,
         NEW f \in 1 .. Len(p), NEW b \in 1 .. Len(p[f]), NEW k \in 1 .. Kept(p, f, b)
  PROVE  Placed(c, p, f, b, k, Addr(p, f, b, k))
<1> DEFINE y == Before(p, f, b, k)
           x == Addr(p, f, b, k)
           L == Len(Lowered(p))
<1>1. p \in Seq(Seq(Seq(MachineInstr))) /\ 4 * L < Half
  BY ProgramFacts
<1>2. c.image = Lowered(p) /\ c.origin = Origin(p)
  BY ProgramFacts
<1>3. y \in Nat /\ x = 4 * y
  <2>1. k \in 1 .. Kept(p, f, b) + 1
    BY <1>1, MachineExpands, PieceAt
  <2>2. y \in Nat
    BY <1>1, <2>1, MachineExpands, WithinType
  <2>3. QED
    BY <2>2 DEF Addr
<1>4. /\ y + 1 \in DOMAIN Lowered(p) /\ y + 1 <= L /\ L \in Nat
      /\ Lowered(p)[y + 1] = Emitted(PreEmit(p), f, ExpandRet(p[f][b][k]), 4 * y)
      /\ hasDelaySlot(p[f][b][k].op) =>
           y + 2 \in DOMAIN Lowered(p) /\ y + 2 <= L /\ Lowered(p)[y + 2] = Nop
  BY <1>1, LoweredAt
<1>5. /\ y + 1 \in DOMAIN Origin(p) /\ Origin(p)[y + 1] = <<f, b, k>>
      /\ hasDelaySlot(p[f][b][k].op) => y + 2 \in DOMAIN Origin(p) /\ Origin(p)[y + 2] = NoPos
  BY <1>1, OriginAt
<1> HIDE DEF x, y, L
<1>6. x \in Nat /\ x % 4 = 0 /\ x \div 4 = y /\ (x + 4) % 4 = 0 /\ (x + 4) \div 4 + 1 = y + 2
  BY ONLY <1>3
<1>7. x # -1 /\ x + 4 # -1 /\ 4 * (y + 1 - 1) = x /\ 4 * (y + 2 - 1) = x + 4
  BY ONLY <1>3
<1>8. Half \in Int
  BY WordAssumption
<1>9. x + 4 < Half
  BY ONLY <1>1, <1>3, <1>4, <1>8
<1>10. ASSUME NEW e \in DOMAIN Lowered(p) PROVE Fetched(c, 4 * (e - 1)) = Lowered(p)[e]
  BY <1>2, CompiledAssumption DEF Fetched
<1>11. PosOf(c, x) = <<f, b, k>>
  BY <1>2, <1>5, <1>6, <1>7 DEF PosOf
<1>12. Fetched(c, x) = Emitted(PreEmit(p), f, ExpandRet(p[f][b][k]), x)
  BY <1>3, <1>4, <1>7, <1>10
<1>13. ASSUME hasDelaySlot(p[f][b][k].op)
       PROVE  x + 8 < Half /\ PosOf(c, x + 4) = NoPos /\ Fetched(c, x + 4) = Nop
  <2>1. y + 2 \in DOMAIN Lowered(p) /\ y + 2 <= L /\ Lowered(p)[y + 2] = Nop
    BY <1>4, <1>13
  <2>2. x + 8 < Half
    <3>1. y + 2 <= L /\ L \in Nat /\ y \in Nat /\ x = 4 * y /\ 4 * L < Half /\ Half \in Int
      BY <1>1, <1>3, <1>4, <1>8, <2>1
    <3>2. QED
      BY ONLY <3>1
  <2>3. PosOf(c, x + 4) = NoPos
    <3>1. y + 2 \in DOMAIN Origin(p) /\ Origin(p)[y + 2] = NoPos
      BY <1>5, <1>13
    <3>2. QED
      BY <1>2, <1>6, <1>7, <3>1 DEF PosOf
  <2>4. Fetched(c, x + 4) = Nop
    <3> DEFINE e == y + 2
    <3>1. e \in DOMAIN Lowered(p) /\ Lowered(p)[e] = Nop
      BY <2>1
    <3>2. 4 * (e - 1) = x + 4
      BY ONLY <1>3
    <3> HIDE DEF e
    <3>3. Fetched(c, 4 * (e - 1)) = Lowered(p)[e]
      BY <1>10, <3>1
    <3>4. QED
      BY <3>1, <3>2, <3>3
  <2>5. QED
    BY <2>2, <2>3, <2>4
<1>14. QED
  BY <1>6, <1>9, <1>11, <1>12, <1>13 DEF x, Placed

\* Control falls through where nothing is left of a block, unless it is the last.
LEMMA FallsWhere ==
  ASSUME NEW p, p = code.mir, p \in Seq(Seq(Seq(MachineInstr))),
         NEW f \in 1 .. Len(p), NEW b \in 1 .. Len(p[f]), NEW k \in 1 .. Kept(p, f, b) + 1
  PROVE  Mir!Falls(f, b, k) <=> b < Len(p[f]) /\ k = Kept(p, f, b) + 1
<1> DEFINE blk == p[f][b]
<1>1. p[f] \in Seq(Seq(MachineInstr))
  OBVIOUS
<1>2. blk \in Seq(MachineInstr)
  BY <1>1
<1>3. Len(blk) \in Nat /\ Kept(p, f, b) \in 0 .. Len(blk)
  <2>1. Kept(p, f, b) \in 0 .. Len(p[f][b])
    BY ONLY p \in Seq(Seq(Seq(MachineInstr))), f \in 1 .. Len(p), b \in 1 .. Len(p[f]), KeptType
  <2>2. Len(blk) \in Nat
    BY ONLY <1>2
  <2>3. QED
    BY <2>1, <2>2
<1>4. Mir!Falls(f, b, k) <=>
        /\ b < Len(p[f])
        /\ \/ k > Len(blk)
           \/ k = Len(blk) /\ blk[k].op = "JMP" /\ blk[k].cx = b + 1
  BY DEF Mir!Falls
<1>5. EndsUseless(p[f], b) <=>
        /\ b < Len(p[f])
        /\ Len(blk) # 0
        /\ blk[Len(blk)].op = "JMP" /\ blk[Len(blk)].cx = b + 1
  BY <1>2 DEF EndsUseless, Last
<1>6. Kept(p, f, b) = IF EndsUseless(p[f], b) THEN Len(blk) - 1 ELSE Len(blk)
  BY DEF Kept
<1> HIDE DEF blk
<1>7. k \in Nat /\ k # 0
  BY <1>3
<1>8. CASE EndsUseless(p[f], b)
  <2> DEFINE n == Len(blk)
             g == Kept(p, f, b)
  <2>1. g = n - 1 /\ n \in Nat /\ n # 0 /\ k \in 1 .. g + 1
    BY <1>3, <1>5, <1>6, <1>8
  <2> HIDE DEF n, g
  <2>2. k <= n /\ (k = n <=> k = g + 1)
    BY ONLY <2>1
  <2>3. ~(k > n)
    BY ONLY <2>1
  <2>4. /\ Mir!Falls(f, b, k) <=>
              /\ b < Len(p[f])
              /\ \/ k > n
                 \/ k = n /\ blk[k].op = "JMP" /\ blk[k].cx = b + 1
        /\ b < Len(p[f]) /\ blk[n].op = "JMP" /\ blk[n].cx = b + 1
    BY <1>4, <1>5, <1>8 DEF n
  <2>5. Mir!Falls(f, b, k) <=> b < Len(p[f]) /\ k = g + 1
    BY ONLY <2>2, <2>3, <2>4
  <2>6. QED
    BY <2>5 DEF g
<1>9. CASE ~EndsUseless(p[f], b)
  <2>1. Kept(p, f, b) = Len(blk) /\ (k > Len(blk) <=> k = Len(blk) + 1)
    BY <1>3, <1>6, <1>9
  <2>2. ~(b < Len(p[f]) /\ k = Len(blk) /\ blk[k].op = "JMP" /\ blk[k].cx = b + 1)
    BY <1>5, <1>7, <1>9
  <2>3. QED
    BY <1>4, <2>1, <2>2
<1>10. QED
  BY <1>8, <1>9

\* A set of natural numbers has a least element.
LEMMA Least ==
  ASSUME NEW S, S \subseteq Nat, S # {}
  PROVE  \E n \in S : \A j \in S : n <= j
<1>1. IsWellFoundedOn(Smaller, Nat)
  <2>1. OpToRel(<, Nat) = Smaller
    BY DEF OpToRel, Smaller
  <2>2. QED
    BY <2>1, NatLessThanWellFounded
<1>2. PICK n \in S : \A j \in S : <<j, n>> \notin Smaller
  BY <1>1, WFMin
<1>3. ASSUME NEW j \in S PROVE n <= j
  <2>1. n \in Nat /\ j \in Nat /\ <<j, n>> \notin Smaller
    BY <1>2
  <2>2. QED
    BY <2>1 DEF Smaller
<1>4. QED
  BY <1>3

\* Every block that is the last of its function keeps an instruction.
LEMMA LastKept ==
  ASSUME NEW p, WellFormed(p), NEW f \in 1 .. Len(p)
  PROVE  /\ Len(p[f]) \in 1 .. Len(p[f])
         /\ Kept(p, f, Len(p[f])) = Len(p[f][Len(p[f])])
         /\ Kept(p, f, Len(p[f])) \in 1 .. Kept(p, f, Len(p[f]))
<1>1. p \in Seq(Seq(Seq(MachineInstr))) /\ Ends(p[f])
  BY DEF WellFormed
<1>2. p[f] \in Seq(Seq(MachineInstr))
  BY <1>1
<1>3. p[f] # <<>> /\ p[f][Len(p[f])] # <<>>
  BY <1>1 DEF Ends, Last
<1>4. Len(p[f]) \in 1 .. Len(p[f])
  BY <1>2, <1>3
<1>5. p[f][Len(p[f])] \in Seq(MachineInstr)
  BY <1>2, <1>4
<1>6. Len(p[f][Len(p[f])]) \in 1 .. Len(p[f][Len(p[f])])
  BY <1>3, <1>5
<1>7. Kept(p, f, Len(p[f])) = Len(p[f][Len(p[f])])
  BY <1>4 DEF Kept, EndsUseless
<1>8. QED
  BY <1>4, <1>6, <1>7

\* From a place on, control reaches an instruction that is left, at the same
\* address: Settle finds it, and its search ends.
LEMMA Settled ==
  ASSUME NEW p, p = code.mir, WellFormed(p),
         NEW f \in 1 .. Len(p), NEW b \in 1 .. Len(p[f]), NEW k \in 1 .. Kept(p, f, b) + 1,
         k <= Kept(p, f, b) \/ b < Len(p[f])
  PROVE  \E b1 \in 1 .. Len(p[f]) : \E k1 \in 1 .. Kept(p, f, b1) :
           /\ Mir!Settle(f, b, k) = <<f, b1, k1>>
           /\ Addr(p, f, b1, k1) = Addr(p, f, b, k)
<1> DEFINE n == Len(p[f])
           K(c) == Kept(p, f, c)
<1>1. p \in Seq(Seq(Seq(MachineInstr)))
  BY DEF WellFormed
<1>2. n \in 1 .. n /\ K(n) \in 1 .. K(n)
  BY LastKept
<1>3. n \in Nat
  <2>1. p[f] \in Seq(Seq(MachineInstr))
    BY <1>1
  <2>2. QED
    BY <2>1
<1>4. ASSUME NEW c \in 1 .. n PROVE K(c) \in Nat
  <2>1. Len(Pieces(p, f, c)) = K(c) /\ Pieces(p, f, c) \in Seq(Seq(MachineInstr))
    BY <1>1, MachineExpands, PiecesType
  <2>2. QED
    BY <2>1
<1>5. ASSUME NEW c \in 1 .. n, NEW e \in 1 .. K(c) + 1
      PROVE  Mir!Falls(f, c, e) <=> c < n /\ e = K(c) + 1
  BY <1>1, FallsWhere
<1>6. ASSUME NEW c \in 1 .. n, c < n PROVE Addr(p, f, c, K(c) + 1) = Addr(p, f, c + 1, 1)
  BY <1>1, <1>6, MachineExpands, NextBlock DEF Addr
<1>7. ASSUME NEW c \in 1 .. n PROVE 1 \in 1 .. K(c) + 1
  BY <1>4
<1> HIDE DEF n, K
<1>8. CASE ~Mir!Falls(f, b, k)
  <2>1. ~(b < n /\ k = K(b) + 1)
    BY <1>5, <1>8 DEF n, K
  <2>2. k \in 1 .. K(b) /\ b \in 1 .. n
    BY <1>4, <2>1 DEF n, K
  <2>3. Mir!Settle(f, b, k) = <<f, b, k>>
    BY <1>8 DEF Mir!Settle
  <2>4. QED
    BY <2>2, <2>3 DEF n, K
<1>9. CASE Mir!Falls(f, b, k)
  <2>1. b < n /\ k = K(b) + 1 /\ b \in 1 .. n
    BY <1>5, <1>9 DEF n, K
  <2> DEFINE S == {c \in b + 1 .. n : ~Mir!Falls(f, c, 1)}
             Good(c) == /\ ~Mir!Falls(f, c, 1)
                        /\ \A j \in b + 1 .. c - 1 : Mir!Falls(f, j, 1)
             next == CHOOSE c \in b + 1 .. n : Good(c)
  <2>2. n \in S
    <3>1. ~Mir!Falls(f, n, 1)
      BY <1>2, <1>5, <1>7
    <3>2. n \in b + 1 .. n
      BY <1>3, <2>1
    <3>3. QED
      BY <3>1, <3>2
  <2>3. \E c \in b + 1 .. n : Good(c)
    <3>1. S \subseteq Nat
      BY <1>3, <2>1
    <3>2. PICK c \in S : \A j \in S : c <= j
      <4> HIDE DEF S
      <4>1. QED
        BY <2>2, <3>1, Least
    <3>3. ASSUME NEW j \in b + 1 .. c - 1 PROVE Mir!Falls(f, j, 1)
      <4>1. c \in Nat /\ j \in Nat /\ ~(c <= j) /\ j \in b + 1 .. n
        BY <1>3, <2>1, <3>1, <3>2
      <4>2. j \notin S
        BY <3>2, <4>1
      <4>3. QED
        BY <4>1, <4>2
    <3>4. QED
      BY <3>2, <3>3
  <2>4. next \in b + 1 .. n /\ Good(next)
    <3> HIDE DEF Good
    <3>1. QED
      BY <2>3
  <2>5. Mir!Settle(f, b, k) = <<f, next, 1>>
    BY <1>9 DEF Mir!Settle, n
  <2> HIDE DEF next
  <2>6. next \in 1 .. n
    BY <1>3, <2>1, <2>4
  <2>7. 1 \in 1 .. K(next)
    <3>1. ~(next < n /\ 1 = K(next) + 1)
      BY <1>5, <1>7, <2>4, <2>6
    <3>2. K(next) \in Nat
      BY <1>4, <2>6
    <3>3. CASE next < n
      BY <3>1, <3>2, <3>3
    <3>4. CASE next = n
      BY <1>2, <3>4
    <3>5. QED
      BY <1>3, <2>6, <3>3, <3>4
  <2> DEFINE T == {e \in Nat : b + 1 + e <= next => Addr(p, f, b + 1 + e, 1) = Addr(p, f, b, k)}
  <2>8. 0 \in T
    <3>1. Addr(p, f, b + 1, 1) = Addr(p, f, b, k)
      BY <1>6, <2>1
    <3>2. b + 1 + 0 = b + 1
      BY <2>1
    <3>3. QED
      BY <3>1, <3>2
  <2>9. ASSUME NEW e \in Nat, e \in T PROVE e + 1 \in T
    <3>1. ASSUME b + 1 + (e + 1) <= next
          PROVE  Addr(p, f, b + 1 + (e + 1), 1) = Addr(p, f, b, k)
      <4> DEFINE c == b + 1 + e
      <4>1. /\ c \in b + 1 .. next - 1 /\ c \in 1 .. n /\ c < n /\ c <= next
            /\ b + 1 + (e + 1) = c + 1
        BY <1>3, <2>1, <2>6, <3>1
      <4>2. Addr(p, f, c, 1) = Addr(p, f, b, k)
        BY <2>9, <4>1
      <4> HIDE DEF c
      <4>3. Mir!Falls(f, c, 1)
        BY <2>4, <4>1
      <4>4. 1 = K(c) + 1
        BY <1>5, <1>7, <4>1, <4>3
      <4>5. Addr(p, f, c + 1, 1) = Addr(p, f, c, K(c) + 1)
        BY <1>6, <4>1
      <4>6. QED
        BY <4>1, <4>2, <4>4, <4>5
    <3>2. QED
      BY <3>1
  <2>10. next - (b + 1) \in Nat /\ b + 1 + (next - (b + 1)) = next
    BY <1>3, <2>1, <2>4
  <2>11. next - (b + 1) \in T
    <3> HIDE DEF T
    <3>1. \A e \in Nat : e \in T
      BY <2>8, <2>9, SetInduction
    <3>2. QED
      BY <2>10, <3>1
  <2>12. Addr(p, f, next, 1) = Addr(p, f, b, k)
    <3>1. next <= next
      BY <1>3, <2>6
    <3>2. QED
      BY <2>10, <2>11, <3>1
  <2>13. QED
    BY <2>5, <2>6, <2>7, <2>12 DEF n, K
<1>10. QED
  BY <1>8, <1>9

-----------------------------------------------------------------------------
(* Branches and calls reach their targets. *)

\* A field holds what is in its range.
LEMMA FieldExact ==
  ASSUME NEW h \in Nat \ {0}, NEW v \in -h .. h - 1
  PROVE  Field(h, v) = v
<1> DEFINE d == 2 * h
           a == v + h
<1>1. d \in Nat /\ d # 0 /\ a \in 0 .. d - 1 /\ a \in Nat
  OBVIOUS
<1>2. a % d = a
  <2> HIDE DEF a, d
  <2>1. QED
    BY ONLY <1>1
<1>3. Field(h, v) = (a % d) - h
  BY DEF Field
<1>4. QED
  BY <1>2, <1>3

\* A word is what it is.
LEMMA WrapWord ==
  ASSUME NEW x \in Int, -Half <= x, x < Half
  PROVE  Wrap(x) = x
<1> DEFINE d == 2 * Half
           a == x + Half
<1>1. Half \in Nat /\ Half # 0
  BY WordAssumption
<1>2. d \in Nat /\ d # 0 /\ a \in 0 .. d - 1 /\ a \in Nat
  BY <1>1
<1>3. a % d = a
  <2> HIDE DEF a, d
  <2>1. QED
    BY ONLY <1>2
<1>4. Wrap(x) = (a % d) - Half
  BY DEF Wrap
<1>5. QED
  BY <1>1, <1>3, <1>4

\* The address of an instruction within its function.
LEMMA FnAddress ==
  ASSUME NEW p \in Seq(Seq(Seq(MachineInstr))), NEW f \in 1 .. Len(p), NEW b \in 1 .. Len(p[f]),
         NEW k \in 1 .. Kept(p, f, b)
  PROVE  BlockAddress(PreEmit(p), f, 1) + 4 * Within(p, f, b, k) = Addr(p, f, b, k)
<1> DEFINE o == Offset(Fns(p), f - 1)
           w == Within(p, f, b, k)
<1>1. 1 \in 1 .. Len(p[f])
  <2>1. p[f] \in Seq(Seq(MachineInstr))
    OBVIOUS
  <2>2. QED
    BY <2>1
<1>2. BlockAddress(PreEmit(p), f, 1) = Addr(p, f, 1, 1)
  BY <1>1, BlockAt
<1>3. Offset(Blocks(p, f), 0) = 0 /\ Offset(Pieces(p, f, 1), 0) = 0
  <2>1. Blocks(p, f) \in Seq(Seq(MachineInstr)) /\ Pieces(p, f, 1) \in Seq(Seq(MachineInstr))
    BY <1>1, MachineExpands, BlocksType, PiecesType
  <2>2. QED
    BY <2>1, Offsets
<1>4. k \in 1 .. Kept(p, f, b) + 1
  BY MachineExpands, PieceAt
<1>5. w \in Nat /\ o \in Nat
  BY <1>4, MachineExpands, WithinType
<1>6. Before(p, f, 1, 1) = o + (Offset(Blocks(p, f), 1 - 1) + Offset(Pieces(p, f, 1), 1 - 1))
  BY DEF Before, Within
<1>7. Before(p, f, b, k) = o + w
  BY DEF Before
<1>8. 1 - 1 = 0
  OBVIOUS
<1> HIDE DEF o, w
<1>9. Before(p, f, 1, 1) = o
  BY <1>3, <1>5, <1>6, <1>8
<1>10. BlockAddress(PreEmit(p), f, 1) = 4 * o /\ Addr(p, f, b, k) = 4 * (o + w)
  BY <1>2, <1>7, <1>9 DEF Addr
<1>11. QED
  BY <1>5, <1>10 DEF w

\* Where instruction i of function f leads.
Target(p, f, i) == IF i.op \in Calls THEN Addr(p, i.cx, 1, 1) ELSE Addr(p, f, i.cx, 1)

\* The emitted offset of a transfer, counted from the next instruction, leads there.
LEMMA EmittedTransfer ==
  ASSUME NEW c \in Programs, NEW p, p = c.mir,
         NEW f \in 1 .. Len(p), NEW b \in 1 .. Len(p[f]), NEW k \in 1 .. Kept(p, f, b),
         NEW i, i = p[f][b][k], i.op \in PC16 \cup PC24,
         i.op \in Calls => i.cx \in 1 .. Len(p),
         i.op \notin Calls => i.cx \in 1 .. Len(p[f])
  PROVE  LET x == Addr(p, f, b, k)
             e == Emitted(PreEmit(p), f, ExpandRet(i), x)
         IN  /\ e.op = (IF i.op = "TAILCALL" THEN "JMP" ELSE i.op)
             /\ e.a = i.a /\ e.b = i.b
             /\ e.cx = Target(p, f, i) - x - 4
<1> DEFINE x == Addr(p, f, b, k)
           q == PreEmit(p)
           e == Emitted(q, f, i, x)
           N == Fns(p)
           w == Within(p, f, b, k)
           h == HalfRange(i.op)
           t == Distance(q, f, i, x)
<1>1. p \in Seq(Seq(Seq(MachineInstr))) /\ InReach(p) /\ WellFormed(p)
  BY ProgramFacts
<1>2. i \in MachineInstr /\ Piece(i) \in Seq(MachineInstr) /\ 1 \in 1 .. Len(Piece(i))
  <2>1. i \in MachineInstr
    BY <1>1, MachineExpands, PieceAt
  <2>2. Piece(i) \in Seq(MachineInstr) /\ Len(Piece(i)) = (IF hasDelaySlot(i.op) THEN 2 ELSE 1)
    BY <2>1, MachineExpands, PieceType
  <2> DEFINE n == Len(Piece(i))
  <2>3. n = 1 \/ n = 2
    BY <2>2
  <2> HIDE DEF n
  <2>4. 1 \in 1 .. n
    BY ONLY <2>3
  <2>5. QED
    BY <2>1, <2>2, <2>4 DEF n
<1>3. ExpandRet(i) = i
  BY DEF ExpandRet, PC16, PC24
<1>4. Piece(i)[1] = i
  BY <1>3 DEF Piece
<1>5. w + 1 \in 1 .. Len(N[f]) /\ N[f][w + 1] = i
  <2>1. 1 \in 1 .. Len(Piece(p[f][b][k]))
    BY <1>2
  <2>2. /\ Within(p, f, b, k) + 1 \in 1 .. Len(Fns(p)[f])
        /\ Fns(p)[f][Within(p, f, b, k) + 1] = Piece(p[f][b][k])[1]
    <3>1. /\ p \in Seq(Seq(Seq(MachineInstr))) /\ f \in 1 .. Len(p) /\ b \in 1 .. Len(p[f])
          /\ k \in 1 .. Kept(p, f, b)
      BY <1>1
    <3>2. QED
      BY ONLY <3>1, <2>1, MachineExpands, Words
  <2>3. QED
    BY <1>4, <2>2
<1>6. q = [g \in 1 .. Len(p) |-> Blocks(p, g)]
  BY <1>1, MachineExpands, PreEmitProgram
<1>7. f \in DOMAIN q /\ FlattenSeq(q[f]) = N[f]
  BY <1>6 DEF Fns
<1>8. N[f] \in Seq(MachineInstr)
  <2>1. N \in Seq(Seq(MachineInstr)) /\ Len(N) = Len(p)
    BY <1>1, MachineExpands, FnsType
  <2> HIDE DEF N
  <2>2. QED
    BY <2>1
<1>9. w \in Nat
  <2>1. k \in 1 .. Kept(p, f, b) + 1
    BY <1>1, MachineExpands, PieceAt
  <2>2. QED
    BY <1>1, <2>1, MachineExpands, WithinType
<1>10. adjustFixupValue(t) \in -h .. h - 1
  <2> DEFINE d == w + 1
  <2>1. DOMAIN N[f] = 1 .. Len(N[f])
    <3> HIDE DEF N
    <3>1. QED
      BY <1>8
  <2>2. d \in DOMAIN N[f] /\ N[f][d] = i
    BY ONLY <1>5, <2>1 DEF d
  <2>3. BlockAddress(q, f, 1) + 4 * (d - 1) = x
    <3>1. d - 1 = w
      <4> HIDE DEF w
      <4>1. QED
        BY <1>9
    <3>2. BlockAddress(q, f, 1) + 4 * w = x
      BY <1>1, FnAddress
    <3>3. QED
      BY <3>1, <3>2
  <2> HIDE DEF d, N, q, x, w, h, t
  <2>4. \A j \in DOMAIN N[f] : N[f][j].op \in PC16 \cup PC24 =>
           adjustFixupValue(Distance(q, f, N[f][j], BlockAddress(q, f, 1) + 4 * (j - 1)))
             \in -HalfRange(N[f][j].op) .. HalfRange(N[f][j].op) - 1
    BY <1>1, <1>7 DEF InReach, q
  <2>5. QED
    BY <2>2, <2>3, <2>4 DEF h, t
<1>11. h \in Nat \ {0}
  BY OffsetAssumption DEF HalfRange
<1>12. Field(h, adjustFixupValue(t)) = adjustFixupValue(t)
  <2> HIDE DEF h, t
  <2>1. QED
    BY <1>10, <1>11, FieldExact
<1>13. t = Target(p, f, i) - x
  <2>1. CASE i.op \in Calls
    <3>1. 1 \in 1 .. Len(p[i.cx])
      <4> DEFINE g == i.cx
      <4>1. g \in 1 .. Len(p)
        BY <2>1
      <4> HIDE DEF g
      <4>2. Len(p[g]) \in 1 .. Len(p[g])
        BY <1>1, <4>1, LastKept
      <4>3. 1 \in 1 .. Len(p[g])
        BY ONLY <4>2
      <4>4. QED
        BY <4>3 DEF g
    <3>2. BlockAddress(q, i.cx, 1) = Addr(p, i.cx, 1, 1)
      BY <1>1, <2>1, <3>1, BlockAt
    <3>3. QED
      BY <2>1, <3>2 DEF Distance, Target
  <2>2. CASE i.op \notin Calls
    <3>1. BlockAddress(q, f, i.cx) = Addr(p, f, i.cx, 1)
      BY <1>1, <2>2, BlockAt
    <3>2. QED
      BY <2>2, <3>1 DEF Distance, Target
  <2>3. QED
    BY <2>1, <2>2
<1>14. e = [i EXCEPT !.op = IF @ = "TAILCALL" THEN "JMP" ELSE @,
                     !.cx = Field(h, adjustFixupValue(t))]
  BY DEF Emitted
<1> HIDE DEF x, q, e, h, t
<1>15. /\ e.op = (IF i.op = "TAILCALL" THEN "JMP" ELSE i.op)
       /\ e.a = i.a /\ e.b = i.b /\ e.cx = Field(h, adjustFixupValue(t))
  BY <1>2, <1>14 DEF MachineInstr
<1>16. QED
  BY <1>3, <1>12, <1>13, <1>15 DEF adjustFixupValue, e, q, x

-----------------------------------------------------------------------------
(* Where control goes. *)

IsInstr(p, x) ==
  \E f \in 1 .. Len(p) : \E b \in 1 .. Len(p[f]) : \E k \in 1 .. Kept(p, f, b) :
    x = Addr(p, f, b, k)

\* A code address the program may hold.
IsAddr(p, x) == x = -1 \/ IsInstr(p, x)

\* The address of an instruction is one of the image, and a position.
LEMMA InstrFacts ==
  ASSUME code \in Programs, NEW p, p = code.mir, NEW x, IsInstr(p, x)
  PROVE  x \in Nat /\ x + 4 < Half /\ PosOf(code, x) # NoPos /\ PosOf(code, x) # Mir!Exit
<1>1. PICK f, b, k :
        /\ f \in 1 .. Len(p) /\ b \in 1 .. Len(p[f]) /\ k \in 1 .. Kept(p, f, b)
        /\ x = Addr(p, f, b, k)
  BY DEF IsInstr
<1>2. x \in Nat /\ x + 4 < Half /\ PosOf(code, x) = <<f, b, k>>
  <2>1. Placed(code, p, f, b, k, x)
    BY <1>1, AtAddr
  <2>2. QED
    BY <2>1 DEF Placed
<1>3. f # 0
  BY <1>1
<1>4. QED
  BY <1>2, <1>3 DEF NoPos, Mir!Exit

\* A code address is a word, and a position.
LEMMA AddrFacts ==
  ASSUME code \in Programs, NEW p, p = code.mir, NEW x, IsAddr(p, x)
  PROVE  x \in Word /\ PosOf(code, x) # NoPos
<1>1. CASE x = -1
  <2>1. -1 \in Word
    BY WordAssumption DEF Word
  <2>2. QED
    BY <1>1, <2>1 DEF PosOf, NoPos
<1>2. CASE IsInstr(p, x)
  <2>1. x \in Nat /\ x + 4 < Half /\ PosOf(code, x) # NoPos
    BY <1>2, InstrFacts
  <2>2. x \in Word
    BY <2>1, WordAssumption DEF Word
  <2>3. QED
    BY <2>1, <2>2
<1>3. QED
  BY <1>1, <1>2 DEF IsAddr

\* From a place of a block, at whose end the program goes on.
LEMMA Reaches ==
  ASSUME code \in Programs, NEW p, p = code.mir,
         NEW f \in 1 .. Len(p), NEW b \in 1 .. Len(p[f]), NEW k \in 1 .. Kept(p, f, b) + 1,
         k <= Kept(p, f, b) \/ b < Len(p[f])
  PROVE  LET x == Addr(p, f, b, k)
         IN  IsInstr(p, x) /\ PosOf(code, x) = Mir!Settle(f, b, k)
<1>1. WellFormed(p)
  BY ProgramFacts
<1>2. PICK b1, k1 :
        /\ b1 \in 1 .. Len(p[f]) /\ k1 \in 1 .. Kept(p, f, b1)
        /\ Mir!Settle(f, b, k) = <<f, b1, k1>>
        /\ Addr(p, f, b1, k1) = Addr(p, f, b, k)
  BY <1>1, Settled
<1>3. PosOf(code, Addr(p, f, b1, k1)) = <<f, b1, k1>>
  BY <1>2, AtAddr DEF Placed
<1>4. IsInstr(p, Addr(p, f, b1, k1))
  BY <1>2 DEF IsInstr
<1>5. QED
  BY <1>2, <1>3, <1>4

\* To a block of a function.
LEMMA ReachesBlock ==
  ASSUME code \in Programs, NEW p, p = code.mir,
         NEW f \in 1 .. Len(p), NEW b \in 1 .. Len(p[f])
  PROVE  LET x == Addr(p, f, b, 1)
         IN  IsInstr(p, x) /\ PosOf(code, x) = Mir!Settle(f, b, 1)
<1>1. WellFormed(p) /\ p \in Seq(Seq(Seq(MachineInstr)))
  BY ProgramFacts
<1>2. Kept(p, f, b) \in Nat
  <2>1. Len(Pieces(p, f, b)) = Kept(p, f, b) /\ Pieces(p, f, b) \in Seq(Seq(MachineInstr))
    BY <1>1, MachineExpands, PiecesType
  <2>2. QED
    BY <2>1
<1>3. 1 \in 1 .. Kept(p, f, b) + 1
  BY <1>2
<1>4. Len(p[f]) \in Nat
  <2>1. p[f] \in Seq(Seq(MachineInstr))
    BY <1>1
  <2>2. QED
    BY <2>1
<1>5. 1 <= Kept(p, f, b) \/ b < Len(p[f])
  <2>1. CASE b = Len(p[f])
    <3>1. Kept(p, f, b) \in 1 .. Kept(p, f, b)
      BY <1>1, <2>1, LastKept
    <3>2. QED
      BY <3>1
  <2>2. CASE b # Len(p[f])
    BY <1>4, <2>2
  <2>3. QED
    BY <2>1, <2>2
<1>6. QED
  BY <1>3, <1>5, Reaches

\* To a function.
LEMMA ReachesFunction ==
  ASSUME code \in Programs, NEW p, p = code.mir, NEW f \in 1 .. Len(p)
  PROVE  LET x == Addr(p, f, 1, 1)
         IN  IsInstr(p, x) /\ PosOf(code, x) = Mir!Settle(f, 1, 1)
<1>1. WellFormed(p)
  BY ProgramFacts
<1>2. Len(p[f]) \in 1 .. Len(p[f])
  BY <1>1, LastKept
<1>3. 1 \in 1 .. Len(p[f])
  BY <1>2
<1>4. QED
  BY <1>3, ReachesBlock

\* Behind an instruction, unless it is the last of its function.
LEMMA ReachesBehind ==
  ASSUME code \in Programs, NEW p, p = code.mir,
         NEW f \in 1 .. Len(p), NEW b \in 1 .. Len(p[f]), NEW k \in 1 .. Kept(p, f, b),
         p[f][b][k].op \notin {"RetLR", "TAILCALL", "JMP"}
  PROVE  LET x == Addr(p, f, b, k) + (IF hasDelaySlot(p[f][b][k].op) THEN 8 ELSE 4)
         IN  IsInstr(p, x) /\ PosOf(code, x) = Mir!Settle(f, b, k + 1)
<1> DEFINE K == Kept(p, f, b)
           n == IF hasDelaySlot(p[f][b][k].op) THEN 2 ELSE 1
<1>1. WellFormed(p) /\ p \in Seq(Seq(Seq(MachineInstr)))
  BY ProgramFacts
<1>2. K \in Nat /\ k \in 1 .. K + 1 /\ k \in 1 .. K
  BY <1>1, MachineExpands, PieceAt
<1>3. k + 1 \in 1 .. K + 1
  <2> HIDE DEF K
  <2>1. QED
    BY <1>2
<1>4. p[f] \in Seq(Seq(MachineInstr))
  BY <1>1
<1>5. k + 1 <= K \/ b < Len(p[f])
  <2>1. CASE b = Len(p[f])
    <3>1. K = Len(p[f][b])
      BY <1>1, <2>1, LastKept
    <3>2. Last(Last(p[f])).op \in {"RetLR", "TAILCALL", "JMP"}
      BY <1>1 DEF WellFormed, Ends
    <3>3. p[f][b][K].op \in {"RetLR", "TAILCALL", "JMP"}
      BY <2>1, <3>1, <3>2 DEF Last
    <3>4. k # K
      BY <3>3
    <3> HIDE DEF K
    <3>5. QED
      BY <1>2, <3>4
  <2>2. CASE b # Len(p[f])
    BY <1>4, <2>2
  <2>3. QED
    BY <2>1, <2>2
<1>6. /\ IsInstr(p, Addr(p, f, b, k + 1))
      /\ PosOf(code, Addr(p, f, b, k + 1)) = Mir!Settle(f, b, k + 1)
  BY <1>3, <1>5, Reaches
<1>7. Before(p, f, b, k + 1) = Before(p, f, b, k) + n
  BY <1>1, MachineExpands, NextWord
<1>8. Before(p, f, b, k) \in Nat
  BY <1>1, <1>2, MachineExpands, WithinType
<1>9. Addr(p, f, b, k + 1) = Addr(p, f, b, k) + (IF hasDelaySlot(p[f][b][k].op) THEN 8 ELSE 4)
  BY <1>7, <1>8 DEF Addr
<1>10. QED
  BY <1>6, <1>9

\* The program begins with main's saving the link register.
LEMMA FirstInstr ==
  ASSUME code \in Programs, NEW p, p = code.mir
  PROVE  /\ 1 \in 1 .. Len(p) /\ 1 \in 1 .. Len(p[1]) /\ 1 \in 1 .. Kept(p, 1, 1)
         /\ Addr(p, 1, 1, 1) = 0
         /\ IsCopy(p[1][1][1]) /\ p[1][1][1].a = Saved /\ p[1][1][1].b = LR
<1>1. WellFormed(p) /\ p \in Seq(Seq(Seq(MachineInstr)))
  BY ProgramFacts
<1>2. p # <<>> /\ p[1][1] # <<>>
  BY <1>1 DEF WellFormed
<1>3. IsCopy(p[1][1][1]) /\ p[1][1][1].a = Saved /\ p[1][1][1].b = LR
  BY <1>1 DEF WellFormed
<1>4. 1 \in 1 .. Len(p)
  BY <1>1, <1>2
<1>5. p[1] \in Seq(Seq(MachineInstr)) /\ Len(p[1]) \in 1 .. Len(p[1])
  BY <1>1, <1>4, LastKept
<1>6. 1 \in 1 .. Len(p[1])
  BY <1>5
<1>7. p[1][1] \in Seq(MachineInstr)
  BY <1>5, <1>6
<1>8. Len(p[1][1]) \in Nat \ {0}
  BY <1>2, <1>7
<1>9. Kept(p, 1, 1) \in Nat /\ Kept(p, 1, 1) # 0
  <2>1. CASE EndsUseless(p[1], 1)
    <3>1. p[1][1][Len(p[1][1])].op = "JMP"
      BY <2>1 DEF EndsUseless, Last
    <3>2. Len(p[1][1]) # 1
      BY <1>3, <3>1 DEF IsCopy
    <3>3. QED
      BY <1>8, <2>1, <3>2 DEF Kept
  <2>2. CASE ~EndsUseless(p[1], 1)
    BY <1>8, <2>2 DEF Kept
  <2>3. QED
    BY <2>1, <2>2
<1>10. 1 \in 1 .. Kept(p, 1, 1)
  BY <1>9
<1>11. Addr(p, 1, 1, 1) = 0
  <2>1. Fns(p) \in Seq(Seq(MachineInstr)) /\ Blocks(p, 1) \in Seq(Seq(MachineInstr))
        /\ Pieces(p, 1, 1) \in Seq(Seq(MachineInstr))
    BY <1>1, <1>4, <1>6, MachineExpands, FnsType, BlocksType, PiecesType
  <2>2. Offset(Fns(p), 0) = 0 /\ Offset(Blocks(p, 1), 0) = 0 /\ Offset(Pieces(p, 1, 1), 0) = 0
    BY <2>1, Offsets
  <2>3. Before(p, 1, 1, 1) = 0
    BY <2>2 DEF Before, Within
  <2>4. QED
    BY <2>3 DEF Addr
<1>12. QED
  BY <1>3, <1>4, <1>6, <1>10, <1>11

-----------------------------------------------------------------------------
(* What one step of the machine does, by the instruction it fetches. *)

Continues(rf, sw, x, y) ==
  /\ R' = rf /\ SW' = sw /\ pc' = x /\ npc' = y
  /\ mode' = "run" /\ code' = code

\* A step whose outcome is one state, without an interrupt.
LEMMA StepDoes ==
  ASSUME Step, NEW rf, NEW sw, NEW x, NEW y, "IE" \notin sw,
         \A o \in Outcomes(Fetched(code, pc)) : o.R = rf /\ o.SW = sw /\ o.pc = x /\ o.npc = y
  PROVE  Continues(rf, sw, x, y)
<1>1. ~Irq(sw)
  BY DEF Irq
<1>2. PICK o \in Outcomes(Fetched(code, pc)) :
        /\ R' = o.R /\ SW' = o.SW /\ pc' = o.pc /\ npc' = o.npc
        /\ mode' = IF Irq(o.SW) THEN "trapped" ELSE "run"
  BY DEF Step
<1>3. o.R = rf /\ o.SW = sw /\ o.pc = x /\ o.npc = y
  BY <1>2
<1>4. code' = code
  BY DEF Step
<1>5. QED
  BY <1>1, <1>2, <1>3, <1>4 DEF Continues

\* What an instruction that changes nothing leaves.
LEMMA BaseFields ==
  Base.R = R /\ Base.SW = SW /\ Base.pc = npc /\ Base.npc = Wrap(npc + 4)
BY DEF Base

\* What one that writes a register leaves.
LEMMA WritesFields ==
  ASSUME NEW i, NEW v, i # SWREG
  PROVE  /\ Writes(i, v).R = RegSet(R, i, v) /\ Writes(i, v).SW = SW
         /\ Writes(i, v).pc = npc /\ Writes(i, v).npc = Wrap(npc + 4)
BY DEF Writes, SwPut, Base

\* An operand that is not the status word.
LEMMA OperandRegs ==
  ASSUME NEW i, NEW r, i \in GPR
  PROVE  RegRead(R, SW, i) = R[i] /\ SwPut(SW, i, r) = SW
  BY DEF RegRead, SwPut, SWREG, GPR

\* The step of a NOP.
LEMMA StepNop ==
  ASSUME Step, Fetched(code, pc) = Nop, "IE" \notin SW
  PROVE  Continues(R, SW, npc, Wrap(npc + 4))
<1>1. Outcomes(Nop) = {Base}
  BY DEF Outcomes, BranchOp, SetOp, SetRegOp, SetImmOp, AluOp, AluImmOp, AluRegOp, NopOp,
         LoadOp, StoreOp, MoveOp, TrapOp, HiLoOp, ToHiLoOp, FromHiLoOp, ToC0Op, JumpOp, CallOp, Nop
<1>2. \A o \in Outcomes(Fetched(code, pc)) :
        o.R = R /\ o.SW = SW /\ o.pc = npc /\ o.npc = Wrap(npc + 4)
  BY <1>1, BaseFields
<1>3. QED
  BY <1>2, StepDoes

\* The step of an ALU instruction.
LEMMA StepComputes ==
  ASSUME Step, NEW i, Fetched(code, pc) = i, "IE" \notin SW,
         i.op \in AluOp, i.a \in GPR, i.b \in GPR, i.c \in GPR
  PROVE  Continues(RegSet(R, i.a, Alu(i.op, R[i.b], Second(i, R[i.c]))), SW,
                   npc, Wrap(npc + 4))
<1>1. Outcomes(i) = Computes(i)
  BY DEF Outcomes, BranchOp, SetOp, SetRegOp, SetImmOp, AluOp, AluImmOp, AluRegOp, NopOp,
         LoadOp, StoreOp, MoveOp, TrapOp, HiLoOp, ToHiLoOp, FromHiLoOp, ToC0Op, JumpOp, CallOp
<1>2. B(i) = R[i.b] /\ C(i) = R[i.c]
  BY OperandRegs DEF B, C
<1> DEFINE v == Alu(i.op, R[i.b], Second(i, R[i.c]))
<1>3. Outcomes(i) = {Writes(i.a, v)}
  BY <1>1, <1>2 DEF Computes
<1> HIDE DEF v
<1>4. i.a # SWREG
  BY DEF GPR, SWREG
<1>5. \A o \in Outcomes(Fetched(code, pc)) :
        o.R = RegSet(R, i.a, v) /\ o.SW = SW /\ o.pc = npc /\ o.npc = Wrap(npc + 4)
  BY <1>3, <1>4, WritesFields
<1>6. Continues(RegSet(R, i.a, v), SW, npc, Wrap(npc + 4))
  BY <1>5, StepDoes
<1>7. QED
  BY <1>6 DEF v

\* The step of a set-on-less instruction.
LEMMA StepSets ==
  ASSUME Step, NEW i, Fetched(code, pc) = i, "IE" \notin SW,
         i.op \in SetOp, i.a \in GPR, i.b \in GPR, i.c \in GPR
  PROVE  Continues(RegPut(R, i.a, IF R[i.b] < Second(i, R[i.c]) THEN 1 ELSE 0), SW,
                   npc, Wrap(npc + 4))
<1>1. Outcomes(i) = Sets(i)
  BY DEF Outcomes, BranchOp, SetOp, SetRegOp, SetImmOp, AluOp, AluImmOp, AluRegOp, NopOp,
         LoadOp, StoreOp, MoveOp, TrapOp, HiLoOp, ToHiLoOp, FromHiLoOp, ToC0Op, JumpOp, CallOp
<1>2. B(i) = R[i.b] /\ C(i) = R[i.c]
  BY OperandRegs DEF B, C
<1> DEFINE v == IF R[i.b] < Second(i, R[i.c]) THEN 1 ELSE 0
<1>3. Outcomes(i) = {[Base EXCEPT !.R = RegPut(R, i.a, v), !.SW = SwPut(SW, i.a, v)]}
  BY <1>1, <1>2 DEF Sets
<1> HIDE DEF v
<1>4. SwPut(SW, i.a, v) = SW
  BY OperandRegs
<1>5. \A o \in Outcomes(Fetched(code, pc)) :
        o.R = RegPut(R, i.a, v) /\ o.SW = SW /\ o.pc = npc /\ o.npc = Wrap(npc + 4)
  <2>1. Outcomes(i) = {[Base EXCEPT !.R = RegPut(R, i.a, v), !.SW = SW]}
    BY <1>3, <1>4
  <2> DEFINE rf == RegPut(R, i.a, v)
  <2>2. [Base EXCEPT !.R = rf, !.SW = SW].R = rf
    BY DEF Base
  <2>3. /\ [Base EXCEPT !.R = rf, !.SW = SW].SW = SW
        /\ [Base EXCEPT !.R = rf, !.SW = SW].pc = npc
        /\ [Base EXCEPT !.R = rf, !.SW = SW].npc = Wrap(npc + 4)
    BY DEF Base
  <2> HIDE DEF rf
  <2>4. QED
    BY <2>1, <2>2, <2>3 DEF rf
<1>6. Continues(RegPut(R, i.a, v), SW, npc, Wrap(npc + 4))
  BY <1>5, StepDoes
<1>7. QED
  BY <1>6 DEF v

\* The step of a CMP.
LEMMA StepCompares ==
  ASSUME Step, NEW i, Fetched(code, pc) = i, "IE" \notin SW,
         i.op = "CMP", i.b \in GPR, i.c \in GPR
  PROVE  Continues(R, Compared(SW, R[i.b], R[i.c]), npc, Wrap(npc + 4))
<1>1. Outcomes(i) = Compares(i)
  BY DEF Outcomes, BranchOp, SetOp, SetRegOp, SetImmOp, AluOp, AluImmOp, AluRegOp, NopOp,
         LoadOp, StoreOp, MoveOp, TrapOp, HiLoOp, ToHiLoOp, FromHiLoOp, ToC0Op, JumpOp, CallOp
<1>2. B(i) = R[i.b] /\ C(i) = R[i.c]
  BY OperandRegs DEF B, C
<1> DEFINE sw == Compared(SW, R[i.b], R[i.c])
<1>3. Outcomes(i) = {Flags(sw)}
  BY <1>1, <1>2 DEF Compares
<1>4. "IE" \notin sw
  BY DEF Compared
<1> HIDE DEF sw
<1>5. \A o \in Outcomes(Fetched(code, pc)) :
        o.R = R /\ o.SW = sw /\ o.pc = npc /\ o.npc = Wrap(npc + 4)
  BY <1>3 DEF Flags, Base
<1>6. Continues(R, sw, npc, Wrap(npc + 4))
  BY <1>4, <1>5, StepDoes
<1>7. QED
  BY <1>6 DEF sw

\* The step of a conditional branch.
LEMMA StepBranches ==
  ASSUME Step, NEW i, Fetched(code, pc) = i, "IE" \notin SW,
         i.op \in BranchOp, i.a \in GPR, i.b \in GPR
  PROVE  Continues(R, SW, npc,
                   IF Taken(i.op, SW, R[i.a], R[i.b]) THEN Wrap(npc + i.cx) ELSE Wrap(npc + 4))
<1>1. Outcomes(i) = Branches(i)
  BY DEF Outcomes, BranchOp, SetOp, SetRegOp, SetImmOp, AluOp, AluImmOp, AluRegOp, NopOp,
         LoadOp, StoreOp, MoveOp, TrapOp, HiLoOp, ToHiLoOp, FromHiLoOp, ToC0Op, JumpOp, CallOp
<1>2. A(i) = R[i.a] /\ B(i) = R[i.b]
  BY OperandRegs DEF A, B
<1> DEFINE t == Taken(i.op, SW, R[i.a], R[i.b])
           y == IF t THEN Wrap(npc + i.cx) ELSE Wrap(npc + 4)
<1>3. Outcomes(i) = {IF t THEN Delayed(Base, Wrap(npc + i.cx)) ELSE Base}
  BY <1>1, <1>2 DEF Branches
<1>4. ASSUME NEW o \in Outcomes(i)
      PROVE  o.R = R /\ o.SW = SW /\ o.pc = npc /\ o.npc = y
  <2> HIDE DEF t
  <2>1. CASE t
    BY <1>3, <2>1 DEF Delayed, Base
  <2>2. CASE ~t
    BY <1>3, <2>2 DEF Base
  <2>3. QED
    BY <2>1, <2>2
<1> HIDE DEF y, t
<1>5. Continues(R, SW, npc, y)
  BY <1>4, StepDoes
<1>6. QED
  BY <1>5 DEF y, t

\* The step of a JMP, which has no slot.
LEMMA StepJumps ==
  ASSUME Step, NEW i, Fetched(code, pc) = i, "IE" \notin SW, i.op = "JMP"
  PROVE  Continues(R, SW, Wrap(npc + i.cx), Wrap(Wrap(npc + i.cx) + 4))
<1>1. Outcomes(i) = Jumps(i)
  BY DEF Outcomes, BranchOp, SetOp, SetRegOp, SetImmOp, AluOp, AluImmOp, AluRegOp, NopOp,
         LoadOp, StoreOp, MoveOp, TrapOp, HiLoOp, ToHiLoOp, FromHiLoOp, ToC0Op, JumpOp, CallOp
<1>2. Outcomes(i) = {AtOnce(Base, Wrap(npc + i.cx))}
  BY <1>1 DEF Jumps
<1> DEFINE y == Wrap(npc + i.cx)
           z == Wrap(y + 4)
<1>3. AtOnce(Base, y) = [Base EXCEPT !.pc = y, !.npc = z]
  BY DEF AtOnce
<1>4. Outcomes(i) = {[Base EXCEPT !.pc = y, !.npc = z]}
  BY <1>2, <1>3
<1> HIDE DEF y, z
<1>5. /\ [Base EXCEPT !.pc = y, !.npc = z].R = R
      /\ [Base EXCEPT !.pc = y, !.npc = z].SW = SW
  BY DEF Base
<1>6. /\ [Base EXCEPT !.pc = y, !.npc = z].pc = y
      /\ [Base EXCEPT !.pc = y, !.npc = z].npc = z
  BY DEF Base
<1>7. \A o \in Outcomes(Fetched(code, pc)) : o.R = R /\ o.SW = SW /\ o.pc = y /\ o.npc = z
  <2>1. Outcomes(Fetched(code, pc)) = {[Base EXCEPT !.pc = y, !.npc = z]}
    BY <1>4
  <2>2. QED
    BY ONLY <1>5, <1>6, <2>1
<1>8. Continues(R, SW, y, z)
  BY <1>7, StepDoes
<1>9. QED
  BY <1>8 DEF y, z

\* The step of a JSUB.
LEMMA StepCalls ==
  ASSUME Step, NEW i, Fetched(code, pc) = i, "IE" \notin SW, i.op = "JSUB"
  PROVE  Continues([R EXCEPT ![LR] = Wrap(npc + 4)], SW, npc, Wrap(npc + i.cx))
<1>1. Outcomes(i) = Links(i)
  BY DEF Outcomes, BranchOp, SetOp, SetRegOp, SetImmOp, AluOp, AluImmOp, AluRegOp, NopOp,
         LoadOp, StoreOp, MoveOp, TrapOp, HiLoOp, ToHiLoOp, FromHiLoOp, ToC0Op, JumpOp, CallOp
<1> DEFINE v == Wrap(npc + 4)
           y == Wrap(npc + i.cx)
<1>2. Outcomes(i) = {Delayed(Writes(LR, v), y)}
  BY <1>1 DEF Links
<1> HIDE DEF v, y
<1>3. RegSet(R, LR, v) = [R EXCEPT ![LR] = v]
  BY DEF RegSet, RegPut, LR, GPR
<1>4. LR # SWREG
  BY DEF LR, SWREG
<1>5. ASSUME NEW o \in Outcomes(Fetched(code, pc))
      PROVE  o.R = [R EXCEPT ![LR] = v] /\ o.SW = SW /\ o.pc = npc /\ o.npc = y
  <2>1. o = [Writes(LR, v) EXCEPT !.npc = y]
    BY <1>2 DEF Delayed
  <2>2. /\ o.R = Writes(LR, v).R /\ o.SW = Writes(LR, v).SW /\ o.pc = Writes(LR, v).pc
        /\ o.npc = y
    BY <2>1 DEF Writes, Base
  <2>3. /\ Writes(LR, v).R = RegSet(R, LR, v) /\ Writes(LR, v).SW = SW
        /\ Writes(LR, v).pc = npc
    BY ONLY <1>4, WritesFields
  <2>4. QED
    BY ONLY <1>3, <2>2, <2>3
<1>6. Continues([R EXCEPT ![LR] = v], SW, npc, y)
  BY <1>5, StepDoes
<1>7. QED
  BY <1>6 DEF v, y

\* The step of a RET.
LEMMA StepReturns ==
  ASSUME Step, NEW i, Fetched(code, pc) = i, "IE" \notin SW, i.op = "RET", i.a \in GPR
  PROVE  Continues(R, SW, npc, R[i.a])
<1>1. Outcomes(i) = {Delayed(Base, A(i))}
  BY DEF Outcomes, BranchOp, SetOp, SetRegOp, SetImmOp, AluOp, AluImmOp, AluRegOp, NopOp,
         LoadOp, StoreOp, MoveOp, TrapOp, HiLoOp, ToHiLoOp, FromHiLoOp, ToC0Op, JumpOp, CallOp
<1>2. A(i) = R[i.a]
  BY OperandRegs DEF A
<1>3. \A o \in Outcomes(Fetched(code, pc)) :
        o.R = R /\ o.SW = SW /\ o.pc = npc /\ o.npc = R[i.a]
  BY <1>1, <1>2 DEF Delayed, Base
<1>4. QED
  BY <1>3, StepDoes

-----------------------------------------------------------------------------
(* The inductive invariant: where the machine is, and that the code addresses *)
(* it holds are those of instructions that are left.                          *)

OnSlot(p, x) ==
  \E f \in 1 .. Len(p) : \E b \in 1 .. Len(p[f]) : \E k \in 1 .. Kept(p, f, b) :
    hasDelaySlot(p[f][b][k].op) /\ x = Addr(p, f, b, k) + 4

Registers(p, rf, sw) ==
  /\ rf = [r \in GPR |-> rf[r]] /\ rf[0] = 0
  /\ "IE" \notin sw
  /\ IsAddr(p, rf[LR])

Running(p) ==
  /\ mode = "run"
  /\ Registers(p, R, SW)
  /\ IsAddr(p, R[Saved]) \/ (pc = 0 /\ npc = 4)
  /\ \/ IsInstr(p, pc) /\ npc = Wrap(pc + 4)
     \/ OnSlot(p, pc) /\ IsAddr(p, npc)
     \/ pc = -1

Starting == mode = "off" /\ R \in [GPR -> Undef]

IInv == code \in Programs /\ (Starting \/ Running(code.mir))

\* What the machine program's variables stand for.
MirAt == IF mode = "off" THEN NoPos ELSE At
MirR == [r \in GPR \ LinkRegs |-> R[r]]
MirLink == [r \in LinkRegs |-> PosOf(code, R[r])]

\* What is at the address of a slot.
LEMMA SlotFacts ==
  ASSUME code \in Programs, NEW p, p = code.mir, NEW x, OnSlot(p, x)
  PROVE  x \in Nat /\ x # 0 /\ PosOf(code, x) = NoPos /\ Fetched(code, x) = Nop /\ x + 4 < Half
<1>1. PICK f, b, k :
        /\ f \in 1 .. Len(p) /\ b \in 1 .. Len(p[f]) /\ k \in 1 .. Kept(p, f, b)
        /\ hasDelaySlot(p[f][b][k].op) /\ x = Addr(p, f, b, k) + 4
  BY DEF OnSlot
<1> DEFINE y == Addr(p, f, b, k)
<1>2. y \in Nat /\ y + 8 < Half /\ PosOf(code, y + 4) = NoPos /\ Fetched(code, y + 4) = Nop
  <2>1. Placed(code, p, f, b, k, y)
    BY <1>1, AtAddr
  <2> HIDE DEF y
  <2>2. QED
    BY <1>1, <2>1 DEF Placed
<1>3. x = y + 4
  BY <1>1
<1> HIDE DEF y
<1>4. x \in Nat /\ x # 0 /\ x + 4 < Half
  <2>1. Half \in Nat
    BY WordAssumption
  <2>2. y \in Nat /\ y + 8 < Half
    BY <1>2
  <2>3. QED
    BY ONLY <1>3, <2>1, <2>2
<1>5. QED
  BY <1>2, <1>3, <1>4

\* The machine goes on at z, at once or after a slot.
LEMMA Arrives ==
  ASSUME code \in Programs, NEW p, p = code.mir, NEW rf, NEW sw, NEW x, NEW y, NEW z,
         Continues(rf, sw, x, y),
         Registers(p, rf, sw), IsAddr(p, rf[Saved]),
         IsAddr(p, z),
         \/ x = z /\ y = Wrap(x + 4)
         \/ y = z /\ OnSlot(p, x)
  PROVE  Running(p)' /\ MirAt' = PosOf(code, z) /\ UNCHANGED code
<1>1. R' = rf /\ SW' = sw /\ pc' = x /\ npc' = y /\ mode' = "run" /\ code' = code
  BY DEF Continues
<1>2. PosOf(code, z) # NoPos
  BY AddrFacts
<1>3. MirAt' = IF PosOf(code, x) = NoPos THEN PosOf(code, y) ELSE PosOf(code, x)
  BY <1>1 DEF MirAt, At
<1>4. MirAt' = PosOf(code, z)
  <2>1. CASE x = z
    BY <1>2, <1>3, <2>1
  <2>2. CASE y = z /\ OnSlot(p, x)
    <3>1. PosOf(code, x) = NoPos
      BY <2>2, SlotFacts
    <3>2. QED
      BY <1>3, <2>2, <3>1
  <2>3. QED
    BY <2>1, <2>2
<1>5. \/ IsInstr(p, x) /\ y = Wrap(x + 4)
      \/ OnSlot(p, x) /\ IsAddr(p, y)
      \/ x = -1
  BY DEF IsAddr
<1>6. Running(p)'
  BY <1>1, <1>5 DEF Running
<1>7. QED
  BY <1>1, <1>4, <1>6

\* Writing a data register leaves the others, and the machine program sees it.
LEMMA DataWrite ==
  ASSUME NEW p, Registers(p, R, SW), NEW d \in Data, NEW v, d # 0
  PROVE  LET rf == RegPut(R, d, v)
         IN  /\ Registers(p, rf, SW) /\ rf[Saved] = R[Saved]
             /\ [r \in GPR \ LinkRegs |-> rf[r]] = RegPut(MirR, d, v)
             /\ [r \in LinkRegs |-> PosOf(code, rf[r])] = MirLink
<1> DEFINE rf == RegPut(R, d, v)
<1>1. d \in GPR /\ d # LR /\ d # Saved /\ d \in GPR \ LinkRegs
  BY DEF Data, LinkRegs
<1>2. rf = [R EXCEPT ![d] = v]
  BY <1>1 DEF RegPut
<1>3. R = [r \in GPR |-> R[r]]
  BY DEF Registers
<1>4. Saved \in GPR /\ LR \in GPR /\ 0 \in GPR
  BY SavedAssumption DEF GPR, LR
<1>5. rf = [r \in GPR |-> IF r = d THEN v ELSE R[r]]
  BY <1>2, <1>3
<1> HIDE DEF rf
<1>6. rf[0] = 0 /\ rf[LR] = R[LR] /\ rf[Saved] = R[Saved]
  BY <1>1, <1>4, <1>5 DEF Registers
<1>7. rf = [r \in GPR |-> rf[r]]
  BY <1>5
<1>8. Registers(p, rf, SW)
  BY <1>6, <1>7 DEF Registers
<1>9. [r \in GPR \ LinkRegs |-> rf[r]] = RegPut(MirR, d, v)
  <2>1. RegPut(MirR, d, v) = [MirR EXCEPT ![d] = v]
    BY <1>1 DEF RegPut
  <2>2. QED
    BY <1>1, <1>5, <2>1 DEF MirR
<1>10. [r \in LinkRegs |-> PosOf(code, rf[r])] = MirLink
  <2>1. \A r \in LinkRegs : rf[r] = R[r]
    BY <1>6 DEF LinkRegs
  <2>2. QED
    BY <2>1 DEF MirLink
<1>11. QED
  BY <1>6, <1>8, <1>9, <1>10 DEF rf

-----------------------------------------------------------------------------
(* One instruction of the machine program. *)

AtInstr(p, f, b, k) ==
  /\ f \in 1 .. Len(p) /\ b \in 1 .. Len(p[f]) /\ k \in 1 .. Kept(p, f, b)
  /\ pc = Addr(p, f, b, k) /\ npc = Wrap(pc + 4)

\* The addresses at an instruction, and what is fetched there.
LEMMA WhereItIs ==
  ASSUME code \in Programs, NEW p, p = code.mir, Running(p),
         NEW f, NEW b, NEW k, AtInstr(p, f, b, k)
  PROVE  /\ pc \in Nat /\ pc + 4 < Half /\ npc = pc + 4
         /\ hasDelaySlot(p[f][b][k].op) => Wrap(npc + 4) = pc + 8 /\ OnSlot(p, npc)
         /\ Fetched(code, pc) = Emitted(PreEmit(p), f, ExpandRet(p[f][b][k]), pc)
         /\ MirAt = <<f, b, k>>
<1>1. /\ pc \in Nat /\ pc + 4 < Half
      /\ PosOf(code, pc) = <<f, b, k>>
      /\ Fetched(code, pc) = Emitted(PreEmit(p), f, ExpandRet(p[f][b][k]), pc)
      /\ hasDelaySlot(p[f][b][k].op) => pc + 8 < Half
  <2>1. /\ f \in 1 .. Len(p) /\ b \in 1 .. Len(p[f]) /\ k \in 1 .. Kept(p, f, b)
        /\ pc = Addr(p, f, b, k)
    BY DEF AtInstr
  <2>2. Placed(code, p, f, b, k, pc)
    BY <2>1, AtAddr
  <2>3. QED
    BY <2>2 DEF Placed
<1>2. Half \in Nat
  BY WordAssumption
<1>3. npc = pc + 4
  <2>1. pc + 4 \in Int /\ -Half <= pc + 4 /\ pc + 4 < Half
    BY ONLY <1>1, <1>2
  <2>2. Wrap(pc + 4) = pc + 4
    BY ONLY <2>1, WrapWord
  <2>3. QED
    BY <2>2 DEF AtInstr
<1>4. ASSUME hasDelaySlot(p[f][b][k].op)
      PROVE  Wrap(npc + 4) = pc + 8 /\ OnSlot(p, npc)
  <2>1. pc + 8 < Half
    BY <1>1, <1>4
  <2> DEFINE e == npc + 4
  <2>2. e \in Int /\ -Half <= e /\ e < Half /\ e = pc + 8
    BY ONLY <1>1, <1>2, <1>3, <2>1
  <2> HIDE DEF e
  <2>3. Wrap(e) = e
    BY ONLY <2>2, WrapWord
  <2>4. OnSlot(p, npc)
    BY <1>3, <1>4 DEF OnSlot, AtInstr
  <2>5. QED
    BY <2>2, <2>3, <2>4 DEF e
<1>5. MirAt = <<f, b, k>>
  <2>1. f # 0
    BY DEF AtInstr
  <2>2. QED
    BY <1>1, <2>1 DEF MirAt, At, NoPos, Running
<1>6. QED
  BY <1>1, <1>3, <1>4, <1>5

\* It is one of the three kinds of instructions of well-formed programs.
LEMMA Legal ==
  ASSUME code \in Programs, NEW p, p = code.mir,
         NEW f, NEW b, NEW k, AtInstr(p, f, b, k)
  PROVE  /\ p[f][b][k] \in MachineInstr
         /\ IsData(p[f][b][k]) \/ IsCopy(p[f][b][k]) \/ IsTransfer(p, f, p[f][b][k])
<1>1. WellFormed(p) /\ p \in Seq(Seq(Seq(MachineInstr)))
  BY ProgramFacts
<1>2. f \in 1 .. Len(p) /\ b \in 1 .. Len(p[f]) /\ k \in 1 .. Kept(p, f, b)
  BY DEF AtInstr
<1>3. p[f] \in Seq(Seq(MachineInstr))
  BY <1>1, <1>2
<1>4. p[f][b] \in Seq(MachineInstr)
  BY <1>2, <1>3
<1>5. k \in 1 .. Len(p[f][b])
  <2>1. Kept(p, f, b) \in 0 .. Len(p[f][b])
    BY <1>1, <1>2, KeptType
  <2>2. Len(p[f][b]) \in Nat
    BY <1>4
  <2>3. QED
    BY ONLY <1>2, <2>1, <2>2
<1>6. f \in DOMAIN p /\ b \in DOMAIN p[f] /\ k \in DOMAIN p[f][b]
  BY <1>1, <1>2, <1>3, <1>4, <1>5
<1>7. p[f][b][k] \in MachineInstr
  BY <1>4, <1>5
<1>8. QED
  BY <1>1, <1>6, <1>7 DEF WellFormed

\* Once main has saved the link register, Saved holds a code address.
LEMMA SavedHolds ==
  ASSUME code \in Programs, NEW p, p = code.mir, Running(p),
         NEW f, NEW b, NEW k, AtInstr(p, f, b, k)
  PROVE  \/ IsAddr(p, R[Saved])
         \/ IsCopy(p[f][b][k]) /\ p[f][b][k].a = Saved /\ p[f][b][k].b = LR
<1>1. CASE pc = 0
  <2>1. /\ 1 \in 1 .. Len(p) /\ 1 \in 1 .. Len(p[1]) /\ 1 \in 1 .. Kept(p, 1, 1)
        /\ Addr(p, 1, 1, 1) = 0
        /\ IsCopy(p[1][1][1]) /\ p[1][1][1].a = Saved /\ p[1][1][1].b = LR
    BY FirstInstr
  <2>2. PosOf(code, 0) = <<1, 1, 1>>
    <3>1. Placed(code, p, 1, 1, 1, Addr(p, 1, 1, 1))
      BY <2>1, AtAddr
    <3>2. QED
      BY <2>1, <3>1 DEF Placed
  <2>3. PosOf(code, pc) = <<f, b, k>>
    <3>1. /\ f \in 1 .. Len(p) /\ b \in 1 .. Len(p[f]) /\ k \in 1 .. Kept(p, f, b)
          /\ pc = Addr(p, f, b, k)
      BY DEF AtInstr
    <3>2. Placed(code, p, f, b, k, pc)
      BY <3>1, AtAddr
    <3>3. QED
      BY <3>2 DEF Placed
  <2>4. f = 1 /\ b = 1 /\ k = 1
    BY <1>1, <2>2, <2>3
  <2>5. QED
    BY <2>1, <2>4
<1>2. CASE pc # 0
  BY <1>2 DEF Running
<1>3. QED
  BY <1>1, <1>2

\* The machine program's step is one of its instructions' at <<f, b, k>>.
LEMMA MirRuns ==
  ASSUME code \in Programs, NEW p, p = code.mir,
         NEW f, NEW b, NEW k, AtInstr(p, f, b, k), MirAt = <<f, b, k>>, UNCHANGED code,
         NEW i, i = p[f][b][k],
         \/ Mir!Compute(i) \/ Mir!Set(i) \/ Mir!Compare(i) \/ Mir!Copy(i) \/ Mir!Branch(i)
         \/ Mir!Jump(i) \/ Mir!Call(i) \/ Mir!TailCall(i) \/ Mir!Ret(i)
  PROVE  Mir!Next
<1>1. f # 0
  BY DEF AtInstr
<1>2. MirAt \notin {Mir!Nowhere, Mir!Exit}
  BY <1>1 DEF Mir!Nowhere, Mir!Exit
<1> DEFINE j == code.mir[MirAt[1]][MirAt[2]][MirAt[3]]
<1>3. i = j
  OBVIOUS
<1>4. \/ Mir!Compute(j) \/ Mir!Set(j) \/ Mir!Compare(j) \/ Mir!Copy(j) \/ Mir!Branch(j)
      \/ Mir!Jump(j) \/ Mir!Call(j) \/ Mir!TailCall(j) \/ Mir!Ret(j)
  <2>1. Mir!Compute(i) => Mir!Compute(j)
    BY <1>3 DEF Mir!Compute
  <2>2. Mir!Set(i) => Mir!Set(j)
    BY <1>3 DEF Mir!Set
  <2>3. Mir!Compare(i) => Mir!Compare(j)
    BY <1>3 DEF Mir!Compare
  <2>4. Mir!Copy(i) => Mir!Copy(j)
    BY <1>3 DEF Mir!Copy
  <2>5. Mir!Branch(i) => Mir!Branch(j)
    BY <1>3 DEF Mir!Branch
  <2>6. Mir!Jump(i) => Mir!Jump(j)
    BY <1>3 DEF Mir!Jump
  <2>7. Mir!Call(i) => Mir!Call(j)
    BY <1>3 DEF Mir!Call
  <2>8. Mir!TailCall(i) => Mir!TailCall(j)
    BY <1>3 DEF Mir!TailCall
  <2>9. Mir!Ret(i) => Mir!Ret(j)
    BY <1>3 DEF Mir!Ret
  <2>10. QED
    BY <2>1, <2>2, <2>3, <2>4, <2>5, <2>6, <2>7, <2>8, <2>9
<1>5. Mir!Run
  BY <1>2, <1>4 DEF Mir!Run, MirAt
<1>6. QED
  BY <1>5 DEF Mir!Next

\* Where the machine program goes on from <<f, b, k>>.
LEMMA MirPlaces ==
  ASSUME NEW f, NEW b, NEW k, MirAt = <<f, b, k>>
  PROVE  /\ Mir!Behind = Mir!Settle(f, b, k + 1)
         /\ \A n : Mir!Block(n) = Mir!Settle(f, n, 1)
BY DEF Mir!Behind, Mir!Block, MirAt

-----------------------------------------------------------------------------
(* The machine after an instruction. *)

\* What has no offset is emitted as it is.
LEMMA EmittedSame ==
  ASSUME NEW q, NEW f, NEW i, NEW x, i.op \notin PC16 \cup PC24
  PROVE  /\ i.op # "RetLR" => Emitted(q, f, ExpandRet(i), x) = i
         /\ i.op = "RetLR" => Emitted(q, f, ExpandRet(i), x) = ExpandRet(i)
<1>1. CASE i.op = "RetLR"
  <2> DEFINE j == ExpandRet(i)
  <2>1. j = [i EXCEPT !.op = "RET", !.a = LR]
    BY <1>1 DEF ExpandRet
  <2>2. j.op \in {"RET", "RetLR"}
    BY <1>1, <2>1
  <2> HIDE DEF j
  <2>3. j.op \notin PC16 \cup PC24
    BY <2>2 DEF PC16, PC24
  <2>4. QED
    BY <1>1, <2>3 DEF Emitted, j
<1>2. CASE i.op # "RetLR"
  BY <1>2 DEF ExpandRet, Emitted
<1>3. QED
  BY <1>1, <1>2

\* After an instruction without a slot that does not transfer.
LEMMA GoesOn ==
  ASSUME code \in Programs, NEW p, p = code.mir, Running(p),
         NEW f, NEW b, NEW k, AtInstr(p, f, b, k),
         NEW i, i = p[f][b][k], i.op \notin {"RetLR", "TAILCALL", "JMP"}, ~hasDelaySlot(i.op),
         NEW rf, NEW sw, Continues(rf, sw, npc, Wrap(npc + 4)),
         Registers(p, rf, sw), IsAddr(p, rf[Saved])
  PROVE  Running(p)' /\ MirAt' = Mir!Behind /\ UNCHANGED code
<1>1. /\ f \in 1 .. Len(p) /\ b \in 1 .. Len(p[f]) /\ k \in 1 .. Kept(p, f, b)
      /\ pc = Addr(p, f, b, k)
  BY DEF AtInstr
<1>2. npc = pc + 4 /\ MirAt = <<f, b, k>>
  BY WhereItIs
<1>3. IsInstr(p, npc) /\ PosOf(code, npc) = Mir!Settle(f, b, k + 1)
  BY <1>1, <1>2, ReachesBehind
<1>4. IsAddr(p, npc)
  BY <1>3 DEF IsAddr
<1>5. Running(p)' /\ MirAt' = PosOf(code, npc) /\ UNCHANGED code
  BY <1>4, Arrives
<1>6. QED
  BY <1>2, <1>3, <1>5, MirPlaces

\* After one that transfers behind its slot.
LEMMA GoesTo ==
  ASSUME code \in Programs, NEW p, p = code.mir, Running(p),
         NEW f, NEW b, NEW k, AtInstr(p, f, b, k), hasDelaySlot(p[f][b][k].op),
         NEW rf, NEW sw, NEW y, Continues(rf, sw, npc, y),
         Registers(p, rf, sw), IsAddr(p, rf[Saved]), IsAddr(p, y)
  PROVE  Running(p)' /\ MirAt' = PosOf(code, y) /\ UNCHANGED code
<1>1. OnSlot(p, npc)
  BY WhereItIs
<1>2. QED
  BY <1>1, Arrives

\* Where a transfer leads is an instruction, and its emitted offset leads there.
LEMMA Transfers ==
  ASSUME code \in Programs, NEW p, p = code.mir, Running(p),
         NEW f, NEW b, NEW k, AtInstr(p, f, b, k),
         NEW i, i = p[f][b][k], i.op \in PC16 \cup PC24, IsTransfer(p, f, i)
  PROVE  LET y == Target(p, f, i)
             e == Fetched(code, pc)
         IN  /\ IsAddr(p, y) /\ Wrap(npc + e.cx) = y
             /\ PosOf(code, y) = IF i.op \in Calls THEN Mir!Settle(i.cx, 1, 1)
                                                   ELSE Mir!Settle(f, i.cx, 1)
             /\ e.op = (IF i.op = "TAILCALL" THEN "JMP" ELSE i.op)
             /\ e.a = i.a /\ e.b = i.b
<1> DEFINE y == Target(p, f, i)
           e == Fetched(code, pc)
<1>1. /\ f \in 1 .. Len(p) /\ b \in 1 .. Len(p[f]) /\ k \in 1 .. Kept(p, f, b)
      /\ pc = Addr(p, f, b, k)
  BY DEF AtInstr
<1>2. /\ pc \in Nat /\ npc = pc + 4 /\ Fetched(code, pc) = Emitted(PreEmit(p), f, ExpandRet(i), pc)
  BY WhereItIs
<1>3. p \in Seq(Seq(Seq(MachineInstr)))
  BY ProgramFacts
<1>4. DOMAIN p = 1 .. Len(p) /\ DOMAIN p[f] = 1 .. Len(p[f])
  <2>1. p[f] \in Seq(Seq(MachineInstr))
    BY <1>1, <1>3
  <2>2. QED
    BY <1>3, <2>1
<1>5. i.op \in Calls => i.cx \in 1 .. Len(p)
  BY <1>4 DEF IsTransfer, BranchOp, Calls
<1>6. i.op \notin Calls => i.cx \in 1 .. Len(p[f])
  BY <1>4 DEF IsTransfer, Calls, PC16, PC24
<1>7. /\ e.op = (IF i.op = "TAILCALL" THEN "JMP" ELSE i.op)
      /\ e.a = i.a /\ e.b = i.b
      /\ e.cx = y - pc - 4
  <2> DEFINE d == Emitted(PreEmit(p), f, ExpandRet(i), Addr(p, f, b, k))
  <2>1. /\ d.op = (IF i.op = "TAILCALL" THEN "JMP" ELSE i.op)
        /\ d.a = i.a /\ d.b = i.b
        /\ d.cx = Target(p, f, i) - Addr(p, f, b, k) - 4
    BY <1>1, <1>5, <1>6, EmittedTransfer
  <2>2. e = d
    BY <1>1, <1>2
  <2> HIDE DEF d, e
  <2>3. QED
    BY <1>1, <2>1, <2>2
<1>8. /\ IsInstr(p, y)
      /\ PosOf(code, y) = IF i.op \in Calls THEN Mir!Settle(i.cx, 1, 1)
                                            ELSE Mir!Settle(f, i.cx, 1)
  <2>1. CASE i.op \in Calls
    <3>1. /\ IsInstr(p, Addr(p, i.cx, 1, 1))
          /\ PosOf(code, Addr(p, i.cx, 1, 1)) = Mir!Settle(i.cx, 1, 1)
      BY <1>5, <2>1, ReachesFunction
    <3>2. QED
      BY <2>1, <3>1 DEF Target
  <2>2. CASE i.op \notin Calls
    <3>1. /\ IsInstr(p, Addr(p, f, i.cx, 1))
          /\ PosOf(code, Addr(p, f, i.cx, 1)) = Mir!Settle(f, i.cx, 1)
      BY <1>1, <1>6, <2>2, ReachesBlock
    <3>2. QED
      BY <2>2, <3>1 DEF Target
  <2>3. QED
    BY <2>1, <2>2
<1>9. y \in Nat /\ y + 4 < Half
  <2> HIDE DEF y
  <2>1. QED
    BY <1>8, InstrFacts
<1> HIDE DEF y, e
<1>10. npc + e.cx = y
  BY ONLY <1>2, <1>7, <1>9
<1>11. Wrap(y) = y
  <2>1. Half \in Nat
    BY WordAssumption
  <2>2. y \in Int /\ -Half <= y /\ y < Half
    BY ONLY <1>9, <2>1
  <2>3. QED
    BY ONLY <2>2, WrapWord
<1>12. QED
  BY <1>7, <1>8, <1>10, <1>11 DEF IsAddr, y, e

-----------------------------------------------------------------------------
(* An instruction of the machine is a step of the machine program. *)

\* Cpu0Mir has the vocabulary of Cpu0Arch, too.
LEMMA MirSame ==
  /\ Mir!AluOp = AluOp /\ Mir!SetOp = SetOp /\ Mir!BranchOp = BranchOp
  /\ \A i, v : Mir!Second(i, v) = Second(i, v)
  /\ \A rf, r, v : Mir!RegSet(rf, r, v) = RegSet(rf, r, v)
  /\ \A rf, r, v : Mir!RegPut(rf, r, v) = RegPut(rf, r, v)
  /\ \A op, sw, x, y : Mir!Taken(op, sw, x, y) = Taken(op, sw, x, y)
  /\ \A sw, x, y : Mir!Compared(sw, x, y) = Compared(sw, x, y)
<1>1. Mir!AluOp = AluOp /\ Mir!SetOp = SetOp /\ Mir!BranchOp = BranchOp
  BY DEF Mir!AluOp, Mir!AluImmOp, Mir!AluRegOp, AluOp, AluImmOp, AluRegOp,
         Mir!SetOp, Mir!SetRegOp, Mir!SetImmOp, SetOp, SetRegOp, SetImmOp,
         Mir!BranchOp, BranchOp
<1>2. \A i, v : Mir!Second(i, v) = Second(i, v)
  BY DEF Mir!Second, Second, Mir!AluImmOp, AluImmOp, Mir!SetImmOp, SetImmOp
<1>3. \A rf, r, v : Mir!RegPut(rf, r, v) = RegPut(rf, r, v)
  BY DEF Mir!RegPut, RegPut, Mir!GPR, GPR
<1>4. \A rf, r, v : Mir!RegSet(rf, r, v) = RegSet(rf, r, v)
  BY <1>3 DEF Mir!RegSet, RegSet
<1>5. \A op, sw, x, y : Mir!Taken(op, sw, x, y) = Taken(op, sw, x, y)
  BY DEF Mir!Taken, Taken
<1>6. \A sw, x, y : Mir!Compared(sw, x, y) = Compared(sw, x, y)
  BY DEF Mir!Compared, Compared, Mir!Wrap, Wrap
<1>7. QED
  BY <1>1, <1>2, <1>3, <1>4, <1>5, <1>6

\* A step that is safe and one of the machine program's.
Follows(p) == Running(p)' /\ Mir!Next /\ UNCHANGED code

\* What the operands of a data instruction are.
LEMMA DataFacts ==
  ASSUME NEW p, NEW f, NEW i \in MachineInstr,
         IsData(i) \/ IsCopy(i) \/ IsTransfer(p, f, i),
         i.op \in AluOp \cup SetOp \cup {"CMP"}, ~IsCopy(i)
  PROVE  /\ i.a \in Data /\ i.b \in Data /\ i.c \in Data /\ (i.op \in SetOp => i.a # 0)
         /\ i.a \in GPR /\ i.b \in GPR /\ i.c \in GPR
         /\ i.a \notin LinkRegs /\ i.b \in GPR \ LinkRegs /\ i.c \in GPR \ LinkRegs
         /\ i.op \notin PC16 \cup PC24 /\ i.op \notin {"RetLR", "TAILCALL", "JMP"}
         /\ ~hasDelaySlot(i.op)
<1>1. i.op \notin PC16 \cup PC24 /\ i.op \notin {"RetLR", "TAILCALL", "JMP"}
  BY DEF AluOp, AluImmOp, AluRegOp, SetOp, SetRegOp, SetImmOp, PC16, PC24
<1>2. ~hasDelaySlot(i.op)
  BY DEF AluOp, AluImmOp, AluRegOp, SetOp, SetRegOp, SetImmOp, hasDelaySlot, BranchOp, CallOp
<1>3. ~IsTransfer(p, f, i)
  BY DEF IsTransfer, AluOp, AluImmOp, AluRegOp, SetOp, SetRegOp, SetImmOp, BranchOp, Calls
<1>4. IsData(i)
  BY <1>3
<1>5. QED
  BY <1>1, <1>2, <1>4 DEF IsData, Data

\* An ALU instruction on data.
LEMMA ComputeFollows ==
  ASSUME code \in Programs, NEW p, p = code.mir, Running(p), Step,
         NEW f, NEW b, NEW k, AtInstr(p, f, b, k),
         NEW i, i = p[f][b][k], i.op \in AluOp, ~IsCopy(i)
  PROVE  Follows(p)
<1> DEFINE v == Alu(i.op, R[i.b], Second(i, R[i.c]))
           rf == RegSet(R, i.a, v)
<1>1. /\ i.a \in Data /\ i.a \in GPR /\ i.b \in GPR /\ i.c \in GPR
      /\ i.a \notin LinkRegs /\ i.b \in GPR \ LinkRegs /\ i.c \in GPR \ LinkRegs
      /\ i.op \notin PC16 \cup PC24 /\ i.op \notin {"RetLR", "TAILCALL", "JMP"}
      /\ ~hasDelaySlot(i.op)
  BY Legal, DataFacts
<1>2. Fetched(code, pc) = i /\ MirAt = <<f, b, k>>
  BY <1>1, WhereItIs, EmittedSame
<1>3. Registers(p, R, SW) /\ IsAddr(p, R[Saved])
  BY SavedHolds DEF Running
<1>4. Continues(rf, SW, npc, Wrap(npc + 4))
  BY <1>1, <1>2, <1>3, StepComputes DEF Registers
<1> HIDE DEF v
<1>5. /\ Registers(p, rf, SW) /\ rf[Saved] = R[Saved]
      /\ [r \in GPR \ LinkRegs |-> rf[r]] = RegSet(MirR, i.a, v)
      /\ [r \in LinkRegs |-> PosOf(code, rf[r])] = MirLink
  <2>1. CASE i.a = 0
    <3>1. rf = R /\ RegSet(MirR, i.a, v) = MirR
      BY <2>1 DEF RegSet
    <3>2. QED
      BY <1>3, <3>1 DEF MirR, MirLink
  <2>2. CASE i.a # 0
    <3>1. rf = RegPut(R, i.a, v) /\ RegSet(MirR, i.a, v) = RegPut(MirR, i.a, v)
      BY <2>2 DEF RegSet
    <3>2. i.a \in Data /\ i.a # 0 /\ Registers(p, R, SW)
      BY <1>1, <1>3, <2>2
    <3>3. LET rp == RegPut(R, i.a, v)
          IN  /\ Registers(p, rp, SW) /\ rp[Saved] = R[Saved]
              /\ [r \in GPR \ LinkRegs |-> rp[r]] = RegPut(MirR, i.a, v)
              /\ [r \in LinkRegs |-> PosOf(code, rp[r])] = MirLink
      BY ONLY <3>2, DataWrite
    <3>4. QED
      BY <3>1, <3>3
  <2>3. QED
    BY <2>1, <2>2
<1> HIDE DEF rf
<1>6. Running(p)' /\ MirAt' = Mir!Behind /\ UNCHANGED code
  BY <1>1, <1>3, <1>4, <1>5, GoesOn
<1>7. R' = rf /\ SW' = SW
  BY <1>4 DEF Continues
<1>8. MirR' = RegSet(MirR, i.a, v) /\ MirLink' = MirLink
  BY <1>5, <1>6, <1>7 DEF MirR, MirLink
<1>9. v = Alu(i.op, MirR[i.b], Second(i, MirR[i.c]))
  BY <1>1 DEF v, MirR
<1>10. MirR' = Mir!RegSet(MirR, i.a, Alu(i.op, MirR[i.b], Mir!Second(i, MirR[i.c])))
  BY <1>8, <1>9, MirSame
<1>11. i.op \in Mir!AluOp
  BY MirSame
<1>12. Mir!Compute(i)
  BY <1>1, <1>6, <1>7, <1>8, <1>10, <1>11 DEF Mir!Compute, MirAt, MirR, MirLink
<1>13. Mir!Next
  BY <1>2, <1>6, <1>12, MirRuns
<1>14. QED
  BY <1>6, <1>13 DEF Follows

\* A set-on-less instruction.
LEMMA SetFollows ==
  ASSUME code \in Programs, NEW p, p = code.mir, Running(p), Step,
         NEW f, NEW b, NEW k, AtInstr(p, f, b, k),
         NEW i, i = p[f][b][k], i.op \in SetOp
  PROVE  Follows(p)
<1> DEFINE v == IF R[i.b] < Second(i, R[i.c]) THEN 1 ELSE 0
           rf == RegPut(R, i.a, v)
<1>1. ~IsCopy(i)
  BY DEF IsCopy, SetOp, SetRegOp, SetImmOp
<1>2. /\ i.a \in Data /\ i.a # 0 /\ i.a \in GPR /\ i.b \in GPR /\ i.c \in GPR
      /\ i.a \notin LinkRegs /\ i.b \in GPR \ LinkRegs /\ i.c \in GPR \ LinkRegs
      /\ i.op \notin PC16 \cup PC24 /\ i.op \notin {"RetLR", "TAILCALL", "JMP"}
      /\ ~hasDelaySlot(i.op)
  BY <1>1, Legal, DataFacts
<1>3. Fetched(code, pc) = i /\ MirAt = <<f, b, k>>
  BY <1>2, WhereItIs, EmittedSame
<1>4. Registers(p, R, SW) /\ IsAddr(p, R[Saved])
  BY <1>1, SavedHolds DEF Running
<1>5. Continues(rf, SW, npc, Wrap(npc + 4))
  BY <1>2, <1>3, <1>4, StepSets DEF Registers
<1> HIDE DEF v
<1>6. /\ Registers(p, rf, SW) /\ rf[Saved] = R[Saved]
      /\ [r \in GPR \ LinkRegs |-> rf[r]] = RegPut(MirR, i.a, v)
      /\ [r \in LinkRegs |-> PosOf(code, rf[r])] = MirLink
  <2>1. i.a \in Data /\ i.a # 0 /\ Registers(p, R, SW)
    BY <1>2, <1>4
  <2>2. QED
    BY ONLY <2>1, DataWrite
<1> HIDE DEF rf
<1>7. Running(p)' /\ MirAt' = Mir!Behind /\ UNCHANGED code
  BY <1>2, <1>4, <1>5, <1>6, GoesOn
<1>8. R' = rf /\ SW' = SW
  BY <1>5 DEF Continues
<1>9. MirR' = RegPut(MirR, i.a, v) /\ MirLink' = MirLink
  BY <1>6, <1>7, <1>8 DEF MirR, MirLink
<1>10. v = IF MirR[i.b] < Second(i, MirR[i.c]) THEN 1 ELSE 0
  BY <1>2 DEF v, MirR
<1>11. MirR' = Mir!RegPut(MirR, i.a, IF MirR[i.b] < Mir!Second(i, MirR[i.c]) THEN 1 ELSE 0)
  BY <1>9, <1>10, MirSame
<1>12. i.op \in Mir!SetOp
  BY MirSame
<1>13. Mir!Set(i)
  BY <1>7, <1>8, <1>9, <1>11, <1>12 DEF Mir!Set, MirAt, MirR, MirLink
<1>14. Mir!Next
  BY <1>3, <1>7, <1>13, MirRuns
<1>15. QED
  BY <1>7, <1>14 DEF Follows

\* A comparison.
LEMMA CompareFollows ==
  ASSUME code \in Programs, NEW p, p = code.mir, Running(p), Step,
         NEW f, NEW b, NEW k, AtInstr(p, f, b, k),
         NEW i, i = p[f][b][k], i.op = "CMP"
  PROVE  Follows(p)
<1> DEFINE sw == Compared(SW, R[i.b], R[i.c])
<1>1. ~IsCopy(i)
  BY DEF IsCopy
<1>2. /\ i.b \in GPR /\ i.c \in GPR
      /\ i.b \in GPR \ LinkRegs /\ i.c \in GPR \ LinkRegs
      /\ i.op \notin PC16 \cup PC24 /\ i.op \notin {"RetLR", "TAILCALL", "JMP"}
      /\ ~hasDelaySlot(i.op)
  BY <1>1, Legal, DataFacts
<1>3. Fetched(code, pc) = i /\ MirAt = <<f, b, k>>
  BY <1>2, WhereItIs, EmittedSame
<1>4. Registers(p, R, SW) /\ IsAddr(p, R[Saved])
  BY <1>1, SavedHolds DEF Running
<1>5. Continues(R, sw, npc, Wrap(npc + 4))
  BY <1>2, <1>3, <1>4, StepCompares DEF Registers
<1>6. "IE" \notin sw
  BY <1>4 DEF Compared, Registers
<1> HIDE DEF sw
<1>7. Registers(p, R, sw)
  BY <1>4, <1>6 DEF Registers
<1>8. Running(p)' /\ MirAt' = Mir!Behind /\ UNCHANGED code
  BY <1>2, <1>4, <1>5, <1>7, GoesOn
<1>9. R' = R /\ SW' = sw
  BY <1>5 DEF Continues
<1>10. MirR' = MirR /\ MirLink' = MirLink
  BY <1>8, <1>9 DEF MirR, MirLink
<1>11. SW' = Mir!Compared(SW, MirR[i.b], MirR[i.c])
  <2>1. MirR[i.b] = R[i.b] /\ MirR[i.c] = R[i.c]
    BY <1>2 DEF MirR
  <2>2. QED
    BY <1>9, <2>1, MirSame DEF sw
<1>12. Mir!Compare(i)
  BY <1>8, <1>10, <1>11 DEF Mir!Compare, MirAt, MirR, MirLink
<1>13. Mir!Next
  BY <1>3, <1>8, <1>12, MirRuns
<1>14. QED
  BY <1>8, <1>13 DEF Follows

\* Saving or restoring the link register.
LEMMA CopyFollows ==
  ASSUME code \in Programs, NEW p, p = code.mir, Running(p), Step,
         NEW f, NEW b, NEW k, AtInstr(p, f, b, k),
         NEW i, i = p[f][b][k], IsCopy(i)
  PROVE  Follows(p)
<1> DEFINE v == R[i.b]
           rf == [R EXCEPT ![i.a] = v]
<1>1. i.op = "ADDu" /\ i.a \in LinkRegs /\ i.b \in LinkRegs /\ i.c = 0
  BY DEF IsCopy
<1>2. /\ i.op \in AluOp /\ i.op \notin PC16 \cup PC24 /\ i.op \notin {"RetLR", "TAILCALL", "JMP"}
      /\ ~hasDelaySlot(i.op) /\ i.op \notin AluImmOp \cup SetImmOp
  BY <1>1 DEF AluOp, AluRegOp, AluImmOp, SetImmOp, PC16, PC24, hasDelaySlot, BranchOp, CallOp
<1>3. Saved \in GPR /\ LR \in GPR /\ 0 \in GPR /\ Saved # 0 /\ LR # 0 /\ Saved # LR
  BY SavedAssumption DEF GPR, LR
<1>4. i.a \in GPR /\ i.b \in GPR /\ i.c \in GPR /\ i.a # 0
  BY <1>1, <1>3 DEF LinkRegs
<1>5. Fetched(code, pc) = i /\ MirAt = <<f, b, k>>
  BY <1>2, WhereItIs, EmittedSame
<1>6. Registers(p, R, SW) /\ R = [r \in GPR |-> R[r]] /\ R[0] = 0 /\ "IE" \notin SW
  BY DEF Running, Registers
<1>7. IsAddr(p, R[LR])
  BY DEF Running, Registers
<1>8. IsAddr(p, R[Saved]) \/ (i.a = Saved /\ i.b = LR)
  BY SavedHolds
<1>9. IsAddr(p, v)
  BY <1>1, <1>3, <1>7, <1>8 DEF LinkRegs
<1>10. Alu(i.op, R[i.b], Second(i, R[i.c])) = v
  <2>1. Second(i, R[i.c]) = 0
    BY <1>1, <1>2, <1>6 DEF Second
  <2>2. v \in Word
    BY <1>9, AddrFacts
  <2>3. QED
    BY <1>1, <2>1, <2>2, MoveAssumption
<1>11. Continues(rf, SW, npc, Wrap(npc + 4))
  <2>1. RegSet(R, i.a, v) = rf
    BY <1>4 DEF RegSet, RegPut
  <2>2. Continues(RegSet(R, i.a, Alu(i.op, R[i.b], Second(i, R[i.c]))), SW, npc, Wrap(npc + 4))
    BY <1>2, <1>4, <1>5, <1>6, StepComputes
  <2>3. QED
    BY <1>10, <2>1, <2>2
<1> HIDE DEF v
<1>12. rf = [r \in GPR |-> IF r = i.a THEN v ELSE R[r]]
  BY <1>6
<1> HIDE DEF rf
<1>13. rf[0] = 0 /\ rf = [r \in GPR |-> rf[r]]
  BY <1>3, <1>4, <1>6, <1>12
<1>14. rf[LR] = (IF LR = i.a THEN v ELSE R[LR]) /\ rf[Saved] = (IF Saved = i.a THEN v ELSE R[Saved])
  BY <1>3, <1>12
<1>15. IsAddr(p, rf[LR])
  BY <1>7, <1>9, <1>14
<1>16. IsAddr(p, rf[Saved])
  BY <1>8, <1>9, <1>14
<1>17. Registers(p, rf, SW)
  BY <1>6, <1>13, <1>15 DEF Registers
<1>18. Running(p)' /\ MirAt' = Mir!Behind /\ UNCHANGED code
  BY <1>2, <1>11, <1>16, <1>17, GoesOn
<1>19. R' = rf /\ SW' = SW
  BY <1>11 DEF Continues
<1>20. MirR' = MirR
  <2>1. \A r \in GPR \ LinkRegs : rf[r] = R[r]
    BY <1>1, <1>12
  <2>2. QED
    BY <1>19, <2>1 DEF MirR
<1>21. MirLink' = [MirLink EXCEPT ![i.a] = MirLink[i.b]]
  <2>1. MirLink' = [r \in LinkRegs |-> PosOf(code, rf[r])]
    BY <1>18, <1>19 DEF MirLink
  <2>2. LinkRegs \subseteq GPR
    BY <1>3 DEF LinkRegs
  <2>3. MirLink[i.b] = PosOf(code, v)
    BY <1>1 DEF MirLink, v
  <2>4. [MirLink EXCEPT ![i.a] = PosOf(code, v)]
          = [r \in LinkRegs |-> IF r = i.a THEN PosOf(code, v) ELSE PosOf(code, R[r])]
    BY <1>1 DEF MirLink
  <2>5. \A r \in LinkRegs :
          PosOf(code, rf[r]) = IF r = i.a THEN PosOf(code, v) ELSE PosOf(code, R[r])
    BY <1>12, <2>2
  <2>6. QED
    BY <2>1, <2>3, <2>4, <2>5
<1>22. Mir!Copy(i)
  BY <1>1, <1>18, <1>19, <1>20, <1>21 DEF Mir!Copy, MirAt, MirR, MirLink
<1>23. Mir!Next
  BY <1>5, <1>18, <1>22, MirRuns
<1>24. QED
  BY <1>18, <1>23 DEF Follows

\* A conditional branch, taken or not.
LEMMA BranchFollows ==
  ASSUME code \in Programs, NEW p, p = code.mir, Running(p), Step,
         NEW f, NEW b, NEW k, AtInstr(p, f, b, k),
         NEW i, i = p[f][b][k], i.op \in BranchOp
  PROVE  Follows(p)
<1> DEFINE e == Fetched(code, pc)
           t == Taken(i.op, SW, R[i.a], R[i.b])
           y == IF t THEN Target(p, f, i) ELSE pc + 8
<1>1. /\ i.op \in PC16 \cup PC24 /\ i.op \notin Calls
      /\ i.op \notin {"RetLR", "TAILCALL", "JMP"} /\ hasDelaySlot(i.op)
  BY DEF BranchOp, PC16, PC24, Calls, hasDelaySlot
<1>2. IsTransfer(p, f, i) /\ i.a \in GPR \ LinkRegs /\ i.b \in GPR \ LinkRegs
  <2>1. ~IsData(i) /\ ~IsCopy(i)
    BY DEF IsData, IsCopy, BranchOp, AluOp, AluImmOp, AluRegOp, SetOp, SetRegOp, SetImmOp
  <2>2. IsTransfer(p, f, i)
    BY <2>1, Legal
  <2>3. QED
    BY <1>1, <2>2 DEF IsTransfer, Data
<1>3. /\ IsAddr(p, Target(p, f, i)) /\ Wrap(npc + e.cx) = Target(p, f, i)
      /\ PosOf(code, Target(p, f, i)) = Mir!Settle(f, i.cx, 1)
      /\ e.op = i.op /\ e.a = i.a /\ e.b = i.b
  BY <1>1, <1>2, Transfers
<1>4. MirAt = <<f, b, k>> /\ Wrap(npc + 4) = pc + 8
  BY <1>1, WhereItIs
<1>5. Registers(p, R, SW) /\ IsAddr(p, R[Saved]) /\ "IE" \notin SW
  <2>1. ~IsCopy(i)
    BY DEF IsCopy, BranchOp
  <2>2. QED
    BY <2>1, SavedHolds DEF Running, Registers
<1>6. Continues(R, SW, npc, y)
  <2>1. e.op \in BranchOp /\ e.a \in GPR /\ e.b \in GPR
    BY <1>2, <1>3
  <2>2. Continues(R, SW, npc,
          IF Taken(e.op, SW, R[e.a], R[e.b]) THEN Wrap(npc + e.cx) ELSE Wrap(npc + 4))
    BY <1>5, <2>1, StepBranches
  <2>3. QED
    BY <1>3, <1>4, <2>2
<1>7. IsInstr(p, pc + 8) /\ PosOf(code, pc + 8) = Mir!Settle(f, b, k + 1)
  <2>1. /\ f \in 1 .. Len(p) /\ b \in 1 .. Len(p[f]) /\ k \in 1 .. Kept(p, f, b)
        /\ pc = Addr(p, f, b, k)
    BY DEF AtInstr
  <2>2. QED
    BY <1>1, <2>1, ReachesBehind
<1>8. IsAddr(p, y)
  BY <1>3, <1>7 DEF IsAddr
<1> HIDE DEF t, e
<1>9. PosOf(code, y) = IF t THEN Mir!Settle(f, i.cx, 1) ELSE Mir!Settle(f, b, k + 1)
  BY <1>3, <1>7
<1> HIDE DEF y
<1>10. Running(p)' /\ MirAt' = PosOf(code, y) /\ UNCHANGED code
  BY <1>1, <1>5, <1>6, <1>8, GoesTo
<1>11. R' = R /\ SW' = SW
  BY <1>6 DEF Continues
<1>12. MirR' = MirR /\ MirLink' = MirLink
  BY <1>10, <1>11 DEF MirR, MirLink
<1>13. t <=> Mir!Taken(i.op, SW, MirR[i.a], MirR[i.b])
  BY <1>2, MirSame DEF t, MirR
<1>14. MirAt' = IF Mir!Taken(i.op, SW, MirR[i.a], MirR[i.b]) THEN Mir!Block(i.cx) ELSE Mir!Behind
  BY <1>4, <1>9, <1>10, <1>13, MirPlaces
<1>15. i.op \in Mir!BranchOp
  BY MirSame
<1>16. Mir!Branch(i)
  BY <1>11, <1>12, <1>14, <1>15 DEF Mir!Branch, MirAt, MirR, MirLink
<1>17. Mir!Next
  BY <1>4, <1>10, <1>16, MirRuns
<1>18. QED
  BY <1>10, <1>17 DEF Follows

\* A jump, or the JMP that a tail call becomes.
LEMMA JumpFollows ==
  ASSUME code \in Programs, NEW p, p = code.mir, Running(p), Step,
         NEW f, NEW b, NEW k, AtInstr(p, f, b, k),
         NEW i, i = p[f][b][k], i.op \in {"JMP", "TAILCALL"}
  PROVE  Follows(p)
<1> DEFINE e == Fetched(code, pc)
           y == Target(p, f, i)
<1>1. /\ i.op \in PC16 \cup PC24 /\ (i.op \in Calls <=> i.op = "TAILCALL")
  BY DEF PC16, PC24, Calls
<1>2. IsTransfer(p, f, i)
  <2>1. ~IsData(i) /\ ~IsCopy(i)
    BY DEF IsData, IsCopy, AluOp, AluImmOp, AluRegOp, SetOp, SetRegOp, SetImmOp
  <2>2. QED
    BY <2>1, Legal
<1>3. /\ IsAddr(p, y) /\ Wrap(npc + e.cx) = y
      /\ PosOf(code, y) = IF i.op = "TAILCALL" THEN Mir!Settle(i.cx, 1, 1)
                                               ELSE Mir!Settle(f, i.cx, 1)
      /\ e.op = "JMP"
  BY <1>1, <1>2, Transfers
<1>4. MirAt = <<f, b, k>>
  BY WhereItIs
<1>5. Registers(p, R, SW) /\ IsAddr(p, R[Saved]) /\ "IE" \notin SW
  <2>1. ~IsCopy(i)
    BY DEF IsCopy
  <2>2. QED
    BY <2>1, SavedHolds DEF Running, Registers
<1>6. Continues(R, SW, y, Wrap(y + 4))
  <2>1. Continues(R, SW, Wrap(npc + e.cx), Wrap(Wrap(npc + e.cx) + 4))
    BY <1>3, <1>5, StepJumps
  <2>2. QED
    BY <1>3, <2>1
<1> HIDE DEF e, y
<1>7. Running(p)' /\ MirAt' = PosOf(code, y) /\ UNCHANGED code
  BY <1>3, <1>5, <1>6, Arrives
<1>8. R' = R /\ SW' = SW
  BY <1>6 DEF Continues
<1>9. MirR' = MirR /\ MirLink' = MirLink
  BY <1>7, <1>8 DEF MirR, MirLink
<1>10. Mir!Jump(i) \/ Mir!TailCall(i)
  <2>1. CASE i.op = "JMP"
    <3>1. MirAt' = Mir!Block(i.cx)
      BY <1>3, <1>4, <1>7, <2>1, MirPlaces
    <3>2. QED
      BY <1>8, <1>9, <2>1, <3>1 DEF Mir!Jump, MirAt, MirR, MirLink
  <2>2. CASE i.op = "TAILCALL"
    <3>1. MirAt' = Mir!Entry(i.cx)
      BY <1>3, <1>7, <2>2 DEF Mir!Entry
    <3>2. QED
      BY <1>8, <1>9, <2>2, <3>1 DEF Mir!TailCall, MirAt, MirR, MirLink
  <2>3. QED
    BY <2>1, <2>2
<1>11. Mir!Next
  BY <1>4, <1>7, <1>10, MirRuns
<1>12. QED
  BY <1>7, <1>11 DEF Follows

\* A call, which links to the instruction behind its slot.
LEMMA CallFollows ==
  ASSUME code \in Programs, NEW p, p = code.mir, Running(p), Step,
         NEW f, NEW b, NEW k, AtInstr(p, f, b, k),
         NEW i, i = p[f][b][k], i.op = "JSUB"
  PROVE  Follows(p)
<1> DEFINE e == Fetched(code, pc)
           y == Target(p, f, i)
           z == pc + 8
           rf == [R EXCEPT ![LR] = z]
<1>1. /\ i.op \in PC16 \cup PC24 /\ i.op \in Calls
      /\ i.op \notin {"RetLR", "TAILCALL", "JMP"} /\ hasDelaySlot(i.op)
  BY DEF PC16, PC24, Calls, hasDelaySlot, CallOp
<1>2. IsTransfer(p, f, i)
  <2>1. ~IsData(i) /\ ~IsCopy(i)
    BY DEF IsData, IsCopy, AluOp, AluImmOp, AluRegOp, SetOp, SetRegOp, SetImmOp
  <2>2. QED
    BY <2>1, Legal
<1>3. /\ IsAddr(p, y) /\ Wrap(npc + e.cx) = y
      /\ PosOf(code, y) = Mir!Settle(i.cx, 1, 1)
      /\ e.op = "JSUB"
  BY <1>1, <1>2, Transfers
<1>4. MirAt = <<f, b, k>> /\ Wrap(npc + 4) = z
  BY <1>1, WhereItIs
<1>5. Registers(p, R, SW) /\ IsAddr(p, R[Saved])
  <2>1. ~IsCopy(i)
    BY DEF IsCopy
  <2>2. QED
    BY <2>1, SavedHolds DEF Running
<1>6. R = [r \in GPR |-> R[r]] /\ R[0] = 0 /\ "IE" \notin SW
  BY <1>5 DEF Registers
<1>7. Continues(rf, SW, npc, y)
  <2>1. Continues([R EXCEPT ![LR] = Wrap(npc + 4)], SW, npc, Wrap(npc + e.cx))
    BY <1>3, <1>6, StepCalls
  <2>2. QED
    BY <1>3, <1>4, <2>1
<1>8. IsInstr(p, z) /\ PosOf(code, z) = Mir!Settle(f, b, k + 1)
  <2>1. /\ f \in 1 .. Len(p) /\ b \in 1 .. Len(p[f]) /\ k \in 1 .. Kept(p, f, b)
        /\ pc = Addr(p, f, b, k)
    BY DEF AtInstr
  <2>2. QED
    BY <1>1, <2>1, ReachesBehind
<1> HIDE DEF e, y, z
<1>9. Saved \in GPR /\ LR \in GPR /\ 0 \in GPR /\ Saved # 0 /\ LR # 0 /\ Saved # LR
  BY SavedAssumption DEF GPR, LR
<1>10. rf = [r \in GPR |-> IF r = LR THEN z ELSE R[r]]
  BY <1>6
<1> HIDE DEF rf
<1>11. rf[0] = 0 /\ rf = [r \in GPR |-> rf[r]] /\ rf[LR] = z /\ rf[Saved] = R[Saved]
  BY <1>6, <1>9, <1>10
<1>12. Registers(p, rf, SW)
  BY <1>6, <1>8, <1>11 DEF Registers, IsAddr
<1>13. Running(p)' /\ MirAt' = PosOf(code, y) /\ UNCHANGED code
  BY <1>1, <1>3, <1>5, <1>7, <1>11, <1>12, GoesTo
<1>14. R' = rf /\ SW' = SW
  BY <1>7 DEF Continues
<1>15. MirR' = MirR
  <2>1. \A r \in GPR \ LinkRegs : rf[r] = R[r]
    BY <1>10 DEF LinkRegs
  <2>2. QED
    BY <1>14, <2>1 DEF MirR
<1>16. MirLink' = [MirLink EXCEPT ![LR] = PosOf(code, z)]
  <2>1. MirLink' = [r \in LinkRegs |-> PosOf(code, rf[r])]
    BY <1>13, <1>14 DEF MirLink
  <2>2. [MirLink EXCEPT ![LR] = PosOf(code, z)]
          = [r \in LinkRegs |-> IF r = LR THEN PosOf(code, z) ELSE PosOf(code, R[r])]
    BY DEF MirLink, LinkRegs
  <2>3. \A r \in LinkRegs :
          PosOf(code, rf[r]) = IF r = LR THEN PosOf(code, z) ELSE PosOf(code, R[r])
    BY <1>9, <1>10 DEF LinkRegs
  <2>4. QED
    BY <2>1, <2>2, <2>3
<1>17. MirAt' = Mir!Entry(i.cx) /\ MirLink' = [MirLink EXCEPT ![Mir!LR] = Mir!Behind]
  <2>1. MirAt' = Mir!Entry(i.cx)
    BY <1>3, <1>13 DEF Mir!Entry
  <2>2. PosOf(code, z) = Mir!Behind
    BY <1>4, <1>8, MirPlaces
  <2>3. Mir!LR = LR
    BY DEF Mir!LR, LR
  <2>4. QED
    BY <1>16, <2>1, <2>2, <2>3
<1>18. Mir!Call(i)
  BY <1>14, <1>15, <1>17 DEF Mir!Call, MirAt, MirR, MirLink
<1>19. Mir!Next
  BY <1>4, <1>13, <1>18, MirRuns
<1>20. QED
  BY <1>13, <1>19 DEF Follows

\* A return, by way of the expanded pseudo.
LEMMA ReturnFollows ==
  ASSUME code \in Programs, NEW p, p = code.mir, Running(p), Step,
         NEW f, NEW b, NEW k, AtInstr(p, f, b, k),
         NEW i, i = p[f][b][k], i.op = "RetLR"
  PROVE  Follows(p)
<1> DEFINE y == R[LR]
<1>1. i.op \notin PC16 \cup PC24 /\ hasDelaySlot(i.op)
  BY DEF PC16, PC24, hasDelaySlot
<1>2. /\ Fetched(code, pc).op = "RET" /\ Fetched(code, pc).a = LR
  <2>1. Fetched(code, pc) = ExpandRet(i)
    BY <1>1, WhereItIs, EmittedSame
  <2>2. i \in MachineInstr
    BY Legal
  <2>3. QED
    BY <2>1, <2>2 DEF ExpandRet, MachineInstr
<1>3. MirAt = <<f, b, k>>
  BY WhereItIs
<1>4. Registers(p, R, SW) /\ IsAddr(p, R[Saved])
  <2>1. ~IsCopy(i)
    BY DEF IsCopy
  <2>2. QED
    BY <2>1, SavedHolds DEF Running
<1>5. IsAddr(p, y) /\ "IE" \notin SW
  BY <1>4 DEF Registers
<1>6. Continues(R, SW, npc, y)
  <2>1. LR \in GPR
    BY DEF LR, GPR
  <2>2. QED
    BY <1>2, <1>5, <2>1, StepReturns
<1> HIDE DEF y
<1>7. Running(p)' /\ MirAt' = PosOf(code, y) /\ UNCHANGED code
  BY <1>1, <1>4, <1>5, <1>6, GoesTo
<1>8. R' = R /\ SW' = SW
  BY <1>6 DEF Continues
<1>9. MirR' = MirR /\ MirLink' = MirLink
  BY <1>7, <1>8 DEF MirR, MirLink
<1>10. PosOf(code, y) = MirLink[Mir!LR]
  BY DEF MirLink, y, Mir!LR, LR, LinkRegs
<1>11. Mir!Ret(i)
  BY <1>7, <1>8, <1>9, <1>10 DEF Mir!Ret, MirAt, MirR, MirLink
<1>12. Mir!Next
  BY <1>3, <1>7, <1>11, MirRuns
<1>13. QED
  BY <1>7, <1>12 DEF Follows

\* Every instruction.
LEMMA InstrFollows ==
  ASSUME code \in Programs, NEW p, p = code.mir, Running(p), Step,
         NEW f, NEW b, NEW k, AtInstr(p, f, b, k)
  PROVE  Follows(p)
<1> DEFINE i == p[f][b][k]
<1>1. IsData(i) \/ IsCopy(i) \/ IsTransfer(p, f, i)
  BY Legal
<1>2. CASE IsCopy(i)
  BY <1>2, CopyFollows
<1>3. CASE IsData(i) /\ ~IsCopy(i)
  <2>1. i.op \in AluOp \/ i.op \in SetOp \/ i.op = "CMP"
    BY <1>3 DEF IsData
  <2>2. QED
    BY <1>3, <2>1, ComputeFollows, SetFollows, CompareFollows
<1>4. CASE IsTransfer(p, f, i)
  <2>1. i.op \in BranchOp \/ i.op \in {"JMP", "TAILCALL"} \/ i.op = "JSUB" \/ i.op = "RetLR"
    BY <1>4 DEF IsTransfer, Calls
  <2>2. QED
    BY <2>1, BranchFollows, JumpFollows, CallFollows, ReturnFollows
<1>5. QED
  BY <1>1, <1>2, <1>3, <1>4

-----------------------------------------------------------------------------
(* Every step of the machine. *)

\* The NOP of a slot is no step of the machine program.
LEMMA SlotFollows ==
  ASSUME code \in Programs, NEW p, p = code.mir, Running(p), Step,
         OnSlot(p, pc), IsAddr(p, npc)
  PROVE  Running(p)' /\ UNCHANGED Mir!vars /\ UNCHANGED code
<1>1. PosOf(code, pc) = NoPos /\ Fetched(code, pc) = Nop /\ pc # 0
  BY SlotFacts
<1>2. Registers(p, R, SW) /\ "IE" \notin SW /\ IsAddr(p, R[Saved])
  BY <1>1 DEF Running, Registers
<1>3. Continues(R, SW, npc, Wrap(npc + 4))
  BY <1>1, <1>2, StepNop
<1>4. Running(p)' /\ MirAt' = PosOf(code, npc) /\ UNCHANGED code
  BY <1>2, <1>3, Arrives
<1>5. MirAt = PosOf(code, npc)
  BY <1>1 DEF MirAt, At, Running
<1>6. R' = R /\ SW' = SW
  BY <1>3 DEF Continues
<1>7. MirR' = MirR /\ MirLink' = MirLink
  BY <1>4, <1>6 DEF MirR, MirLink
<1>8. UNCHANGED Mir!vars
  BY <1>4, <1>5, <1>6, <1>7 DEF Mir!vars, MirAt, MirR, MirLink
<1>9. QED
  BY <1>4, <1>8

\* A step keeps the invariant and is a step or a stutter of the machine program.
LEMMA StepFollows ==
  ASSUME IInv, Step
  PROVE  IInv' /\ [Mir!Next]_(Mir!vars)
<1>1. PICK p : p = code.mir
  OBVIOUS
<1>2. code \in Programs /\ Running(p)
  BY <1>1 DEF IInv, Starting, Step
<1>3. CASE IsInstr(p, pc) /\ npc = Wrap(pc + 4)
  <2>1. PICK f, b, k : AtInstr(p, f, b, k)
    BY <1>3 DEF IsInstr, AtInstr
  <2>2. Running(p)' /\ Mir!Next /\ UNCHANGED code
    BY <1>1, <1>2, <2>1, InstrFollows DEF Follows
  <2>3. IInv'
    BY <1>1, <1>2, <2>2 DEF IInv, Running
  <2>4. QED
    BY <2>2, <2>3
<1>4. CASE OnSlot(p, pc) /\ IsAddr(p, npc)
  <2>1. Running(p)' /\ UNCHANGED Mir!vars /\ UNCHANGED code
    BY <1>1, <1>2, <1>4, SlotFollows
  <2>2. IInv'
    BY <1>1, <1>2, <2>1 DEF IInv, Running
  <2>3. QED
    BY <2>1, <2>2
<1>5. CASE pc = -1
  BY <1>5 DEF Step
<1>6. QED
  BY <1>2, <1>3, <1>4, <1>5 DEF Running

\* So does the start.
LEMMA BootFollows ==
  ASSUME IInv, Boot
  PROVE  IInv' /\ [Mir!Next]_(Mir!vars)
<1>1. PICK p : p = code.mir
  OBVIOUS
<1>2. code \in Programs /\ mode = "off" /\ R \in [GPR -> Undef]
  BY DEF IInv, Starting, Running, Boot
<1>3. /\ mode' = "run" /\ pc' = 0 /\ npc' = 4 /\ code' = code
      /\ R' = [R EXCEPT ![0] = 0, ![LR] = -1]
      /\ SW' = WithMode(ResetFlags, RESET)
  BY DEF Boot
<1>4. Saved \in GPR /\ LR \in GPR /\ 0 \in GPR /\ Saved # 0 /\ LR # 0 /\ Saved # LR
  BY SavedAssumption DEF GPR, LR
<1>5. R' = [r \in GPR |-> IF r = LR THEN -1 ELSE IF r = 0 THEN 0 ELSE R[r]]
  BY <1>2, <1>3, <1>4
<1>6. R'[0] = 0 /\ R'[LR] = -1 /\ R' = [r \in GPR |-> R'[r]]
  BY <1>4, <1>5
<1>7. "IE" \notin SW' /\ SW' = Mir!WithMode(Mir!ResetFlags, Mir!RESET)
  BY <1>3 DEF WithMode, ResetFlags, RESET, Mir!WithMode, Mir!ResetFlags, Mir!RESET
<1>8. /\ 1 \in 1 .. Len(p) /\ 1 \in 1 .. Len(p[1]) /\ 1 \in 1 .. Kept(p, 1, 1)
      /\ Addr(p, 1, 1, 1) = 0
  BY <1>1, <1>2, FirstInstr
<1>9. IsInstr(p, 0) /\ PosOf(code, 0) = Mir!Settle(1, 1, 1)
  BY <1>1, <1>2, <1>8, ReachesFunction
<1>10. Wrap(0 + 4) = 4
  BY WordAssumption, WrapWord
<1>11. Running(p)'
  BY <1>3, <1>6, <1>7, <1>9, <1>10 DEF Running, Registers, IsAddr
<1>12. MirAt = NoPos /\ MirAt' = Mir!Entry(1)
  <2>1. PosOf(code, 0) # NoPos
    BY <1>1, <1>2, <1>9, InstrFacts
  <2>2. QED
    BY <1>2, <1>3, <1>9, <2>1 DEF MirAt, At, Mir!Entry
<1>13. MirR' = [MirR EXCEPT ![0] = 0]
  <2>1. MirR' = [r \in GPR \ LinkRegs |-> R'[r]]
    BY DEF MirR
  <2>2. [MirR EXCEPT ![0] = 0] = [r \in GPR \ LinkRegs |-> IF r = 0 THEN 0 ELSE R[r]]
    BY DEF MirR
  <2>3. \A r \in GPR \ LinkRegs : R'[r] = IF r = 0 THEN 0 ELSE R[r]
    BY <1>5 DEF LinkRegs
  <2>4. QED
    BY <2>1, <2>2, <2>3
<1>14. MirLink' = [MirLink EXCEPT ![Mir!LR] = Mir!Exit]
  <2>1. MirLink' = [r \in LinkRegs |-> PosOf(code, R'[r])]
    BY <1>3 DEF MirLink
  <2>2. PosOf(code, -1) = Mir!Exit
    BY DEF PosOf, Mir!Exit
  <2>3. [MirLink EXCEPT ![LR] = Mir!Exit]
          = [r \in LinkRegs |-> IF r = LR THEN Mir!Exit ELSE PosOf(code, R[r])]
    BY DEF MirLink
  <2>4. \A r \in LinkRegs : PosOf(code, R'[r]) = IF r = LR THEN Mir!Exit ELSE PosOf(code, R[r])
    BY <1>4, <1>5, <2>2 DEF LinkRegs
  <2>5. Mir!LR = LR
    BY DEF Mir!LR, LR
  <2>6. QED
    BY <2>1, <2>3, <2>4, <2>5
<1>15. Mir!Start
  BY <1>7, <1>12, <1>13, <1>14 DEF Mir!Start, MirAt, MirR, MirLink, Mir!Nowhere, NoPos
<1>16. IInv'
  BY <1>1, <1>2, <1>3, <1>11 DEF IInv, Running
<1>17. QED
  BY <1>3, <1>15, <1>16 DEF Mir!Next

\* So does a stutter.
LEMMA StutterFollows ==
  ASSUME IInv, UNCHANGED vars
  PROVE  IInv' /\ UNCHANGED Mir!vars
<1>1. /\ code' = code /\ mode' = mode /\ pc' = pc /\ npc' = npc /\ R' = R /\ SW' = SW
  BY DEF vars
<1>2. IInv'
  BY <1>1 DEF IInv, Starting, Running
<1>3. MirAt' = MirAt /\ MirR' = MirR /\ MirLink' = MirLink
  BY <1>1 DEF MirAt, At, MirR, MirLink
<1>4. QED
  BY <1>1, <1>2, <1>3 DEF Mir!vars, MirAt, MirR, MirLink

\* What the positions of an image are.
LEMMA OriginType ==
  ASSUME NEW p \in Seq(Seq(Seq(MachineInstr)))
  PROVE  \A k \in DOMAIN Origin(p) : Origin(p)[k] \in Nat \X Nat \X Nat
<1> DEFINE t == Tagged(p)
           q == Code(PreEmit(t))
           J == TaggedInstr \cup {Nop}
<1>1. t \in Seq(Seq(Seq(TaggedInstr)))
  BY TaggedProgram
<1>2. q = FlattenSeq(Fns(t))
  BY <1>1, TaggedExpands, PreEmitProgram
<1>3. q \in Seq(J)
  <2>1. Fns(t) \in Seq(Seq(J))
    BY <1>1, TaggedExpands, FnsType
  <2>2. QED
    BY <1>2, <2>1, Offsets
<1>4. Origin(p) = [k \in DOMAIN q |-> IF q[k] = Nop THEN NoPos ELSE q[k].pos]
  BY DEF Origin
<1> HIDE DEF q
<1>5. ASSUME NEW k \in DOMAIN q
      PROVE  (IF q[k] = Nop THEN NoPos ELSE q[k].pos) \in Nat \X Nat \X Nat
  <2>1. q[k] \in J
    BY <1>3
  <2>2. CASE q[k] = Nop
    BY <2>2 DEF NoPos
  <2>3. CASE q[k] # Nop
    <3>1. q[k] \in TaggedInstr
      BY <2>1, <2>3
    <3>2. QED
      BY <2>3, <3>1 DEF TaggedInstr
  <2>4. QED
    BY <2>2, <2>3
<1>6. QED
  BY <1>4, <1>5

\* The invariant and the initial states of the machine program hold at first.
LEMMA InitFollows ==
  ASSUME Init
  PROVE  IInv /\ Mir!Init
<1>1. /\ code \in Programs /\ mode = "off" /\ R \in [GPR -> Undef] /\ SW = {}
  BY DEF Init
<1>2. IInv
  BY <1>1 DEF IInv, Starting
<1>3. MirAt = Mir!Nowhere
  BY <1>1 DEF MirAt, Mir!Nowhere, NoPos
<1>4. MirR \in [Mir!GPR \ LinkRegs -> Undef]
  BY <1>1 DEF MirR, Mir!GPR, GPR
<1>5. MirLink \in [LinkRegs -> Mir!Places]
  <2>1. ASSUME NEW x PROVE PosOf(code, x) \in Nat \X Nat \X Nat
    <3>1. code.origin = Origin(code.mir) /\ code.mir \in Seq(Seq(Seq(MachineInstr)))
      BY <1>1, ProgramFacts
    <3>2. \A k \in DOMAIN code.origin : code.origin[k] \in Nat \X Nat \X Nat
      BY <3>1, OriginType
    <3>3. <<0, 0, 1>> \in Nat \X Nat \X Nat /\ NoPos \in Nat \X Nat \X Nat
      BY DEF NoPos
    <3>4. QED
      BY <3>2, <3>3 DEF PosOf
  <2>2. QED
    BY <2>1 DEF MirLink, Mir!Places
<1>6. code.mir \in MirPrograms
  BY <1>1, ProgramFacts
<1>7. QED
  BY <1>1, <1>2, <1>3, <1>4, <1>5, <1>6 DEF Mir!Init, MirAt, MirR, MirLink

-----------------------------------------------------------------------------
(* The theorems. *)

\* So does every step, and none of them is Trap.
LEMMA NextFollows ==
  ASSUME IInv, [Next]_vars
  PROVE  IInv' /\ [Mir!Next]_(Mir!vars) /\ [Boot \/ Step]_vars
<1>1. CASE Boot
  BY <1>1, BootFollows
<1>2. CASE Step
  BY <1>2, StepFollows
<1>3. CASE Trap
  BY <1>3 DEF IInv, Starting, Running, Trap
<1>4. CASE UNCHANGED vars
  BY <1>4, StutterFollows
<1>5. QED
  BY <1>1, <1>2, <1>3, <1>4 DEF Next

\* Where the machine is, and the code addresses it holds, stay as in IInv.
THEOREM LoweredInv == Spec => []IInv
<1>1. Init => IInv
  BY InitFollows
<1>2. IInv /\ [Next]_vars => IInv'
  BY NextFollows
<1>3. QED
  BY <1>1, <1>2, PTL DEF Spec

\* No interrupt is ever recognised while a compiled program runs: the code the
\* passes emit leaves IE clear, so the specification the run checks loses nothing.
THEOREM NeverInterrupted == Spec => Uninterrupted
<1>1. IInv /\ [Next]_vars => [Boot \/ Step]_vars
  BY NextFollows
<1>2. QED
  BY <1>1, LoweredInv, PTL DEF Spec, Uninterrupted

\* What is in a delay slot is the filler's NOP, for every well-formed program.
THEOREM SlotsAreFilled == Spec => []SlotsHoldNops
<1>1. IInv => SlotsHoldNops
  <2> SUFFICES ASSUME IInv, mode = "run", pc >= 0, npc # Wrap(pc + 4)
               PROVE  Fetched(code, pc).op = "NOP"
    BY DEF SlotsHoldNops
  <2>1. PICK p : p = code.mir
    OBVIOUS
  <2>2. code \in Programs /\ Running(p)
    BY <2>1 DEF IInv, Starting
  <2>3. OnSlot(p, pc)
    BY <2>2 DEF Running
  <2>4. Fetched(code, pc) = Nop
    BY <2>1, <2>2, <2>3, SlotFacts
  <2>5. QED
    BY <2>4 DEF Nop
<1>2. QED
  BY <1>1, LoweredInv, PTL

\* The image of every well-formed program whose branches reach runs as the
\* program reads.
THEOREM LoweringImplements == Spec => ImplementsMir
<1>1. Init => Mir!Init
  BY InitFollows
<1>2. IInv /\ [Next]_vars => [Mir!Next]_(Mir!vars)
  BY NextFollows
<1>3. QED
  BY <1>1, <1>2, LoweredInv, PTL DEF Spec, ImplementsMir, Mir!Spec
=============================================================================
