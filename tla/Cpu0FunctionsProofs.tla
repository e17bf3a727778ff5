------------------------- MODULE Cpu0FunctionsProofs -------------------------
(***************************************************************************)
(* The functions of the tools and of the simulator, at every word, digit   *)
(* and memory size and on all inputs that InputAssumption admits.  Each    *)
(* call is a step of its own: a property holds if it holds of what the     *)
(* call it is about returns, which is what the lemmas show.                *)
(***************************************************************************)
EXTENDS Cpu0Functions, Cpu0AluProofs, SequenceTheorems

-----------------------------------------------------------------------------
(* Relocation operators. *)

\* The table has its entries in the order of the fixups.
LEMMA Entries ==
  ASSUME NEW i \in 1 .. 10
  PROVE  getFixupKindInfo(Fixups[i]) = Infos[i]
<1>1. DOMAIN Fixups = 1 .. 10
  BY DEF Fixups
<1>2. \A j \in 1 .. 10 : Fixups[i] = Fixups[j] => i = j
  BY DEF Fixups
<1>3. (CHOOSE j \in DOMAIN Fixups : Fixups[j] = Fixups[i]) = i
  BY <1>1, <1>2
<1>4. QED
  BY <1>3 DEF getFixupKindInfo

\* The entries of branches and jumps.
LEMMA BranchEntries ==
  getFixupKindInfo("PC16").bytes = 2 /\ getFixupKindInfo("PC24").bytes = 3
<1>1. /\ getFixupKindInfo(Fixups[8]) = Infos[8] /\ getFixupKindInfo(Fixups[9]) = Infos[9]
  BY Entries
<1>2. Fixups[8] = "PC16" /\ Fixups[9] = "PC24"
  BY DEF Fixups
<1>3. Infos[8].bytes = 2 /\ Infos[9].bytes = 3
  BY DEF Infos, Info
<1>4. QED
  BY <1>1, <1>2, <1>3

\* Every fixup that an operator gets has an entry of its own in the table.
LEMMA FixupEntry ==
  ASSUME NEW operator \in Operator
  PROVE  LET kind == getExprOpValue(operator)
         IN  /\ kind = "unreachable" <=> operator \in {"call_hi", "tlsgd", "tp_lo"}
             /\ kind # "unreachable" =>
                  IF kind = "CALL16" THEN getFixupKindInfo(kind).bytes = 0
                  ELSE getFixupKindInfo(kind) = Info(kind, 2)
<1>1. /\ getFixupKindInfo("HI16") = Info("HI16", 2)
      /\ getFixupKindInfo("LO16") = Info("LO16", 2)
      /\ getFixupKindInfo("GPREL16") = Info("GPREL16", 2)
      /\ getFixupKindInfo("GOT") = Info("GOT", 2)
      /\ getFixupKindInfo("GOT_HI16") = Info("GOT_HI16", 2)
      /\ getFixupKindInfo("GOT_LO16") = Info("GOT_LO16", 2)
      /\ getFixupKindInfo("CALL16") = Info("", 0)
  <2>1. /\ Fixups[2] = "HI16" /\ Fixups[3] = "LO16" /\ Fixups[4] = "GPREL16"
        /\ Fixups[5] = "GOT" /\ Fixups[6] = "GOT_HI16" /\ Fixups[7] = "GOT_LO16"
        /\ Fixups[10] = "CALL16"
    BY DEF Fixups
  <2>2. /\ Infos[2] = Info("HI16", 2) /\ Infos[3] = Info("LO16", 2)
        /\ Infos[4] = Info("GPREL16", 2) /\ Infos[5] = Info("GOT", 2)
        /\ Infos[6] = Info("GOT_HI16", 2) /\ Infos[7] = Info("GOT_LO16", 2)
        /\ Infos[10] = Info("", 0)
    BY DEF Infos
  <2>3. /\ getFixupKindInfo(Fixups[2]) = Infos[2] /\ getFixupKindInfo(Fixups[3]) = Infos[3]
        /\ getFixupKindInfo(Fixups[4]) = Infos[4] /\ getFixupKindInfo(Fixups[5]) = Infos[5]
        /\ getFixupKindInfo(Fixups[6]) = Infos[6] /\ getFixupKindInfo(Fixups[7]) = Infos[7]
        /\ getFixupKindInfo(Fixups[10]) = Infos[10]
    BY Entries
  <2>4. QED
    BY <2>1, <2>2, <2>3
<1>2. getFixupKindInfo("CALL16").bytes = 0
  <2>1. Info("", 0).bytes = 0
    BY DEF Info
  <2>2. QED
    BY <1>1, <2>1
<1>3. QED
  BY <1>1, <1>2 DEF getExprOpValue, Operator

\* Every relocation operator gets its fixup.
THEOREM Relocations == Spec => []FixupTable
<1>1. Init => FixupTable
  BY DEF Init, FixupTable
<1>2. FixupTable /\ [Next]_call => FixupTable'
  <2>1. ASSUME Next, call'.fn = "operator" PROVE FixupTable'
    <3>1. PICK operator \in Operator :
            call' = [fn |-> "operator", operator |-> operator, kind |-> getExprOpValue(operator)]
      BY <2>1 DEF Next, StackAdjusted, Stored, Copied, Expanded, Printed, Fixup, Linked,
         HiLo, Decoded
    <3>2. QED
      BY <3>1, FixupEntry DEF FixupTable
  <2>2. QED
    BY <2>1 DEF FixupTable
<1>3. QED
  BY <1>1, <1>2, PTL DEF Spec

-----------------------------------------------------------------------------
(* Memory. *)

\* The n bytes of a load or a store fill n cells, each once.
LEMMA Lanes ==
  ASSUME NEW le \in BOOLEAN, NEW n \in {1, 2, 4}, NEW k \in 0 .. n - 1
  PROVE  Lane(le, n, k) \in 0 .. n - 1 /\ Lane(le, n, Lane(le, n, k)) = k
BY DEF Lane

\* A byte of a store in its place.
LEMMA OneCell ==
  ASSUME NEW old \in [Address -> MemByte], NEW le \in BOOLEAN, NEW a \in Address,
         NEW n \in {1, 2, 4}, NEW d \in [0 .. 3 -> MemByte], InBounds(a),
         NEW k \in 0 .. n - 1
  PROVE  a + k \in Address /\ Write(old, le, a, n, d)[a + k] = d[Lane(le, n, k)]
<1> DEFINE m == Write(old, le, a, n, d)
<1>1. MEMSIZE \in Nat /\ a \in Int /\ 0 <= a /\ a + 3 <= MEMSIZE - 1 /\ n \in Int /\ n <= 4 /\ 1 <= n
  BY InputAssumption DEF Address, InBounds
<1>2. DOMAIN m = Address /\ DOMAIN old = Address
  BY DEF Write
<1>3. k \in Int /\ a + k \in Address /\ a + k \in a .. a + n - 1 /\ (a + k) - a = k
  BY <1>1 DEF Address
<1>4. m[a + k] = d[Lane(le, n, (a + k) - a)]
  BY <1>2, <1>3 DEF Write
<1>5. QED
  BY <1>3, <1>4

\* What is in a cell after a store.
LEMMA Cells ==
  ASSUME NEW old \in [Address -> MemByte], NEW le \in BOOLEAN, NEW a \in Address,
         NEW n \in {1, 2, 4}, NEW d \in [0 .. 3 -> MemByte], InBounds(a)
  PROVE  LET m == Write(old, le, a, n, d)
         IN  /\ m \in [Address -> MemByte]
             /\ \A k \in 0 .. n - 1 : a + k \in Address /\ m[a + k] = d[Lane(le, n, k)]
             /\ \A x \in Address \ (a .. a + n - 1) : m[x] = old[x]
<1> DEFINE m == Write(old, le, a, n, d)
<1>1. MEMSIZE \in Nat /\ a \in Int /\ 0 <= a /\ a + 3 <= MEMSIZE - 1 /\ n \in Int /\ n <= 4 /\ 1 <= n
  BY InputAssumption DEF Address, InBounds
<1>2. DOMAIN m = Address /\ DOMAIN old = Address
  BY DEF Write
<1>3. ASSUME NEW k \in 0 .. n - 1 PROVE a + k \in Address /\ m[a + k] = d[Lane(le, n, k)]
  BY OneCell
<1>4. ASSUME NEW x \in Address \ (a .. a + n - 1) PROVE m[x] = old[x]
  BY <1>2 DEF Write
<1>5. ASSUME NEW x \in Address PROVE m[x] \in MemByte
  <2>1. CASE x \in a .. a + n - 1
    <3>1. x - a \in 0 .. n - 1 /\ a + (x - a) = x
      BY <1>1, <2>1
    <3>2. m[x] = d[Lane(le, n, x - a)] /\ Lane(le, n, x - a) \in 0 .. n - 1
      BY <1>3, <3>1, Lanes
    <3>3. Lane(le, n, x - a) \in 0 .. 3
      BY <1>1, <3>2
    <3>4. QED
      BY <3>2, <3>3
  <2>2. CASE x \notin a .. a + n - 1
    BY <1>4, <2>2
  <2>3. QED
    BY <2>1, <2>2
<1>6. m \in [Address -> MemByte]
  BY <1>5 DEF Write
<1>7. QED
  BY <1>3, <1>4, <1>6

\* Loads of what has been stored.
LEMMA LoadStored ==
  ASSUME NEW old \in [Address -> MemByte], NEW le \in BOOLEAN, NEW a \in Address,
         NEW n \in {1, 2, 4}, NEW d \in [0 .. 3 -> MemByte], InBounds(a)
  PROVE  LET back == Read(Write(old, le, a, n, d), le, a, n)
         IN  back = [k \in 0 .. 3 |-> IF k < n THEN d[k] ELSE 0]
<1> DEFINE m == Write(old, le, a, n, d)
<1>0. ASSUME NEW j \in 0 .. n - 1 PROVE m[a + j] = d[Lane(le, n, j)]
  BY OneCell
<1> HIDE DEF m
<1> HIDE DEF m
<1>1. ASSUME NEW k \in 0 .. 3, k < n PROVE m[a + Lane(le, n, k)] = d[k]
  <2>1. k \in 0 .. n - 1
    BY <1>1
  <2>2. Lane(le, n, k) \in 0 .. n - 1 /\ Lane(le, n, Lane(le, n, k)) = k
    BY <2>1, Lanes
  <2>3. m[a + Lane(le, n, k)] = d[Lane(le, n, Lane(le, n, k))]
    BY <1>0, <2>2
  <2>4. QED
    BY <2>2, <2>3
<1>2. Read(m, le, a, n) = [k \in 0 .. 3 |-> IF k < n THEN m[a + Lane(le, n, k)] ELSE 0]
  BY DEF Read, Zero
<1>3. Read(m, le, a, n) = [k \in 0 .. 3 |-> IF k < n THEN d[k] ELSE 0]
  BY <1>1, <1>2
<1>4. QED
  BY <1>3 DEF m

\* The bytes of a word in memory are loads of their own.
LEMMA WordBytes ==
  ASSUME NEW m \in [Address -> MemByte], NEW le \in BOOLEAN, NEW x \in Address,
         x + 3 <= MEMSIZE - 4, NEW k \in 0 .. 3
  PROVE  Read(m, le, x, 4)[k] = Read(m, le, IF le THEN x + k ELSE x + 3 - k, 1)[0]
<1> DEFINE y == IF le THEN x + k ELSE x + 3 - k
<1>1. MEMSIZE \in Nat /\ x \in Int
  BY InputAssumption DEF Address
<1>2. InBounds(x) /\ InBounds(y) /\ y + Lane(le, 1, 0) = x + Lane(le, 4, k)
  BY <1>1 DEF InBounds, Lane
<1> HIDE DEF y
<1>3. Read(m, le, x, 4)[k] = m[x + Lane(le, 4, k)]
  BY <1>2 DEF Read
<1>4. Read(m, le, y, 1)[0] = m[y + Lane(le, 1, 0)]
  BY <1>2 DEF Read
<1>5. QED
  BY <1>2, <1>3, <1>4 DEF y

\* The sign extension of a load of one or two bytes.
LEMMA SignExtended ==
  ASSUME NEW n \in {1, 2, 4}, NEW d \in [0 .. 3 -> MemByte], NEW k \in 0 .. 3
  PROVE  LET back == [j \in 0 .. 3 |-> IF j < n THEN d[j] ELSE 0]
         IN  Extend(n, back)[k] =
               IF k < n THEN d[k]
               ELSE IF Value(n, d) >= 128 * Power[8 * (n - 1)] THEN 255 ELSE 0
<1> DEFINE back == [j \in 0 .. 3 |-> IF j < n THEN d[j] ELSE 0]
<1>1. back[k] = (IF k < n THEN d[k] ELSE 0) /\ n - 1 \in 0 .. 3 /\ back[n - 1] = d[n - 1]
  OBVIOUS
<1> HIDE DEF back
<1>2. Extend(n, back)[k] = IF k >= n /\ d[n - 1] > 127 THEN 255 ELSE IF k < n THEN d[k] ELSE 0
  BY <1>1 DEF Extend
<1>3. ASSUME k >= n PROVE d[n - 1] > 127 <=> Value(n, d) >= 128 * Power[8 * (n - 1)]
  <2>1. d[0] \in Int /\ 0 <= d[0] /\ d[0] <= 255 /\ d[1] \in Int
    BY DEF MemByte
  <2>2. CASE n = 1
    <3>1. Power[8 * (n - 1)] = 1 /\ Value(n, d) = d[0] /\ n - 1 = 0
      BY <2>2, PowerStep DEF Value
    <3>2. QED
      BY <2>1, <3>1
  <2>3. CASE n = 2
    <3>1. Power[8 * (n - 1)] = 256
      <4>1. /\ Power[0] = 1 /\ Power[1] = 2 * Power[0] /\ Power[2] = 2 * Power[1]
            /\ Power[3] = 2 * Power[2] /\ Power[4] = 2 * Power[3] /\ Power[5] = 2 * Power[4]
            /\ Power[6] = 2 * Power[5] /\ Power[7] = 2 * Power[6] /\ Power[8] = 2 * Power[7]
        BY PowerStep
      <4>2. QED
        BY <2>3, <4>1
    <3>2. Value(n, d) = d[0] + 256 * d[1] /\ n - 1 = 1
      BY <2>3 DEF Value
    <3>3. QED
      BY <2>1, <3>1, <3>2
  <2>4. QED
    BY <1>3, <2>2, <2>3
<1>4. QED
  BY <1>2, <1>3 DEF back

\* No store above MEMSIZE-4 arrives, and no load sees memory there.
LEMMA OutOfBounds ==
  ASSUME NEW old \in [Address -> MemByte], NEW le \in BOOLEAN, NEW a \in Address,
         NEW n, NEW d, ~InBounds(a)
  PROVE  Write(old, le, a, n, d) = old /\ Read(old, le, a, n) = HighZ
BY DEF Write, Read

\* What is stored is read back.
THEOREM MemoryAnswers == Spec => []MemoryExact
<1>1. Init => MemoryExact
  BY DEF Init, MemoryExact
<1>2. MemoryExact /\ [Next]_call => MemoryExact'
  <2>1. ASSUME Next, call'.fn = "store" PROVE MemoryExact'
    <3>1. PICK old \in Contents, le \in BOOLEAN, a \in Address, n \in {1, 2, 4}, d \in Data :
            call' = [fn |-> "store", old |-> old, le |-> le, a |-> a, n |-> n, d |-> d,
                     mem |-> Write(old, le, a, n, d)]
      BY <2>1 DEF Next, StackAdjusted, Stored, Copied, Expanded, Printed, Fixup, Linked,
         HiLo, Decoded
    <3> DEFINE m == Write(old, le, a, n, d)
    <3>2. old \in [Address -> MemByte] /\ d \in [0 .. 3 -> MemByte] /\ MEMSIZE \in Int /\ a \in Int
      BY InputAssumption DEF Address
    <3>3. /\ call'.old = old /\ call'.le = le /\ call'.a = a /\ call'.n = n /\ call'.d = d
          /\ call'.mem = m
      BY <3>1
    <3>4. CASE a > MEMSIZE - 4
      <4>1. ~InBounds(a) /\ m = old /\ \A i \in {1, 2, 4} : Read(m, le, a, i) = HighZ
        BY <3>2, <3>4, OutOfBounds DEF InBounds
      <4> HIDE DEF m
      <4>2. QED
        BY <3>3, <3>4, <4>1 DEF MemoryExact
    <3>5. CASE ~(a > MEMSIZE - 4)
      <4>1. InBounds(a)
        BY <3>2, <3>5 DEF InBounds
      <4>2. /\ m \in [Address -> MemByte]
            /\ \A x \in Address \ (a .. a + n - 1) : m[x] = old[x]
        BY <3>2, <4>1, Cells
      <4>3. Read(m, le, a, n) = [k \in 0 .. 3 |-> IF k < n THEN d[k] ELSE 0]
        BY <3>2, <4>1, LoadStored
      <4> HIDE DEF m
      <4>4. ASSUME NEW k \in 0 .. 3
            PROVE  /\ Read(m, le, a, n)[k] = IF k < n THEN d[k] ELSE 0
                   /\ Extend(n, Read(m, le, a, n))[k] =
                        IF k < n THEN d[k]
                        ELSE IF Value(n, d) >= 128 * Power[8 * (n - 1)] THEN 255 ELSE 0
        BY <3>2, <4>3, SignExtended
      <4>5. ASSUME NEW x \in Address, x + 3 <= MEMSIZE - 4, NEW k \in 0 .. 3
            PROVE  Read(m, le, x, 4)[k] = Read(m, le, IF le THEN x + k ELSE x + 3 - k, 1)[0]
        BY <4>2, <4>5, WordBytes
      <4> DEFINE Answers(mm, oo, ll, aa, nn, dd) ==
                   LET back == Read(mm, ll, aa, nn)
                   IN /\ \A k \in 0 .. 3 : back[k] = IF k < nn THEN dd[k] ELSE 0
                      /\ \A k \in 0 .. 3 : Extend(nn, back)[k] =
                           IF k < nn THEN dd[k]
                           ELSE IF Value(nn, dd) >= 128 * Power[8 * (nn - 1)] THEN 255 ELSE 0
                      /\ \A x \in Address \ (aa .. aa + nn - 1) : mm[x] = oo[x]
                      /\ \A x \in {y \in Address : y % 4 = 0 /\ y + 3 <= MEMSIZE - 4} :
                           \A k \in 0 .. 3 :
                             Read(mm, ll, x, 4)[k]
                               = Read(mm, ll, IF ll THEN x + k ELSE x + 3 - k, 1)[0]
      <4>6. Answers(m, old, le, a, n, d)
        BY <4>2, <4>4, <4>5
      <4>7. Answers(call'.mem, call'.old, call'.le, call'.a, call'.n, call'.d)
        <5> HIDE DEF Answers
        <5>1. QED
          BY <3>3, <4>6
      <4>8. QED
        BY <3>3, <3>5, <4>7 DEF MemoryExact
    <3>6. QED
      BY <3>4, <3>5
  <2>2. ASSUME MemoryExact, UNCHANGED call, call'.fn = "store" PROVE MemoryExact'
    <3> DEFINE Exact(c) ==
                 LET m == c.mem
                     d == c.d
                     back == Read(m, c.le, c.a, c.n)
                 IN IF c.a > MEMSIZE - 4
                      THEN m = c.old /\ \A n \in {1, 2, 4} : Read(m, c.le, c.a, n) = HighZ
                      ELSE /\ \A k \in 0 .. 3 : back[k] = IF k < c.n THEN d[k] ELSE 0
                           /\ \A k \in 0 .. 3 : Extend(c.n, back)[k] =
                                IF k < c.n THEN d[k]
                                ELSE IF Value(c.n, d) >= 128 * Power[8 * (c.n - 1)] THEN 255 ELSE 0
                           /\ \A x \in Address \ (c.a .. c.a + c.n - 1) : m[x] = c.old[x]
                           /\ \A x \in {y \in Address : y % 4 = 0 /\ y + 3 <= MEMSIZE - 4} :
                                \A k \in 0 .. 3 :
                                  Read(m, c.le, x, 4)[k]
                                    = Read(m, c.le, IF c.le THEN x + k ELSE x + 3 - k, 1)[0]
    <3>1. call.fn = "store" /\ call' = call
      BY <2>2
    <3>2. Exact(call)
      BY <2>2, <3>1 DEF MemoryExact
    <3>3. Exact(call')
      <4> HIDE DEF Exact
      <4>1. QED
        BY <3>1, <3>2
    <3>4. QED
      BY <3>3 DEF MemoryExact
  <2>3. ASSUME call'.fn # "store" PROVE MemoryExact'
    BY <2>3 DEF MemoryExact
  <2>4. QED
    BY <2>1, <2>2, <2>3
<1>3. QED
  BY <1>1, <1>2, PTL DEF Spec

-----------------------------------------------------------------------------
(* Structures in registers. *)

\* Or with zero, of numbers of n bits.
LEMMA EitherZero ==
  ASSUME NEW n \in Nat, NEW u \in 0 .. Power[n] - 1
  PROVE  ByBits(Either, n, u, 0) = u /\ ByBits(Either, n, 0, u) = u
<1>1. Power[n] \in Nat /\ Power[n] > 0 /\ Power[0] = 1
  BY PowerPositive, PowerStep
<1>2. ByBits(Either, n, u, 0) = u
  <2>1. u * Power[0] = u /\ u * Power[0] + 0 = u /\ 0 \in 0 .. Power[0] - 1 /\ u \in Nat
        /\ u * Power[0] + 0 < Power[n] /\ 0 \in Nat
    BY <1>1
  <2>2. ByBits(Either, n, u * Power[0], 0) = u * Power[0] + 0
    BY <2>1, EitherSum
  <2>3. QED
    BY <2>1, <2>2
<1>3. ByBits(Either, n, 0, u) = u
  <2>1. 0 * Power[n] = 0 /\ 0 * Power[n] + u = u /\ 0 * Power[n] + u < Power[n] /\ 0 \in Nat
    BY <1>1
  <2>2. ByBits(Either, n, 0 * Power[n], u) = 0 * Power[n] + u
    BY <2>1, EitherSum
  <2>3. QED
    BY <2>1, <2>2
<1>4. QED
  BY <1>2, <1>3

\* Eight bits are a byte of memory.
LEMMA EightBits == Power[8] = 256
<1>1. /\ Power[0] = 1 /\ Power[1] = 2 * Power[0] /\ Power[2] = 2 * Power[1]
      /\ Power[3] = 2 * Power[2] /\ Power[4] = 2 * Power[3] /\ Power[5] = 2 * Power[4]
      /\ Power[6] = 2 * Power[5] /\ Power[7] = 2 * Power[6] /\ Power[8] = 2 * Power[7]
  BY PowerStep
<1>2. QED
  BY <1>1

\* Or of words that have no byte in common.
LEMMA OrDisjoint ==
  ASSUME NEW d \in [0 .. 3 -> MemByte], NEW e \in [0 .. 3 -> MemByte],
         \A k \in 0 .. 3 : d[k] = 0 \/ e[k] = 0
  PROVE  OrWords(d, e) = [k \in 0 .. 3 |-> IF d[k] = 0 THEN e[k] ELSE d[k]]
<1>1. ASSUME NEW k \in 0 .. 3
      PROVE  ByBits(Either, 8, d[k], e[k]) = IF d[k] = 0 THEN e[k] ELSE d[k]
  <2>1. d[k] \in 0 .. Power[8] - 1 /\ e[k] \in 0 .. Power[8] - 1 /\ 8 \in Nat
    BY EightBits DEF MemByte
  <2>2. QED
    BY <2>1, EitherZero
<1>2. QED
  BY <1>1 DEF OrWords

\* The register that passByValArg fills has the bytes of the structure in the
\* cells from which copyByValRegs stores them in order.
LEMMA PassedBytes ==
  ASSUME NEW m \in [Address -> MemByte], NEW le \in BOOLEAN, NEW src \in 0 .. MEMSIZE - 8,
         NEW size \in 1 .. 4
  PROVE  LET reg == passByValArg(m, le, src, size)
         IN  /\ reg \in [0 .. 3 -> MemByte]
             /\ \A k \in 0 .. size - 1 : reg[Lane(le, 4, k)] = m[src + k]
<1> DEFINE reg == passByValArg(m, le, src, size)
           loads == SubwordLoads(size)
           part(i, total) == ShiftedLeft(Read(m, le, src + total, loads[i]),
                                         Shamt(le, total, loads[i]))
<1>1. /\ MEMSIZE \in Nat /\ src \in Int /\ \A k \in 0 .. 4 : InBounds(src + k)
      /\ \A k \in 0 .. 7 : src + k \in Address /\ m[src + k] \in MemByte
  BY InputAssumption DEF InBounds, Address
<1>2. ASSUME NEW t \in 0 .. 2, NEW n \in {1, 2, 4}
      PROVE  Read(m, le, src + t, n)
               = [k \in 0 .. 3 |-> IF k < n THEN m[src + (t + Lane(le, n, k))] ELSE 0]
  <2>1. \A k \in 0 .. 3 : k < n => (src + t) + Lane(le, n, k) = src + (t + Lane(le, n, k))
    BY <1>1 DEF Lane
  <2>2. InBounds(src + t)
    BY <1>1
  <2>3. QED
    BY <2>1, <2>2 DEF Read, Zero
<1>3. CASE size = 4
  <2>1. src + 0 = src
    BY <1>1
  <2>2. reg = [k \in 0 .. 3 |-> m[src + Lane(le, 4, k)]]
    <3>1. reg = Read(m, le, src, 4)
      BY <1>3 DEF passByValArg
    <3>2. \A k \in 0 .. 3 : k < 4 /\ src + (0 + Lane(le, 4, k)) = src + Lane(le, 4, k)
      BY <1>1 DEF Lane
    <3>3. QED
      BY <1>2, <2>1, <3>1, <3>2
  <2>3. \A k \in 0 .. 3 : Lane(le, 4, k) \in 0 .. 3 /\ Lane(le, 4, Lane(le, 4, k)) = k
    BY DEF Lane
  <2> HIDE DEF reg
  <2>4. QED
    BY <1>1, <1>3, <2>2, <2>3 DEF reg
<1>4. CASE size \in {1, 2}
  <2>1. loads = <<size>> /\ Len(loads) = 1 /\ loads[1] = size
    BY <1>4 DEF SubwordLoads
  <2>2. reg = ShiftedLeft(Read(m, le, src + 0, size), Shamt(le, 0, size))
    BY <1>1, <1>4, <2>1 DEF passByValArg
  <2>3. reg = [k \in 0 .. 3 |->
                 IF k >= Shamt(le, 0, size)
                   THEN IF k - Shamt(le, 0, size) < size
                     THEN m[src + (0 + Lane(le, size, k - Shamt(le, 0, size)))] ELSE 0
                 ELSE 0]
    <3>1. Shamt(le, 0, size) \in 0 .. 3
      BY <1>4 DEF Shamt
    <3>2. \A k \in 0 .. 3 : k >= Shamt(le, 0, size) => k - Shamt(le, 0, size) \in 0 .. 3
      BY <3>1
    <3>3. QED
      BY <1>2, <1>4, <2>2, <3>2 DEF ShiftedLeft
  <2> HIDE DEF reg
  <2>4. ASSUME NEW k \in 0 .. 3 PROVE reg[k] \in MemByte
    <3>1. CASE k >= Shamt(le, 0, size) /\ k - Shamt(le, 0, size) < size
      <4>1. 0 + Lane(le, size, k - Shamt(le, 0, size)) \in 0 .. 1
        BY <1>4, <3>1 DEF Lane, Shamt
      <4>2. reg[k] = m[src + (0 + Lane(le, size, k - Shamt(le, 0, size)))]
        BY <2>3, <3>1
      <4>3. QED
        BY <1>1, <4>1, <4>2
    <3>2. CASE ~(k >= Shamt(le, 0, size) /\ k - Shamt(le, 0, size) < size)
      BY <2>3, <3>2 DEF MemByte
    <3>3. QED
      BY <3>1, <3>2
  <2>5. ASSUME NEW k \in 0 .. size - 1 PROVE reg[Lane(le, 4, k)] = m[src + k]
    BY <1>4, <2>3 DEF Lane, Shamt
  <2>6. QED
    BY <2>3, <2>4, <2>5 DEF reg
<1>5. CASE size = 3
  <2> DEFINE one == part(1, 0)
             two == part(2, loads[1])
  <2>1. loads = <<2, 1>> /\ Len(loads) = 2 /\ loads[1] = 2 /\ loads[2] = 1
    BY <1>5 DEF SubwordLoads
  <2>2. reg = OrWords(one, two)
    BY <1>5, <2>1 DEF passByValArg
  <2>3. /\ one = ShiftedLeft(Read(m, le, src + 0, 2), Shamt(le, 0, 2))
        /\ two = ShiftedLeft(Read(m, le, src + 2, 1), Shamt(le, 2, 1))
    BY <2>1
  <2> HIDE DEF one, two, loads, reg
  <2>4. one = [k \in 0 .. 3 |-> IF le THEN IF k < 2 THEN m[src + k] ELSE 0
                                ELSE IF k >= 2 THEN m[src + (3 - k)] ELSE 0]
    <3>1. Read(m, le, src + 0, 2)
            = [k \in 0 .. 3 |-> IF k < 2 THEN m[src + (0 + Lane(le, 2, k))] ELSE 0]
      BY <1>2
    <3>2. QED
      BY <2>3, <3>1 DEF ShiftedLeft, Shamt, Lane
  <2>5. two = [k \in 0 .. 3 |-> IF le THEN IF k = 2 THEN m[src + 2] ELSE 0
                                ELSE IF k = 1 THEN m[src + 2] ELSE 0]
    <3>1. Read(m, le, src + 2, 1)
            = [k \in 0 .. 3 |-> IF k < 1 THEN m[src + (2 + Lane(le, 1, k))] ELSE 0]
      BY <1>2
    <3>2. QED
      BY <2>3, <3>1 DEF ShiftedLeft, Shamt, Lane
  <2>6. /\ one \in [0 .. 3 -> MemByte] /\ two \in [0 .. 3 -> MemByte]
        /\ \A k \in 0 .. 3 : one[k] = 0 \/ two[k] = 0
    BY <1>1, <2>4, <2>5 DEF MemByte
  <2>7. reg = [k \in 0 .. 3 |-> IF one[k] = 0 THEN two[k] ELSE one[k]]
    BY <2>2, <2>6, OrDisjoint
  <2>8. reg \in [0 .. 3 -> MemByte]
    BY <2>6, <2>7
  <2>9. ASSUME NEW k \in 0 .. 2 PROVE reg[Lane(le, 4, k)] = m[src + k]
    BY <1>1, <2>4, <2>5, <2>7 DEF Lane
  <2>10. QED
    BY <1>5, <2>8, <2>9 DEF reg
<1>6. QED
  BY <1>3, <1>4, <1>5

\* The callee finds the structure that the caller passed.
THEOREM StructuresArrive == Spec => []ByValArrives
<1>1. Init => ByValArrives
  BY DEF Init, ByValArrives
<1>2. ByValArrives /\ [Next]_call => ByValArrives'
  <2>1. ASSUME Next, call'.fn = "byval" PROVE ByValArrives'
    <3>1. PICK old \in Contents, le \in BOOLEAN, size \in 1 .. 4,
               src \in 0 .. MEMSIZE - 8, object \in 0 .. MEMSIZE - 4 :
            call' = [fn |-> "byval", old |-> old, le |-> le, size |-> size, src |-> src,
                     object |-> object,
                     mem |-> copyByValRegs(old, le, object, passByValArg(old, le, src, size))]
      BY <2>1 DEF Next, StackAdjusted, Stored, Copied, Expanded, Printed, Fixup, Linked,
         HiLo, Decoded
    <3> DEFINE reg == passByValArg(old, le, src, size)
    <3>2. old \in [Address -> MemByte] /\ object \in Address /\ InBounds(object)
      BY InputAssumption DEF Address, InBounds
    <3>3. /\ reg \in [0 .. 3 -> MemByte]
          /\ \A k \in 0 .. size - 1 : reg[Lane(le, 4, k)] = old[src + k]
      BY <3>2, PassedBytes
    <3> HIDE DEF reg
    <3>4. \A k \in 0 .. 3 : Write(old, le, object, 4, reg)[object + k] = reg[Lane(le, 4, k)]
      BY <3>2, <3>3, Cells
    <3>5. ASSUME NEW k \in 0 .. size - 1
          PROVE  copyByValRegs(old, le, object, reg)[object + k] = old[src + k]
      BY <3>3, <3>4 DEF copyByValRegs
    <3>6. QED
      BY <3>1, <3>5 DEF ByValArrives, reg
  <2>2. QED
    BY <2>1 DEF ByValArrives
<1>3. QED
  BY <1>1, <1>2, PTL DEF Spec

-----------------------------------------------------------------------------
(* Digits. *)

\* How many values digits have: one at least two, an even number, and more digits
\* the product.
LEMMA DigitSizes ==
  /\ \A n \in Nat : Digits(n) \in Nat /\ Digits(n) > 0
  /\ \A a, b \in Nat : Digits(a + b) = Digits(a) * Digits(b)
  /\ \E h \in Nat : h > 0 /\ Digits(1) = 2 * h
<1>1. DigitBits \in Nat /\ DigitBits > 0 /\ DigitBits - 1 \in Nat /\ (DigitBits - 1) + 1 = DigitBits
  BY DigitAssumption
<1>2. ASSUME NEW n \in Nat PROVE Digits(n) \in Nat /\ Digits(n) > 0 /\ n * DigitBits \in Nat
  <2>1. n * DigitBits \in Nat
    BY <1>1
  <2>2. QED
    BY <2>1, PowerPositive DEF Digits
<1>3. ASSUME NEW a \in Nat, NEW b \in Nat PROVE Digits(a + b) = Digits(a) * Digits(b)
  <2>1. (a + b) * DigitBits = a * DigitBits + b * DigitBits
    BY <1>1
  <2>2. QED
    BY <1>2, <2>1, PowerSum DEF Digits
<1>4. Digits(1) = 2 * Power[DigitBits - 1] /\ Power[DigitBits - 1] \in Nat /\ Power[DigitBits - 1] > 0
  BY <1>1, PowerStep, PowerPositive DEF Digits
<1>5. QED
  BY <1>2, <1>3, <1>4

\* The ranges of operands and of instructions, in digits.
LEMMA Ranges ==
  ASSUME NEW h \in Nat, h > 0, Digits(1) = 2 * h
  PROVE  /\ Range16 = 2 * (h * Digits(3)) /\ Range24 = 2 * (h * Digits(5))
         /\ Range32 = Range16 * Range16 /\ Range32 = Range24 * Byte
         /\ Digits(5) = 2 * (h * Digits(4)) /\ Digits(7) = Digits(1) * Range24
         /\ Range24 = Range16 * Byte /\ Range16 = Byte * Byte
<1>1. /\ Digits(1 + 3) = Digits(1) * Digits(3) /\ Digits(1 + 5) = Digits(1) * Digits(5)
      /\ Digits(1 + 4) = Digits(1) * Digits(4) /\ Digits(1 + 6) = Digits(1) * Digits(6)
      /\ Digits(4 + 4) = Digits(4) * Digits(4) /\ Digits(6 + 2) = Digits(6) * Digits(2)
      /\ Digits(4 + 2) = Digits(4) * Digits(2) /\ Digits(2 + 2) = Digits(2) * Digits(2)
  BY DigitSizes
<1>2. Digits(3) \in Nat /\ Digits(4) \in Nat /\ Digits(5) \in Nat
  BY DigitSizes
<1>3. (2 * h) * Digits(3) = 2 * (h * Digits(3)) /\ (2 * h) * Digits(5) = 2 * (h * Digits(5))
      /\ (2 * h) * Digits(4) = 2 * (h * Digits(4))
  BY <1>2
<1>4. QED
  BY <1>1, <1>3 DEF Range16, Range24, Range32, Byte

\* A field as a signed number.
LEMMA SignedField ==
  ASSUME NEW half \in Nat, half > 0, NEW field \in 0 .. 2 * half - 1
  PROVE  /\ (2 * half) \div 2 = half
         /\ Signed(field, 2 * half) = IF field < half THEN field ELSE field - 2 * half
<1>1. (2 * half) \div 2 = half
  OBVIOUS
<1>2. CASE field < half
  <2>1. field + half = 0 * (2 * half) + (field + half) /\ field + half \in Int
        /\ 0 <= field + half /\ field + half < 2 * half /\ 2 * half \in Nat /\ 2 * half > 0
    BY <1>2
  <2>2. (field + half) % (2 * half) = field + half
    BY <2>1, DivisionUnique
  <2>3. QED
    BY <1>1, <1>2, <2>2 DEF Signed
<1>3. CASE ~(field < half)
  <2>1. field + half = 1 * (2 * half) + (field - half) /\ field - half \in Int
        /\ 0 <= field - half /\ field - half < 2 * half /\ 2 * half \in Nat /\ 2 * half > 0
        /\ field + half \in Int
    BY <1>3
  <2>2. (field + half) % (2 * half) = field - half
    BY <2>1, DivisionUnique
  <2>3. QED
    BY <1>1, <1>3, <2>2 DEF Signed
<1>4. QED
  BY <1>1, <1>2, <1>3

-----------------------------------------------------------------------------
(* The disassembler. *)

\* An operand that differs from a field by a multiple of the range is encoded as it.
LEMMA EncodedBack ==
  ASSUME NEW range \in Nat, NEW field \in 0 .. range - 1, NEW q \in Int
  PROVE  (field - q * range) % range = field
<1>1. range > 0 /\ field \in Int /\ -q \in Int /\ field - q * range = (-q) * range + field
      /\ field - q * range \in Int /\ 0 <= field /\ field < range
  OBVIOUS
<1>2. QED
  BY <1>1, DivisionUnique

\* What is decoded encodes to the same field, and is what the processor uses
\* where DecodeExact says it is shown.
LEMMA Disassembled ==
  ASSUME NEW operand \in {"brtarget16", "brtarget24", "jmptarget", "simm16"},
         NEW field \in 0 .. OperandRange(operand) - 1
  PROVE  LET range == OperandRange(operand)
             shown == \/ operand = "simm16"
                      \/ operand = "brtarget16" /\ field \notin range \div 2 .. Threshold16
                      \/ operand = "brtarget24" /\ field <= Threshold24
                      \/ operand = "jmptarget" /\ field < range \div 2
         IN  /\ Encode(operand, Decode(operand, field)) = field
             /\ Decode(operand, field) = Signed(field, range) <=> shown
<1> DEFINE range == OperandRange(operand)
           out == Decode(operand, field)
<1>1. PICK h \in Nat : h > 0 /\ Digits(1) = 2 * h
  BY DigitSizes
<1>2. /\ Range16 = 2 * (h * Digits(3)) /\ Range24 = 2 * (h * Digits(5))
      /\ Digits(5) = 2 * (h * Digits(4)) /\ Digits(7) = (2 * h) * Range24
  BY <1>1, Ranges
<1>3. /\ Digits(3) \in Nat /\ Digits(3) > 0 /\ Digits(4) \in Nat /\ Digits(4) > 0
      /\ Digits(5) \in Nat /\ Digits(5) > 0
  BY DigitSizes
<1>4. h * Digits(3) \in Nat /\ h * Digits(3) > 0 /\ h * Digits(5) \in Nat /\ h * Digits(5) > 0
  BY <1>1, <1>3
<1>5. PICK half \in Nat : half > 0 /\ range = 2 * half
                          /\ half = IF range = Range16 /\ operand \in {"brtarget16", "simm16"}
                                      THEN h * Digits(3) ELSE h * Digits(5)
  BY <1>2, <1>4 DEF OperandRange
<1>6. field \in Int /\ 0 <= field /\ field < 2 * half /\ range \in Nat /\ range > 0
  BY <1>5
<1>7. range \div 2 = half /\ Signed(field, range) = IF field < half THEN field ELSE field - range
  BY <1>5, <1>6, SignedField
<1>8. ASSUME NEW q \in Int, out = field - q * range
      PROVE  Encode(operand, out) = field
  BY <1>6, <1>8, EncodedBack DEF Encode
<1>9. CASE operand = "simm16"
  <2>1. out = Signed(field, range)
    BY <1>9 DEF Decode, DecodeSimm16, OperandRange
  <2>2. 0 * range = 0 /\ 1 * range = range
    BY <1>6
  <2>3. out = field - 0 * range \/ out = field - 1 * range
    BY <1>6, <1>7, <2>1, <2>2
  <2> HIDE DEF out, range
  <2>4. Encode(operand, out) = field
    BY <1>8, <2>3
  <2>5. QED
    BY <1>9, <2>1, <2>4 DEF out, range
<1>10. CASE operand = "jmptarget"
  <2>1. out = field
    BY <1>10 DEF Decode, DecodeJumpTarget
  <2>2. 0 * range = 0 /\ field - 0 = field
    BY <1>6
  <2> HIDE DEF out, range
  <2>3. Encode(operand, out) = field
    BY <1>8, <2>1, <2>2
  <2>4. out = Signed(field, range) <=> field < range \div 2
    BY <1>6, <1>7, <2>1
  <2>5. QED
    BY <1>10, <2>3, <2>4 DEF out, range
<1>11. CASE operand = "brtarget16"
  <2> DEFINE t == Threshold16
  <2>1. range = Range16 /\ out = IF field > t THEN -(Range16 - field) ELSE field
    BY <1>11 DEF Decode, DecodeBranch16Target, OperandRange
  <2>2. t \in Int /\ half <= t + 1
    <3>1. Digits(1) \div 2 = h
      BY <1>1
    <3>2. t = (h + 1) * Digits(3) - 1 /\ half = h * Digits(3)
      BY <1>5, <1>11, <2>1, <3>1 DEF Threshold16
    <3>3. (h + 1) * Digits(3) = h * Digits(3) + Digits(3)
      BY <1>3
    <3>4. QED
      BY <1>3, <1>4, <3>2, <3>3
  <2>3. 0 * range = 0 /\ 1 * range = range
    BY <1>6
  <2> HIDE DEF out, range, t
  <2>4. out = field - 0 * range \/ out = field - 1 * range
    BY <1>6, <2>1, <2>3
  <2>5. Encode(operand, out) = field
    BY <1>8, <2>4
  <2>6. out = Signed(field, range) <=> ~(half <= field /\ field <= t)
    BY <1>6, <1>7, <2>1, <2>2
  <2>7. field \in range \div 2 .. t <=> half <= field /\ field <= t
    BY <1>6, <1>7, <2>2
  <2>8. QED
    BY <1>11, <2>5, <2>6, <2>7 DEF out, range, t
<1>12. CASE operand = "brtarget24"
  <2> DEFINE t == Threshold24
  <2>1. range = Range24 /\ out = IF field > t THEN -(Digits(7) - field) ELSE field
    BY <1>12 DEF Decode, DecodeBranch24Target, OperandRange
  <2>2. t \in Int /\ t < half
    <3>1. Digits(1) \div 2 = h
      BY <1>1
    <3>2. t = (h + 1) * Digits(4) - 1 /\ half = h * Digits(5)
      BY <1>5, <1>12, <2>1, <3>1 DEF Threshold24
    <3> DEFINE f == Digits(4)
    <3>3. f \in Nat /\ f > 0 /\ Digits(5) = 2 * (h * f) /\ t = (h + 1) * f - 1
      BY <1>2, <1>3, <3>2
    <3> HIDE DEF f, t
    <3>4. h * (2 * (h * f)) = (h + h) * (h * f) /\ h * f \in Nat /\ h * f >= f
      BY <1>1, <3>3
    <3>5. (h + h) * (h * f) >= (h + 1) * (h * f) /\ (h + 1) * (h * f) >= (h + 1) * f
      <4>1. h + h >= h + 1
        BY <1>1
      <4>2. (h + h) * (h * f) >= (h + 1) * (h * f)
        <5> DEFINE g == h * f
        <5>1. g \in Nat
          BY <3>4
        <5> HIDE DEF g
        <5>2. (h + h) * g = (h + 1) * g + (h - 1) * g /\ (h - 1) * g >= 0
          BY <1>1, <5>1
        <5>3. QED
          BY <5>1, <5>2 DEF g
      <4>3. (h + 1) * (h * f) >= (h + 1) * f
        <5> DEFINE g == h * f
        <5>1. g \in Nat /\ g >= f
          BY <3>4
        <5> HIDE DEF g
        <5>2. (h + 1) * g = (h + 1) * f + (h + 1) * (g - f) /\ (h + 1) * (g - f) >= 0
          BY <3>3, <5>1
        <5>3. QED
          BY <3>3, <5>1, <5>2 DEF g
      <4>4. QED
        BY <4>2, <4>3
    <3>6. half = h * (2 * (h * f))
      BY <3>2, <3>3
    <3>7. (h + 1) * f \in Int /\ (h + 1) * (h * f) \in Int /\ (h + h) * (h * f) \in Int
      BY <3>3
    <3>8. QED
      BY <3>3, <3>4, <3>5, <3>6, <3>7
  <2>3. /\ Digits(7) = (2 * h) * range /\ (2 * h) * range \in Int /\ (2 * h) * range > range
        /\ 0 * range = 0 /\ 2 * h \in Int
    <3>1. (2 * h) * range = range + (2 * h - 1) * range /\ (2 * h - 1) * range > 0
      BY <1>1, <1>6
    <3>2. (2 * h - 1) * range \in Int
      BY <1>6
    <3>3. QED
      BY <1>2, <1>6, <2>1, <3>1, <3>2
  <2> HIDE DEF out, range, t
  <2>4. out = field - 0 * range \/ out = field - (2 * h) * range
    BY <1>6, <2>1, <2>3
  <2>5. Encode(operand, out) = field
    BY <1>8, <2>3, <2>4
  <2>6. out = Signed(field, range) <=> field <= t
    BY <1>5, <1>6, <1>7, <2>1, <2>2, <2>3
  <2>7. QED
    BY <1>12, <2>5, <2>6 DEF out, range, t
<1>13. QED
  BY <1>9, <1>10, <1>11, <1>12

\* The disassembler shows what the processor uses, and where not.
THEOREM Disassembly == Spec => []DecodeExact
<1>1. Init => DecodeExact
  BY DEF Init, DecodeExact
<1>2. DecodeExact /\ [Next]_call => DecodeExact'
  <2>1. ASSUME Next, call'.fn = "decode" PROVE DecodeExact'
    <3>1. PICK operand \in {"brtarget16", "brtarget24", "jmptarget", "simm16"} :
            \E field \in 0 .. OperandRange(operand) - 1 :
              call' = [fn |-> "decode", operand |-> operand, field |-> field,
                       out |-> Decode(operand, field)]
      BY <2>1 DEF Next, StackAdjusted, Stored, Copied, Expanded, Printed, Fixup, Linked,
         HiLo, Decoded
    <3>2. PICK field \in 0 .. OperandRange(operand) - 1 :
            call' = [fn |-> "decode", operand |-> operand, field |-> field,
                     out |-> Decode(operand, field)]
      BY <3>1
    <3>3. QED
      BY <3>2, Disassembled DEF DecodeExact
  <2>2. QED
    BY <2>1 DEF DecodeExact
<1>3. QED
  BY <1>1, <1>2, PTL DEF Spec

-----------------------------------------------------------------------------
(* lui and ori. *)

\* Or of n digits with what has them zero.
LEMMA OrDigits ==
  ASSUME NEW n \in Nat, NEW m \in Nat, NEW q \in 0 .. Digits(n) - 1, NEW r \in 0 .. Digits(m) - 1
  PROVE  Or(n + m, q * Digits(m), r) = q * Digits(m) + r
<1>1. Digits(n) \in Nat /\ Digits(m) \in Nat /\ Digits(m) > 0 /\ Digits(n + m) = Digits(n) * Digits(m)
  BY DigitSizes
<1>2. q * Digits(m) + r < Digits(n) * Digits(m)
  <2> DEFINE a == Digits(n)
             b == Digits(m)
  <2>1. a \in Nat /\ b \in Nat /\ b > 0 /\ q \in Int /\ q <= a - 1 /\ r \in Int /\ r < b
    BY <1>1
  <2> HIDE DEF a, b
  <2>2. a * b = q * b + (a - q) * b /\ (a - q) * b = b + (a - q - 1) * b /\ (a - q - 1) * b >= 0
    BY <2>1
  <2>3. q * b \in Int /\ (a - q - 1) * b \in Int
    BY <2>1
  <2>4. QED
    BY <2>1, <2>2, <2>3 DEF a, b
<1> DEFINE N == (n + m) * DigitBits
           M == m * DigitBits
<1>3. N \in Nat /\ M \in Nat /\ q \in Nat
  BY DigitAssumption, <1>1
<1>4. Digits(m) = Power[M] /\ Digits(n + m) = Power[N]
  BY DEF Digits
<1>5. Or(n + m, q * Digits(m), r) = ByBits(Either, N, q * Power[M], r)
  BY <1>4 DEF Or
<1> HIDE DEF N, M
<1>6. r \in 0 .. Power[M] - 1 /\ q * Power[M] + r < Power[N]
  BY <1>1, <1>2, <1>4
<1>7. ByBits(Either, N, q * Power[M], r) = q * Power[M] + r
  BY <1>3, <1>6, EitherSum
<1>8. QED
  BY <1>4, <1>5, <1>7

\* The pair of lui and ori has the low half, and the high half raised by one if
\* the low half is negative as a signed number.
LEMMA PairBuilt ==
  ASSUME NEW hi \in 0 .. Range16 - 1, NEW lo \in 0 .. Range16 - 1
  PROVE  HiLoPair(hi * Range16 + lo) = hi * Range16 + lo <=> lo < Range16 \div 2
<1>1. PICK h \in Nat : h > 0 /\ Digits(1) = 2 * h
  BY DigitSizes
<1> DEFINE R == Range16
           half == h * Digits(3)
           v == hi * R + lo
           q == (IF lo < half THEN hi ELSE hi + 1) % R
<1>2. R = 2 * half /\ half \in Nat /\ half > 0 /\ Range32 = R * R /\ Digits(4) = R
  <2>1. Digits(3) \in Nat /\ Digits(3) > 0
    BY DigitSizes
  <2>2. half \in Nat /\ half > 0
    BY <1>1, <2>1
  <2>3. QED
    BY <1>1, <2>2, Ranges DEF Range16
<1>3. R \in Nat /\ R > 0 /\ R >= 2 /\ R \div 2 = half /\ R * R \in Nat /\ R * R > 0
      /\ hi \in Int /\ 0 <= hi /\ hi < R /\ lo \in Int /\ 0 <= lo /\ lo < R
  BY <1>2
<1> HIDE DEF R, half
<1>4. v \in Int /\ 0 <= v /\ v < R * R
  <2>1. hi * R \in Int /\ 0 <= hi * R
    BY <1>3
  <2>2. R * R = hi * R + (R - hi) * R /\ (R - hi) * R = R + (R - hi - 1) * R
        /\ (R - hi - 1) * R >= 0 /\ (R - hi - 1) * R \in Int
    BY <1>3
  <2>3. QED
    BY <1>3, <2>1, <2>2
<1>5. adjustFixupValue("LO16", v) % R = lo
  <2>1. v % (R * R) = v
    <3>1. v = 0 * (R * R) + v
      BY <1>3, <1>4
    <3> HIDE DEF v
    <3> DEFINE m == R * R
    <3>2. m \in Nat /\ m > 0 /\ v < m /\ v = 0 * m + v
      BY <1>3, <1>4, <3>1
    <3> HIDE DEF m
    <3>3. v % m = v
      BY <1>4, <3>2, DivisionUnique
    <3>4. QED
      BY <3>3 DEF m
  <2>2. adjustFixupValue("LO16", v) = v
    BY <1>2, <2>1 DEF adjustFixupValue
  <2>3. v % R = lo
    BY <1>3, <1>4, DivisionUnique
  <2>4. QED
    BY <2>2, <2>3
<1>6. adjustFixupValue("HI16", v) = q
  <2>1. (v + half) \div R = IF lo < half THEN hi ELSE hi + 1
    <3>1. CASE lo < half
      <4>1. v + half \in Int /\ v + half = hi * R + (lo + half) /\ 0 <= lo + half
            /\ lo + half < R /\ lo + half \in Int
        BY <1>2, <1>3, <1>4, <3>1
      <4> DEFINE w == v + half
                 r == lo + half
      <4>2. w \in Int /\ r \in Int /\ w = hi * R + r /\ 0 <= r /\ r < R
        BY <4>1
      <4> HIDE DEF w, r, v
      <4>3. w \div R = hi
        BY <1>3, <4>2, DivisionUnique
      <4>4. QED
        BY <3>1, <4>3 DEF w
    <3>2. CASE ~(lo < half)
      <4>1. v + half \in Int /\ (hi + 1) * R = hi * R + R /\ hi * R \in Int /\ hi + 1 \in Int
        BY <1>2, <1>3, <1>4
      <4>2. v + half = (hi + 1) * R + (lo - half) /\ 0 <= lo - half
            /\ lo - half < R /\ lo - half \in Int
        BY <1>2, <1>3, <3>2, <4>1
      <4> DEFINE w == v + half
                 r == lo - half
                 p == hi + 1
      <4>3. w \in Int /\ p \in Int /\ r \in Int /\ w = p * R + r /\ 0 <= r /\ r < R
        BY <4>1, <4>2
      <4> HIDE DEF w, r, v, p
      <4>4. w \div R = p
        BY <1>3, <4>3, DivisionUnique
      <4>5. QED
        BY <3>2, <4>4 DEF w, p
    <3>3. QED
      BY <3>1, <3>2
  <2>2. adjustFixupValue("HI16", v) = ((v + R \div 2) \div R) % R
    BY DEF adjustFixupValue, R
  <2>3. QED
    BY <1>3, <2>1, <2>2
<1>7. q \in 0 .. R - 1 /\ (q = hi <=> lo < half)
  <2>1. CASE lo < half
    <3>1. hi = 0 * R + hi
      BY <1>3
    <3>2. q = hi
      BY <1>3, <2>1, <3>1, DivisionUnique
    <3>3. QED
      BY <1>3, <2>1, <3>2
  <2>2. CASE ~(lo < half) /\ hi + 1 < R
    <3>1. hi + 1 = 0 * R + (hi + 1) /\ hi + 1 \in Int
      BY <1>3
    <3>2. q = hi + 1
      BY <1>3, <2>2, <3>1, DivisionUnique
    <3>3. QED
      BY <1>3, <2>2, <3>2
  <2>3. CASE ~(lo < half) /\ hi + 1 = R
    <3>1. R = 1 * R + 0 /\ R \in Int
      BY <1>3
    <3>2. R % R = 0
      BY <1>3, <3>1, DivisionUnique
    <3>3. q = 0
      BY <2>3, <3>2
    <3>4. QED
      BY <1>3, <2>3, <3>3
  <2>4. QED
    BY <1>3, <2>1, <2>2, <2>3
<1> HIDE DEF v, q
<1>8. (q * R) % (R * R) = q * R
  <2>1. q * R \in Int /\ 0 <= q * R
    BY <1>3, <1>7
  <2>2. R * R = q * R + (R - q) * R /\ (R - q) * R > 0 /\ (R - q) * R \in Int
    BY <1>3, <1>7
  <2> DEFINE m == R * R
             p == q * R
  <2>3. m \in Nat /\ m > 0 /\ p \in Int /\ 0 <= p /\ p < m /\ p = 0 * m + p
    BY <1>3, <2>1, <2>2
  <2> HIDE DEF m, p
  <2>4. p % m = p
    BY <2>3, DivisionUnique
  <2>5. QED
    BY <2>4 DEF m, p
<1>9. HiLoPair(v) = q * R + lo
  <2>1. HiLoPair(v) = Or(8, q * R, lo)
    BY <1>2, <1>5, <1>6, <1>8 DEF HiLoPair, R
  <2>2. q \in 0 .. Digits(4) - 1 /\ lo \in 0 .. Digits(4) - 1 /\ 4 + 4 = 8 /\ 4 \in Nat
    BY <1>2, <1>3, <1>7
  <2>3. Or(4 + 4, q * Digits(4), lo) = q * Digits(4) + lo
    BY <2>2, OrDigits
  <2>4. QED
    BY <1>2, <2>1, <2>2, <2>3
<1>10. q * R + lo = hi * R + lo <=> q = hi
  <2>1. q * R = hi * R <=> q = hi
    <3>1. q * R - hi * R = (q - hi) * R
      BY <1>3, <1>7
    <3>2. (q - hi) * R = 0 <=> q - hi = 0
      BY <1>3, <1>7
    <3>3. q * R \in Int /\ hi * R \in Int
      BY <1>3, <1>7
    <3>4. QED
      BY <1>3, <1>7, <3>1, <3>2, <3>3
  <2>2. q * R \in Int /\ hi * R \in Int
    BY <1>3, <1>7
  <2> DEFINE a == q * R
             b == hi * R
  <2>3. a \in Int /\ b \in Int /\ (a = b <=> q = hi)
    BY <2>1, <2>2
  <2> HIDE DEF a, b
  <2>4. a + lo = b + lo <=> q = hi
    BY <1>3, <2>3
  <2>5. QED
    BY <2>4 DEF a, b
<1>11. QED
  BY <1>3, <1>7, <1>9, <1>10 DEF v, R

\* lui and ori build a value exactly if its bit 15 is clear.
THEOREM HighAndLow == Spec => []HiLoExact
<1>1. Init => HiLoExact
  BY DEF Init, HiLoExact
<1>2. HiLoExact /\ [Next]_call => HiLoExact'
  <2>1. ASSUME Next, call'.fn = "hilo" PROVE HiLoExact'
    <3>1. PICK hi \in HighHalves, lo \in 0 .. Range16 - 1 :
            call' = [fn |-> "hilo", v |-> hi * Range16 + lo, out |-> HiLoPair(hi * Range16 + lo)]
      BY <2>1 DEF Next, StackAdjusted, Stored, Copied, Expanded, Printed, Fixup, Linked,
         HiLo, Decoded
    <3>2. hi \in 0 .. Range16 - 1
      BY InputAssumption
    <3> DEFINE v == hi * Range16 + lo
    <3>3. v % Range16 = lo
      <4>1. Range16 \in Nat /\ Range16 > 0
        BY DigitSizes DEF Range16
      <4>2. hi \in Int /\ lo \in Int /\ 0 <= lo /\ lo < Range16 /\ v \in Int /\ v = hi * Range16 + lo
        BY <3>2, <4>1
      <4> HIDE DEF v
      <4>3. QED
        BY <4>1, <4>2, DivisionUnique
    <3>4. HiLoPair(v) = v <=> lo < Range16 \div 2
      BY <3>2, PairBuilt
    <3> HIDE DEF v
    <3>5. call'.fn = "hilo" /\ call'.v = v /\ call'.out = HiLoPair(v)
      BY <3>1 DEF v
    <3>6. QED
      BY <3>3, <3>4, <3>5 DEF HiLoExact
  <2>2. QED
    BY <2>1 DEF HiLoExact
<1>3. QED
  BY <1>1, <1>2, PTL DEF Spec

-----------------------------------------------------------------------------
(* Branches and jumps. *)

\* The bytes of an instruction whose low half is zero.
LEMMA InstructionBytes ==
  ASSUME NEW B \in Nat, B > 0, NEW o \in 0 .. B - 1, NEW f \in 0 .. B - 1
  PROVE  LET w == (o * B + f) * (B * B)
         IN  /\ (w \div 1) % B = 0 /\ (w \div B) % B = 0
             /\ (w \div (B * B)) % B = f /\ (w \div ((B * B) * B)) % B = o
<1> DEFINE t == o * B + f
           s == t * B
           w == t * (B * B)
<1>1. /\ o \in Int /\ 0 <= o /\ o < B /\ f \in Int /\ 0 <= f /\ f < B
      /\ t = o * B + f /\ t \in Int /\ s \in Int /\ w \in Int /\ w = s * B + 0 /\ s = t * B + 0
      /\ w = t * (B * B) + 0 /\ B * B \in Nat /\ B * B > 0 /\ 0 \in Int /\ 0 <= 0 /\ 0 < B
      /\ w = w * 1 + 0 /\ 1 \in Nat /\ 1 > 0 /\ o = 0 * B + o
  OBVIOUS
<1> HIDE DEF t, s, w
<1>2. w \div 1 = w /\ w % B = 0 /\ w \div B = s /\ s % B = 0
  BY <1>1, DivisionUnique
<1>3. w \div (B * B) = t
  <2> DEFINE C == B * B
  <2>1. C \in Nat /\ C > 0 /\ w = t * C + 0
    BY <1>1
  <2> HIDE DEF C
  <2>2. w \div C = t
    BY <1>1, <2>1, DivisionUnique
  <2>3. QED
    BY <2>2 DEF C
<1>4. t % B = f /\ t \div B = o /\ o % B = o
  BY <1>1, DivisionUnique
<1>5. w \div ((B * B) * B) = o
  BY <1>1, <1>3, <1>4, DivisionTwice
<1>6. QED
  BY <1>2, <1>3, <1>4, <1>5 DEF w, t

\* A number of two or three bytes.
LEMMA ValueBytes ==
  ASSUME NEW B \in Nat, B > 0, NEW w \in Nat
  PROVE  /\ w < B * B => w = (w % B) + ((w \div B) % B) * B
         /\ w < (B * B) * B =>
              w = (w % B) + ((w \div B) % B) * B + ((w \div (B * B)) % B) * (B * B)
         /\ (w % B) \in 0 .. B - 1 /\ ((w \div B) % B) \in 0 .. B - 1
         /\ ((w \div (B * B)) % B) \in 0 .. B - 1
<1> DEFINE q == w \div B
           r == w % B
           p == q \div B
           s == q % B
<1>1. q \in Int /\ r \in Int /\ 0 <= r /\ r < B /\ w = q * B + r
  BY Division
<1>2. p \in Int /\ s \in Int /\ 0 <= s /\ s < B /\ q = p * B + s
  <2> HIDE DEF q
  <2>1. QED
    BY <1>1, Division
<1>3. w \div (B * B) = p
  BY DivisionTwice
<1>4. p % B \in 0 .. B - 1
  <2> HIDE DEF p
  <2>1. QED
    BY <1>2, Division
<1> HIDE DEF q, r, p, s
<1>5. q >= 0 /\ p >= 0
  <2>1. q >= 0
    <3>1. ASSUME q <= -1 PROVE FALSE
      <4>1. q * B = -B + (q + 1) * B /\ (q + 1) * B <= 0 /\ (q + 1) * B \in Int
        BY <1>1, <3>1
      <4>2. QED
        BY <1>1, <4>1
    <3>2. QED
      BY <1>1, <3>1
  <2>2. ASSUME p <= -1 PROVE FALSE
    <3>1. p * B = -B + (p + 1) * B /\ (p + 1) * B <= 0 /\ (p + 1) * B \in Int
      BY <1>2, <2>2
    <3>2. QED
      BY <1>2, <2>1, <3>1
  <2>3. QED
    BY <1>2, <2>1, <2>2
<1>6. w = p * (B * B) + (s * B + r) /\ s * B \in Int /\ 0 <= s * B + r
  <2>1. w = (p * B + s) * B + r
    BY <1>1, <1>2
  <2>2. (p * B + s) * B = p * (B * B) + s * B /\ s * B \in Int /\ s * B >= 0
        /\ p * (B * B) \in Int
    BY <1>2
  <2>3. QED
    BY <1>1, <2>1, <2>2
<1>7. B * B \in Nat /\ B * B > 0 /\ p * (B * B) \in Int
  BY <1>2
<1>8. ASSUME w < B * B PROVE w = r + s * B
  <2>1. ASSUME p >= 1 PROVE FALSE
    <3>1. p * (B * B) = B * B + (p - 1) * (B * B) /\ (p - 1) * (B * B) >= 0
          /\ (p - 1) * (B * B) \in Int
      <4> DEFINE C == B * B
      <4>1. C \in Nat /\ p - 1 \in Nat
        BY <1>2, <1>7, <2>1
      <4> HIDE DEF C
      <4>2. p * C = C + (p - 1) * C /\ (p - 1) * C >= 0 /\ (p - 1) * C \in Int
        BY <1>2, <4>1
      <4>3. QED
        BY <4>2 DEF C
    <3>2. QED
      BY <1>1, <1>6, <1>7, <1>8, <3>1
  <2>2. p = 0 /\ 0 * (B * B) = 0
    BY <1>2, <1>5, <1>7, <2>1
  <2>3. QED
    BY <1>1, <1>6, <2>2
<1>9. ASSUME w < (B * B) * B PROVE w = r + s * B + (p % B) * (B * B)
  <2>1. ASSUME p >= B PROVE FALSE
    <3>1. p * (B * B) = (B * B) * B + (p - B) * (B * B) /\ (p - B) * (B * B) >= 0
          /\ (p - B) * (B * B) \in Int /\ (B * B) * B \in Int
      <4> DEFINE C == B * B
      <4>1. C \in Nat /\ p - B \in Nat
        BY <1>2, <1>7, <2>1
      <4> HIDE DEF C
      <4>2. p * C = C * B + (p - B) * C /\ (p - B) * C >= 0 /\ (p - B) * C \in Int /\ C * B \in Int
        BY <1>2, <4>1
      <4>3. QED
        BY <4>2 DEF C
    <3>2. QED
      BY <1>1, <1>6, <1>7, <1>9, <3>1
  <2>2. p < B /\ p = 0 * B + p
    BY <1>2, <2>1
  <2>3. p % B = p
    BY <1>2, <1>5, <2>2, DivisionUnique
  <2>4. w = r + s * B + p * (B * B)
    <3> DEFINE a == p * (B * B)
               b == s * B
    <3>1. w = a + (b + r) /\ a \in Int /\ b \in Int
      BY <1>6, <1>7
    <3> HIDE DEF a, b
    <3>2. w = r + b + a
      BY <1>1, <3>1
    <3>3. QED
      BY <3>2 DEF a, b
  <2>5. QED
    BY <2>3, <2>4
<1>10. QED
  BY <1>1, <1>2, <1>3, <1>4, <1>8, <1>9 DEF q, r, p, s

\* A remainder of a remainder.
LEMMA RemainderTwice ==
  ASSUME NEW x \in Int, NEW m \in Nat, m > 0, NEW k \in Nat, k > 0
  PROVE  (x % (m * k)) % m = x % m
<1> DEFINE M == m * k
           q == x \div M
           r == x % M
<1>1. M \in Nat /\ M > 0
  OBVIOUS
<1>2. q \in Int /\ r \in Int /\ x = q * M + r
  <2> HIDE DEF M
  <2>1. QED
    BY <1>1, Division
<1>3. q * M = (q * k) * m /\ q * k \in Int
  <2> HIDE DEF q
  <2>1. QED
    BY <1>2
<1> DEFINE p == q * k
<1>4. x = r + p * m /\ p \in Int
  <2>1. q * M \in Int
    BY <1>3
  <2> HIDE DEF M, q, r
  <2>2. QED
    BY <1>2, <1>3, <2>1
<1> HIDE DEF p, r
<1>5. x % m = r % m
  BY <1>2, <1>4, DivisionShift
<1>6. QED
  BY <1>5 DEF r

\* The fixup of a branch or jump: what the processor fetches is the instruction
\* with the distance from the next one in its field, as far as it fits.
LEMMA FixedUp ==
  ASSUME NEW operand \in {"brtarget16", "brtarget24", "jmptarget"}, NEW le \in BOOLEAN,
         NEW opcode \in 0 .. Byte - 1, NEW field \in 0 .. Byte - 1, NEW v \in Int
  PROVE  LET insn == Instruction(operand, opcode, field)
             range == OperandRange(operand)
             out == applyFixup(le, TargetFixup(operand), EmitInstruction(le, insn), v)
         IN  /\ readInstruction32(le, out) = insn + ((v - 4) % range)
             /\ insn % range = 0 /\ insn \in Int
<1> DEFINE B == Byte
           kind == TargetFixup(operand)
           n == IF operand = "brtarget16" THEN 2 ELSE 3
           f == IF operand = "brtarget16" THEN field ELSE 0
           insn == Instruction(operand, opcode, field)
           range == OperandRange(operand)
           val == (v - 4) % range
           data == EmitInstruction(le, insn)
           out == applyFixup(le, kind, data, v)
<1>1. /\ B \in Nat /\ B > 0 /\ Digits(0) = 1 /\ Digits(2) = B /\ Digits(4) = B * B
      /\ Digits(6) = (B * B) * B /\ Range16 = B * B /\ Range24 = (B * B) * B
      /\ Range32 = Range16 * Range16 /\ Range32 = Range24 * B
  <2>1. Digits(2) \in Nat /\ Digits(2) > 0 /\ \E h \in Nat : h > 0 /\ Digits(1) = 2 * h
    BY DigitSizes
  <2>2. 0 * DigitBits = 0
    BY DigitAssumption
  <2>3. Digits(0) = 1
    BY <2>2, PowerStep DEF Digits
  <2>4. QED
    BY <2>1, <2>3, Ranges DEF Byte, Range16, Range24
<1>2. /\ range = Digits(2 * n) /\ range \in Nat /\ range > 0 /\ n \in {2, 3}
      /\ range = (IF n = 2 THEN B * B ELSE (B * B) * B)
      /\ \E k \in Nat : k > 0 /\ Range32 = range * k
  <2>1. CASE operand = "brtarget16"
    <3>1. n = 2 /\ 2 * n = 4 /\ range = B * B /\ B * B \in Nat /\ B * B > 0
      BY <1>1, <2>1 DEF OperandRange
    <3>2. QED
      BY <1>1, <3>1
  <2>2. CASE operand # "brtarget16"
    <3>1. n = 3 /\ 2 * n = 6 /\ range = (B * B) * B /\ (B * B) * B \in Nat /\ (B * B) * B > 0
      BY <1>1, <2>2 DEF OperandRange
    <3>2. QED
      BY <1>1, <3>1
  <2>3. QED
    BY <2>1, <2>2
<1>3. kind = (IF n = 2 THEN "PC16" ELSE "PC24") /\ getFixupKindInfo(kind).bytes = n
  BY BranchEntries DEF TargetFixup
<1>4. adjustFixupValue(kind, v) % Digits(2 * n) = val
  <2>1. adjustFixupValue(kind, v) = (v - 4) % Range32
    BY <1>3 DEF adjustFixupValue
  <2>2. PICK k \in Nat : k > 0 /\ Range32 = range * k
    BY <1>2
  <2>3. v - 4 \in Int
    OBVIOUS
  <2> HIDE DEF range
  <2>4. ((v - 4) % (range * k)) % range = (v - 4) % range
    BY <1>2, <2>2, <2>3, RemainderTwice
  <2>5. QED
    BY <1>2, <2>1, <2>2, <2>4
<1>5. val \in Nat /\ val < range
  <2>1. v - 4 \in Int
    OBVIOUS
  <2> HIDE DEF range
  <2>2. QED
    BY <1>2, <2>1, Division
<1>6. opcode \in 0 .. B - 1 /\ f \in 0 .. B - 1 /\ insn = (opcode * B + f) * (B * B)
  <2>1. opcode \in 0 .. B - 1 /\ f \in 0 .. B - 1 /\ opcode \in Int /\ f \in Int
    BY <1>1
  <2>2. insn = opcode * ((B * B) * B) + f * (B * B)
    <3>1. CASE operand = "brtarget16"
      BY <1>1, <3>1 DEF Instruction
    <3>2. CASE operand # "brtarget16"
      <4>1. insn = opcode * ((B * B) * B) + 0 /\ f = 0 /\ 0 * (B * B) = 0
        BY <1>1, <3>2 DEF Instruction
      <4>2. QED
        BY <4>1
    <3>3. QED
      BY <3>1, <3>2
  <2> HIDE DEF B, insn, f
  <2>3. opcode * ((B * B) * B) = (opcode * B) * (B * B)
    BY <1>1, <2>1
  <2> DEFINE C == B * B
             a == opcode * B
  <2>4. C \in Int /\ a \in Int
    BY <1>1, <2>1
  <2> HIDE DEF C, a
  <2>5. a * C + f * C = (a + f) * C
    BY <2>1, <2>4
  <2>6. QED
    BY <2>1, <2>2, <2>3, <2>5 DEF C, a
<1> DEFINE E(i) == (insn \div Digits(2 * i)) % B
           V(i) == (val \div Digits(2 * i)) % B
<1>7. /\ E(0) = 0 /\ E(1) = 0 /\ E(2) = f /\ E(3) = opcode
  <2>1. 2 * 0 = 0 /\ 2 * 1 = 2 /\ 2 * 2 = 4 /\ 2 * 3 = 6
    OBVIOUS
  <2> HIDE DEF insn, f, B
  <2>2. B \in Nat /\ B > 0 /\ opcode \in 0 .. B - 1 /\ f \in 0 .. B - 1
    BY <1>1, <1>6
  <2> DEFINE w == (opcode * B + f) * (B * B)
  <2>3. /\ (w \div 1) % B = 0 /\ (w \div B) % B = 0
        /\ (w \div (B * B)) % B = f /\ (w \div ((B * B) * B)) % B = opcode
    BY ONLY <2>2, InstructionBytes
  <2>4. insn = w
    BY <1>6
  <2> HIDE DEF w
  <2>5. /\ (insn \div 1) % B = 0 /\ (insn \div B) % B = 0
        /\ (insn \div (B * B)) % B = f /\ (insn \div ((B * B) * B)) % B = opcode
    BY ONLY <2>3, <2>4
  <2>6. QED
    BY <1>1, <2>1, <2>5
<1>8. /\ V(0) \in 0 .. B - 1 /\ V(1) \in 0 .. B - 1 /\ V(2) \in 0 .. B - 1
      /\ n = 2 => val = V(0) + V(1) * B
      /\ n = 3 => val = V(0) + V(1) * B + V(2) * (B * B)
  <2>1. 2 * 0 = 0 /\ 2 * 1 = 2 /\ 2 * 2 = 4
    OBVIOUS
  <2> HIDE DEF val, B, range, n
  <2>2. val \div 1 = val
    BY <1>5
  <2>3. /\ V(0) = val % B /\ V(1) = (val \div B) % B /\ V(2) = (val \div (B * B)) % B
    BY <1>1, <2>1, <2>2
  <2>4. (n = 2 => val < B * B) /\ (n = 3 => val < (B * B) * B)
    BY <1>2, <1>5
  <2>5. QED
    BY <1>1, <1>5, <2>3, <2>4, ValueBytes
<1>9. ASSUME NEW i \in 0 .. 3
      PROVE  /\ Place(le, i) \in 0 .. 3 /\ Place(le, Place(le, i)) = i
             /\ out[Place(le, i)] = IF i < n THEN Or(2, E(i), V(i)) ELSE E(i)
  <2>1. Place(le, i) \in 0 .. 3 /\ Place(le, Place(le, i)) = i
    BY DEF Place
  <2>2. data[Place(le, i)] = E(i)
    BY <2>1 DEF EmitInstruction
  <2> HIDE DEF data, kind, n, insn, val, B
  <2>3. out = [x \in 0 .. 3 |->
                 IF Place(le, x) < n
                   THEN Or(2, data[x], (val \div Digits(2 * Place(le, x))) % B) ELSE data[x]]
    BY <1>3, <1>4 DEF applyFixup, B
  <2> HIDE DEF out
  <2>4. out[Place(le, i)] = IF i < n THEN Or(2, data[Place(le, i)], V(i)) ELSE data[Place(le, i)]
    BY <2>1, <2>3
  <2>5. QED
    BY <2>1, <2>2, <2>4
<1> HIDE DEF E, V
<1>10. ASSUME NEW b \in 0 .. B - 1 PROVE Or(2, 0, b) = b
  <2>1. 2 * DigitBits \in Nat /\ b \in 0 .. Power[2 * DigitBits] - 1
    BY DigitAssumption DEF Digits, Byte
  <2>2. QED
    BY <2>1, EitherZero DEF Or
<1>11. /\ out[Place(le, 0)] = V(0) /\ out[Place(le, 1)] = V(1)
       /\ out[Place(le, 2)] = (IF n = 2 THEN f ELSE V(2)) /\ out[Place(le, 3)] = opcode
  <2> HIDE DEF out, B
  <2>1. out[Place(le, 0)] = Or(2, E(0), V(0)) /\ out[Place(le, 1)] = Or(2, E(1), V(1))
    BY <1>2, <1>9
  <2>2. out[Place(le, 2)] = (IF n = 2 THEN E(2) ELSE Or(2, E(2), V(2))) /\ out[Place(le, 3)] = E(3)
    BY <1>2, <1>9
  <2>3. n = 3 => f = 0
    OBVIOUS
  <2> HIDE DEF n, f
  <2>4. QED
    BY <1>2, <1>7, <1>8, <1>10, <2>1, <2>2, <2>3
<1>12. readInstruction32(le, out)
         = V(0) + V(1) * B + (IF n = 2 THEN f ELSE V(2)) * (B * B) + opcode * ((B * B) * B)
  <2> HIDE DEF out
  <2>1. QED
    BY <1>1, <1>11 DEF readInstruction32
<1>13. insn = opcode * ((B * B) * B) + f * (B * B) /\ (n = 3 => f = 0)
       /\ opcode * ((B * B) * B) \in Int /\ f * (B * B) \in Int /\ insn \in Int
  <2>1. n = 3 => f = 0
    OBVIOUS
  <2> HIDE DEF B, insn, f, n
  <2>2. opcode \in Int /\ f \in Int
    BY <1>1, <1>6
  <2> DEFINE C == B * B
             a == opcode * B
  <2>3. C \in Int /\ a \in Int /\ insn = (a + f) * C /\ opcode * (C * B) = a * C
    BY <1>1, <1>6, <2>2
  <2> HIDE DEF C, a
  <2>4. (a + f) * C = a * C + f * C /\ a * C \in Int /\ f * C \in Int
    BY <2>2, <2>3
  <2>5. QED
    BY <2>1, <2>3, <2>4 DEF C
<1>14. readInstruction32(le, out) = insn + val
  <2>1. n \in {2, 3}
    OBVIOUS
  <2> DEFINE a == opcode * ((B * B) * B)
             b == f * (B * B)
             c == V(1) * B
             d == V(2) * (B * B)
  <2>2. a \in Int /\ b \in Int /\ c \in Int /\ d \in Int /\ V(0) \in Int
        /\ (n = 3 => b = 0)
    <3> HIDE DEF B, f, n
    <3>1. V(0) \in Int /\ V(1) \in Int /\ V(2) \in Int
      BY <1>1, <1>8
    <3>2. 0 * (B * B) = 0
      BY <1>1
    <3>3. QED
      BY <1>1, <1>13, <3>1, <3>2
  <2> HIDE DEF val, insn, out, n, f
  <2>3. insn = a + b
    BY <1>13
  <2>4. n = 2 => val = V(0) + c
    BY <1>8
  <2>5. n = 3 => val = V(0) + c + d
    BY <1>8
  <2>6. readInstruction32(le, out) = V(0) + c + (IF n = 2 THEN b ELSE d) + a
    BY <1>12
  <2> HIDE DEF a, b, c, d
  <2>7. QED
    BY <2>1, <2>2, <2>3, <2>4, <2>5, <2>6
<1>15. insn % range = 0
  <2>1. CASE n = 2
    <3>1. range = B * B /\ opcode * B + f \in Int
      BY <1>1, <1>2, <1>6, <2>1
    <3> DEFINE t == opcode * B + f
    <3>2. insn = t * range + 0 /\ t \in Int
      BY <1>6, <1>13, <3>1
    <3> HIDE DEF t, insn, range
    <3>3. QED
      BY <1>2, <1>13, <3>2, DivisionUnique
  <2>2. CASE n = 3
    <3>1. range = (B * B) * B /\ f = 0 /\ opcode \in Int
      BY <1>2, <1>6, <2>2
    <3>2. 0 * (B * B) = 0
      BY <1>1
    <3>3. insn = opcode * range + 0
      BY <1>13, <3>1, <3>2
    <3> HIDE DEF insn, range
    <3>4. opcode \in Int /\ range \in Nat /\ range > 0 /\ insn \in Int
      BY <1>2, <1>13, <3>1
    <3>5. 0 \in 0 .. range - 1
      BY ONLY <3>4
    <3>6. QED
      BY ONLY <3>3, <3>4, <3>5, DivisionUnique
  <2>3. QED
    BY <2>1, <2>2
<1>16. QED
  BY <1>13, <1>14, <1>15

\* A branch or jump goes to its target exactly if it is in reach, and keeps its bits.
THEOREM Displacements == Spec => []DisplacementExact
<1>1. Init => DisplacementExact
  BY DEF Init, DisplacementExact
<1>2. DisplacementExact /\ [Next]_call => DisplacementExact'
  <2>1. ASSUME Next, call'.fn = "branch" PROVE DisplacementExact'
    <3>1. PICK operand \in {"brtarget16", "brtarget24", "jmptarget"}, le \in BOOLEAN,
               opcode \in Opcodes, field \in RegFields :
            \E v \in -(Reach(operand) + Beyond) .. Reach(operand) + Beyond :
              LET insn == Instruction(operand, opcode, field)
              IN  call' = [fn |-> "branch", operand |-> operand, le |-> le, v |-> v, insn |-> insn,
                           out |-> applyFixup(le, TargetFixup(operand),
                                              EmitInstruction(le, insn), v)]
      BY <2>1 DEF Next, StackAdjusted, Stored, Copied, Expanded, Printed, Fixup, Linked,
         HiLo, Decoded
    <3> DEFINE insn == Instruction(operand, opcode, field)
               range == OperandRange(operand)
               out(v) == applyFixup(le, TargetFixup(operand), EmitInstruction(le, insn), v)
    <3>2. PICK half \in Nat : half > 0 /\ range = 2 * half
      <4>1. PICK h \in Nat : h > 0 /\ Digits(1) = 2 * h
        BY DigitSizes
      <4>2. Digits(3) \in Nat /\ Digits(3) > 0 /\ Digits(5) \in Nat /\ Digits(5) > 0
        BY DigitSizes
      <4>3. h * Digits(3) \in Nat /\ h * Digits(3) > 0 /\ h * Digits(5) \in Nat /\ h * Digits(5) > 0
        BY <4>1, <4>2
      <4>4. range = 2 * (h * Digits(3)) \/ range = 2 * (h * Digits(5))
        BY <4>1, Ranges DEF OperandRange
      <4>5. QED
        BY <4>3, <4>4
    <3>3. Reach(operand) = half
      BY <3>2 DEF Reach
    <3>4. PICK v \in Int :
            call' = [fn |-> "branch", operand |-> operand, le |-> le, v |-> v, insn |-> insn,
                     out |-> out(v)]
      <4>1. -(half + Beyond) \in Int /\ half + Beyond \in Int
        BY <3>2, InputAssumption
      <4>2. QED
        BY <3>1, <3>3, <4>1
    <3> DEFINE val == (v - 4) % range
               fetched == readInstruction32(le, out(v))
    <3>5. fetched = insn + val /\ insn % range = 0 /\ insn \in Int
      BY <3>1, InputAssumption, FixedUp
    <3> HIDE DEF insn, range, out, fetched
    <3>6. range \in Nat /\ range > 0 /\ range \div 2 = half /\ v - 4 \in Int /\ insn \div range \in Int
      BY <3>2, <3>5
    <3>7. val \in 0 .. range - 1 /\ v - 4 = ((v - 4) \div range) * range + val
          /\ (v - 4) \div range \in Int
      BY <3>6, Division
    <3>8. Signed(val, range) = IF val < half THEN val ELSE val - range
      BY <3>2, <3>7, SignedField
    <3>9. fetched % range = val
      <4>1. insn = (insn \div range) * range + 0
        BY <3>5, <3>6, Division
      <4> DEFINE q == insn \div range
      <4>2. q \in Int /\ fetched = q * range + val /\ fetched \in Int /\ val \in Int
        BY <3>5, <3>6, <3>7, <4>1
      <4> HIDE DEF q, val
      <4>3. 0 <= val /\ val < range
        BY <3>6, <3>7
      <4>4. QED
        BY <3>6, <4>2, <4>3, DivisionUnique
    <3>10. 4 + Signed(val, range) = v <=> v - 4 \in -half .. half - 1
      <4> DEFINE x == v - 4
                 s == IF val < half THEN val ELSE val - range
      <4>1. x \in Int /\ s \in Int /\ -half <= s /\ s <= half - 1
            /\ (4 + s = v <=> s = x)
        BY <3>2, <3>6, <3>7
      <4>2. ASSUME -half <= x, x <= half - 1 PROVE x = s
        <5>1. CASE x < 0
          <6>1. x = (-1) * range + (x + range) /\ 0 <= x + range /\ x + range < range
                /\ x + range \in Int /\ ~(x + range < half)
            BY <3>2, <4>1, <4>2, <5>1
          <6> HIDE DEF x
          <6>2. x % range = x + range
            BY <3>6, <4>1, <6>1, DivisionUnique
          <6>3. QED
            BY <3>6, <4>1, <6>1, <6>2 DEF x
        <5>2. CASE x >= 0
          <6>1. x = 0 * range + x /\ 0 <= x /\ x < range /\ x < half
            BY <3>2, <4>1, <4>2, <5>2
          <6> HIDE DEF x
          <6>2. x % range = x
            BY <3>6, <4>1, <6>1, DivisionUnique
          <6>3. QED
            BY <3>6, <4>1, <6>1, <6>2 DEF x
        <5>3. QED
          BY <4>1, <5>1, <5>2
      <4>3. x \in -half .. half - 1 <=> -half <= x /\ x <= half - 1
        BY <3>2, <4>1
      <4> HIDE DEF s
      <4>4. s = x <=> x \in -half .. half - 1
        BY <4>1, <4>2, <4>3
      <4>5. QED
        BY <3>8, <4>1, <4>4 DEF s
    <3>11. fetched - val = insn
      BY <3>5, <3>7
    <3> HIDE DEF val
    <3>12. /\ call'.operand = operand /\ call'.le = le /\ call'.v = v /\ call'.insn = insn
           /\ call'.out = out(v)
      BY <3>4
    <3>13. /\ readInstruction32(call'.le, call'.out) = fetched
           /\ OperandRange(call'.operand) = range
      BY <3>12 DEF fetched, range
    <3>14. QED
      BY <3>6, <3>9, <3>10, <3>11, <3>12, <3>13 DEF DisplacementExact
  <2>2. QED
    BY <2>1 DEF DisplacementExact
<1>3. QED
  BY <1>1, <1>2, PTL DEF Spec

-----------------------------------------------------------------------------
(* Sequences of instructions. *)

\* A sequence with one more element.
LEMMA Appended ==
  ASSUME NEW A, NEW s \in Seq(A), NEW c \in A
  PROVE  /\ Append(s, c) \in Seq(A) /\ Len(Append(s, c)) = Len(s) + 1
         /\ \A i \in 1 .. Len(s) : Append(s, c)[i] = s[i]
         /\ Append(s, c)[Len(s) + 1] = c
<1>1. Append(s, c) \in Seq(A) /\ Len(Append(s, c)) = Len(s) + 1
  BY AppendProperties
<1>2. \A i \in 1 .. Len(s) : Append(s, c)[i] = s[i]
  BY AppendProperties
<1>3. Append(s, c)[Len(s) + 1] = c
  BY AppendProperties
<1>4. QED
  BY <1>1, <1>2, <1>3

\* The same of two elements.
LEMMA AppendedTwo ==
  ASSUME NEW A, NEW a \in A, NEW b \in A, NEW c \in A
  PROVE  Append(<<a, b>>, c) = <<a, b, c>>
<1> DEFINE s == <<a, b>>
           t == Append(s, c)
           u == <<a, b, c>>
<1>1. s \in Seq(A) /\ Len(s) = 2 /\ s[1] = a /\ s[2] = b
  OBVIOUS
<1>2. u \in Seq(A) /\ Len(u) = 3 /\ u[1] = a /\ u[2] = b /\ u[3] = c
  OBVIOUS
<1> HIDE DEF s, u
<1>3. t \in Seq(A) /\ Len(t) = 3 /\ t[1] = a /\ t[2] = b /\ t[3] = c
  <2>1. /\ t \in Seq(A) /\ Len(t) = Len(s) + 1
        /\ \A i \in 1 .. Len(s) : t[i] = s[i]
        /\ t[Len(s) + 1] = c
    BY <1>1, Appended
  <2> HIDE DEF t
  <2>2. QED
    BY <1>1, <2>1
<1> HIDE DEF t
<1>4. QED
  <2>1. \A i \in 1 .. Len(t) : t[i] = u[i]
    BY <1>2, <1>3
  <2>2. t = u
    BY <1>2, <1>3, <2>1, SeqEqual
  <2>3. QED
    BY <2>2 DEF s, t, u

\* The recursive function of steps from base: it exists, and stays in R if they do.
IsChain(h, n, base, step) ==
  h = [k \in 0 .. n |-> IF k = 0 THEN base ELSE step[k][h[k - 1]]]

LEMMA Chain ==
  ASSUME NEW n \in Nat, NEW R, NEW base \in R, NEW step \in [1 .. n -> [R -> R]]
  PROVE  \E h \in [0 .. n -> R] : IsChain(h, n, base, step)
<1> DEFINE Good(h, m) == h[0] = base /\ \A k \in 1 .. m : h[k] = step[k][h[k - 1]]
           T == {m \in Nat : m <= n => \E h \in [0 .. m -> R] : Good(h, m)}
<1>1. 0 \in T
  <2> DEFINE h == [k \in 0 .. 0 |-> base]
  <2>1. h \in [0 .. 0 -> R] /\ Good(h, 0)
    OBVIOUS
  <2>2. QED
    BY <2>1
<1>2. ASSUME NEW m \in Nat, m \in T PROVE m + 1 \in T
  <2>1. ASSUME m + 1 <= n PROVE \E h \in [0 .. m + 1 -> R] : Good(h, m + 1)
    <3>1. PICK g \in [0 .. m -> R] : Good(g, m)
      BY <1>2, <2>1
    <3> DEFINE next == step[m + 1][g[m]]
               h == [k \in 0 .. m + 1 |-> IF k = m + 1 THEN next ELSE g[k]]
    <3>2. next \in R
      <4>1. m + 1 \in 1 .. n /\ m \in 0 .. m
        BY <2>1
      <4>2. step[m + 1] \in [R -> R] /\ g[m] \in R
        BY <4>1
      <4>3. QED
        BY <4>2
    <3> HIDE DEF next
    <3>3. h \in [0 .. m + 1 -> R]
      BY <3>2
    <3>4. h[0] = base
      BY <3>1
    <3>5. ASSUME NEW k \in 1 .. m + 1 PROVE h[k] = step[k][h[k - 1]]
      <4>1. k - 1 \in 0 .. m /\ k - 1 # m + 1 /\ k - 1 \in 0 .. m + 1
        OBVIOUS
      <4>2. h[k - 1] = g[k - 1]
        BY <4>1
      <4>3. CASE k = m + 1
        <5>1. k - 1 = m /\ h[k] = next
          BY <4>3
        <5>2. QED
          BY <4>2, <4>3, <5>1 DEF next
      <4>4. CASE k # m + 1
        <5>1. k \in 1 .. m /\ h[k] = g[k]
          BY <4>4
        <5>2. QED
          BY <3>1, <4>2, <5>1
      <4>5. QED
        BY <4>3, <4>4
    <3> HIDE DEF h
    <3>6. QED
      BY <3>3, <3>4, <3>5
  <2>2. QED
    BY <2>1
<1>3. n \in T
  <2> HIDE DEF T
  <2>1. \A m \in Nat : m \in T
    BY <1>1, <1>2, SetInduction
  <2>2. QED
    BY <2>1
<1>4. PICK h \in [0 .. n -> R] : Good(h, n)
  BY <1>3
<1> DEFINE f == [k \in 0 .. n |-> IF k = 0 THEN base ELSE step[k][h[k - 1]]]
<1>5. ASSUME NEW k \in 0 .. n PROVE h[k] = f[k]
  <2>1. CASE k = 0
    BY <1>4, <2>1
  <2>2. CASE k # 0
    <3>1. k \in 1 .. n
      BY <2>2
    <3>2. QED
      BY <1>4, <2>2, <3>1
  <2>3. QED
    BY <2>1, <2>2
<1>6. h = [k \in 0 .. n |-> h[k]] /\ f = [k \in 0 .. n |-> f[k]]
  OBVIOUS
<1>7. h = f
  <2> HIDE DEF f
  <2>1. QED
    BY <1>5, <1>6
<1>8. QED
  BY <1>7 DEF IsChain

\* What a data instruction of a sequence computes is a word.
LEMMA WordResult ==
  ASSUME NEW op \in {"LUi", "ORi", "ADDiu", "ADDu", "ADD", "SHL"}, NEW x \in SignedWord, NEW y \in Int
  PROVE  Result(op, x, y) \in SignedWord
<1>1. x \in Int
  BY WordUnsigned
<1>2. CASE op \in {"ADDiu", "ADDu", "ADD"}
  <2>1. Result(op, x, y) = S(x + y) /\ x + y \in Int
    BY <1>1, <1>2 DEF Result
  <2>2. QED
    BY <2>1, SignedRange
<1>3. CASE op = "LUi"
  <2>1. Result(op, x, y) = S(uc16(y) * Power[ImmBits])
    BY <1>3 DEF Result
  <2>2. uc16(y) \in Int /\ Power[ImmBits] \in Int
    BY Widths, Division DEF uc16
  <2> HIDE DEF uc16
  <2>3. uc16(y) * Power[ImmBits] \in Int
    BY <2>2
  <2>4. QED
    BY <2>1, <2>3, SignedRange
<1>4. CASE op = "ORi"
  <2>1. Result(op, x, y) = S(ByBits(Either, Bits, U(x), uc16(y)))
    BY <1>4 DEF Result, BitOr
  <2>2. uc16(y) \in Int /\ U(x) \in Int /\ Bits \in Nat /\ Power[Bits] \in Nat
    BY Widths, Division, WordUnsigned DEF uc16, Modulus
  <2>3. ByBits(Either, Bits, U(x), uc16(y)) \in 0 .. Power[Bits] - 1
    BY <2>2, EitherBits
  <2>4. ByBits(Either, Bits, U(x), uc16(y)) \in Int
    BY <2>2, <2>3
  <2>5. QED
    BY <2>1, <2>4, SignedRange
<1>5. CASE op = "SHL"
  <2>1. Result(op, x, y) = S(ShiftLeft(x, c5(y)))
    BY <1>5 DEF Result
  <2>2. c5(y) \in 0 .. Bits
    <3>1. Bits \in Nat /\ Bits > 0
      BY Widths
    <3>2. QED
      BY <3>1, Division DEF c5
  <2>3. ShiftLeft(x, c5(y)) \in 0 .. Modulus - 1
    BY <2>2, LeftBits
  <2>4. ShiftLeft(x, c5(y)) \in Int
    BY <2>3, Widths
  <2>5. QED
    BY <2>1, <2>4, SignedRange
<1>6. QED
  BY <1>2, <1>3, <1>4, <1>5

-----------------------------------------------------------------------------
(* The assembler's pseudo instructions. *)

RegFile == {rf \in [Regs -> SignedWord] : rf[Zero0] = 0}
Instructions == {i \in [op : {"LUi", "ORi", "ADDiu", "ADD"}, d : Regs, s : Regs, y : Int] :
                   i.op = "ADD" => i.y \in Regs}

\* What one instruction makes of the registers.
Performed(i, r) ==
  IF i.d = Zero0 THEN r
  ELSE [r EXCEPT ![i.d] = Result(i.op, r[i.s], IF i.op = "ADD" THEN r[i.y] ELSE Field(i.y))]

\* The low half of a number, sign-extended.
LEMMA FieldOf ==
  ASSUME NEW y \in Int
  PROVE  /\ Field(y) \in Int /\ uc16(Field(y)) = uc16(y)
         /\ y \in simm16 => Field(y) = y
<1> DEFINE h == Power[ImmBits - 1]
           p == Power[ImmBits]
           r == (y + h) % p
           q == (y + h) \div p
<1>1. h \in Nat /\ p \in Nat /\ p > 0 /\ p = 2 * h
  BY Widths
<1>2. y + h \in Int
  BY <1>1
<1>3. r \in Int /\ q \in Int /\ 0 <= r /\ r < p /\ y + h = q * p + r
  <2> HIDE DEF h, p
  <2>1. QED
    BY <1>1, <1>2, Division
<1>4. Field(y) = r - h
  BY DEF Field
<1> HIDE DEF r, q
<1>5. Field(y) \in Int
  BY <1>1, <1>3, <1>4
<1>6. uc16(Field(y)) = uc16(y)
  <2> HIDE DEF p, h
  <2>1. y = Field(y) + q * p
    <3> DEFINE t == q * p
    <3>1. t \in Int /\ y + h = t + r
      BY <1>1, <1>3
    <3> HIDE DEF t
    <3>2. y = (r - h) + t
      BY <1>1, <1>3, <3>1
    <3>3. QED
      BY <1>4, <3>2 DEF t
  <2>2. (Field(y) + q * p) % p = Field(y) % p
    BY <1>1, <1>3, <1>5, DivisionShift
  <2>3. QED
    BY <2>1, <2>2 DEF uc16, p
<1>7. ASSUME y \in simm16 PROVE Field(y) = y
  <2>1. -h <= y /\ y < h
    BY <1>1, <1>7 DEF simm16
  <2> DEFINE v == y + h
  <2>2. v \in Int /\ 0 <= v /\ v < p /\ v = 0 * p + v
    BY <1>1, <2>1
  <2> HIDE DEF v, p, h
  <2>3. v % p = v
    BY <1>1, <2>2, DivisionUnique
  <2>4. r = v
    BY <2>3 DEF r, v
  <2>5. QED
    BY <1>1, <1>4, <2>4 DEF v
<1>8. QED
  BY <1>5, <1>6, <1>7

LEMMA PerformedFile ==
  ASSUME NEW i \in Instructions, NEW r \in RegFile
  PROVE  Performed(i, r) \in RegFile
<1>1. i.op \in {"LUi", "ORi", "ADDiu", "ADD"} /\ i.d \in Regs /\ i.s \in Regs /\ i.y \in Int
      /\ (i.op = "ADD" => i.y \in Regs)
  BY DEF Instructions
<1>2. r \in [Regs -> SignedWord] /\ r[Zero0] = 0
  BY DEF RegFile
<1> DEFINE y == IF i.op = "ADD" THEN r[i.y] ELSE Field(i.y)
           w == Result(i.op, r[i.s], y)
<1>3. w \in SignedWord
  <2>1. y \in Int
    <3>1. CASE i.op = "ADD"
      <4>1. r[i.y] \in SignedWord
        BY <1>1, <1>2, <3>1
      <4>2. QED
        BY <3>1, <4>1, WordUnsigned
    <3>2. CASE i.op # "ADD"
      BY <1>1, <3>2, FieldOf
    <3>3. QED
      BY <3>1, <3>2
  <2> HIDE DEF y
  <2>2. r[i.s] \in SignedWord
    BY <1>1, <1>2
  <2>3. QED
    BY <1>1, <2>1, <2>2, WordResult
<1> HIDE DEF w
<1>4. Performed(i, r) = IF i.d = Zero0 THEN r ELSE [r EXCEPT ![i.d] = w]
  BY DEF Performed, w
<1>5. CASE i.d # Zero0
  <2> DEFINE d == i.d
             new == [r EXCEPT ![d] = w]
  <2>1. d \in Regs /\ d # Zero0
    BY <1>1, <1>5
  <2> HIDE DEF d
  <2>2. new \in [Regs -> SignedWord] /\ new[Zero0] = r[Zero0]
    BY <1>2, <1>3, <2>1 DEF Regs, Zero0
  <2>3. Performed(i, r) = new
    BY <1>4, <1>5 DEF d
  <2> HIDE DEF new
  <2>4. QED
    BY <1>2, <2>2, <2>3 DEF RegFile
<1>6. QED
  BY <1>4, <1>5

\* Executed is one instruction after the other.
LEMMA ExecutedSteps ==
  ASSUME NEW rf \in RegFile, NEW seq, Len(seq) \in Nat,
         \A k \in 1 .. Len(seq) : seq[k] \in Instructions
  PROVE  \E h \in [0 .. Len(seq) -> RegFile] :
           /\ h[0] = rf /\ Executed(rf, seq) = h[Len(seq)]
           /\ \A k \in 1 .. Len(seq) : h[k] = Performed(seq[k], h[k - 1])
<1> DEFINE n == Len(seq)
           step == [k \in 1 .. n |-> [r \in RegFile |-> Performed(seq[k], r)]]
           IsRun(h) == h = [k \in 0 .. n |-> IF k = 0 THEN rf ELSE Performed(seq[k], h[k - 1])]
           g == CHOOSE h : IsRun(h)
<1>1. step \in [1 .. n -> [RegFile -> RegFile]]
  BY PerformedFile
<1>2. PICK h \in [0 .. n -> RegFile] : IsChain(h, n, rf, step)
  <2> HIDE DEF step
  <2>1. QED
    BY <1>1, Chain
<1>3. IsRun(h)
  <2>1. ASSUME NEW k \in 0 .. n, k # 0 PROVE step[k][h[k - 1]] = Performed(seq[k], h[k - 1])
    <3>1. k \in 1 .. n /\ h[k - 1] \in RegFile
      BY <2>1
    <3>2. QED
      BY <3>1
  <2> HIDE DEF step
  <2>2. [k \in 0 .. n |-> IF k = 0 THEN rf ELSE step[k][h[k - 1]]]
          = [k \in 0 .. n |-> IF k = 0 THEN rf ELSE Performed(seq[k], h[k - 1])]
    BY <2>1
  <2>3. QED
    BY <1>2, <2>2 DEF IsChain
<1>4. IsRun(g)
  BY <1>3
<1>5. Executed(rf, seq) = g[n]
  BY DEF Executed, Performed
<1> HIDE DEF g
<1>6. g[0] = rf /\ \A k \in 1 .. n : g[k] = Performed(seq[k], g[k - 1])
  BY <1>4
<1>7. \A k \in 0 .. n : g[k] \in RegFile
  <2> DEFINE T == {m \in Nat : m <= n => g[m] \in RegFile}
  <2>1. 0 \in T
    BY <1>6
  <2>2. ASSUME NEW m \in Nat, m \in T PROVE m + 1 \in T
    <3>1. ASSUME m + 1 <= n PROVE g[m + 1] \in RegFile
      <4>1. m + 1 \in 1 .. n /\ (m + 1) - 1 = m /\ g[m] \in RegFile
        BY <2>2, <3>1
      <4>2. g[m + 1] = Performed(seq[m + 1], g[m]) /\ seq[m + 1] \in Instructions
        BY <1>6, <4>1
      <4>3. QED
        BY <4>1, <4>2, PerformedFile
    <3>2. QED
      BY <3>1
  <2> HIDE DEF T
  <2>3. \A m \in Nat : m \in T
    BY <2>1, <2>2, SetInduction
  <2>4. QED
    BY <2>3 DEF T
<1>8. g \in [0 .. n -> RegFile]
  <2>1. g = [k \in 0 .. n |-> g[k]]
    BY <1>4
  <2>2. QED
    BY <1>7, <2>1
<1>9. QED
  BY <1>5, <1>6, <1>8

\* A number is added as the word it is.
LEMMA SignedSum ==
  ASSUME NEW x \in Int, NEW y \in Int
  PROVE  S(x + S(y)) = S(x + y)
<1> DEFINE v == y + SignBit
           q == v \div Modulus
           r == v % Modulus
<1>1. /\ Modulus \in Nat /\ Modulus > 0 /\ SignBit \in Int /\ v \in Int
  BY Widths
<1>2. q \in Int /\ r \in Int /\ v = q * Modulus + r
  <2> HIDE DEF v
  <2>1. QED
    BY <1>1, Division
<1>3. S(y) = r - SignBit
  BY DEF S
<1> DEFINE t == q * Modulus
           z == x + r
<1>4. t \in Int /\ z \in Int
  BY <1>1, <1>2
<1> HIDE DEF q, r
<1>5. (x + y) + SignBit = z + t /\ (x + S(y)) + SignBit = z
  <2> HIDE DEF t
  <2>1. y + SignBit = t + r
    BY <1>2 DEF t
  <2>2. QED
    BY <1>1, <1>2, <1>3, <1>4, <2>1
<1> HIDE DEF z
<1>6. (z + q * Modulus) % Modulus = z % Modulus
  BY <1>1, <1>2, <1>4, DivisionShift
<1>7. QED
  BY <1>5, <1>6 DEF S, t

\* The registers with x in d, unless d is $zero.
With(rf, d, x) == IF d = Zero0 THEN rf ELSE [rf EXCEPT ![d] = x]

\* Constants of an unsigned and of a signed half word, the latter with a base.
LEMMA LoadedLow ==
  ASSUME NEW rf \in RegFile, NEW d \in Regs, NEW s \in Regs, NEW j \in Int
  PROVE  /\ j \in 0 .. Power[ImmBits] - 1 =>
              Performed(Inst("ORi", d, Zero0, j), rf) = With(rf, d, j)
         /\ j \in simm16 => Performed(Inst("ADDiu", d, s, j), rf) = With(rf, d, S(j + rf[s]))
<1>1. rf[Zero0] = 0 /\ rf[s] \in SignedWord /\ rf[s] \in Int
  <2>1. rf[Zero0] = 0 /\ rf[s] \in SignedWord
    BY DEF RegFile
  <2>2. QED
    BY <2>1, WordUnsigned
<1>2. ASSUME j \in 0 .. Power[ImmBits] - 1 PROVE Result("ORi", 0, Field(j)) = j
  <2>1. uc16(Field(j)) = j
    BY <1>2, FieldOf, SmallRemainder DEF uc16
  <2>2. j \in 0 .. Power[Bits] - 1 /\ j \in SignedWord /\ 0 \in SignedWord /\ Bits \in Nat
        /\ U(0) = 0
    <3> DEFINE p == Power[ImmBits]
               h == Power[ImmBits - 1]
    <3>1. p \in Nat /\ h \in Nat /\ h >= 2 /\ p = 2 * h /\ Modulus = p * p /\ SignBit = p * h
          /\ Bits \in Nat /\ 0 <= j /\ j < p /\ Modulus = Power[Bits]
      BY <1>2, Widths DEF Modulus
    <3> HIDE DEF p, h
    <3>2. p * h >= p * 2 /\ p * p = 2 * (p * h) /\ p * h \in Int
      BY <3>1
    <3>3. j < SignBit /\ j < Modulus /\ SignBit > 0
      BY <3>1, <3>2
    <3>4. j \in 0 .. Power[Bits] - 1 /\ j \in SignedWord /\ 0 \in SignedWord
      BY <3>1, <3>3, Widths DEF SignedWord
    <3>5. U(0) = 0
      BY <3>4, WordUnsigned
    <3>6. QED
      BY <3>1, <3>4, <3>5
  <2>3. ByBits(Either, Bits, 0, j) = j
    BY <2>2, EitherZero
  <2>4. Result("ORi", 0, Field(j)) = S(ByBits(Either, Bits, U(0), uc16(Field(j))))
    BY DEF Result, BitOr
  <2>5. QED
    BY <2>1, <2>2, <2>3, <2>4, SignedSame
<1>3. ASSUME j \in simm16 PROVE Result("ADDiu", rf[s], Field(j)) = S(j + rf[s])
  <2>1. Field(j) = j /\ rf[s] + j = j + rf[s]
    BY <1>1, <1>3, FieldOf
  <2>2. QED
    BY <2>1 DEF Result
<1>4. QED
  BY <1>1, <1>2, <1>3 DEF Performed, With, Inst

\* LUi and ORi build any word.
LEMMA LoadedWide ==
  ASSUME NEW rf \in RegFile, NEW d \in Regs, NEW j \in SignedWord
  PROVE  Performed(Wide(d, j)[2], Performed(Wide(d, j)[1], rf)) = With(rf, d, j)
<1> DEFINE P == Power[ImmBits]
           r == Performed(Wide(d, j)[1], rf)
<1>1. U(j) \in 0 .. Modulus - 1 /\ j \in Int
  BY WordUnsigned
<1>2. hi16(j) \in 0 .. P - 1 /\ lo16(j) \in 0 .. P - 1 /\ U(j) = hi16(j) * P + lo16(j)
  BY <1>1, Halves DEF hi16, lo16
<1>3. hi16(j) \in Int /\ lo16(j) \in Int
  BY <1>2, Widths
<1>4. uc16(Field(hi16(j))) = hi16(j) /\ uc16(Field(lo16(j))) = lo16(j) /\ uc16(lo16(j)) = lo16(j)
  BY <1>2, <1>3, FieldOf, SmallRemainder DEF uc16
<1>5. Result("LUi", rf[Zero0], Field(hi16(j))) = S(hi16(j) * P)
  BY <1>4 DEF Result
<1>6. Result("ORi", S(hi16(j) * P), Field(lo16(j))) = j
  <2>1. Result("ORi", S(hi16(j) * P), Field(lo16(j))) = Result("ORi", S(hi16(j) * P), lo16(j))
    BY <1>4 DEF Result
  <2>2. Result("ORi", S(hi16(j) * P), lo16(j)) = S(U(j))
    BY <1>2, OrLow
  <2>3. S(U(j)) = j
    <3> DEFINE u == U(j)
    <3>1. u \in 0 .. Modulus - 1 /\ u = (IF j < 0 THEN j + Modulus ELSE j)
          /\ -SignBit <= j /\ j < SignBit
      BY WordUnsigned
    <3>2. S(u) = IF u < SignBit THEN u ELSE u - Modulus
      BY <3>1, SignedBack
    <3> HIDE DEF u
    <3>3. S(u) = j
      BY <1>1, <3>1, <3>2, Widths
    <3>4. QED
      BY <3>3 DEF u
  <2>4. QED
    BY <2>1, <2>2, <2>3
<1>7. CASE d = Zero0
  BY <1>7 DEF Performed, With, Inst, Wide
<1>8. CASE d # Zero0
  <2> DEFINE x == S(hi16(j) * P)
  <2>1. Wide(d, j)[1] = Inst("LUi", d, Zero0, hi16(j)) /\ Wide(d, j)[2] = Inst("ORi", d, d, lo16(j))
    BY DEF Wide
  <2>2. r = [rf EXCEPT ![d] = x]
    <3>1. Performed(Inst("LUi", d, Zero0, hi16(j)), rf)
            = [rf EXCEPT ![d] = Result("LUi", rf[Zero0], Field(hi16(j)))]
      BY <1>8 DEF Performed, Inst
    <3>2. QED
      BY <1>5, <2>1, <3>1
  <2>3. r[d] = x /\ DOMAIN rf = Regs
    BY <2>2 DEF RegFile
  <2> HIDE DEF x, r
  <2>4. Performed(Wide(d, j)[2], r) = [r EXCEPT ![d] = Result("ORi", r[d], Field(lo16(j)))]
    BY <1>8, <2>1 DEF Performed, Inst
  <2>5. Performed(Wide(d, j)[2], r) = [r EXCEPT ![d] = j]
    BY <1>6, <2>3, <2>4 DEF x
  <2>6. [r EXCEPT ![d] = j] = [rf EXCEPT ![d] = j]
    BY <2>2, <2>3
  <2>7. QED
    BY <1>8, <2>5, <2>6 DEF With, r
<1>9. QED
  BY <1>7, <1>8

\* Sequences of one, two and three instructions.
LEMMA ExecutedOne ==
  ASSUME NEW rf \in RegFile, NEW i \in Instructions
  PROVE  Executed(rf, <<i>>) = Performed(i, rf)
<1> DEFINE seq == <<i>>
<1>1. Len(seq) = 1 /\ seq[1] = i
  OBVIOUS
<1> HIDE DEF seq
<1>2. Len(seq) \in Nat /\ \A k \in 1 .. Len(seq) : seq[k] \in Instructions
  BY <1>1
<1>3. PICK h \in [0 .. Len(seq) -> RegFile] :
           /\ h[0] = rf /\ Executed(rf, seq) = h[Len(seq)]
           /\ \A k \in 1 .. Len(seq) : h[k] = Performed(seq[k], h[k - 1])
  BY <1>2, ExecutedSteps
<1>4. h[1] = Performed(i, h[0])
  BY <1>1, <1>3
<1>5. QED
  BY <1>1, <1>3, <1>4 DEF seq

LEMMA ExecutedTwo ==
  ASSUME NEW rf \in RegFile, NEW i \in Instructions, NEW j \in Instructions
  PROVE  Executed(rf, <<i, j>>) = Performed(j, Performed(i, rf))
<1> DEFINE seq == <<i, j>>
<1>1. Len(seq) = 2 /\ seq[1] = i /\ seq[2] = j
  OBVIOUS
<1> HIDE DEF seq
<1>2. Len(seq) \in Nat /\ \A k \in 1 .. Len(seq) : seq[k] \in Instructions
  BY <1>1
<1>3. PICK h \in [0 .. Len(seq) -> RegFile] :
           /\ h[0] = rf /\ Executed(rf, seq) = h[Len(seq)]
           /\ \A k \in 1 .. Len(seq) : h[k] = Performed(seq[k], h[k - 1])
  BY <1>2, ExecutedSteps
<1>4. h[1] = Performed(i, h[0]) /\ h[2] = Performed(j, h[1])
  BY <1>1, <1>3
<1>5. QED
  BY <1>1, <1>3, <1>4 DEF seq

LEMMA ExecutedThree ==
  ASSUME NEW rf \in RegFile, NEW i \in Instructions, NEW j \in Instructions, NEW k \in Instructions
  PROVE  Executed(rf, <<i, j, k>>) = Performed(k, Performed(j, Performed(i, rf)))
<1> DEFINE seq == <<i, j, k>>
<1>1. Len(seq) = 3 /\ seq[1] = i /\ seq[2] = j /\ seq[3] = k
  OBVIOUS
<1> HIDE DEF seq
<1>2. Len(seq) \in Nat /\ \A m \in 1 .. Len(seq) : seq[m] \in Instructions
  BY <1>1
<1>3. PICK h \in [0 .. Len(seq) -> RegFile] :
           /\ h[0] = rf /\ Executed(rf, seq) = h[Len(seq)]
           /\ \A m \in 1 .. Len(seq) : h[m] = Performed(seq[m], h[m - 1])
  BY <1>2, ExecutedSteps
<1>4. h[1] = Performed(i, h[0]) /\ h[2] = Performed(j, h[1]) /\ h[3] = Performed(k, h[2])
  BY <1>1, <1>3
<1>5. QED
  BY <1>1, <1>3, <1>4 DEF seq

\* What each pseudo instruction makes of the registers.
LEMMA Pseudos ==
  ASSUME NEW rf \in RegFile, NEW d \in Regs, NEW s \in Regs, NEW j \in SignedWord
  PROVE  /\ Executed(rf, expandLoadImm(d, j)) = With(rf, d, j)
         /\ Executed(rf, expandLoadAddressImm(d, j)) = With(rf, d, j)
         /\ Executed(rf, expandLoadAddressReg(d, s, j)) =
              With(rf, d, IF d = s /\ j \notin simm16 THEN S(2 * j) ELSE S(j + rf[s]))
<1> DEFINE w1 == Wide(d, j)[1]
           w2 == Wide(d, j)[2]
           add == Inst("ADD", d, d, s)
<1>1. j \in Int /\ S(j) = j /\ rf[Zero0] = 0 /\ Zero0 \in Regs
  BY WordUnsigned, SignedSame DEF RegFile, Regs, Zero0
<1>2. /\ Inst("ORi", d, Zero0, j) \in Instructions
      /\ Inst("ADDiu", d, Zero0, j) \in Instructions /\ Inst("ADDiu", d, s, j) \in Instructions
  BY <1>1 DEF Inst, Instructions
<1>3. add \in Instructions /\ w1 \in Instructions /\ w2 \in Instructions
  <2>1. add \in Instructions
    <3>1. s \in Int
      BY DEF Regs
    <3>2. QED
      BY <3>1 DEF Inst, Instructions
  <2>2. hi16(j) \in Int /\ lo16(j) \in Int
    <3>1. U(j) \in Int
      BY WordUnsigned
    <3>2. QED
      BY <3>1, Widths, Division DEF hi16, lo16
  <2>3. w1 = Inst("LUi", d, Zero0, hi16(j)) /\ w2 = Inst("ORi", d, d, lo16(j))
    BY DEF Wide
  <2> HIDE DEF add, w1, w2
  <2>4. w1 \in Instructions /\ w2 \in Instructions
    BY <1>1, <2>2, <2>3 DEF Inst, Instructions
  <2>5. QED
    BY <2>1, <2>4
<1>4. Wide(d, j) = <<w1, w2>> /\ Append(Wide(d, j), add) = <<w1, w2, add>>
  <2>1. Wide(d, j) = <<w1, w2>>
    BY DEF Wide
  <2> HIDE DEF w1, w2, add
  <2>2. Append(<<w1, w2>>, add) = <<w1, w2, add>>
    BY <1>3, AppendedTwo
  <2>3. QED
    BY <2>1, <2>2
<1>5. Performed(w2, Performed(w1, rf)) = With(rf, d, j)
  BY LoadedWide
<1> HIDE DEF add, w1, w2
<1>6. Executed(rf, Wide(d, j)) = With(rf, d, j)
  BY <1>3, <1>4, <1>5, ExecutedTwo
<1>7. j \in simm16 => Executed(rf, <<Inst("ADDiu", d, Zero0, j)>>) = With(rf, d, j)
  <2>1. Performed(Inst("ADDiu", d, Zero0, j), rf) = With(rf, d, S(j + rf[Zero0])) \/ j \notin simm16
    BY <1>1, LoadedLow
  <2>2. j + rf[Zero0] = j
    BY <1>1
  <2>3. QED
    BY <1>1, <1>2, <2>1, <2>2, ExecutedOne
<1>8. Executed(rf, expandLoadAddressImm(d, j)) = With(rf, d, j)
  BY <1>6, <1>7 DEF expandLoadAddressImm
<1>9. Executed(rf, expandLoadImm(d, j)) = With(rf, d, j)
  <2>1. CASE j \in 0 .. Power[ImmBits] - 1
    <3>1. Performed(Inst("ORi", d, Zero0, j), rf) = With(rf, d, j)
      BY <1>1, <2>1, LoadedLow
    <3>2. Executed(rf, <<Inst("ORi", d, Zero0, j)>>) = With(rf, d, j)
      BY <1>2, <3>1, ExecutedOne
    <3>3. QED
      BY <2>1, <3>2 DEF expandLoadImm
  <2>2. CASE j \notin 0 .. Power[ImmBits] - 1
    BY <1>6, <1>7, <2>2 DEF expandLoadImm
  <2>3. QED
    BY <2>1, <2>2
<1>10. CASE j \in simm16
  <2>1. Performed(Inst("ADDiu", d, s, j), rf) = With(rf, d, S(j + rf[s]))
    BY <1>1, <1>10, LoadedLow
  <2>2. Executed(rf, <<Inst("ADDiu", d, s, j)>>) = With(rf, d, S(j + rf[s]))
    BY <1>2, <2>1, ExecutedOne
  <2>3. QED
    BY <1>8, <1>9, <1>10, <2>2 DEF expandLoadAddressReg
<1>11. CASE j \notin simm16
  <2> DEFINE r == With(rf, d, j)
  <2>1. Executed(rf, expandLoadAddressReg(d, s, j)) = Performed(add, r)
    <3>1. Executed(rf, <<w1, w2, add>>) = Performed(add, r)
      BY <1>3, <1>5, ExecutedThree
    <3>2. QED
      BY <1>4, <1>11, <3>1 DEF expandLoadAddressReg, add
  <2>2. CASE d = Zero0
    BY <1>8, <1>9, <2>1, <2>2 DEF Performed, With, add, Inst
  <2>3. CASE d # Zero0
    <3>1. r = [rf EXCEPT ![d] = j] /\ DOMAIN rf = Regs
      BY <2>3 DEF With, RegFile
    <3>2. r[d] = j /\ r[s] = (IF d = s THEN j ELSE rf[s])
      BY <3>1
    <3> DEFINE x == Result("ADD", r[d], r[s])
    <3> HIDE DEF r
    <3>3. Performed(add, r) = [r EXCEPT ![d] = x]
      BY <2>3 DEF Performed, add, Inst
    <3>4. x = IF d = s THEN S(2 * j) ELSE S(j + rf[s])
      <4>1. x = S(r[d] + r[s])
        BY DEF Result
      <4>2. j + j = 2 * j
        BY <1>1
      <4>3. QED
        BY <3>2, <4>1, <4>2
    <3> HIDE DEF x
    <3>5. [r EXCEPT ![d] = x] = [rf EXCEPT ![d] = x]
      BY <3>1
    <3>6. Performed(add, r) = With(rf, d, x)
      BY <2>3, <3>3, <3>5 DEF With
    <3>7. QED
      BY <1>8, <1>9, <1>11, <2>1, <3>4, <3>6 DEF r
  <2>4. QED
    BY <2>2, <2>3
<1>12. QED
  BY <1>10, <1>11

\* li and la load what they should, but for a base that is its own destination.
THEOREM Expansions == Spec => []ExpansionExact
<1>1. Init => ExpansionExact
  BY DEF Init, ExpansionExact
<1>2. ExpansionExact /\ [Next]_call => ExpansionExact'
  <2>1. ASSUME Next, call'.fn = "expand" PROVE ExpansionExact'
    <3>1. PICK op \in Pseudo, rf \in RegFiles, d \in Regs, s \in Regs, j \in Immediates :
            call' = [fn |-> "expand", op |-> op, rf |-> rf, d |-> d, s |-> s, j |-> j,
                     out |-> Executed(rf, expandInstruction(op, d, s, j))]
      BY <2>1 DEF Next, StackAdjusted, Stored, Copied, Expanded, Printed, Fixup, Linked,
         HiLo, Decoded
    <3>2. rf \in RegFile /\ j \in Int
      BY InputAssumption, Widths DEF RegFile, Immediates
    <3> DEFINE w == S(j)
               base == IF op = "LoadAddr32Reg" THEN rf[s] ELSE 0
               lost == op = "LoadAddr32Reg" /\ d = s /\ w \notin simm16
               x == IF lost THEN S(2 * j) ELSE S(j + base)
               out == Executed(rf, expandInstruction(op, d, s, j))
    <3>3. w \in SignedWord /\ w \in Int /\ S(w) = w
      BY <3>2, SignedRange, SignedSame
    <3>4. out = With(rf, d, x)
      <4>1. rf[s] \in Int
        <5>1. rf[s] \in SignedWord
          BY <3>2 DEF RegFile
        <5>2. QED
          BY <5>1, WordUnsigned
      <4>2. S(2 * w) = S(2 * j) /\ S(w + rf[s]) = S(j + rf[s]) /\ S(j + 0) = w
        <5>1. S(rf[s] + S(j)) = S(rf[s] + j)
          BY <3>2, <4>1, SignedSum
        <5>2. S(S(j) + S(j)) = S(S(j) + j) /\ S(j + S(j)) = S(j + j)
          BY <3>2, <3>3, SignedSum
        <5>3. S(j) + j = j + S(j) /\ S(j) + S(j) = 2 * S(j) /\ j + j = 2 * j /\ j + 0 = j
              /\ rf[s] + S(j) = S(j) + rf[s] /\ rf[s] + j = j + rf[s]
          BY <3>2, <3>3, <4>1
        <5>4. QED
          BY <5>1, <5>2, <5>3
      <4> HIDE DEF w
      <4>3. /\ Executed(rf, expandLoadImm(d, w)) = With(rf, d, w)
            /\ Executed(rf, expandLoadAddressImm(d, w)) = With(rf, d, w)
            /\ Executed(rf, expandLoadAddressReg(d, s, w)) =
                 With(rf, d, IF d = s /\ w \notin simm16 THEN S(2 * w) ELSE S(w + rf[s]))
        BY <3>2, <3>3, Pseudos
      <4>4. CASE op = "LoadAddr32Reg"
        <5>1. out = Executed(rf, expandLoadAddressReg(d, s, w))
          BY <4>4 DEF expandInstruction, w
        <5>2. x = IF d = s /\ w \notin simm16 THEN S(2 * w) ELSE S(w + rf[s])
          BY <4>2, <4>4
        <5>3. QED
          BY <4>3, <5>1, <5>2
      <4>5. CASE op # "LoadAddr32Reg"
        <5>1. out = Executed(rf, expandLoadImm(d, w)) \/ out = Executed(rf, expandLoadAddressImm(d, w))
          BY <4>5 DEF expandInstruction, w, Pseudo
        <5>2. x = w
          BY <4>2, <4>5
        <5>3. QED
          BY <4>3, <5>1, <5>2
      <4>6. QED
        BY <4>4, <4>5
    <3> HIDE DEF x, out
    <3>5. out = [rf EXCEPT ![d] = IF d = 0 THEN 0 ELSE x]
      <4>1. CASE d = 0
        <5>1. rf \in [Regs -> SignedWord] /\ rf[0] = 0
          BY <3>2 DEF RegFile, Zero0
        <5>2. [rf EXCEPT ![0] = 0] = rf
          BY <5>1 DEF Regs
        <5>3. QED
          BY <3>4, <4>1, <5>2 DEF With, Zero0
      <4>2. CASE d # 0
        BY <3>4, <4>2 DEF With, Zero0
      <4>3. QED
        BY <4>1, <4>2
    <3>6. /\ call'.op = op /\ call'.rf = rf /\ call'.d = d /\ call'.s = s /\ call'.j = j
          /\ call'.out = out
      BY <3>1 DEF out
    <3>7. call'.out = [rf EXCEPT ![d] = IF d = 0 THEN 0 ELSE
                                         IF lost THEN S(2 * j) ELSE S(j + base)]
      BY <3>5, <3>6 DEF x
    <3>8. QED
      BY <3>6, <3>7 DEF ExpansionExact
  <2>2. QED
    BY <2>1 DEF ExpansionExact
<1>3. QED
  BY <1>1, <1>2, PTL DEF Spec

-----------------------------------------------------------------------------
(* Printed integers. *)

\* What digits spell, digit by digit.
LEMMA SpelledSteps ==
  ASSUME NEW digits \in Seq(0 .. 9)
  PROVE  \E h \in [0 .. Len(digits) -> Int] :
           /\ h[0] = 0 /\ Spelled(digits) = h[Len(digits)]
           /\ \A k \in 1 .. Len(digits) : h[k] = 10 * h[k - 1] + digits[k]
<1> DEFINE n == Len(digits)
           step == [k \in 1 .. n |-> [r \in Int |-> 10 * r + digits[k]]]
           IsSum(h) == h = [k \in 0 .. n |-> IF k = 0 THEN 0 ELSE 10 * h[k - 1] + digits[k]]
           g == CHOOSE h : IsSum(h)
<1>1. n \in Nat /\ \A k \in 1 .. n : digits[k] \in Int
  OBVIOUS
<1> HIDE DEF n
<1>2. step \in [1 .. n -> [Int -> Int]]
  BY <1>1
<1>3. PICK h \in [0 .. n -> Int] : IsChain(h, n, 0, step)
  <2> HIDE DEF step
  <2>1. n \in Nat /\ 0 \in Int
    BY <1>1
  <2>2. QED
    BY ONLY <1>2, <2>1, Chain
<1>4. IsSum(h)
  <2>1. ASSUME NEW k \in 0 .. n, k # 0 PROVE step[k][h[k - 1]] = 10 * h[k - 1] + digits[k]
    <3>1. k \in 1 .. n /\ h[k - 1] \in Int
      BY <1>1, <2>1
    <3>2. QED
      BY <3>1
  <2> HIDE DEF step
  <2>2. [k \in 0 .. n |-> IF k = 0 THEN 0 ELSE step[k][h[k - 1]]]
          = [k \in 0 .. n |-> IF k = 0 THEN 0 ELSE 10 * h[k - 1] + digits[k]]
    BY <2>1
  <2>3. QED
    BY <1>3, <2>2 DEF IsChain
<1>5. IsSum(g)
  BY <1>4
<1>6. Spelled(digits) = g[n]
  BY DEF Spelled, n
<1> HIDE DEF g
<1>7. g[0] = 0 /\ \A k \in 1 .. n : g[k] = 10 * g[k - 1] + digits[k]
  BY <1>1, <1>5
<1>8. \A k \in 0 .. n : g[k] \in Int
  <2> DEFINE T == {m \in Nat : m <= n => g[m] \in Int}
  <2>1. 0 \in T
    BY <1>7
  <2>2. ASSUME NEW m \in Nat, m \in T PROVE m + 1 \in T
    <3>1. ASSUME m + 1 <= n PROVE g[m + 1] \in Int
      <4>1. m + 1 \in 1 .. n /\ (m + 1) - 1 = m /\ g[m] \in Int
        BY <1>1, <2>2, <3>1
      <4>2. g[m + 1] = 10 * g[m] + digits[m + 1] /\ digits[m + 1] \in Int
        BY <1>1, <1>7, <4>1
      <4>3. QED
        BY <4>1, <4>2
    <3>2. QED
      BY <3>1
  <2> HIDE DEF T
  <2>3. \A m \in Nat : m \in T
    BY <2>1, <2>2, SetInduction
  <2>4. QED
    BY <1>1, <2>3 DEF T
<1>9. g \in [0 .. n -> Int]
  <2>1. g = [k \in 0 .. n |-> g[k]]
    BY <1>5
  <2>2. QED
    BY <1>8, <2>1
<1>10. QED
  BY <1>6, <1>7, <1>9 DEF n

LEMMA SpelledOne == ASSUME NEW d \in 0 .. 9 PROVE Spelled(<<d>>) = d
<1> DEFINE s == <<d>>
<1>1. s \in Seq(0 .. 9) /\ Len(s) = 1 /\ s[1] = d
  OBVIOUS
<1> HIDE DEF s
<1>2. PICK h \in [0 .. Len(s) -> Int] :
           /\ h[0] = 0 /\ Spelled(s) = h[Len(s)]
           /\ \A k \in 1 .. Len(s) : h[k] = 10 * h[k - 1] + s[k]
  BY <1>1, SpelledSteps
<1>3. h[1] = 10 * h[0] + d
  BY <1>1, <1>2
<1>4. QED
  BY <1>1, <1>2, <1>3 DEF s

LEMMA SpelledMore ==
  ASSUME NEW s \in Seq(0 .. 9), NEW d \in 0 .. 9
  PROVE  Spelled(Append(s, d)) = 10 * Spelled(s) + d /\ Spelled(s) \in Int
<1> DEFINE n == Len(s)
           t == Append(s, d)
<1>1. /\ t \in Seq(0 .. 9) /\ Len(t) = n + 1 /\ n \in Nat
      /\ \A i \in 1 .. n : t[i] = s[i]
      /\ t[n + 1] = d
  BY Appended
<1> HIDE DEF t
<1>2. PICK g \in [0 .. n -> Int] :
           /\ g[0] = 0 /\ Spelled(s) = g[n]
           /\ \A k \in 1 .. n : g[k] = 10 * g[k - 1] + s[k]
  BY SpelledSteps
<1>3. PICK h \in [0 .. Len(t) -> Int] :
           /\ h[0] = 0 /\ Spelled(t) = h[Len(t)]
           /\ \A k \in 1 .. Len(t) : h[k] = 10 * h[k - 1] + t[k]
  BY <1>1, SpelledSteps
<1> HIDE DEF n
<1>4. h[n] = g[n]
  <2> DEFINE T == {m \in Nat : m <= n => h[m] = g[m]}
  <2>1. 0 \in T
    BY <1>2, <1>3
  <2>2. ASSUME NEW m \in Nat, m \in T PROVE m + 1 \in T
    <3>1. ASSUME m + 1 <= n PROVE h[m + 1] = g[m + 1]
      <4>1. m + 1 \in 1 .. n /\ m + 1 \in 1 .. Len(t) /\ (m + 1) - 1 = m /\ h[m] = g[m]
        BY <1>1, <2>2, <3>1
      <4>2. h[m + 1] = 10 * h[m] + t[m + 1] /\ g[m + 1] = 10 * g[m] + s[m + 1]
        BY <1>2, <1>3, <4>1
      <4>3. QED
        BY <1>1, <4>1, <4>2
    <3>2. QED
      BY <3>1
  <2> HIDE DEF T
  <2>3. \A m \in Nat : m \in T
    BY <2>1, <2>2, SetInduction
  <2>4. QED
    BY <1>1, <2>3 DEF T
<1>5. h[n + 1] = 10 * h[n] + d
  <2>1. n + 1 \in 1 .. Len(t) /\ (n + 1) - 1 = n
    BY <1>1
  <2>2. QED
    BY <1>1, <1>3, <2>1
<1>6. g[n] \in Int
  BY <1>1, <1>2
<1>7. QED
  BY <1>1, <1>2, <1>3, <1>4, <1>5, <1>6 DEF t

\* A tenth of an integer and its last digit, whatever the sign.
LEMMA Tenth ==
  ASSUME NEW i \in SignedWord
  PROVE  LET a == Abs(i)
             q == Quotient(i, 10)
         IN  /\ a \in Nat /\ a <= SignBit /\ q \in SignedWord /\ q \in Int
             /\ Abs(q) = a \div 10 /\ Character(i) = a % 10 /\ Character(i) \in 0 .. 9
             /\ a = 10 * Abs(q) + Character(i)
             /\ q # 0 => Abs(q) < a /\ Abs(q) > 0
<1> DEFINE a == Abs(i)
           d == a \div 10
           r == a % 10
           q == Quotient(i, 10)
<1>1. /\ i \in Int /\ -SignBit <= i /\ i < SignBit /\ SignBit \in Nat
      /\ a = (IF i < 0 THEN -i ELSE i)
  BY WordUnsigned, Widths DEF Abs
<1>2. a \in Nat /\ a <= SignBit
  <2> HIDE DEF a
  <2>1. QED
    BY <1>1
<1>3. d \in Nat /\ r \in 0 .. 9 /\ a = 10 * d + r /\ d <= a
  <2> HIDE DEF a
  <2>1. QED
    BY <1>2
<1>4. q = (IF i < 0 THEN -d ELSE d)
  <2>1. Abs(10) = 10 /\ (10 < 0) = FALSE
    BY DEF Abs
  <2>2. q = (IF (i < 0) = FALSE THEN 1 ELSE -1) * d
    BY <2>1 DEF Quotient
  <2> HIDE DEF d, q
  <2>3. QED
    BY <1>1, <1>3, <2>2
<1> HIDE DEF a, d, r, q
<1>5. q \in SignedWord /\ q \in Int
  BY <1>1, <1>2, <1>3, <1>4 DEF SignedWord
<1>6. Abs(q) = d
  BY <1>1, <1>3, <1>4 DEF Abs
<1>7. Character(i) = r
  <2>1. Remainder(i, 10) = i - 10 * q
    BY DEF Remainder, q
  <2>2. Remainder(i, 10) = IF i >= 0 THEN r ELSE -r
    BY <1>1, <1>3, <1>4, <2>1
  <2>3. QED
    BY <1>1, <1>3, <2>2 DEF Character
<1>8. q # 0 => d < a /\ d > 0
  BY <1>3, <1>4
<1>9. QED
  BY <1>2, <1>3, <1>5, <1>6, <1>7, <1>8 DEF a, d, q, r

\* One round of the loop, with the characters of the rounds that follow in g.
Round(g, i) ==
  IF Quotient(i, 10) = 0 THEN <<Character(i)>>
  ELSE Append(g[Quotient(i, 10)], Character(i))

\* The loop ends: its recursive function exists.
LEMMA CharactersExists == \E g : g = [i \in SignedWord |-> Round(g, i)]
<1> DEFINE T == {m \in Nat : \E g : /\ g = [i \in SignedWord |-> g[i]]
                                    /\ \A i \in SignedWord : Abs(i) <= m => g[i] = Round(g, i)}
<1>1. ASSUME NEW g, NEW h, NEW i \in SignedWord,
             Quotient(i, 10) # 0 => g[Quotient(i, 10)] = h[Quotient(i, 10)]
      PROVE  Round(g, i) = Round(h, i)
  BY <1>1 DEF Round
<1>2. \A i \in SignedWord : Abs(i) \in Nat /\ Abs(i) <= SignBit /\ Quotient(i, 10) \in SignedWord
  BY Tenth
<1>3. \A i \in SignedWord : Quotient(i, 10) # 0 => Abs(Quotient(i, 10)) < Abs(i)
  BY Tenth
<1>4. 0 \in T
  <2> DEFINE g == [i \in SignedWord |-> Round(<<>>, i)]
  <2>1. ASSUME NEW i \in SignedWord, Abs(i) <= 0 PROVE g[i] = Round(g, i)
    <3>1. Quotient(i, 10) = 0
      <4>1. Abs(i) \in Nat /\ (Quotient(i, 10) # 0 => Abs(Quotient(i, 10)) < Abs(i))
            /\ Abs(Quotient(i, 10)) \in Nat
        BY <1>2, <1>3
      <4>2. QED
        BY <2>1, <4>1
    <3>2. QED
      BY <3>1 DEF Round
  <2>2. g = [i \in SignedWord |-> g[i]]
    OBVIOUS
  <2> HIDE DEF g
  <2>3. QED
    BY <2>1, <2>2
<1>5. ASSUME NEW m \in Nat, m \in T PROVE m + 1 \in T
  <2>1. PICK g : /\ g = [i \in SignedWord |-> g[i]]
                 /\ \A i \in SignedWord : Abs(i) <= m => g[i] = Round(g, i)
    BY <1>5
  <2> DEFINE h == [i \in SignedWord |-> Round(g, i)]
  <2>2. ASSUME NEW i \in SignedWord, Abs(i) <= m + 1 PROVE h[i] = Round(h, i)
    <3>1. h[i] = Round(g, i)
      OBVIOUS
    <3>2. ASSUME Quotient(i, 10) # 0 PROVE g[Quotient(i, 10)] = h[Quotient(i, 10)]
      <4> DEFINE k == Quotient(i, 10)
      <4>1. k \in SignedWord /\ Abs(k) < Abs(i) /\ Abs(k) \in Nat /\ Abs(i) \in Nat
        BY <1>2, <1>3, <3>2
      <4> HIDE DEF k
      <4>2. Abs(k) <= m
        BY <2>2, <4>1
      <4>3. g[k] = Round(g, k) /\ h[k] = Round(g, k)
        BY <2>1, <4>1, <4>2
      <4>4. QED
        BY <4>3 DEF k
    <3> HIDE DEF h
    <3>3. QED
      BY <1>1, <3>1, <3>2
  <2>3. h = [i \in SignedWord |-> h[i]]
    OBVIOUS
  <2> HIDE DEF h
  <2>4. QED
    BY <2>2, <2>3
<1> HIDE DEF T
<1>6. SignBit \in T
  <2>1. \A m \in Nat : m \in T
    BY <1>4, <1>5, SetInduction
  <2>2. QED
    BY <2>1, Widths
<1>7. PICK g : /\ g = [i \in SignedWord |-> g[i]]
               /\ \A i \in SignedWord : Abs(i) <= SignBit => g[i] = Round(g, i)
  BY <1>6 DEF T
<1>8. \A i \in SignedWord : g[i] = Round(g, i)
  BY <1>2, <1>7
<1>9. [i \in SignedWord |-> g[i]] = [i \in SignedWord |-> Round(g, i)]
  BY <1>8
<1>10. QED
  BY <1>7, <1>9

LEMMA CharactersRound == \A i \in SignedWord : Characters[i] = Round(Characters, i)
<1> DEFINE IsLoop(g) == g = [i \in SignedWord |-> Round(g, i)]
           c == CHOOSE g : IsLoop(g)
<1>1. IsLoop(c)
  BY CharactersExists
<1>2. Characters = c
  BY DEF Characters, Round
<1> HIDE DEF c
<1>3. QED
  BY <1>1, <1>2

\* Digits that spell an integer without leading zeros; each but the first
\* stands for more than three bits.
Decimal(s, a) ==
  /\ s \in Seq(0 .. 9) /\ Len(s) >= 1 /\ Spelled(s) = a
  /\ s[1] = 0 => a = 0
  /\ Len(s) > 1 => Power[3 * (Len(s) - 1)] <= a

LEMMA DecimalOne == ASSUME NEW d \in 0 .. 9 PROVE Decimal(<<d>>, d)
<1> DEFINE s == <<d>>
<1>1. s \in Seq(0 .. 9) /\ Len(s) = 1 /\ s[1] = d
  OBVIOUS
<1>2. Spelled(s) = d
  BY SpelledOne
<1> HIDE DEF s
<1>3. QED
  BY <1>1, <1>2 DEF Decimal, s

LEMMA DecimalMore ==
  ASSUME NEW q \in Nat, q > 0, NEW s, Decimal(s, q), NEW d \in 0 .. 9
  PROVE  Decimal(Append(s, d), 10 * q + d)
<1> DEFINE t == Append(s, d)
           n == Len(s)
<1>1. s \in Seq(0 .. 9) /\ n \in Nat /\ n >= 1 /\ Spelled(s) = q /\ (s[1] = 0 => q = 0)
      /\ (n > 1 => Power[3 * (n - 1)] <= q)
  BY DEF Decimal
<1>2. t \in Seq(0 .. 9) /\ Len(t) = n + 1 /\ t[1] = s[1]
  BY <1>1, Appended
<1>3. Spelled(t) = 10 * q + d
  BY <1>1, SpelledMore
<1>4. Power[3 * ((n + 1) - 1)] <= 10 * q + d
  <2> HIDE DEF n
  <2> DEFINE k == 3 * (n - 1)
  <2>1. k \in Nat /\ 3 * ((n + 1) - 1) = k + 3
    BY <1>1
  <2>2. n = 1 => k = 0
    OBVIOUS
  <2> HIDE DEF k
  <2>3. Power[3] = 8
    <3>1. Power[2 + 1] = 2 * Power[2] /\ Power[1 + 1] = 2 * Power[1] /\ Power[1] = 2
      BY PowerStep, SmallPowers
    <3>2. QED
      BY <3>1
  <2>4. Power[k + 3] = Power[k] * 8 /\ Power[k] \in Nat
    <3>1. Power[k + 3] = Power[k] * Power[3]
      BY <2>1, PowerSum
    <3>2. QED
      BY <2>1, <2>3, <3>1, PowerPositive
  <2>5. Power[k] <= q
    <3>1. CASE n = 1
      BY <2>2, <3>1, SmallPowers
    <3>2. CASE n # 1
      BY <1>1, <3>2 DEF k
    <3>3. QED
      BY <3>1, <3>2
  <2>6. QED
    BY <2>1, <2>4, <2>5
<1>5. 10 * q + d # 0 /\ q # 0
  OBVIOUS
<1> HIDE DEF t, n
<1>6. Decimal(t, 10 * q + d)
  <2>1. n + 1 >= 1 /\ s[1] # 0
    BY <1>1, <1>5
  <2>2. QED
    BY <1>2, <1>3, <1>4, <2>1 DEF Decimal
<1>7. QED
  BY <1>6 DEF t

LEMMA CharactersDecimal == \A i \in SignedWord : Decimal(Characters[i], Abs(i))
<1> DEFINE T == {m \in Nat : \A i \in SignedWord : Abs(i) <= m => Decimal(Characters[i], Abs(i))}
<1>1. ASSUME NEW i \in SignedWord,
             Quotient(i, 10) # 0 => Decimal(Characters[Quotient(i, 10)], Abs(Quotient(i, 10)))
      PROVE  Decimal(Characters[i], Abs(i))
  <2> DEFINE q == Quotient(i, 10)
             d == Character(i)
             a == Abs(i)
             b == Abs(q)
  <2>1. a \in Nat /\ d \in 0 .. 9 /\ a = 10 * b + d /\ b \in Nat /\ (q # 0 => b > 0)
    BY Tenth
  <2>2. Characters[i] = IF q = 0 THEN <<d>> ELSE Append(Characters[q], d)
    BY CharactersRound DEF Round
  <2>3. q = 0 => b = 0
    BY DEF Abs
  <2>4. q # 0 => Decimal(Characters[q], b)
    BY <1>1
  <2> HIDE DEF q, d, a, b
  <2>5. CASE q = 0
    <3>1. a = d
      BY <2>1, <2>3, <2>5
    <3>2. QED
      BY <2>1, <2>2, <2>5, <3>1, DecimalOne DEF a
  <2>6. CASE q # 0
    <3>1. b \in Nat /\ b > 0 /\ Decimal(Characters[q], b) /\ d \in 0 .. 9
      BY <2>1, <2>4, <2>6
    <3>2. Decimal(Append(Characters[q], d), 10 * b + d)
      BY ONLY <3>1, DecimalMore
    <3>3. QED
      BY <2>1, <2>2, <2>6, <3>2 DEF a
  <2>7. QED
    BY <2>5, <2>6
<1>2. ASSUME NEW i \in SignedWord
      PROVE  /\ Abs(i) \in Nat /\ Quotient(i, 10) \in SignedWord
             /\ Quotient(i, 10) # 0 => Abs(Quotient(i, 10)) < Abs(i) /\ Abs(Quotient(i, 10)) > 0
             /\ Abs(Quotient(i, 10)) \in Nat
  BY Tenth
<1>3. 0 \in T
  <2>1. ASSUME NEW i \in SignedWord, Abs(i) <= 0 PROVE Decimal(Characters[i], Abs(i))
    <3>1. Quotient(i, 10) = 0
      BY <1>2, <2>1
    <3>2. QED
      BY <1>1, <3>1
  <2>2. QED
    BY <2>1
<1>4. ASSUME NEW m \in Nat, m \in T PROVE m + 1 \in T
  <2>1. ASSUME NEW i \in SignedWord, Abs(i) <= m + 1 PROVE Decimal(Characters[i], Abs(i))
    <3>1. ASSUME Quotient(i, 10) # 0
          PROVE  Decimal(Characters[Quotient(i, 10)], Abs(Quotient(i, 10)))
      <4>1. Quotient(i, 10) \in SignedWord /\ Abs(Quotient(i, 10)) <= m
        BY <1>2, <2>1, <3>1
      <4>2. QED
        BY <1>4, <4>1
    <3>2. QED
      BY <1>1, <3>1
  <2>2. QED
    BY <2>1
<1> HIDE DEF T
<1>5. \A m \in Nat : m \in T
  BY <1>3, <1>4, SetInduction
<1>6. QED
  <2>1. ASSUME NEW i \in SignedWord PROVE Decimal(Characters[i], Abs(i))
    <3>1. Abs(i) \in Nat /\ Abs(i) <= Abs(i)
      BY <1>2
    <3>2. Abs(i) \in T
      BY <1>5, <3>1
    <3>3. QED
      BY <3>1, <3>2 DEF T
  <2>2. QED
    BY <2>1

\* A string without the two characters that follow it, and without its first.
LEMMA Unpacked ==
  ASSUME NEW A, NEW s \in Seq(A), NEW a \in A, NEW b \in A
  PROVE  LET t == s \o <<a, b>> IN SubSeq(t, 1, Len(t) - 2) = s
<1> DEFINE e == <<a, b>>
           t == s \o e
           u == SubSeq(t, 1, Len(t) - 2)
<1>1. e \in Seq(A) /\ Len(e) = 2 /\ Len(s) \in Nat
  OBVIOUS
<1> HIDE DEF e
<1>2. t \in Seq(A) /\ Len(t) = Len(s) + 2 /\ \A i \in 1 .. Len(s) : t[i] = s[i]
  <2>1. t \in Seq(A) /\ Len(t) = Len(s) + Len(e)
    BY <1>1, ConcatProperties
  <2>2. \A i \in 1 .. Len(s) + Len(e) : t[i] = IF i <= Len(s) THEN s[i] ELSE e[i - Len(s)]
    BY <1>1, ConcatProperties
  <2> HIDE DEF t
  <2>3. QED
    BY <1>1, <2>1, <2>2
<1> HIDE DEF t
<1>3. Len(t) - 2 = Len(s) /\ \A i \in 1 .. Len(s) : t[i] \in A
  <2>1. Len(t) - 2 = Len(s)
    BY <1>1, <1>2
  <2>2. \A i \in 1 .. Len(s) : s[i] \in A
    BY ElementOfSeq
  <2>3. QED
    BY <1>2, <2>1, <2>2
<1>4. u \in Seq(A) /\ Len(u) = Len(s) /\ \A i \in 1 .. Len(s) : u[i] = s[i]
  <2> DEFINE n == Len(s)
             v == SubSeq(t, 1, n)
  <2>1. n \in Int /\ 1 \in Int /\ n - 1 + 1 = n /\ n \in Nat /\ \A i \in 1 .. n : t[i] \in A
    BY <1>1, <1>3
  <2> HIDE DEF n
  <2>2. v \in Seq(A)
    BY <2>1, SubSeqProperties
  <2>3. Len(v) = n
    <3>1. Len(v) = IF 1 <= n THEN n - 1 + 1 ELSE 0
      BY <2>1, SubSeqProperties
    <3> HIDE DEF v
    <3>2. QED
      BY <2>1, <3>1
  <2>4. \A i \in 1 .. n : v[i] = t[i]
    <3>1. \A i \in 1 .. n - 1 + 1 : v[i] = t[1 + i - 1]
      BY <2>1, SubSeqProperties
    <3> HIDE DEF v
    <3>2. \A i \in 1 .. n : 1 + i - 1 = i
      BY <2>1
    <3>3. QED
      BY <2>1, <3>1, <3>2
  <2>5. u = v
    BY <1>3 DEF n
  <2> HIDE DEF u, v
  <2>6. QED
    BY <1>2, <2>2, <2>3, <2>4, <2>5 DEF n
<1> HIDE DEF u
<1>5. \A i \in 1 .. Len(u) : u[i] = s[i]
  BY <1>4
<1>6. u = s
  BY <1>4, <1>5, SeqEqual
<1>7. QED
  BY <1>6 DEF u, t, e

LEMMA Prefixed ==
  ASSUME NEW A, NEW s \in Seq(A), NEW a \in A
  PROVE  LET t == <<a>> \o s
         IN  t \in Seq(A) /\ Len(t) = Len(s) + 1 /\ t[1] = a /\ Tail(t) = s
<1> DEFINE e == <<a>>
           t == e \o s
<1>1. e \in Seq(A) /\ Len(e) = 1 /\ e[1] = a /\ Len(s) \in Nat
  OBVIOUS
<1> HIDE DEF e
<1>2. t \in Seq(A) /\ Len(t) = Len(s) + 1 /\ t[1] = a
      /\ \A i \in 1 .. Len(s) : t[i + 1] = s[i]
  <2>1. t \in Seq(A) /\ Len(t) = Len(e) + Len(s)
    BY <1>1, ConcatProperties
  <2>2. \A i \in 1 .. Len(e) + Len(s) : t[i] = IF i <= Len(e) THEN e[i] ELSE s[i - Len(e)]
    BY <1>1, ConcatProperties
  <2> HIDE DEF t
  <2>3. t[1] = a
    BY <1>1, <2>2
  <2>4. \A i \in 1 .. Len(s) : t[i + 1] = s[i]
    <3>1. SUFFICES ASSUME NEW i \in 1 .. Len(s) PROVE t[i + 1] = s[i]
      OBVIOUS
    <3>2. i + 1 \in 1 .. Len(e) + Len(s) /\ ~(i + 1 <= Len(e)) /\ (i + 1) - Len(e) = i
      BY <1>1
    <3>3. QED
      BY <2>2, <3>2
  <2>5. QED
    BY <1>1, <2>1, <2>3, <2>4
<1> HIDE DEF t
<1>3. t # <<>>
  <2>1. Len(t) # 0
    BY <1>1, <1>2
  <2>2. QED
    BY <2>1
<1>4. Tail(t) \in Seq(A) /\ Len(Tail(t)) = Len(s)
  <2>1. Tail(t) \in Seq(A) /\ Len(Tail(t)) = Len(t) - 1
    BY <1>2, <1>3, HeadTailProperties
  <2> DEFINE u == Tail(t)
  <2> HIDE DEF u
  <2>2. u \in Seq(A) /\ Len(u) = Len(s)
    BY <1>1, <1>2, <2>1 DEF u
  <2>3. QED
    BY <2>2 DEF u
<1>5. \A i \in 1 .. Len(Tail(t)) : Tail(t)[i] = s[i]
  <2>1. \A i \in 1 .. Len(Tail(t)) : Tail(t)[i] = t[i + 1]
    BY <1>2, <1>3, HeadTailProperties
  <2>2. QED
    BY <1>2, <1>4, <2>1
<1>6. Tail(t) = s
  BY <1>4, <1>5, SeqEqual
<1>7. QED
  BY <1>2, <1>6 DEF t, e

\* The buffer is large enough for the digits of any word.
LEMMA DecimalFits ==
  ASSUME NEW a \in Nat, a <= SignBit, NEW s, Decimal(s, a)
  PROVE  Len(s) \in Nat /\ Len(s) <= INT_DIGITS
<1> DEFINE n == Len(s)
           k == 3 * (n - 1)
<1>1. n \in Nat /\ n >= 1 /\ (n > 1 => Power[k] <= a)
  BY DEF Decimal
<1>2. Bits \in Nat /\ Bits - 1 \in Nat /\ SignBit = Power[Bits - 1] /\ Bits <= 57
  BY Widths, BufferAssumption DEF INT_DIGITS, SignBit
<1> HIDE DEF n
<1>3. ASSUME n > 1 PROVE k <= Bits - 1
  <2>1. k \in Nat
    BY <1>1
  <2> HIDE DEF k
  <2>2. Power[k] <= Power[Bits - 1]
    BY <1>1, <1>2, <1>3, <2>1, PowerPositive
  <2>3. ASSUME Bits - 1 < k PROVE FALSE
    <3> DEFINE p == Power[Bits - 1]
               r == Power[k - (Bits - 1) - 1]
    <3>1. k - (Bits - 1) - 1 \in Nat /\ Power[k] = (2 * r) * p
      BY <1>2, <2>1, <2>3, PowerMultiple
    <3>2. p \in Nat /\ p > 0 /\ r \in Nat /\ r > 0
      BY <1>2, <3>1, PowerPositive
    <3> HIDE DEF p, r
    <3>3. (2 * r) * p >= 2 * p
      <4>1. (2 * r) * p = 2 * (r * p) /\ r * p >= p
        BY <3>2
      <4>2. QED
        BY <3>2, <4>1
    <3>4. QED
      BY <2>2, <3>1, <3>2, <3>3 DEF p
  <2>4. QED
    BY <1>2, <2>1, <2>3
<1>4. n <= 19
  BY <1>1, <1>2, <1>3
<1>5. QED
  BY <1>1, <1>4 DEF n, INT_DIGITS

\* Integers are printed as they are written.
THEOREM Printing == Spec => []PrintExact
<1>1. Init => PrintExact
  BY DEF Init, PrintExact
<1>2. PrintExact /\ [Next]_call => PrintExact'
  <2>1. ASSUME Next, call'.fn = "print" PROVE PrintExact'
    <3>1. PICK i \in SignedWord : call' = [fn |-> "print", i |-> i, out |-> print_integer(i)]
      BY <2>1 DEF Next, StackAdjusted, Stored, Copied, Expanded, Printed, Fixup, Linked,
         HiLo, Decoded
    <3> DEFINE A == (0 .. 9) \cup {"-", "end", "newline"}
               a == Abs(i)
               c == Characters[i]
               out == itoa(i) \o <<"end", "newline">>
               str == SubSeq(out, 1, Len(out) - 2)
               digits == IF i < 0 THEN Tail(str) ELSE str
    <3>2. /\ i \in Int /\ a \in Nat /\ a <= SignBit /\ Decimal(c, a)
          /\ i = (IF i < 0 THEN -a ELSE a)
      <4>1. i \in Int /\ Abs(i) = IF i < 0 THEN -i ELSE i
        BY WordUnsigned DEF Abs
      <4>2. a \in Nat /\ a <= SignBit
        BY Tenth
      <4>3. Decimal(c, a)
        BY CharactersDecimal
      <4>4. QED
        BY <4>1, <4>2, <4>3
    <3> HIDE DEF a, c
    <3>3. /\ c \in Seq(0 .. 9) /\ Len(c) \in Nat /\ Len(c) <= INT_DIGITS /\ Spelled(c) = a
          /\ (c[1] = 0 => a = 0)
      BY <3>2, DecimalFits DEF Decimal
    <3>4. c \in Seq(A)
      <4>1. 0 .. 9 \subseteq A
        OBVIOUS
      <4> HIDE DEF A
      <4>2. QED
        BY <3>3, <4>1, SeqMonotonic
    <3>5. "-" \in A /\ "end" \in A /\ "newline" \in A
      OBVIOUS
    <3> HIDE DEF A
    <3> DEFINE signed == <<"-">> \o c
    <3>6. signed \in Seq(A) /\ Len(signed) = Len(c) + 1 /\ signed[1] = "-" /\ Tail(signed) = c
      BY <3>4, <3>5, Prefixed
    <3>7. itoa(i) = IF i < 0 THEN signed ELSE c
      BY <3>2 DEF itoa, c
    <3> HIDE DEF signed
    <3>8. str = itoa(i)
      <4> DEFINE s == itoa(i)
      <4>1. s \in Seq(A)
        BY <3>4, <3>6, <3>7
      <4> HIDE DEF s
      <4>2. LET t == s \o <<"end", "newline">> IN SubSeq(t, 1, Len(t) - 2) = s
        BY <3>5, <4>1, Unpacked
      <4>3. QED
        BY <4>2 DEF s
    <3> HIDE DEF str
    <3>9. digits = c /\ Len(str) <= INT_DIGITS + 1 /\ (i < 0 => str[1] = "-")
      <4>1. CASE i < 0
        BY <3>3, <3>6, <3>7, <3>8, <4>1 DEF INT_DIGITS
      <4>2. CASE ~(i < 0)
        BY <3>3, <3>7, <3>8, <4>2 DEF INT_DIGITS
      <4>3. QED
        BY <4>1, <4>2
    <3> HIDE DEF digits
    <3>10. /\ \A k \in DOMAIN digits : digits[k] \in 0 .. 9
           /\ i = IF i < 0 THEN -Spelled(digits) ELSE Spelled(digits)
           /\ digits[1] = 0 => i = 0
      <4>1. \A k \in DOMAIN c : c[k] \in 0 .. 9
        BY <3>3
      <4>2. QED
        BY <3>2, <3>3, <3>9, <4>1
    <3> HIDE DEF out
    <3>11. call'.i = i /\ call'.out = out
      <4>1. print_integer(i) = out
        BY DEF print_integer, print_string, out
      <4>2. QED
        BY <3>1, <4>1
    <3>12. QED
      BY <3>9, <3>10, <3>11 DEF PrintExact, str, digits
  <2>2. QED
    BY <2>1 DEF PrintExact
<1>3. QED
  BY <1>1, <1>2, PTL DEF Spec

-----------------------------------------------------------------------------
(* The search for short sequences. *)

\* The words in question, and what a shift removes of them.
Wides == 0 .. Modulus * Modulus - 1
Shifting(imm) == imm \in Wides /\ imm % Modulus # 0 /\ LowPart(imm) = 0
Zeros(imm) == countTrailingZeros(imm)
Odd(imm) == imm \div Power[Zeros(imm)]

\* Divisibility by a power of two.
LEMMA Divisible ==
  ASSUME NEW x \in Int, NEW a \in Nat, NEW b \in Nat, a <= b, x % Power[b] = 0
  PROVE  x % Power[a] = 0
<1> DEFINE p == Power[a]
           r == Power[b - a]
           q == x \div Power[b]
<1>1. /\ p \in Nat /\ p > 0 /\ r \in Nat /\ Power[b] = r * p /\ b - a \in Nat
      /\ Power[b] \in Nat /\ Power[b] > 0
  BY PowerMultiple, PowerPositive
<1>2. q \in Int /\ x = q * Power[b] + 0
  BY <1>1, Division
<1> HIDE DEF p, r, q
<1>3. x = (q * r) * p + 0 /\ q * r \in Int
  <2>1. q * (r * p) = (q * r) * p /\ q * (r * p) \in Int
    BY <1>1, <1>2
  <2>2. QED
    BY <1>1, <1>2, <2>1
<1> DEFINE t == q * r
<1> HIDE DEF t
<1>4. x = t * p + 0 /\ t \in Int
  BY <1>3 DEF t
<1>5. x % p = 0
  BY <1>1, <1>4, DivisionUnique
<1>6. QED
  BY <1>5 DEF p

\* The zeros are counted: at least those of the lower half, and not all.
LEMMA ZerosCounted ==
  ASSUME NEW imm, Shifting(imm)
  PROVE  LET n == Zeros(imm)
         IN  /\ n \in ImmBits .. Bits - 1 /\ imm % Power[n] = 0 /\ imm % Power[n + 1] # 0
             /\ imm \in Int
<1>1. /\ imm \in Int /\ imm % Power[Bits] # 0 /\ imm % Power[ImmBits] = 0
      /\ Bits \in Nat /\ ImmBits \in Nat
  <2>1. imm \in Int
    BY Widths DEF Shifting, Wides
  <2>2. QED
    BY <2>1, Widths DEF Shifting, Modulus, LowPart
<1> DEFINE Counted(n) == imm % Power[n] = 0 /\ imm % Power[n + 1] # 0
<1>2. \E n \in 0 .. 2 * Bits : Counted(n)
  <2>1. SUFFICES ASSUME \A n \in 0 .. 2 * Bits : ~Counted(n) PROVE FALSE
    OBVIOUS
  <2> DEFINE T == {m \in Nat : m <= 2 * Bits => imm % Power[m] = 0}
  <2>2. 0 \in T
    <3>1. imm % 1 = 0
      BY <1>1
    <3>2. QED
      BY <3>1, SmallPowers
  <2>3. ASSUME NEW m \in Nat, m \in T PROVE m + 1 \in T
    <3>1. ASSUME m + 1 <= 2 * Bits PROVE imm % Power[m + 1] = 0
      <4>1. m \in 0 .. 2 * Bits /\ imm % Power[m] = 0
        BY <1>1, <2>3, <3>1
      <4>2. QED
        BY <2>1, <4>1
    <3>2. QED
      BY <3>1
  <2> HIDE DEF T
  <2>4. Bits \in T
    BY <1>1, <2>2, <2>3, SetInduction
  <2>5. QED
    BY <1>1, <2>4 DEF T
<1> DEFINE n == Zeros(imm)
<1>3. n = CHOOSE k \in 0 .. 2 * Bits : Counted(k)
  BY DEF Zeros, countTrailingZeros
<1>4. n \in 0 .. 2 * Bits /\ Counted(n)
  <2> HIDE DEF Counted, n
  <2>1. QED
    BY <1>2, <1>3
<1> HIDE DEF n
<1>5. n \in Nat /\ n + 1 \in Nat
  BY <1>1, <1>4
<1>6. n < Bits
  <2>1. CASE Bits <= n
    BY <1>1, <1>4, <1>5, <2>1, Divisible
  <2>2. QED
    BY <1>1, <1>5, <2>1
<1>7. ImmBits <= n
  <2>1. CASE n + 1 <= ImmBits
    BY <1>1, <1>4, <1>5, <2>1, Divisible
  <2>2. QED
    BY <1>1, <1>5, <2>1
<1>8. QED
  BY <1>1, <1>4, <1>5, <1>6, <1>7 DEF n

\* What is left has its lowest bit set.
LEMMA OddLeft ==
  ASSUME NEW imm, Shifting(imm)
  PROVE  /\ Odd(imm) \in Wides /\ Odd(imm) % Modulus # 0 /\ Odd(imm) \in Int
         /\ imm = Odd(imm) * Power[Zeros(imm)]
<1> DEFINE n == Zeros(imm)
           p == Power[n]
           d == Odd(imm)
<1>1. n \in Nat /\ imm % p = 0 /\ imm % Power[n + 1] # 0 /\ imm \in Int
  BY ZerosCounted, Widths
<1>2. p \in Nat /\ p > 0 /\ Power[n + 1] = 2 * p
  BY <1>1, PowerPositive, PowerStep
<1>3. imm \in Nat /\ imm < Modulus * Modulus /\ Modulus * Modulus \in Nat
  <2>1. Modulus * Modulus \in Nat
    BY Widths
  <2>2. imm \in Wides
    BY DEF Shifting
  <2>3. QED
    BY <2>1, <2>2 DEF Wides
<1>4. d = imm \div p
  BY DEF Odd
<1> HIDE DEF n, p, d
<1>5. d \in Nat /\ d <= imm /\ imm = d * p
  <2>1. d \in Nat /\ d <= imm
    BY <1>2, <1>3, <1>4, SmallerQuotient
  <2>2. imm = d * p + 0
    BY <1>1, <1>2, <1>4, Division
  <2>3. d * p \in Int
    BY <1>2, <2>1
  <2>4. QED
    BY <2>1, <2>2, <2>3
<1>6. d \in Wides
  BY <1>3, <1>5 DEF Wides
<1>7. d % Modulus # 0
  <2>1. SUFFICES ASSUME d % Modulus = 0 PROVE FALSE
    OBVIOUS
  <2> DEFINE k == d \div Modulus
  <2>2. k \in Int /\ d = k * Modulus + 0
    <3>1. d \in Int /\ Modulus \in Nat /\ Modulus > 0
      BY <1>5, Widths
    <3>2. QED
      BY <2>1, <3>1, Division
  <2> HIDE DEF k
  <2> DEFINE j == k * SignBit
  <2>3. d = 2 * j /\ j \in Int
    <3>1. Modulus = 2 * SignBit /\ SignBit \in Int
      BY Widths
    <3>2. k * (2 * SignBit) = 2 * (k * SignBit) /\ k * (2 * SignBit) \in Int /\ k * SignBit \in Int
      BY <2>2, <3>1
    <3>3. QED
      BY <2>2, <3>1, <3>2
  <2> HIDE DEF j
  <2>4. imm = j * (2 * p) + 0 /\ 2 * p \in Nat /\ 2 * p > 0
    <3>1. imm = (2 * j) * p /\ (2 * j) * p = j * (2 * p) /\ j * (2 * p) \in Int
      BY <1>2, <1>5, <2>3
    <3>2. QED
      BY <1>2, <3>1
  <2> DEFINE m == 2 * p
  <2> HIDE DEF m
  <2>5. imm = j * m + 0 /\ m \in Nat /\ m > 0
    BY <2>4 DEF m
  <2>6. imm % m = 0
    BY <1>1, <2>3, <2>5, DivisionUnique
  <2>7. QED
    BY <1>1, <1>2, <2>6 DEF m, n
<1>8. QED
  BY <1>5, <1>6, <1>7 DEF d, p, n

\* The domain of the search, and what it does with the results found for others.
Pairs == Wides \X ((0 .. ImmBits) \cup {Bits})
Search(g, imm, rem) ==
  IF imm % Modulus = 0 THEN <<>>
  ELSE IF rem <= ImmBits THEN <<<<I("ADDiu", imm % Modulus)>>>>
  ELSE IF LowPart(imm) = 0
    THEN AddInstr(g[<<Odd(imm), rem - Zeros(imm)>>], I("SHL", Zeros(imm)))
  ELSE AddInstr(g[<<Raised(imm), rem>>], I("ADDiu", LowPart(imm)))
       \o IF LowPart(imm) < Power[ImmBits - 1] THEN <<>>
          ELSE AddInstr(g[<<HighPart(imm), rem>>], I("ORi", LowPart(imm)))

\* The upper part of an immediate has no lower part.
LEMMA Upper ==
  ASSUME NEW v \in Wides
  PROVE  HighPart(v) \in Wides /\ LowPart(HighPart(v)) = 0 /\ HighPart(v) \in Int
<1> DEFINE p == Power[ImmBits]
           q == v \div p
           r == v % p
           M == Modulus * Modulus
<1>1. p \in Nat /\ p > 0 /\ M \in Nat
  BY Widths
<1>2. v \in Nat /\ v < M
  <2> HIDE DEF M
  <2>1. QED
    BY <1>1 DEF Wides, M
<1>3. q \in Nat /\ r \in Int /\ 0 <= r /\ v = q * p + r
  <2> HIDE DEF p
  <2>1. v \in Int
    BY <1>2
  <2>2. r \in Int /\ 0 <= r /\ v = q * p + r
    BY <1>1, <2>1, Division
  <2>3. q \in Nat
    BY <1>1, <1>2, SmallerQuotient
  <2>4. QED
    BY <2>2, <2>3
<1>4. HighPart(v) = v - r
  BY DEF HighPart, LowPart
<1> DEFINE t == q * p
<1>5. t \in Int /\ 0 <= t
  <2> HIDE DEF q, p
  <2>1. QED
    BY <1>1, <1>3
<1> HIDE DEF M, q, r, p, t
<1>6. HighPart(v) = t /\ t \in Int /\ 0 <= t /\ t < M
  <2>1. v = t + r
    BY <1>3 DEF t
  <2>2. QED
    BY <1>1, <1>2, <1>3, <1>4, <1>5, <2>1
<1>7. t % p = 0
  <2>1. t = q * p + 0 /\ q \in Int
    BY <1>3, <1>6 DEF t
  <2>2. QED
    BY <1>1, <1>6, <2>1, DivisionUnique
<1>8. t \in Wides
  BY <1>1, <1>6 DEF Wides, M
<1>9. QED
  BY <1>6, <1>7, <1>8 DEF LowPart, p

LEMMA Lifted ==
  ASSUME NEW imm \in Wides
  PROVE  Raised(imm) \in Wides /\ LowPart(Raised(imm)) = 0 /\ Raised(imm) \in Int
<1> DEFINE v == imm + Power[ImmBits - 1]
           M == Modulus * Modulus
<1>1. M \in Nat /\ M > 0 /\ v \in Int
  <2>1. Modulus \in Nat /\ Modulus > 0 /\ Power[ImmBits - 1] \in Nat
    BY Widths
  <2>2. Modulus * Modulus \in Nat /\ Modulus * Modulus > 0
    BY <2>1
  <2>3. imm \in Int
    BY <2>2 DEF Wides
  <2>4. QED
    BY <2>1, <2>2, <2>3
<1> HIDE DEF M, v
<1>2. v % M \in 0 .. M - 1
  BY <1>1, Division
<1>3. Imm64(v) \in Wides
  BY <1>2 DEF Imm64, Wides, M
<1>4. Raised(imm) = HighPart(Imm64(v))
  BY DEF Raised, v
<1>5. QED
  BY <1>3, <1>4, Upper

\* The search ends.
LEMMA SearchExists == \E g : g = [p \in Pairs |-> Search(g, p[1], p[2])]
<1> DEFINE Low(imm, rem) == imm % Modulus = 0 \/ rem <= ImmBits
           g0 == [p \in Pairs |-> Search(<<>>, p[1], p[2])]
           g1 == [p \in Pairs |-> Search(g0, p[1], p[2])]
           g2 == [p \in Pairs |-> Search(g1, p[1], p[2])]
<1>1. \A g, h, imm, rem : Low(imm, rem) => Search(g, imm, rem) = Search(h, imm, rem)
  BY DEF Search
<1>2. ASSUME NEW imm \in Wides, NEW rem \in (0 .. ImmBits) \cup {Bits}
      PROVE  /\ g0[<<imm, rem>>] = Search(<<>>, imm, rem)
             /\ g1[<<imm, rem>>] = Search(g0, imm, rem)
             /\ g2[<<imm, rem>>] = Search(g1, imm, rem)
  <2>1. <<imm, rem>> \in Pairs
    BY DEF Pairs
  <2>2. g0[<<imm, rem>>] = Search(<<>>, imm, rem)
    BY <2>1
  <2> HIDE DEF g0
  <2>3. g1[<<imm, rem>>] = Search(g0, imm, rem)
    BY <2>1
  <2> HIDE DEF g1
  <2>4. g2[<<imm, rem>>] = Search(g1, imm, rem)
    BY <2>1
  <2> HIDE DEF g2
  <2>5. QED
    BY <2>2, <2>3, <2>4
<1>3. ASSUME NEW imm, Shifting(imm)
      PROVE  /\ Odd(imm) \in Wides /\ Bits - Zeros(imm) \in (0 .. ImmBits) \cup {Bits}
             /\ Low(Odd(imm), Bits - Zeros(imm)) /\ Bits > ImmBits
  <2>1. Zeros(imm) \in ImmBits .. Bits - 1 /\ ImmBits \in Nat /\ ImmBits >= 2 /\ Bits = 2 * ImmBits
    BY <1>3, ZerosCounted, WidthAssumption
  <2> DEFINE n == Zeros(imm)
  <2> HIDE DEF n
  <2>2. Bits - n \in 0 .. ImmBits /\ Bits - n <= ImmBits /\ Bits > ImmBits
    BY <2>1 DEF n
  <2>3. QED
    BY <1>3, <2>2, OddLeft DEF n
<1>4. ASSUME NEW imm \in Wides, NEW rem \in (0 .. ImmBits) \cup {Bits}
      PROVE  LowPart(imm) = 0 \/ Low(imm, rem) =>
               /\ Search(g1, imm, rem) = Search(g0, imm, rem)
               /\ Search(g2, imm, rem) = Search(g1, imm, rem)
  <2>1. Low(imm, rem) => /\ Search(g1, imm, rem) = Search(g0, imm, rem)
                         /\ Search(g2, imm, rem) = Search(g1, imm, rem)
    <3> HIDE DEF g0, g1, g2
    <3>1. QED
      BY <1>1
  <2>2. ASSUME ~Low(imm, rem) PROVE rem = Bits /\ imm % Modulus # 0 /\ ~(rem <= ImmBits)
    BY <2>2, Widths
  <2>3. ASSUME ~Low(imm, rem), LowPart(imm) = 0
        PROVE  /\ Search(g1, imm, rem) = Search(g0, imm, rem)
               /\ Search(g2, imm, rem) = Search(g1, imm, rem)
    <3> DEFINE o == Odd(imm)
               left == Bits - Zeros(imm)
    <3>1. rem = Bits /\ Shifting(imm)
      BY <2>2, <2>3 DEF Shifting
    <3>2. o \in Wides /\ left \in (0 .. ImmBits) \cup {Bits} /\ Low(o, left)
      BY <1>3, <3>1
    <3> HIDE DEF o, left, g0, g1, g2
    <3>3. g0[<<o, left>>] = Search(<<>>, o, left) /\ g1[<<o, left>>] = Search(g0, o, left)
          /\ g2[<<o, left>>] = Search(g1, o, left)
      BY <1>2, <3>2
    <3>4. Search(<<>>, o, left) = Search(g0, o, left) /\ Search(g0, o, left) = Search(g1, o, left)
      <4>1. QED
        BY <1>1, <3>2
    <3>5. \A g : Search(g, imm, rem) = AddInstr(g[<<o, left>>], I("SHL", Zeros(imm)))
      BY <2>2, <2>3, <3>1 DEF Search, o, left
    <3>6. QED
      BY <3>3, <3>4, <3>5
  <2>4. LowPart(imm) = 0 => /\ Search(g1, imm, rem) = Search(g0, imm, rem)
                            /\ Search(g2, imm, rem) = Search(g1, imm, rem)
    <3> HIDE DEF g0, g1, g2, Low
    <3>1. QED
      BY <2>1, <2>3
  <2> HIDE DEF g0, g1, g2, Low
  <2>5. QED
    BY <2>1, <2>4
<1>5. ASSUME NEW imm \in Wides, NEW rem \in (0 .. ImmBits) \cup {Bits}
      PROVE  Search(g2, imm, rem) = Search(g1, imm, rem)
  <2>1. CASE LowPart(imm) = 0 \/ Low(imm, rem)
    <3> HIDE DEF g0, g1, g2, Low
    <3>1. QED
      BY <1>4, <2>1
  <2>2. CASE LowPart(imm) # 0 /\ ~Low(imm, rem)
    <3>1. rem = Bits
      BY <2>2, Widths
    <3> DEFINE r == Raised(imm)
               u == HighPart(imm)
    <3>2. r \in Wides /\ LowPart(r) = 0 /\ u \in Wides /\ LowPart(u) = 0
      BY Upper, Lifted
    <3> HIDE DEF r, u, g0, g1, g2
    <3>3. /\ g2[<<r, rem>>] = Search(g1, r, rem) /\ g1[<<r, rem>>] = Search(g0, r, rem)
          /\ g2[<<u, rem>>] = Search(g1, u, rem) /\ g1[<<u, rem>>] = Search(g0, u, rem)
      BY <1>2, <3>2
    <3> HIDE DEF Low
    <3>4. Search(g1, r, rem) = Search(g0, r, rem) /\ Search(g1, u, rem) = Search(g0, u, rem)
      BY <1>4, <3>2
    <3>5. \A g : Search(g, imm, rem) =
                  AddInstr(g[<<r, rem>>], I("ADDiu", LowPart(imm)))
                    \o IF LowPart(imm) < Power[ImmBits - 1] THEN <<>>
                       ELSE AddInstr(g[<<u, rem>>], I("ORi", LowPart(imm)))
      BY <2>2 DEF Search, Low, r, u
    <3>6. QED
      BY <3>3, <3>4, <3>5
  <2>3. QED
    BY <2>1, <2>2
<1>6. ASSUME NEW p \in Pairs PROVE Search(g2, p[1], p[2]) = Search(g1, p[1], p[2])
  <2>1. p[1] \in Wides /\ p[2] \in (0 .. ImmBits) \cup {Bits}
    BY DEF Pairs
  <2> HIDE DEF g1, g2
  <2>2. QED
    BY <1>5, <2>1
<1>7. g2 = [p \in Pairs |-> Search(g2, p[1], p[2])]
  <2>1. g2 = [p \in Pairs |-> Search(g1, p[1], p[2])]
    OBVIOUS
  <2> HIDE DEF g1, g2
  <2>2. [p \in Pairs |-> Search(g1, p[1], p[2])] = [p \in Pairs |-> Search(g2, p[1], p[2])]
    BY <1>6
  <2>3. QED
    BY <2>1, <2>2
<1> HIDE DEF g2
<1>8. QED
  BY <1>7

LEMMA SearchRound ==
  ASSUME NEW imm \in Wides, NEW rem \in (0 .. ImmBits) \cup {Bits}
  PROVE  GetInstSeqLs[<<imm, rem>>] = Search(GetInstSeqLs, imm, rem)
<1> DEFINE IsSearch(g) == g = [p \in Pairs |-> Search(g, p[1], p[2])]
           c == CHOOSE g : IsSearch(g)
<1>1. IsSearch(c)
  BY SearchExists
<1>2. GetInstSeqLs = c
  BY DEF GetInstSeqLs, Search, Pairs, Wides, Odd, Zeros
<1> HIDE DEF c
<1>3. <<imm, rem>> \in Pairs
  BY DEF Pairs
<1>4. c[<<imm, rem>>] = Search(c, imm, rem)
  BY <1>1, <1>3
<1>5. QED
  BY <1>2, <1>4

\* An ADDiu and a shift for an immediate without lower part, and an instruction
\* that comes after whatever is there for it.
ImmInsts == [op : {"LUi", "ORi", "ADDiu", "SHL"}, imm : Int]
Adds(imm) == I("ADDiu", Odd(imm) % Modulus)
Shifts(imm) == I("SHL", Zeros(imm))
Ending(imm, i) == IF imm % Modulus = 0 THEN <<i>> ELSE <<Adds(imm), Shifts(imm), i>>

LEMMA PairInsts ==
  ASSUME NEW imm, Shifting(imm)
  PROVE  Adds(imm) \in ImmInsts /\ Shifts(imm) \in ImmInsts
<1>1. Odd(imm) % Modulus \in Int /\ Zeros(imm) \in Int
  <2>1. Odd(imm) \in Int /\ Modulus \in Nat /\ Modulus > 0
    BY OddLeft, Widths
  <2>2. Zeros(imm) \in ImmBits .. Bits - 1
    BY ZerosCounted
  <2>3. QED
    BY <2>1, <2>2, Widths, Division
<1>2. QED
  BY <1>1 DEF Adds, Shifts, I, ImmInsts

\* An instruction added to one sequence.
LEMMA AddedOne ==
  ASSUME NEW A, NEW s \in Seq(A), NEW i
  PROVE  AddInstr(<<s>>, i) = <<Append(s, i)>>
<1> DEFINE l == <<s>>
           r == [k \in DOMAIN l |-> Append(l[k], i)]
           t == Append(s, i)
<1>1. l # <<>> /\ DOMAIN l = 1 .. 1 /\ l[1] = s
  OBVIOUS
<1>2. AddInstr(l, i) = r
  BY <1>1 DEF AddInstr
<1> HIDE DEF l
<1>3. r = [k \in 1 .. 1 |-> t]
  BY <1>1
<1> HIDE DEF r, t
<1>4. [k \in 1 .. 1 |-> t] = <<t>>
  OBVIOUS
<1>5. QED
  BY <1>2, <1>3, <1>4 DEF l, t

LEMMA AppendedOne ==
  ASSUME NEW A, NEW a \in A, NEW b \in A
  PROVE  Append(<<a>>, b) = <<a, b>> /\ <<a>> \in Seq(A)
<1> DEFINE s == <<a>>
           t == Append(s, b)
           u == <<a, b>>
<1>1. s \in Seq(A) /\ Len(s) = 1 /\ s[1] = a
  OBVIOUS
<1>2. u \in Seq(A) /\ Len(u) = 2 /\ u[1] = a /\ u[2] = b
  OBVIOUS
<1> HIDE DEF s, u
<1>3. t \in Seq(A) /\ Len(t) = 2 /\ t[1] = a /\ t[2] = b
  <2>1. /\ t \in Seq(A) /\ Len(t) = Len(s) + 1
        /\ \A i \in 1 .. Len(s) : t[i] = s[i]
        /\ t[Len(s) + 1] = b
    BY <1>1, Appended
  <2> HIDE DEF t
  <2>2. QED
    BY <1>1, <2>1
<1> HIDE DEF t
<1>4. \A i \in 1 .. Len(t) : t[i] = u[i]
  BY <1>2, <1>3
<1>5. t = u
  BY <1>2, <1>3, <1>4, SeqEqual
<1>6. QED
  BY <1>1, <1>5 DEF s, t, u

\* What is found without a lower part,
LEMMA FoundShift ==
  ASSUME NEW imm, Shifting(imm)
  PROVE  GetInstSeqLs[<<imm, Bits>>] = <<<<Adds(imm), Shifts(imm)>>>>
<1> DEFINE o == Odd(imm)
           left == Bits - Zeros(imm)
<1>1. /\ imm \in Wides /\ imm % Modulus # 0 /\ LowPart(imm) = 0
      /\ Bits \in (0 .. ImmBits) \cup {Bits}
  BY DEF Shifting
<1>2. /\ left \in (0 .. ImmBits) \cup {Bits} /\ left <= ImmBits /\ ~(Bits <= ImmBits)
  <2>1. Zeros(imm) \in ImmBits .. Bits - 1 /\ ImmBits \in Nat /\ ImmBits >= 2 /\ Bits = 2 * ImmBits
    BY ZerosCounted, WidthAssumption
  <2> DEFINE n == Zeros(imm)
  <2> HIDE DEF n
  <2>2. Bits - n \in 0 .. ImmBits /\ Bits - n <= ImmBits /\ ~(Bits <= ImmBits)
    BY <2>1 DEF n
  <2>3. QED
    BY <2>2 DEF n
<1>3. o \in Wides /\ o % Modulus # 0
  BY OddLeft
<1> HIDE DEF o, left
<1>4. GetInstSeqLs[<<o, left>>] = <<<<Adds(imm)>>>>
  <2>1. GetInstSeqLs[<<o, left>>] = Search(GetInstSeqLs, o, left)
    BY <1>2, <1>3, SearchRound
  <2>2. QED
    BY <1>2, <1>3, <2>1 DEF Search, Adds, o
<1>5. GetInstSeqLs[<<imm, Bits>>] = AddInstr(GetInstSeqLs[<<o, left>>], Shifts(imm))
  <2>1. GetInstSeqLs[<<imm, Bits>>] = Search(GetInstSeqLs, imm, Bits)
    BY <1>1, SearchRound
  <2>2. QED
    BY <1>1, <1>2, <2>1 DEF Search, Shifts, o, left
<1>6. Append(<<Adds(imm)>>, Shifts(imm)) = <<Adds(imm), Shifts(imm)>>
      /\ <<Adds(imm)>> \in Seq(ImmInsts)
  BY PairInsts, AppendedOne
<1>7. AddInstr(<<<<Adds(imm)>>>>, Shifts(imm)) = <<Append(<<Adds(imm)>>, Shifts(imm))>>
  BY <1>6, AddedOne
<1>8. QED
  BY <1>4, <1>5, <1>6, <1>7

\* after it,
LEMMA FoundUpper ==
  ASSUME NEW imm \in Wides, LowPart(imm) = 0, NEW i \in ImmInsts
  PROVE  AddInstr(GetInstSeqLs[<<imm, Bits>>], i) = <<Ending(imm, i)>>
<1>1. CASE imm % Modulus = 0
  <2>1. GetInstSeqLs[<<imm, Bits>>] = Search(GetInstSeqLs, imm, Bits)
    BY SearchRound
  <2>2. GetInstSeqLs[<<imm, Bits>>] = <<>>
    BY <1>1, <2>1 DEF Search
  <2>3. QED
    BY <1>1, <2>2 DEF AddInstr, Ending
<1>2. CASE imm % Modulus # 0
  <2> DEFINE a == Adds(imm)
             b == Shifts(imm)
  <2>1. Shifting(imm)
    BY <1>2 DEF Shifting
  <2>2. GetInstSeqLs[<<imm, Bits>>] = <<<<a, b>>>> /\ a \in ImmInsts /\ b \in ImmInsts
    BY <2>1, FoundShift, PairInsts
  <2>3. Ending(imm, i) = <<a, b, i>>
    BY <1>2 DEF Ending
  <2> HIDE DEF a, b
  <2>4. Append(<<a, b>>, i) = <<a, b, i>>
    BY <2>2, AppendedTwo
  <2>5. <<a, b>> \in Seq(ImmInsts)
    BY <2>2
  <2>6. AddInstr(<<<<a, b>>>>, i) = <<Append(<<a, b>>, i)>>
    BY <2>5, AddedOne
  <2>7. QED
    BY <2>2, <2>3, <2>4, <2>6
<1>3. QED
  BY <1>1, <1>2

\* and with one.
LEMMA Found ==
  ASSUME NEW imm \in Wides, imm % Modulus # 0, LowPart(imm) # 0
  PROVE  LET a == Ending(Raised(imm), I("ADDiu", LowPart(imm)))
             b == Ending(HighPart(imm), I("ORi", LowPart(imm)))
         IN  GetInstSeqLs[<<imm, Bits>>] \in {<<a>>, <<a, b>>}
<1> DEFINE low == LowPart(imm)
           a == Ending(Raised(imm), I("ADDiu", low))
           b == Ending(HighPart(imm), I("ORi", low))
           r == AddInstr(GetInstSeqLs[<<Raised(imm), Bits>>], I("ADDiu", low))
           u == AddInstr(GetInstSeqLs[<<HighPart(imm), Bits>>], I("ORi", low))
<1>1. low \in Int
  <2>1. imm \in Int /\ Power[ImmBits] \in Nat /\ Power[ImmBits] > 0
    BY Widths DEF Wides
  <2>2. QED
    BY <2>1, Division DEF LowPart
<1> HIDE DEF low
<1>2. I("ADDiu", low) \in ImmInsts /\ I("ORi", low) \in ImmInsts
  BY <1>1 DEF I, ImmInsts
<1>3. r = <<a>> /\ u = <<b>>
  BY <1>2, Upper, Lifted, FoundUpper
<1>4. GetInstSeqLs[<<imm, Bits>>] = r \o IF low < Power[ImmBits - 1] THEN <<>> ELSE u
  <2>1. GetInstSeqLs[<<imm, Bits>>] = Search(GetInstSeqLs, imm, Bits)
    BY SearchRound
  <2>2. ~(Bits <= ImmBits)
    BY WidthAssumption
  <2>3. QED
    BY <2>1, <2>2 DEF Search, low
<1> HIDE DEF a, b, r, u
<1>5. r \o u = <<a, b>> /\ r \o <<>> = <<a>>
  <2> DEFINE A == {a, b}
  <2>1. <<a>> \in Seq(A) /\ a \in A /\ b \in A
    OBVIOUS
  <2> HIDE DEF A
  <2>2. Append(<<a>>, b) = <<a>> \o <<b>>
    BY <2>1, AppendIsConcat
  <2>3. Append(<<a>>, b) = <<a, b>>
    BY <2>1, AppendedOne
  <2>4. <<a>> \o <<>> = <<a>>
    BY <2>1, ConcatEmptySeq
  <2>5. QED
    BY <1>3, <2>2, <2>3, <2>4
<1>6. QED
  BY <1>4, <1>5 DEF a, b, low

-----------------------------------------------------------------------------
(* What a sequence leaves in the register. *)

Step(i, x) == Result(i.op, x, SignExtend(i.imm))
Left(seq) ==
  LET at[k \in 0 .. Len(seq)] ==
        IF k = 0 THEN 0 ELSE Result(seq[k].op, at[k - 1], SignExtend(seq[k].imm))
  IN  at[Len(seq)]

\* Constants are sign-extended as their fields are.
LEMMA ExtendedField ==
  ASSUME NEW y \in Int
  PROVE  /\ SignExtend(y) = Field(y) /\ SignExtend(y) \in Int
         /\ uc16(SignExtend(y)) = uc16(y)
         /\ isInt16(y) => SignExtend(y) = y
<1>1. SignExtend(y) = Field(y)
  BY Widths DEF SignExtend, Field
<1>2. QED
  BY <1>1, FieldOf DEF isInt16, simm16

LEMMA StepWord ==
  ASSUME NEW i \in ImmInsts, NEW x \in SignedWord
  PROVE  Step(i, x) \in SignedWord
<1>1. i.op \in {"LUi", "ORi", "ADDiu", "SHL"} /\ i.imm \in Int
  BY DEF ImmInsts
<1>2. QED
  BY <1>1, ExtendedField, WordResult DEF Step

LEMMA LeftSteps ==
  ASSUME NEW seq, Len(seq) \in Nat, \A k \in 1 .. Len(seq) : seq[k] \in ImmInsts
  PROVE  \E h : /\ h[0] = 0 /\ Left(seq) = h[Len(seq)]
                /\ \A k \in 1 .. Len(seq) : h[k] = Step(seq[k], h[k - 1])
<1> DEFINE n == Len(seq)
           step == [k \in 1 .. n |-> [x \in SignedWord |-> Step(seq[k], x)]]
           IsRun(h) == h = [k \in 0 .. n |-> IF k = 0 THEN 0 ELSE Step(seq[k], h[k - 1])]
           g == CHOOSE h : IsRun(h)
<1>1. step \in [1 .. n -> [SignedWord -> SignedWord]]
  BY StepWord
<1>2. PICK h \in [0 .. n -> SignedWord] : IsChain(h, n, 0, step)
  <2>1. 0 \in SignedWord
    <3>1. SignBit \in Nat /\ SignBit >= 8
      BY Widths
    <3>2. QED
      BY ONLY <3>1 DEF SignedWord
  <2> HIDE DEF step
  <2>2. QED
    BY <1>1, <2>1, Chain
<1>3. IsRun(h)
  <2>1. ASSUME NEW k \in 0 .. n, k # 0 PROVE step[k][h[k - 1]] = Step(seq[k], h[k - 1])
    <3>1. k \in 1 .. n /\ h[k - 1] \in SignedWord
      BY <2>1
    <3>2. QED
      BY <3>1
  <2> HIDE DEF step
  <2>2. [k \in 0 .. n |-> IF k = 0 THEN 0 ELSE step[k][h[k - 1]]]
          = [k \in 0 .. n |-> IF k = 0 THEN 0 ELSE Step(seq[k], h[k - 1])]
    BY <2>1
  <2>3. QED
    BY <1>2, <2>2 DEF IsChain
<1>4. IsRun(g)
  BY <1>3
<1>5. Left(seq) = g[n]
  BY DEF Left, Step
<1> HIDE DEF g
<1>6. g[0] = 0 /\ \A k \in 1 .. n : g[k] = Step(seq[k], g[k - 1])
  BY <1>4
<1>7. QED
  BY <1>5, <1>6

\* Sequences of one, two and three instructions.
LEMMA LeftOne == ASSUME NEW i \in ImmInsts PROVE Left(<<i>>) = Step(i, 0)
<1> DEFINE seq == <<i>>
<1>1. Len(seq) = 1 /\ seq[1] = i
  OBVIOUS
<1> HIDE DEF seq
<1>2. Len(seq) \in Nat /\ \A k \in 1 .. Len(seq) : seq[k] \in ImmInsts
  BY <1>1
<1>3. PICK h : /\ h[0] = 0 /\ Left(seq) = h[Len(seq)]
               /\ \A k \in 1 .. Len(seq) : h[k] = Step(seq[k], h[k - 1])
  BY <1>2, LeftSteps
<1>4. h[1] = Step(i, h[0])
  BY <1>1, <1>3
<1>5. QED
  BY <1>1, <1>3, <1>4 DEF seq

LEMMA LeftTwo ==
  ASSUME NEW i \in ImmInsts, NEW j \in ImmInsts
  PROVE  Left(<<i, j>>) = Step(j, Step(i, 0))
<1> DEFINE seq == <<i, j>>
<1>1. Len(seq) = 2 /\ seq[1] = i /\ seq[2] = j
  OBVIOUS
<1> HIDE DEF seq
<1>2. Len(seq) \in Nat /\ \A k \in 1 .. Len(seq) : seq[k] \in ImmInsts
  BY <1>1
<1>3. PICK h : /\ h[0] = 0 /\ Left(seq) = h[Len(seq)]
               /\ \A k \in 1 .. Len(seq) : h[k] = Step(seq[k], h[k - 1])
  BY <1>2, LeftSteps
<1>4. h[1] = Step(i, h[0]) /\ h[2] = Step(j, h[1])
  BY <1>1, <1>3
<1>5. QED
  BY <1>1, <1>3, <1>4 DEF seq

LEMMA LeftThree ==
  ASSUME NEW i \in ImmInsts, NEW j \in ImmInsts, NEW l \in ImmInsts
  PROVE  Left(<<i, j, l>>) = Step(l, Step(j, Step(i, 0)))
<1> DEFINE seq == <<i, j, l>>
<1>1. Len(seq) = 3 /\ seq[1] = i /\ seq[2] = j /\ seq[3] = l
  OBVIOUS
<1> HIDE DEF seq
<1>2. Len(seq) \in Nat /\ \A k \in 1 .. Len(seq) : seq[k] \in ImmInsts
  BY <1>1
<1>3. PICK h : /\ h[0] = 0 /\ Left(seq) = h[Len(seq)]
               /\ \A k \in 1 .. Len(seq) : h[k] = Step(seq[k], h[k - 1])
  BY <1>2, LeftSteps
<1>4. h[1] = Step(i, h[0]) /\ h[2] = Step(j, h[1]) /\ h[3] = Step(l, h[2])
  BY <1>1, <1>3
<1>5. QED
  BY <1>1, <1>3, <1>4 DEF seq

\* Numbers that differ by words are the same word.
LEMMA SignedMultiple ==
  ASSUME NEW x \in Int, NEW q \in Int
  PROVE  S(x + q * Modulus) = S(x)
<1> DEFINE v == x + SignBit
           m == Modulus
<1>1. v \in Int /\ m \in Nat /\ m > 0 /\ SignBit \in Int
  BY Widths
<1>2. (v + q * m) % m = v % m
  <2> HIDE DEF v, m
  <2>1. QED
    BY <1>1, DivisionShift
<1>3. (x + q * m) + SignBit = v + q * m
  <2> DEFINE t == q * m
  <2>1. t \in Int
    BY <1>1
  <2> HIDE DEF t, m
  <2>2. (x + t) + SignBit = v + t
    BY <1>1, <2>1
  <2>3. QED
    BY <2>2 DEF t
<1>4. QED
  BY <1>2, <1>3 DEF S

LEMMA SignedRemainder ==
  ASSUME NEW x \in Int
  PROVE  S(x % Modulus) = S(x) /\ x % Modulus \in Int
<1> DEFINE q == x \div Modulus
           r == x % Modulus
<1>1. q \in Int /\ r \in Int /\ x = q * Modulus + r /\ Modulus \in Int
  <2>1. Modulus \in Nat /\ Modulus > 0
    BY Widths
  <2>2. QED
    BY <2>1, Division
<1> HIDE DEF q, r
<1>2. q * Modulus + r = r + q * Modulus
  BY <1>1
<1>3. S(r + q * Modulus) = S(r)
  BY <1>1, SignedMultiple
<1>4. QED
  BY <1>1, <1>2, <1>3 DEF r

\* Equal remainders.
LEMMA SameRemainder ==
  ASSUME NEW x \in Int, NEW y \in Int, NEW m \in Nat, m > 0, x % m = y % m
  PROVE  \E j \in Int : x = y + j * m
<1> DEFINE p == x \div m
           q == y \div m
           r == y % m
<1>1. p \in Int /\ q \in Int /\ r \in Int /\ x = p * m + r /\ y = q * m + r
  BY Division
<1> HIDE DEF p, q, r
<1>2. p - q \in Int /\ x = y + (p - q) * m
  <2>1. (p - q) * m = p * m - q * m /\ p * m \in Int /\ q * m \in Int
    BY <1>1
  <2>2. QED
    BY <1>1, <2>1
<1>3. QED
  BY <1>2

\* Shifts multiply.
LEMMA ShiftedWord ==
  ASSUME NEW x \in Int, NEW n \in ImmBits .. Bits - 1
  PROVE  Result("SHL", S(x), SignExtend(n)) = S(x * Power[n])
<1> DEFINE p == Power[n]
           u == x % Modulus
           q == x \div Modulus
<1>1. /\ n \in Int /\ n \in 0 .. Bits - 1 /\ n \in Nat /\ isInt16(n)
      /\ Modulus \in Nat /\ Modulus > 0
  BY Widths, AmountAssumption DEF isInt16
<1>2. c5(SignExtend(n)) = n
  BY <1>1, ExtendedField, Amounts
<1>3. p \in Nat
  BY <1>1, PowerPositive
<1>4. U(S(x)) = u
  BY SignedUnsigned
<1>5. u \in Int /\ q \in Int /\ x = q * Modulus + u
  BY <1>1, Division
<1>6. Result("SHL", S(x), SignExtend(n)) = S((u * p) % Modulus)
  BY <1>1, <1>2, <1>4 DEF Result, ShiftLeft
<1> HIDE DEF p, q, u
<1>7. S((u * p) % Modulus) = S(u * p)
  BY <1>3, <1>5, SignedRemainder
<1>8. x * p = u * p + (q * p) * Modulus /\ u * p \in Int /\ q * p \in Int
  <2> DEFINE m == Modulus
  <2>1. m \in Int /\ x = q * m + u
    BY <1>1, <1>5
  <2> HIDE DEF m
  <2>2. (q * m + u) * p = (q * m) * p + u * p /\ (q * m) * p = (q * p) * m
        /\ u * p \in Int /\ q * p \in Int /\ (q * m) * p \in Int
    BY <1>3, <1>5, <2>1
  <2>3. QED
    BY <2>1, <2>2 DEF m
<1>9. S(x * p) = S(u * p)
  BY <1>8, SignedMultiple
<1>10. QED
  BY <1>6, <1>7, <1>9 DEF p

\* The upper half from a constant.
LEMMA UpperWord ==
  ASSUME NEW v \in Int, NEW x
  PROVE  Result("LUi", x, SignExtend(LowPart(v))) = S(v * Power[ImmBits])
<1> DEFINE p == Power[ImmBits]
           r == v % p
           k == v \div p
<1>1. p \in Nat /\ p > 0 /\ Modulus = p * p
  BY Widths
<1>2. r \in Int /\ k \in Int /\ 0 <= r /\ r < p /\ v = k * p + r
  <2> HIDE DEF p
  <2>1. QED
    BY <1>1, Division
<1>3. uc16(SignExtend(LowPart(v))) = r
  <2>1. LowPart(v) = r
    BY DEF LowPart
  <2>2. r \in 0 .. p - 1
    <3> HIDE DEF r, p
    <3>1. QED
      BY <1>1, <1>2
  <2> HIDE DEF r
  <2>3. r % Power[ImmBits] = r
    BY <2>2, SmallRemainder
  <2>4. QED
    BY <1>2, <2>1, <2>3, ExtendedField DEF uc16
<1>4. Result("LUi", x, SignExtend(LowPart(v))) = S(r * p)
  BY <1>3 DEF Result
<1> HIDE DEF p, r, k
<1>5. v * p = r * p + k * (p * p) /\ r * p \in Int
  <2>1. (k * p + r) * p = (k * p) * p + r * p /\ (k * p) * p = k * (p * p) /\ r * p \in Int
        /\ k * (p * p) \in Int
    BY <1>1, <1>2
  <2>2. QED
    BY <1>2, <2>1
<1>6. S(r * p + k * Modulus) = S(r * p)
  BY <1>2, <1>5, SignedMultiple
<1>7. QED
  BY <1>1, <1>4, <1>5, <1>6 DEF p

\* A pair of an ADDiu and a shift leaves its immediate, and so does the LUi
\* that may take its place.
Upward(imm) == SignExtend(Odd(imm) % Modulus) * Power[Zeros(imm) - ImmBits]

LEMMA PairLeaves ==
  ASSUME NEW imm, Shifting(imm)
  PROVE  /\ Step(Shifts(imm), Step(Adds(imm), 0)) = S(imm)
         /\ Step(I("LUi", LowPart(Upward(imm))), 0) = S(imm)
         /\ Upward(imm) \in Int
<1> DEFINE n == Zeros(imm)
           p == Power[ImmBits]
           e == Power[n - ImmBits]
           w == Power[n]
           d == Odd(imm)
           m == d % Modulus
           k == d \div Modulus
           y == SignExtend(m)
<1>1. n \in ImmBits .. Bits - 1 /\ n - ImmBits \in Nat /\ n \in Nat /\ (n - ImmBits) + ImmBits = n
      /\ ImmBits \in Nat
  <2>1. n \in ImmBits .. Bits - 1 /\ ImmBits \in Nat
    BY ZerosCounted, Widths
  <2> HIDE DEF n
  <2>2. QED
    BY <2>1
<1>2. e \in Nat /\ p \in Nat /\ p > 0 /\ w = e * p /\ w \in Nat /\ Modulus = p * p
      /\ Modulus \in Nat /\ Modulus > 0
  <2>1. Power[(n - ImmBits) + ImmBits] = e * p
    BY <1>1, PowerSum
  <2>2. QED
    BY <1>1, <2>1, PowerPositive, Widths
<1>3. d \in Int /\ imm = d * w
  BY OddLeft
<1>4. m \in Int /\ k \in Int /\ d = k * Modulus + m
  <2> HIDE DEF d
  <2>1. QED
    BY <1>2, <1>3, Division
<1>5. y \in Int /\ \E j \in Int : y = m + j * p
  <2> HIDE DEF m
  <2>1. y \in Int /\ uc16(y) = uc16(m)
    BY <1>4, ExtendedField
  <2>2. y % p = m % p
    BY <2>1 DEF uc16
  <2> HIDE DEF y, p
  <2>3. QED
    BY <1>2, <1>4, <2>1, <2>2, SameRemainder
<1>6. Upward(imm) = y * e
  BY DEF Upward
<1>7. Step(Adds(imm), 0) = S(y)
  <2>1. Step(Adds(imm), 0) = S(0 + y)
    BY DEF Step, Adds, I, Result
  <2> HIDE DEF y
  <2>2. 0 + y = y
    BY <1>5
  <2>3. QED
    BY <2>1, <2>2
<1>8. Step(Shifts(imm), S(y)) = S(y * w)
  <2>1. Step(Shifts(imm), S(y)) = Result("SHL", S(y), SignExtend(n))
    BY DEF Step, Shifts, I
  <2> HIDE DEF y, n
  <2>2. Result("SHL", S(y), SignExtend(n)) = S(y * Power[n])
    BY <1>1, <1>5, ShiftedWord
  <2>3. QED
    BY <2>1, <2>2
<1> HIDE DEF n, p, e, w, d, m, k, y
<1>9. Upward(imm) \in Int
  BY <1>2, <1>5, <1>6
<1>10. Step(I("LUi", LowPart(Upward(imm))), 0) = S(y * w)
  <2>1. Step(I("LUi", LowPart(Upward(imm))), 0) = S(Upward(imm) * p)
    <3>1. Step(I("LUi", LowPart(Upward(imm))), 0)
            = Result("LUi", 0, SignExtend(LowPart(Upward(imm))))
      BY DEF Step, I
    <3>2. QED
      BY <1>9, <3>1, UpperWord DEF p
  <2>2. (y * e) * p = y * (e * p)
    BY <1>2, <1>5
  <2>3. QED
    BY <1>2, <1>6, <2>1, <2>2
<1>11. S(y * w) = S(imm)
  <2>1. PICK j \in Int : y = m + j * p
    BY <1>5
  <2> DEFINE q == j * e - k * w
  <2>2. q \in Int
    BY <1>2, <1>4, <2>1
  <2>3. y * w = imm + q * Modulus /\ imm \in Int
    <3>1. (m + j * p) * w = m * w + (j * p) * (e * p)
      BY <1>2, <1>4, <2>1
    <3>2. (j * p) * (e * p) = (j * e) * (p * p) /\ (j * p) * (e * p) \in Int
      BY <1>2, <2>1
    <3>3. imm = (k * Modulus + m) * w
      BY <1>3, <1>4
    <3>4. (k * Modulus + m) * w = (k * w) * Modulus + m * w /\ (k * w) * Modulus \in Int
          /\ m * w \in Int
      BY <1>2, <1>4
    <3>5. q * Modulus = (j * e) * Modulus - (k * w) * Modulus /\ (j * e) * Modulus \in Int
      BY <1>2, <1>4, <2>1
    <3> DEFINE a == m * w
               b == (j * e) * Modulus
               c == (k * w) * Modulus
               x == q * Modulus
               z == y * w
    <3>6. z = a + b /\ imm = c + a /\ x = b - c /\ a \in Int /\ b \in Int /\ c \in Int
      BY <1>2, <2>1, <3>1, <3>2, <3>3, <3>4, <3>5
    <3> HIDE DEF a, b, c, x, z
    <3>7. z = imm + x /\ imm \in Int
      BY <3>6
    <3>8. QED
      BY <3>7 DEF x, z
  <2> HIDE DEF q
  <2>4. QED
    BY <2>2, <2>3, SignedMultiple
<1>12. QED
  BY <1>7, <1>8, <1>9, <1>10, <1>11

\* A sequence that leaves v, of which only the first instruction may be a LUi.
Leaves(seq, v) ==
  /\ Left(seq) = v /\ Len(seq) \in 1 .. 7
  /\ \A k \in 2 .. Len(seq) : seq[k].op # "LUi"

LEMMA OneLeaves ==
  ASSUME NEW i \in ImmInsts
  PROVE  /\ Leaves(<<i>>, Step(i, 0)) /\ ReplaceADDiuSHLWithLUi(<<i>>) = <<i>>
<1> DEFINE s == <<i>>
<1>1. Len(s) = 1
  OBVIOUS
<1>2. Left(s) = Step(i, 0)
  BY LeftOne
<1> HIDE DEF s
<1>3. ReplaceADDiuSHLWithLUi(s) = s
  BY <1>1 DEF ReplaceADDiuSHLWithLUi
<1>4. QED
  BY <1>1, <1>2, <1>3 DEF Leaves, s

\* A pair leaves its immediate before and after its replacement.
LEMMA ReplacedPair ==
  ASSUME NEW imm, Shifting(imm)
  PROVE  Leaves(ReplaceADDiuSHLWithLUi(<<Adds(imm), Shifts(imm)>>), S(imm))
<1> DEFINE a == Adds(imm)
           b == Shifts(imm)
           c == I("LUi", LowPart(Upward(imm)))
           seq == <<a, b>>
<1>1. /\ a \in ImmInsts /\ b \in ImmInsts /\ Zeros(imm) >= ImmBits /\ Upward(imm) \in Int
      /\ Step(b, Step(a, 0)) = S(imm) /\ Step(c, 0) = S(imm)
  BY PairInsts, ZerosCounted, Widths, PairLeaves
<1>2. c \in ImmInsts
  <2>1. LowPart(Upward(imm)) \in Int
    BY <1>1, Widths, Division DEF LowPart
  <2>2. QED
    BY <2>1 DEF I, ImmInsts
<1>3. /\ Len(seq) = 2 /\ seq[1] = a /\ seq[2] = b
      /\ a.op = "ADDiu" /\ a.imm = Odd(imm) % Modulus /\ b.op = "SHL" /\ b.imm = Zeros(imm)
  BY DEF Adds, Shifts, I
<1>4. Leaves(<<c>>, S(imm))
  BY <1>1, <1>2, OneLeaves
<1>5. Leaves(seq, S(imm))
  <2>1. Left(<<a, b>>) = S(imm)
    BY <1>1, LeftTwo
  <2> HIDE DEF a, b
  <2>2. QED
    BY <1>3, <2>1 DEF Leaves
<1>6. SubSeq(seq, 3, Len(seq)) = <<>> /\ <<c>> \o <<>> = <<c>>
  <2> HIDE DEF a, b, c
  <2>1. SubSeq(seq, 3, 2) = <<>>
    BY SubSeqEmpty
  <2>2. <<c>> \in Seq({c})
    OBVIOUS
  <2>3. <<c>> \o <<>> = <<c>>
    BY <2>2, ConcatEmptySeq
  <2>4. QED
    BY <1>3, <2>1, <2>3
<1> HIDE DEF seq, a, b
<1>7. ReplaceADDiuSHLWithLUi(seq)
        = IF isInt16(Upward(imm)) THEN <<c>> \o SubSeq(seq, 3, Len(seq)) ELSE seq
  <2>1. SignExtend(seq[1].imm) * Power[seq[2].imm - ImmBits] = Upward(imm)
    BY <1>3 DEF Upward
  <2>2. QED
    BY <1>1, <1>3, <2>1 DEF ReplaceADDiuSHLWithLUi
<1> HIDE DEF c
<1>8. QED
  BY <1>4, <1>5, <1>6, <1>7 DEF seq, a, b

\* What comes after finds it there.
LEMMA ReplacedEnding ==
  ASSUME NEW imm \in Wides, LowPart(imm) = 0, NEW i \in ImmInsts, i.op # "LUi"
  PROVE  Leaves(ReplaceADDiuSHLWithLUi(Ending(imm, i)), Step(i, S(imm)))
<1>1. CASE imm % Modulus = 0
  <2>1. S(imm) = 0
    <3>1. imm \in Int /\ Modulus \in Nat /\ Modulus > 0
      BY Widths DEF Wides
    <3>2. S(imm % Modulus) = S(imm)
      BY <3>1, SignedRemainder
    <3>3. 0 \in SignedWord
      BY Widths DEF SignedWord
    <3>4. S(0) = 0
      BY <3>3, SignedSame
    <3>5. QED
      BY <1>1, <3>2, <3>4
  <2>2. Ending(imm, i) = <<i>>
    BY <1>1 DEF Ending
  <2>3. QED
    BY <2>1, <2>2, OneLeaves
<1>2. CASE imm % Modulus # 0
  <2> DEFINE a == Adds(imm)
             b == Shifts(imm)
             c == I("LUi", LowPart(Upward(imm)))
             seq == <<a, b, i>>
  <2>0. Shifting(imm)
    BY <1>2 DEF Shifting
  <2>1. /\ a \in ImmInsts /\ b \in ImmInsts /\ Zeros(imm) >= ImmBits /\ Upward(imm) \in Int
        /\ Step(b, Step(a, 0)) = S(imm) /\ Step(c, 0) = S(imm)
    BY <2>0, PairInsts, ZerosCounted, Widths, PairLeaves
  <2>2. c \in ImmInsts
    <3>1. LowPart(Upward(imm)) \in Int
      BY <2>1, Widths, Division DEF LowPart
    <3>2. QED
      BY <3>1 DEF I, ImmInsts
  <2>3. /\ Len(seq) = 3 /\ seq[1] = a /\ seq[2] = b /\ seq[3] = i
        /\ a.op = "ADDiu" /\ a.imm = Odd(imm) % Modulus /\ b.op = "SHL" /\ b.imm = Zeros(imm)
    BY DEF Adds, Shifts, I
  <2>4. Ending(imm, i) = seq
    BY <1>2 DEF Ending
  <2> HIDE DEF a, b, c
  <2>5. Leaves(<<c, i>>, Step(i, S(imm)))
    <3>1. Left(<<c, i>>) = Step(i, S(imm))
      BY <2>1, <2>2, LeftTwo
    <3>2. Len(<<c, i>>) = 2 /\ <<c, i>>[2] = i
      OBVIOUS
    <3>3. QED
      BY <3>1, <3>2 DEF Leaves
  <2>6. Leaves(seq, Step(i, S(imm)))
    <3>1. Left(seq) = Step(i, S(imm))
      BY <2>1, LeftThree
    <3> HIDE DEF seq
    <3>2. \A k \in 2 .. 3 : seq[k].op # "LUi"
      <4>1. \A k \in 2 .. 3 : k = 2 \/ k = 3
        OBVIOUS
      <4>2. QED
        BY <2>3, <4>1
    <3>3. QED
      BY <2>3, <3>1, <3>2 DEF Leaves
  <2>7. <<c>> \o SubSeq(seq, 3, Len(seq)) = <<c, i>>
    <3> DEFINE u == SubSeq(seq, 3, Len(seq))
    <3>1. seq \in Seq(ImmInsts) /\ 3 \in 1 .. Len(seq) /\ Len(seq) = 3
      BY <2>1, <2>3
    <3>2. u = <<i>>
      <4> HIDE DEF seq
      <4>1. \A k \in 3 .. 3 : seq[k] \in ImmInsts
        <5>1. \A k \in 3 .. 3 : k = 3
          OBVIOUS
        <5>2. QED
          BY <2>3, <5>1
      <4>2. SubSeq(seq, 3, 3) \in Seq(ImmInsts)
        BY <4>1, SubSeqProperties
      <4>3. Len(SubSeq(seq, 3, 3)) = IF 3 <= 3 THEN 3 - 3 + 1 ELSE 0
        BY <4>1, SubSeqProperties
      <4>4. \A k \in 1 .. 3 - 3 + 1 : SubSeq(seq, 3, 3)[k] = seq[3 + k - 1]
        BY <4>1, SubSeqProperties
      <4> DEFINE v == SubSeq(seq, 3, 3)
                 e == <<i>>
      <4>5. e \in Seq(ImmInsts) /\ Len(e) = 1 /\ e[1] = i
        OBVIOUS
      <4> HIDE DEF v, e
      <4>6. v \in Seq(ImmInsts) /\ Len(v) = 1 /\ v[1] = i
        <5>1. Len(v) = 1
          BY <4>3 DEF v
        <5>2. v[1] = seq[3 + 1 - 1]
          BY <4>4 DEF v
        <5>3. 3 + 1 - 1 = 3
          OBVIOUS
        <5>4. QED
          BY <2>3, <4>2, <5>1, <5>2, <5>3 DEF v
      <4>7. \A k \in 1 .. Len(v) : v[k] = e[k]
        BY <4>5, <4>6
      <4>8. v = e
        BY <4>5, <4>6, <4>7, SeqEqual
      <4>9. QED
        BY <3>1, <4>8 DEF v, e
    <3>3. <<c>> \in Seq(ImmInsts)
      BY <2>2
    <3>4. Append(<<c>>, i) = <<c>> \o <<i>> /\ Append(<<c>>, i) = <<c, i>>
      BY <2>2, <3>3, AppendIsConcat, AppendedOne
    <3>5. QED
      BY <3>2, <3>4
  <2> HIDE DEF seq
  <2>8. ReplaceADDiuSHLWithLUi(seq)
          = IF isInt16(Upward(imm)) THEN <<c>> \o SubSeq(seq, 3, Len(seq)) ELSE seq
    <3>1. SignExtend(seq[1].imm) * Power[seq[2].imm - ImmBits] = Upward(imm)
      BY <2>3 DEF Upward
    <3>2. QED
      BY <2>1, <2>3, <3>1 DEF ReplaceADDiuSHLWithLUi, c
  <2>9. QED
    BY <2>4, <2>5, <2>6, <2>7, <2>8
<1>3. QED
  BY <1>1, <1>2

\* An ADDiu of the lower part adds up with what is raised for it, an ORi with
\* the upper part.
LEMMA AddedUp ==
  ASSUME NEW imm \in Wides
  PROVE  /\ Step(I("ADDiu", LowPart(imm)), S(Raised(imm))) = S(imm)
         /\ Step(I("ORi", LowPart(imm)), S(HighPart(imm))) = S(imm)
<1> DEFINE p == Power[ImmBits]
           h == Power[ImmBits - 1]
           M == Modulus * Modulus
           low == LowPart(imm)
           y == SignExtend(low)
           v == imm + h
           z == v % M
           k == v \div M
<1>1. /\ p \in Nat /\ p > 0 /\ h \in Nat /\ M \in Nat /\ M > 0 /\ Modulus \in Nat /\ Modulus > 0
      /\ imm \in Int /\ M = Modulus * Modulus /\ Modulus = p * p
  <2>1. p \in Nat /\ p > 0 /\ h \in Nat /\ Modulus \in Nat /\ Modulus > 0 /\ Modulus = p * p
    BY Widths
  <2>2. M \in Nat /\ M > 0
    BY <2>1
  <2>3. imm \in Int
    BY <2>2 DEF Wides
  <2>4. QED
    BY <2>1, <2>2, <2>3
<1>2. low \in Int /\ low \in 0 .. p - 1 /\ uc16(low) = low /\ imm = (imm \div p) * p + low
      /\ imm \div p \in Int
  <2>1. low = imm % p
    BY DEF LowPart
  <2> HIDE DEF p, low
  <2>2. low \in 0 .. p - 1 /\ low \in Int /\ imm = (imm \div p) * p + low /\ imm \div p \in Int
    BY <1>1, <2>1, Division
  <2>3. low % Power[ImmBits] = low
    BY <2>2, SmallRemainder DEF p
  <2>4. QED
    BY <2>2, <2>3 DEF uc16
<1>3. Step(I("ADDiu", low), S(Raised(imm))) = S(Raised(imm) + y)
  <2> HIDE DEF low
  <2>1. Step(I("ADDiu", low), S(Raised(imm))) = S(S(Raised(imm)) + y)
    BY DEF Step, I, Result
  <2>2. Raised(imm) \in Int /\ y \in Int
    BY <1>2, Lifted, ExtendedField
  <2> HIDE DEF y
  <2>3. S(Raised(imm)) \in Int
    BY <2>2, SignedRange
  <2>4. S(Raised(imm)) + y = y + S(Raised(imm)) /\ Raised(imm) + y = y + Raised(imm)
    BY <2>2, <2>3
  <2>5. S(y + S(Raised(imm))) = S(y + Raised(imm))
    BY <2>2, SignedSum
  <2>6. QED
    BY <2>1, <2>4, <2>5
<1>4. S(Raised(imm) + y) = S(imm)
  <2>1. Raised(imm) = z - (z % p)
    BY DEF Raised, HighPart, LowPart, Imm64
  <2>2. y = ((low + h) % p) - h
    BY <1>2, ExtendedField DEF Field
  <2>3. v \in Int /\ z \in Int /\ k \in Int /\ v = k * M + z
    <3> HIDE DEF M, h
    <3>1. v \in Int
      BY <1>1
    <3> HIDE DEF v, z, k
    <3>2. M \in Nat /\ M > 0
      BY <1>1
    <3> HIDE DEF M
    <3>3. v \div M \in Int /\ v % M \in Int /\ v = (v \div M) * M + (v % M)
      BY ONLY <3>1, <3>2, Division
    <3>4. QED
      BY <3>1, <3>3 DEF z, k
  <2>4. z % p = (low + h) % p
    <3> DEFINE c == imm \div p
               q == Modulus * p
    <3>1. M = q * p /\ q \in Int
      BY <1>1
    <3> HIDE DEF M, z, k, low, y, p, h
    <3>2. v = (low + h) + c * p
      <4> DEFINE t == c * p
      <4>1. t \in Int /\ imm = t + low
        BY <1>1, <1>2
      <4> HIDE DEF t, c
      <4>2. imm + h = (low + h) + t
        BY <1>1, <1>2, <4>1
      <4>3. QED
        BY <4>2 DEF t
    <3> HIDE DEF v, c, q
    <3>3. low + h \in Int /\ c \in Int
      BY <1>1, <1>2 DEF c
    <3>4. v % p = (low + h) % p
      <4> DEFINE x == low + h
      <4>1. x \in Int /\ v = x + c * p
        BY <3>2, <3>3
      <4> HIDE DEF x
      <4>2. (x + c * p) % p = x % p
        <5>1. x \in Int /\ c \in Int /\ p \in Nat /\ p > 0
          BY <1>1, <3>3, <4>1
        <5>2. QED
          BY ONLY <5>1, DivisionShift
      <4>3. QED
        BY <4>1, <4>2 DEF x
    <3>5. v = z + (k * q) * p /\ k * q \in Int
      <4>1. k * (q * p) = (k * q) * p /\ k * (q * p) \in Int /\ k * q \in Int
        BY <1>1, <2>3, <3>1
      <4>2. QED
        BY <2>3, <3>1, <4>1
    <3> DEFINE j == k * q
    <3> HIDE DEF j
    <3>6. v = z + j * p /\ j \in Int
      BY <3>5 DEF j
    <3>7. (z + j * p) % p = z % p
      <4>1. z \in Int /\ j \in Int /\ p \in Nat /\ p > 0
        BY <1>1, <2>3, <3>6
      <4>2. QED
        BY ONLY <4>1, DivisionShift
    <3>8. QED
      BY <3>4, <3>6, <3>7
  <2> DEFINE r == z % p
  <2>5. r \in Int
    <3> HIDE DEF z, p
    <3>1. QED
      BY <1>1, <2>3, Division
  <2>6. y = r - h
    BY <2>2, <2>4
  <2>7. k * M = (k * Modulus) * Modulus /\ k * Modulus \in Int /\ k * M \in Int
    <3> HIDE DEF k
    <3>1. Modulus \in Int /\ k \in Int /\ M = Modulus * Modulus
      BY <1>1, <2>3
    <3> HIDE DEF M
    <3>2. QED
      BY ONLY <3>1
  <2> DEFINE t == k * M
             x == Raised(imm) + y
             j == k * Modulus
  <2> HIDE DEF r, M
  <2>8. x = imm - t
    <3> HIDE DEF z, k, y, h, t
    <3>1. imm + h = t + z /\ t \in Int
      BY <2>3, <2>7 DEF t
    <3>2. Raised(imm) + y = (z - r) + (r - h)
      BY <2>1, <2>6 DEF r
    <3>3. QED
      BY <1>1, <2>3, <2>5, <3>1, <3>2
  <2>9. imm = x + j * Modulus /\ x \in Int /\ j \in Int
    <3> HIDE DEF x, j, k
    <3>1. t \in Int /\ t = j * Modulus
      BY <2>7 DEF j
    <3> HIDE DEF t
    <3>2. imm = x + t /\ x \in Int
      BY <1>1, <2>8, <3>1
    <3>3. QED
      BY <2>7, <3>1, <3>2 DEF j
  <2> HIDE DEF x, j
  <2>10. S(x + j * Modulus) = S(x)
    BY <2>9, SignedMultiple
  <2>11. QED
    BY <2>9, <2>10 DEF x
<1>5. Step(I("ORi", low), S(HighPart(imm))) = S(imm)
  <2> DEFINE c == imm \div p
             q == c % p
             k2 == c \div p
             b == q * p
  <2>1. HighPart(imm) = imm - low
    BY DEF HighPart
  <2> HIDE DEF low
  <2>2. c \in Int /\ imm = c * p + low
    BY <1>2
  <2> HIDE DEF c
  <2>3. q \in 0 .. p - 1 /\ q \in Int /\ k2 \in Int /\ c = k2 * p + q
    <3> HIDE DEF p
    <3>1. QED
      BY <1>1, <2>2, Division
  <2> HIDE DEF q, k2
  <2>4. c * p = b + k2 * Modulus /\ b \in Int /\ c * p \in Int
    <3> HIDE DEF p
    <3>1. (k2 * p + q) * p = (k2 * p) * p + q * p /\ (k2 * p) * p = k2 * (p * p)
          /\ q * p \in Int /\ k2 * (p * p) \in Int
      BY <1>1, <2>3
    <3>2. QED
      BY <1>1, <2>3, <3>1
  <2> DEFINE d == c * p
             m == k2 * Modulus
  <2>5. m \in Int
    BY <1>1, <2>3
  <2> HIDE DEF p, b, d, m
  <2>6. d \in Int /\ imm = d + low /\ d = b + m /\ b \in Int
    BY <2>2, <2>4 DEF d, m
  <2>7. HighPart(imm) = b + m /\ imm = (b + low) + m
    BY <1>2, <2>1, <2>5, <2>6
  <2>8. S(HighPart(imm)) = S(b)
    BY <2>3, <2>6, <2>7, SignedMultiple DEF m
  <2>9. S(imm) = S(b + low)
    <3> DEFINE x == b + low
    <3>1. x \in Int /\ imm = x + k2 * Modulus
      BY <1>2, <2>6, <2>7 DEF m
    <3> HIDE DEF x
    <3>2. S(x + k2 * Modulus) = S(x)
      BY <2>3, <3>1, SignedMultiple
    <3>3. QED
      BY <3>1, <3>2 DEF x
  <2>10. Result("ORi", S(b), low) = S(b + low)
    BY <1>2, <2>3, OrLow DEF p, b
  <2>11. Step(I("ORi", low), S(b)) = Result("ORi", S(b), low)
    <3>1. uc16(SignExtend(low)) = uc16(low)
      BY <1>2, ExtendedField
    <3>2. QED
      BY <3>1 DEF Step, I, Result
  <2>12. QED
    BY <2>8, <2>9, <2>10, <2>11
<1>6. QED
  BY <1>3, <1>4, <1>5

\* Whatever sequence is the shortest leaves what all of them do.
LEMMA Shortest ==
  ASSUME NEW n \in {1, 2}, NEW seqs, DOMAIN seqs = 1 .. n, NEW v,
         \A k \in 1 .. n : Leaves(ReplaceADDiuSHLWithLUi(seqs[k]), v)
  PROVE  Leaves(GetShortestSeq(seqs), v)
<1> DEFINE short == [k \in DOMAIN seqs |-> ReplaceADDiuSHLWithLUi(seqs[k])]
           Best(k) == \A j \in DOMAIN short : /\ Len(short[k]) <= Len(short[j])
                                              /\ j < k => Len(short[k]) < Len(short[j])
           best == CHOOSE k \in DOMAIN short : Best(k)
<1>1. DOMAIN short = 1 .. n /\ \A k \in 1 .. n : Leaves(short[k], v)
  OBVIOUS
<1>2. GetShortestSeq(seqs) = short[best]
  BY DEF GetShortestSeq
<1> HIDE DEF short
<1>3. \A k \in 1 .. n : Len(short[k]) \in Nat
  BY <1>1 DEF Leaves
<1>4. \E k \in DOMAIN short : Best(k)
  <2>1. CASE n = 1
    <3>1. DOMAIN short = {1} /\ Len(short[1]) \in Nat
      BY <1>1, <1>3, <2>1
    <3>2. Best(1)
      BY <3>1
    <3>3. QED
      BY <3>1, <3>2
  <2>2. CASE n = 2
    <3>1. DOMAIN short = {1, 2} /\ Len(short[1]) \in Nat /\ Len(short[2]) \in Nat
      BY <1>1, <1>3, <2>2
    <3>2. Len(short[1]) <= Len(short[2]) => Best(1)
      BY <3>1
    <3>3. ~(Len(short[1]) <= Len(short[2])) => Best(2)
      BY <3>1
    <3> HIDE DEF Best
    <3>4. QED
      BY <3>1, <3>2, <3>3
  <2>3. QED
    BY <2>1, <2>2
<1>5. best \in DOMAIN short
  <2> HIDE DEF Best
  <2>1. QED
    BY <1>4
<1> HIDE DEF best
<1>6. QED
  BY <1>1, <1>2, <1>5

LEMMA Analyzed ==
  ASSUME NEW imm \in Wides, imm = 0 \/ imm % Modulus # 0
  PROVE  Leaves(Analyze(imm), S(imm))
<1> DEFINE low == LowPart(imm)
<1>1. CASE imm = 0
  <2> DEFINE i == I("ADDiu", 0)
             seqs == <<<<i>>>>
  <2>1. i \in ImmInsts
    BY DEF I, ImmInsts
  <2>2. Step(i, 0) = S(0)
    <3>1. isInt16(0)
      BY Widths DEF isInt16
    <3>2. SignExtend(0) = 0
      BY <3>1, ExtendedField
    <3>3. Step(i, 0) = S(0 + SignExtend(0))
      BY DEF Step, I, Result
    <3>4. QED
      BY <3>2, <3>3
  <2> HIDE DEF i
  <2>3. DOMAIN seqs = 1 .. 1 /\ seqs[1] = <<i>>
    OBVIOUS
  <2>4. Analyze(imm) = GetShortestSeq(seqs)
    BY <1>1 DEF Analyze, AddInstr, i
  <2> HIDE DEF seqs
  <2>5. \A k \in 1 .. 1 : Leaves(ReplaceADDiuSHLWithLUi(seqs[k]), S(0))
    <3>1. Leaves(<<i>>, S(0)) /\ ReplaceADDiuSHLWithLUi(<<i>>) = <<i>>
      BY <2>1, <2>2, OneLeaves
    <3>2. \A k \in 1 .. 1 : k = 1
      OBVIOUS
    <3>3. QED
      BY <2>3, <3>1, <3>2
  <2>6. QED
    BY <1>1, <2>3, <2>4, <2>5, Shortest
<1>2. CASE imm # 0
  <2> DEFINE seqs == GetInstSeqLs[<<imm, Bits>>]
             v == S(imm)
  <2>1. Analyze(imm) = GetShortestSeq(seqs)
    BY <1>2 DEF Analyze
  <2>2. imm % Modulus # 0
    BY <1>2
  <2>3. CASE low = 0
    <3> DEFINE a == <<Adds(imm), Shifts(imm)>>
    <3>1. Shifting(imm)
      BY <2>2, <2>3 DEF Shifting
    <3>2. seqs = <<a>> /\ Leaves(ReplaceADDiuSHLWithLUi(a), v)
      BY <3>1, FoundShift, ReplacedPair
    <3> HIDE DEF a, seqs, v
    <3>3. DOMAIN seqs = 1 .. 1 /\ seqs[1] = a
      BY <3>2
    <3>4. \A k \in 1 .. 1 : k = 1
      OBVIOUS
    <3>5. \A k \in 1 .. 1 : Leaves(ReplaceADDiuSHLWithLUi(seqs[k]), v)
      BY <3>2, <3>3, <3>4
    <3>6. Leaves(GetShortestSeq(seqs), v)
      BY <3>3, <3>5, Shortest
    <3>7. QED
      BY <2>1, <3>6 DEF v
  <2>4. CASE low # 0
    <3> DEFINE i == I("ADDiu", low)
               j == I("ORi", low)
               a == Ending(Raised(imm), i)
               b == Ending(HighPart(imm), j)
    <3>1. i \in ImmInsts /\ j \in ImmInsts /\ i.op # "LUi" /\ j.op # "LUi"
      <4>1. low \in Int
        <5>1. imm \in Int /\ Power[ImmBits] \in Nat /\ Power[ImmBits] > 0
          BY Widths DEF Wides
        <5>2. QED
          BY <5>1, Division DEF LowPart
      <4> HIDE DEF low
      <4>2. QED
        BY <4>1 DEF I, ImmInsts
    <3>2. seqs \in {<<a>>, <<a, b>>}
      BY <2>2, <2>4, Found
    <3>3. Step(i, S(Raised(imm))) = v /\ Step(j, S(HighPart(imm))) = v
      BY AddedUp
    <3>4. /\ Raised(imm) \in Wides /\ LowPart(Raised(imm)) = 0
          /\ HighPart(imm) \in Wides /\ LowPart(HighPart(imm)) = 0
      BY Upper, Lifted
    <3> HIDE DEF i, j, seqs, v
    <3>5. Leaves(ReplaceADDiuSHLWithLUi(a), v) /\ Leaves(ReplaceADDiuSHLWithLUi(b), v)
      <4>1. Leaves(ReplaceADDiuSHLWithLUi(a), Step(i, S(Raised(imm))))
        BY <3>1, <3>4, ReplacedEnding
      <4>2. Leaves(ReplaceADDiuSHLWithLUi(b), Step(j, S(HighPart(imm))))
        BY <3>1, <3>4, ReplacedEnding
      <4>3. QED
        BY <3>3, <4>1, <4>2
    <3> HIDE DEF a, b
    <3>6. CASE seqs = <<a>>
      <4>1. DOMAIN seqs = 1 .. 1 /\ seqs[1] = a
        BY <3>6
      <4>2. \A k \in 1 .. 1 : k = 1
        OBVIOUS
      <4>3. \A k \in 1 .. 1 : Leaves(ReplaceADDiuSHLWithLUi(seqs[k]), v)
        BY <3>5, <4>1, <4>2
      <4>4. QED
        BY <2>1, <4>1, <4>3, Shortest DEF v
    <3>7. CASE seqs = <<a, b>>
      <4>1. DOMAIN seqs = 1 .. 2 /\ seqs[1] = a /\ seqs[2] = b
        BY <3>7
      <4>2. \A k \in 1 .. 2 : k = 1 \/ k = 2
        OBVIOUS
      <4>3. \A k \in 1 .. 2 : Leaves(ReplaceADDiuSHLWithLUi(seqs[k]), v)
        BY <3>5, <4>1, <4>2
      <4>4. QED
        BY <2>1, <4>1, <4>3, Shortest DEF v
    <3>8. QED
      BY <3>2, <3>6, <3>7
  <2>5. QED
    BY <2>3, <2>4
<1>3. QED
  BY <1>1, <1>2

\* The stack pointer moves by the amount asked for.
THEOREM StackAdjustments == Spec => []StackAdjustExact
<1>1. Init => StackAdjustExact
  BY DEF Init, StackAdjustExact
<1>2. StackAdjustExact /\ [Next]_call => StackAdjustExact'
  <2>1. ASSUME Next, call'.fn = "adjustStackPtr" PROVE StackAdjustExact'
    <3>1. PICK sp \in SpValues, amount \in Immediates :
            call' = [fn |-> "adjustStackPtr", sp |-> sp, amount |-> amount,
                     seq |-> Analyze(Imm64(amount)), at |-> loadImmediate(amount),
                     out |-> adjustStackPtr(sp, amount)]
      BY <2>1 DEF Next, StackAdjusted, Stored, Copied, Expanded, Printed, Fixup, Linked,
         HiLo, Decoded
    <3> DEFINE M == Modulus * Modulus
               imm == Imm64(amount)
               seq == Analyze(imm)
               at == loadImmediate(amount)
               out == adjustStackPtr(sp, amount)
               k == amount \div M
    <3>2. /\ sp \in SignedWord /\ sp \in Int /\ amount \in Int /\ -SignBit <= amount
          /\ amount < Modulus
      <4>1. sp \in SignedWord
        BY InputAssumption
      <4>2. amount \in Int /\ -SignBit <= amount /\ amount < Modulus
        BY Widths DEF Immediates
      <4>3. QED
        BY <4>1, <4>2, WordUnsigned
    <3>3. /\ Modulus \in Nat /\ Modulus > 0 /\ M \in Nat /\ M > 0 /\ M = Modulus * Modulus
          /\ SignBit \in Nat /\ Modulus = 2 * SignBit
      BY Widths
    <3>4. imm = amount % M
      BY DEF Imm64
    <3>5. imm \in 0 .. M - 1 /\ imm \in Int /\ k \in Int /\ amount = k * M + imm
      <4> HIDE DEF M, imm
      <4>1. QED
        BY <3>2, <3>3, <3>4, Division
    <3> HIDE DEF imm, k
    <3>6. amount = imm + (k * Modulus) * Modulus /\ k * Modulus \in Int
      <4>1. k * (Modulus * Modulus) = (k * Modulus) * Modulus /\ k * (Modulus * Modulus) \in Int
        BY <3>3, <3>5
      <4>2. QED
        BY <3>3, <3>5, <4>1
    <3> DEFINE j == k * Modulus
    <3> HIDE DEF j, M
    <3>7. amount = imm + j * Modulus /\ j \in Int
      BY <3>6 DEF j
    <3>8. S(imm) = S(amount)
      BY <3>5, <3>7, SignedMultiple
    <3>9. imm = 0 \/ imm % Modulus # 0
      <4>1. SUFFICES ASSUME imm % Modulus = 0 PROVE imm = 0
        OBVIOUS
      <4>2. amount % Modulus = 0
        <5>1. imm \in Int /\ j \in Int /\ Modulus \in Nat /\ Modulus > 0
          BY <3>3, <3>5, <3>7
        <5>2. (imm + j * Modulus) % Modulus = imm % Modulus
          BY ONLY <5>1, DivisionShift
        <5>3. QED
          BY <3>7, <4>1, <5>2
      <4>3. amount = 0
        <5>1. -Modulus <= amount /\ amount < 2 * Modulus
          BY <3>2, <3>3
        <5>2. amount % Modulus
                = IF amount < 0 THEN amount + Modulus
                  ELSE IF amount < Modulus THEN amount ELSE amount - Modulus
          BY <3>2, <3>3, <5>1, NearRemainder
        <5>3. QED
          BY <3>2, <3>3, <4>2, <5>2
      <4>4. QED
        BY <3>3, <3>4, <4>3
    <3>10. imm \in Wides
      BY <3>5 DEF Wides, M
    <3>11. Leaves(seq, S(amount))
      BY <3>8, <3>9, <3>10, Analyzed
    <3>12. at = S(amount)
      <4>1. at = Left(seq)
        BY DEF loadImmediate, Left, imm
      <4>2. QED
        BY <3>11, <4>1 DEF Leaves
    <3>13. out = S(sp + amount)
      <4>1. CASE isInt16(amount)
        BY <4>1 DEF adjustStackPtr, Result
      <4>2. CASE ~isInt16(amount)
        <5>1. out = S(sp + at)
          BY <4>2 DEF adjustStackPtr, Result
        <5>2. QED
          BY <3>2, <3>12, <5>1, SignedSum
      <4>3. QED
        BY <4>1, <4>2
    <3> HIDE DEF at, out, seq
    <3>14. /\ call'.sp = sp /\ call'.amount = amount /\ call'.seq = seq /\ call'.at = at
           /\ call'.out = out
      BY <3>1 DEF at, out, seq, imm
    <3>15. Len(seq) \in 1 .. 7 /\ \A m \in 2 .. Len(seq) : seq[m].op # "LUi"
      BY <3>11 DEF Leaves
    <3>16. QED
      BY <3>12, <3>13, <3>14, <3>15 DEF StackAdjustExact
  <2>2. QED
    BY <2>1 DEF StackAdjustExact
<1>3. QED
  BY <1>1, <1>2, PTL DEF Spec
=============================================================================
