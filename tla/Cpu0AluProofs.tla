---------------------------- MODULE Cpu0AluProofs ----------------------------
(***************************************************************************)
(* The datapath at every word size that WidthAssumption admits: how a      *)
(* number becomes a word and back, and what words, products, quotients and *)
(* shifts are, as numbers and bit by bit.  First, what Power, BitOf and    *)
(* ByBits of Cpu0Bits are, for numbers of every size.                      *)
(*                                                                         *)
(* The induction theorems of the library are about predicates that are     *)
(* parameters.  SetInduction puts a set in their place, and rests on WFMin *)
(* and on the order of the natural numbers being well founded.  With it, a *)
(* recursive function is first shown to exist, then to be the one that its *)
(* definition names (PowerEquation, ByBitsBits), and then computed with.   *)
(***************************************************************************)
EXTENDS Cpu0Widths, WellFoundedInduction, TLAPS

\* The order of the natural numbers, as a relation.
Smaller == {p \in Nat \X Nat : p[1] < p[2]}

\* The order of the natural numbers is well founded.
LEMMA SmallerWellFounded == IsWellFoundedOn(Smaller, Nat)
<1>1. OpToRel(<, Nat) = Smaller
  BY DEF OpToRel, Smaller
<1>2. QED
  BY <1>1, NatLessThanWellFounded

\* A set with 0 and every successor of a member has all natural numbers.
LEMMA SetInduction ==
  ASSUME NEW T, 0 \in T, \A n \in Nat : n \in T => n + 1 \in T
  PROVE  \A n \in Nat : n \in T
<1> DEFINE Left == {n \in Nat : n \notin T}
<1>1. SUFFICES ASSUME Left # {} PROVE FALSE
  OBVIOUS
<1>2. PICK x \in Left : \A y \in Left : <<y, x>> \notin Smaller
  <2>1. Left \subseteq Nat
    OBVIOUS
  <2> HIDE DEF Left
  <2>2. QED
    BY <1>1, <2>1, SmallerWellFounded, WFMin
<1>3. x \in Nat /\ x # 0 /\ x - 1 \in Nat /\ x - 1 + 1 = x
  OBVIOUS
<1>4. x - 1 \in Left
  BY <1>3
<1>5. <<x - 1, x>> \in Smaller
  BY <1>3 DEF Smaller
<1>6. QED
  BY <1>2, <1>4, <1>5

\* h is the recursive function of Power, up to n.
Doubling(h, n) == h = [m \in 0 .. n |-> IF m = 0 THEN 1 ELSE 2 * h[m - 1]]

\* There is one for every n.
LEMMA DoublingExists == \A n \in Nat : \E h : Doubling(h, n)
<1> DEFINE T == {n \in Nat : \E h : Doubling(h, n)}
<1>1. 0 \in T
  <2> DEFINE h == [m \in 0 .. 0 |-> 1]
  <2>1. h = [m \in 0 .. 0 |-> IF m = 0 THEN 1 ELSE 2 * h[m - 1]]
    OBVIOUS
  <2>2. Doubling(h, 0)
    BY <2>1 DEF Doubling
  <2>3. QED
    BY <2>2
<1>2. ASSUME NEW n \in Nat, n \in T PROVE n + 1 \in T
  <2>1. PICK g : Doubling(g, n)
    BY <1>2
  <2> DEFINE h == [m \in 0 .. n + 1 |-> IF m = n + 1 THEN 2 * g[n] ELSE g[m]]
             k == [m \in 0 .. n + 1 |-> IF m = 0 THEN 1 ELSE 2 * h[m - 1]]
  <2>2. ASSUME NEW m \in 0 .. n + 1 PROVE h[m] = k[m]
    <3>1. CASE m = n + 1
      <4>1. h[m] = 2 * g[n]
        BY <3>1
      <4>2. m # 0 /\ m - 1 = n /\ n \in 0 .. n + 1 /\ n # n + 1
        BY <3>1
      <4>3. h[m - 1] = g[n]
        BY <4>2
      <4>4. QED
        BY <3>1, <4>1, <4>2, <4>3
    <3>2. CASE m # n + 1
      <4>1. m \in 0 .. n
        BY <3>2
      <4>2. h[m] = g[m]
        BY <3>2
      <4>3. g[m] = IF m = 0 THEN 1 ELSE 2 * g[m - 1]
        BY <2>1, <4>1 DEF Doubling
      <4>4. ASSUME m # 0 PROVE h[m - 1] = g[m - 1]
        BY <4>1, <4>4
      <4>5. k[m] = IF m = 0 THEN 1 ELSE 2 * h[m - 1]
        OBVIOUS
      <4> HIDE DEF h, k
      <4>6. QED
        BY <4>2, <4>3, <4>4, <4>5
    <3>3. QED
      BY <3>1, <3>2
  <2>3. h = k
    <3>1. DOMAIN h = 0 .. n + 1 /\ DOMAIN k = 0 .. n + 1
      OBVIOUS
    <3>2. h = [m \in 0 .. n + 1 |-> h[m]] /\ k = [m \in 0 .. n + 1 |-> k[m]]
      OBVIOUS
    <3> HIDE DEF h, k
    <3>3. QED
      BY <2>2, <3>2
  <2>4. Doubling(h, n + 1)
    BY <2>3 DEF Doubling
  <2>5. QED
    BY <2>4
<1> HIDE DEF T
<1>3. \A n \in Nat : n \in T
  BY <1>1, <1>2, SetInduction
<1>4. QED
  BY <1>3 DEF T

\* Two such functions agree.
LEMMA DoublingUnique ==
  ASSUME NEW H, \A n \in Nat : Doubling(H[n], n)
  PROVE  \A k \in Nat : \A m, n \in Nat : k <= m /\ k <= n => H[m][k] = H[n][k]
<1> DEFINE T == {k \in Nat : \A m, n \in Nat : k <= m /\ k <= n => H[m][k] = H[n][k]}
<1>1. ASSUME NEW n \in Nat, NEW k \in 0 .. n
      PROVE  H[n][k] = IF k = 0 THEN 1 ELSE 2 * H[n][k - 1]
  BY DEF Doubling
<1>2. 0 \in T
  BY <1>1
<1>3. ASSUME NEW k \in Nat, k \in T PROVE k + 1 \in T
  <2>1. ASSUME NEW m \in Nat, NEW n \in Nat, k + 1 <= m, k + 1 <= n
        PROVE  H[m][k + 1] = H[n][k + 1]
    <3>1. H[m][k] = H[n][k]
      BY <1>3, <2>1
    <3>2. k + 1 \in 0 .. m /\ k + 1 \in 0 .. n /\ k + 1 # 0 /\ (k + 1) - 1 = k
      BY <2>1
    <3>3. H[m][k + 1] = 2 * H[m][k] /\ H[n][k + 1] = 2 * H[n][k]
      BY <1>1, <3>2
    <3>4. QED
      BY <3>1, <3>3
  <2>2. QED
    BY <2>1
<1> HIDE DEF T
<1>4. \A k \in Nat : k \in T
  BY <1>2, <1>3, SetInduction
<1>5. QED
  BY <1>4 DEF T

\* Power is what its equation says.
LEMMA PowerEquation ==
  \A n \in Nat : Power[n] = IF n = 0 THEN 1 ELSE 2 * Power[n - 1]
<1> DEFINE H == [n \in Nat |-> CHOOSE h : Doubling(h, n)]
           F == [n \in Nat |-> H[n][n]]
           G == [n \in Nat |-> IF n = 0 THEN 1 ELSE 2 * F[n - 1]]
<1>1. \A n \in Nat : Doubling(H[n], n)
  BY DoublingExists
<1>2. ASSUME NEW n \in Nat PROVE F[n] = G[n]
  <2>1. F[n] = H[n][n]
    OBVIOUS
  <2>2. H[n][n] = IF n = 0 THEN 1 ELSE 2 * H[n][n - 1]
    <3> HIDE DEF H
    <3>1. n \in 0 .. n
      OBVIOUS
    <3>2. QED
      BY <1>1, <3>1 DEF Doubling
  <2>3. CASE n = 0
    BY <2>1, <2>2, <2>3
  <2>4. CASE n # 0
    <3>1. n - 1 \in Nat /\ n - 1 <= n /\ n - 1 <= n - 1
      BY <2>4
    <3>2. H[n][n - 1] = H[n - 1][n - 1]
      <4> HIDE DEF H
      <4>1. QED
        BY <3>1, <1>1, DoublingUnique
    <3>3. F[n - 1] = H[n - 1][n - 1]
      BY <3>1
    <3>4. G[n] = 2 * F[n - 1]
      BY <2>4
    <3> HIDE DEF H, F, G
    <3>5. QED
      BY <2>1, <2>2, <2>4, <3>2, <3>3, <3>4
  <2>5. QED
    BY <2>3, <2>4
<1>3. F = G
  <2>1. F = [n \in Nat |-> F[n]] /\ G = [n \in Nat |-> G[n]]
    OBVIOUS
  <2> HIDE DEF F, G
  <2>2. QED
    BY <1>2, <2>1
<1>4. F = [n \in Nat |-> IF n = 0 THEN 1 ELSE 2 * F[n - 1]]
  BY <1>3
<1> HIDE DEF F
<1>5. Power = [n \in Nat |-> IF n = 0 THEN 1 ELSE 2 * Power[n - 1]]
  BY <1>4 DEF Power
<1>6. QED
  BY <1>5

-----------------------------------------------------------------------------
(* Division, by a divisor that is not a numeral. *)

\* What a quotient and a remainder are.
LEMMA Division ==
  ASSUME NEW x \in Int, NEW m \in Nat, m > 0
  PROVE  /\ x \div m \in Int /\ x % m \in Int /\ 0 <= x % m /\ x % m < m
         /\ x = (x \div m) * m + (x % m)
OBVIOUS

\* There are no others.
LEMMA DivisionUnique ==
  ASSUME NEW x \in Int, NEW q \in Int, NEW r \in Int, NEW m \in Nat, m > 0,
         x = q * m + r, 0 <= r, r < m
  PROVE  x \div m = q /\ x % m = r
OBVIOUS

\* Adding multiples of the divisor adds to the quotient alone.
LEMMA DivisionShift ==
  ASSUME NEW x \in Int, NEW q \in Int, NEW m \in Nat, m > 0
  PROVE  (x + q * m) \div m = (x \div m) + q /\ (x + q * m) % m = x % m
<1>1. /\ x \div m \in Int /\ x % m \in Int /\ 0 <= x % m /\ x % m < m
      /\ x = (x \div m) * m + (x % m)
  BY Division
<1> DEFINE d == x \div m
           r == x % m
<1> HIDE DEF d, r
<1>2. x + q * m = (d + q) * m + r /\ d + q \in Int /\ x + q * m \in Int
  BY <1>1 DEF d, r
<1>3. r \in Int /\ 0 <= r /\ r < m
  BY <1>1 DEF r
<1>4. (x + q * m) \div m = d + q /\ (x + q * m) % m = r
  BY <1>2, <1>3, DivisionUnique
<1>5. QED
  BY <1>4 DEF d, r

\* Dividing twice.
LEMMA DivisionTwice ==
  ASSUME NEW x \in Int, NEW a \in Nat, a > 0, NEW b \in Nat, b > 0
  PROVE  (x \div a) \div b = x \div (a * b)
<1> DEFINE q == x \div a
           r == x % a
           p == q \div b
           s == q % b
<1>1. q \in Int /\ r \in Int /\ 0 <= r /\ r < a /\ x = q * a + r
  BY Division
<1>2. p \in Int /\ s \in Int /\ 0 <= s /\ s < b /\ q = p * b + s
  <2>1. q \in Int
    BY <1>1
  <2> HIDE DEF q
  <2>2. QED
    BY <2>1, Division
<1> HIDE DEF q, r, p, s
<1>3. x = p * (a * b) + (s * a + r)
  BY <1>1, <1>2
<1>4. s * a \in Int /\ 0 <= s * a /\ s * a <= (b - 1) * a
  BY <1>2
<1>5. a * b \in Nat /\ a * b > 0 /\ (b - 1) * a = a * b - a
  OBVIOUS
<1>6. s * a + r \in Int /\ 0 <= s * a + r /\ s * a + r < a * b
  BY <1>1, <1>4, <1>5
<1>7. x \div (a * b) = p
  BY <1>2, <1>3, <1>5, <1>6, DivisionUnique
<1>8. QED
  BY <1>7 DEF p, q

-----------------------------------------------------------------------------
(* Powers of two. *)

\* The powers one by one.
LEMMA PowerStep ==
  /\ Power[0] = 1
  /\ \A n \in Nat : Power[n + 1] = 2 * Power[n]
<1>1. Power[0] = 1
  BY PowerEquation
<1>2. ASSUME NEW n \in Nat PROVE Power[n + 1] = 2 * Power[n]
  <2>1. n + 1 \in Nat /\ n + 1 # 0 /\ (n + 1) - 1 = n
    OBVIOUS
  <2>2. QED
    BY <2>1, PowerEquation
<1>3. QED
  BY <1>1, <1>2

\* Powers are positive,
LEMMA PowerPositive == \A n \in Nat : Power[n] \in Nat /\ Power[n] > 0
<1> DEFINE T == {n \in Nat : Power[n] \in Nat /\ Power[n] > 0}
<1>1. 0 \in T
  BY PowerStep
<1>2. \A n \in Nat : n \in T => n + 1 \in T
  BY PowerStep
<1> HIDE DEF T
<1>3. \A n \in Nat : n \in T
  BY <1>1, <1>2, SetInduction
<1>4. QED
  BY <1>3 DEF T

\* a sum of exponents is a product of powers,
LEMMA PowerSum == \A a, b \in Nat : Power[a + b] = Power[a] * Power[b]
<1>1. ASSUME NEW a \in Nat PROVE \A b \in Nat : Power[a + b] = Power[a] * Power[b]
  <2> DEFINE T == {b \in Nat : Power[a + b] = Power[a] * Power[b]}
  <2>1. 0 \in T
    BY PowerStep, PowerPositive
  <2>2. ASSUME NEW b \in Nat, b \in T PROVE b + 1 \in T
    <3>1. a + b \in Nat /\ a + (b + 1) = (a + b) + 1
      OBVIOUS
    <3>2. Power[a + (b + 1)] = 2 * Power[a + b] /\ Power[b + 1] = 2 * Power[b]
      BY <3>1, PowerStep
    <3>3. Power[a] \in Nat /\ Power[b] \in Nat /\ Power[a + b] = Power[a] * Power[b]
      BY <2>2, PowerPositive
    <3>4. Power[a + (b + 1)] = Power[a] * Power[b + 1]
      BY <3>2, <3>3
    <3>5. QED
      BY <3>4
  <2> HIDE DEF T
  <2>3. \A b \in Nat : b \in T
    BY <2>1, <2>2, SetInduction
  <2>4. QED
    BY <2>3 DEF T
<1>2. QED
  BY <1>1

\* and a power is greater than its exponent.
LEMMA PowerGreater == \A n \in Nat : n < Power[n]
<1> DEFINE T == {n \in Nat : n < Power[n]}
<1>1. 0 \in T
  BY PowerStep
<1>2. \A n \in Nat : n \in T => n + 1 \in T
  BY PowerStep, PowerPositive
<1> HIDE DEF T
<1>3. \A n \in Nat : n \in T
  BY <1>1, <1>2, SetInduction
<1>4. QED
  BY <1>3 DEF T

\* A larger power is a multiple.
LEMMA PowerMultiple ==
  ASSUME NEW a \in Nat, NEW b \in Nat, a <= b
  PROVE  /\ b - a \in Nat /\ Power[b] = Power[b - a] * Power[a]
         /\ Power[a] <= Power[b]
         /\ a < b => /\ b - a - 1 \in Nat
                     /\ Power[b] = (2 * Power[b - a - 1]) * Power[a]
<1>1. b - a \in Nat /\ (b - a) + a = b
  OBVIOUS
<1>2. Power[b] = Power[b - a] * Power[a]
  BY <1>1, PowerSum
<1>3. Power[b - a] \in Nat /\ Power[b - a] >= 1 /\ Power[a] \in Nat
  BY <1>1, PowerPositive
<1>4. Power[a] <= Power[b]
  BY <1>2, <1>3
<1>5. ASSUME a < b PROVE b - a - 1 \in Nat /\ Power[b - a] = 2 * Power[b - a - 1]
  <2>1. b - a - 1 \in Nat /\ (b - a - 1) + 1 = b - a
    BY <1>5
  <2>2. QED
    BY <2>1, PowerStep
<1>6. QED
  BY <1>1, <1>2, <1>4, <1>5

-----------------------------------------------------------------------------
(* Bits. *)

\* A bit is 0 or 1.
LEMMA BitRange ==
  ASSUME NEW u \in Int, NEW k \in Nat
  PROVE  BitOf(u, k) \in 0 .. 1
<1>1. Power[k] \in Nat /\ Power[k] > 0
  BY PowerPositive
<1>2. u \div Power[k] \in Int
  BY <1>1, Division
<1>3. QED
  BY <1>2 DEF BitOf

\* One bit more of a number.
LEMMA LowBits ==
  ASSUME NEW u \in Int, NEW k \in Nat
  PROVE  u % Power[k + 1] = (u % Power[k]) + Power[k] * BitOf(u, k)
<1> DEFINE p == Power[k]
           q == u \div p
           r == u % p
           h == q \div 2
           b == q % 2
<1>1. p \in Nat /\ p > 0 /\ Power[k + 1] = 2 * p
  BY PowerPositive, PowerStep
<1>2. q \in Int /\ r \in Int /\ 0 <= r /\ r < p /\ u = q * p + r
  <2> HIDE DEF p
  <2>1. QED
    BY <1>1, Division
<1>3. h \in Int /\ b \in 0 .. 1 /\ q = 2 * h + b
  <2> HIDE DEF q
  <2>1. QED
    BY <1>2
<1>4. BitOf(u, k) = b
  BY DEF BitOf
<1> HIDE DEF p, q, r, h, b
<1>5. u = h * (2 * p) + (p * b + r)
  BY <1>1, <1>2, <1>3
<1>6. p * b \in Int /\ 0 <= p * b /\ p * b <= p
  BY <1>1, <1>3
<1>7. p * b + r \in Int /\ 0 <= p * b + r /\ p * b + r < 2 * p /\ 2 * p \in Nat /\ 2 * p > 0
  BY <1>1, <1>2, <1>6
<1>8. u % (2 * p) = p * b + r
  BY <1>3, <1>5, <1>7, DivisionUnique
<1>9. p * b + r = r + p * b
  BY <1>2, <1>6
<1>10. QED
  BY <1>1, <1>4, <1>8, <1>9 DEF p, r

\* Numbers with the same bits are the same.
LEMMA SameBits ==
  ASSUME NEW u \in Int, NEW v \in Int, NEW n \in Nat,
         \A k \in 0 .. n - 1 : BitOf(u, k) = BitOf(v, k)
  PROVE  u % Power[n] = v % Power[n]
<1> DEFINE T == {m \in Nat : m <= n => u % Power[m] = v % Power[m]}
<1>1. 0 \in T
  <2>1. u % 1 = 0 /\ v % 1 = 0
    OBVIOUS
  <2>2. QED
    BY <2>1, PowerStep
<1>2. ASSUME NEW m \in Nat, m \in T PROVE m + 1 \in T
  <2>1. ASSUME m + 1 <= n PROVE u % Power[m + 1] = v % Power[m + 1]
    <3>1. u % Power[m] = v % Power[m]
      BY <1>2, <2>1
    <3>2. m \in 0 .. n - 1
      BY <2>1
    <3>3. BitOf(u, m) = BitOf(v, m)
      BY <3>2
    <3>4. QED
      BY <3>1, <3>3, LowBits
  <2>2. QED
    BY <2>1
<1> HIDE DEF T
<1>3. n \in T
  BY <1>1, <1>2, SetInduction
<1>4. QED
  BY <1>3 DEF T

\* Numbers below a power of two that have the same bits are the same.
LEMMA SmallSameBits ==
  ASSUME NEW n \in Nat, NEW u \in 0 .. Power[n] - 1, NEW v \in 0 .. Power[n] - 1,
         \A k \in 0 .. n - 1 : BitOf(u, k) = BitOf(v, k)
  PROVE  u = v
<1>1. Power[n] \in Nat /\ Power[n] > 0
  BY PowerPositive
<1>2. u % Power[n] = u /\ v % Power[n] = v
  <2>1. u \in Int /\ u = 0 * Power[n] + u /\ v \in Int /\ v = 0 * Power[n] + v
    BY <1>1
  <2>2. QED
    BY <1>1, <2>1, DivisionUnique
<1>3. u % Power[n] = v % Power[n]
  BY SameBits
<1>4. QED
  BY <1>2, <1>3

\* The bits of sums, quotients, products and remainders.
LEMMA BitOfSum ==
  ASSUME NEW u \in Int, NEW q \in Int, NEW k \in Nat, NEW n \in Nat, k < n
  PROVE  BitOf(u + q * Power[n], k) = BitOf(u, k)
<1> DEFINE p == Power[k]
           s == Power[n - k - 1]
           d == u \div p
<1>1. p \in Nat /\ p > 0
  BY PowerPositive
<1>2. Power[n] = (2 * s) * p /\ s \in Nat
  BY PowerMultiple, PowerPositive
<1>3. d \in Int
  <2> HIDE DEF p
  <2>1. QED
    BY <1>1, Division
<1> HIDE DEF p, s
<1>4. u + q * Power[n] = u + (2 * (q * s)) * p /\ q * s \in Int
  BY <1>1, <1>2
<1> DEFINE t == q * s
<1>5. u + q * Power[n] = u + (2 * t) * p /\ t \in Int /\ 2 * t \in Int
  BY <1>4
<1> HIDE DEF t
<1>6. (u + (2 * t) * p) \div p = (u \div p) + 2 * t
  BY <1>1, <1>5, DivisionShift
<1> HIDE DEF d
<1>7. (d + 2 * t) % 2 = d % 2
  BY <1>3, <1>5
<1>8. QED
  BY <1>5, <1>6, <1>7 DEF BitOf, p, d

\* A quotient has the upper bits,
LEMMA BitOfQuotient ==
  ASSUME NEW u \in Int, NEW n \in Nat, NEW k \in Nat
  PROVE  BitOf(u \div Power[n], k) = BitOf(u, n + k)
<1>1. /\ Power[n] \in Nat /\ Power[n] > 0 /\ Power[k] \in Nat /\ Power[k] > 0
      /\ Power[n + k] = Power[n] * Power[k]
  BY PowerPositive, PowerSum
<1>2. (u \div Power[n]) \div Power[k] = u \div Power[n + k]
  BY <1>1, DivisionTwice
<1>3. QED
  BY <1>2 DEF BitOf

\* a product the bits moved up, above zeros,
LEMMA BitOfProduct ==
  ASSUME NEW u \in Int, NEW n \in Nat, NEW k \in Nat
  PROVE  BitOf(u * Power[n], k) = IF k < n THEN 0 ELSE BitOf(u, k - n)
<1>1. CASE k < n
  <2>1. BitOf(0 + u * Power[n], k) = BitOf(0, k)
    BY <1>1, BitOfSum
  <2>2. BitOf(0, k) = 0
    <3>1. 0 = 0 * Power[k] + 0 /\ Power[k] \in Nat /\ Power[k] > 0
      BY PowerPositive
    <3>2. 0 \div Power[k] = 0
      BY <3>1, DivisionUnique
    <3>3. QED
      BY <3>2 DEF BitOf
  <2>3. 0 + u * Power[n] = u * Power[n]
    BY PowerPositive
  <2>4. QED
    BY <2>1, <2>2, <2>3, <1>1
<1>2. CASE n <= k
  <2> DEFINE w == u * Power[n]
  <2>1. k - n \in Nat /\ n + (k - n) = k
    BY <1>2
  <2>2. w \in Int /\ Power[n] \in Nat /\ Power[n] > 0
    BY PowerPositive
  <2>3. w \div Power[n] = u
    <3>1. w = u * Power[n] + 0
      BY <2>2
    <3> HIDE DEF w
    <3>2. QED
      BY <3>1, <2>2, DivisionUnique
  <2> HIDE DEF w
  <2>4. BitOf(w \div Power[n], k - n) = BitOf(w, n + (k - n))
    BY <2>1, <2>2, BitOfQuotient
  <2>5. BitOf(w, k) = BitOf(u, k - n) /\ ~(k < n)
    BY <2>1, <2>3, <2>4, <1>2
  <2>6. QED
    BY <2>5 DEF w
<1>3. QED
  BY <1>1, <1>2

\* and a remainder the lower bits.
LEMMA BitOfRemainder ==
  ASSUME NEW u \in Int, NEW n \in Nat, NEW k \in Nat, k < n
  PROVE  BitOf(u % Power[n], k) = BitOf(u, k)
<1> DEFINE q == u \div Power[n]
           r == u % Power[n]
<1>1. q \in Int /\ r \in Int /\ u = q * Power[n] + r /\ Power[n] \in Nat
  BY PowerPositive, Division
<1> HIDE DEF q, r
<1>2. u = r + q * Power[n]
  BY <1>1
<1>3. BitOf(r + q * Power[n], k) = BitOf(r, k)
  BY <1>1, BitOfSum
<1>4. QED
  BY <1>2, <1>3 DEF r

\* A number has no bits above its size.
LEMMA BitAbove ==
  ASSUME NEW m \in Nat, NEW u \in 0 .. Power[m] - 1, NEW k \in Nat, m <= k
  PROVE  BitOf(u, k) = 0
<1>1. Power[k] \in Nat /\ Power[k] > 0 /\ Power[m] \in Nat /\ Power[m] <= Power[k]
  BY PowerPositive, PowerMultiple
<1>2. u \in Int /\ u = 0 * Power[k] + u /\ 0 <= u /\ u < Power[k]
  BY <1>1
<1>3. u \div Power[k] = 0
  BY <1>1, <1>2, DivisionUnique
<1>4. QED
  BY <1>3 DEF BitOf

-----------------------------------------------------------------------------
(* Operations on bits. *)

BitOperation == [0 .. 1 -> [0 .. 1 -> 0 .. 1]]

\* h is the recursive function of ByBits.
IsByBits(h, op, n, u, v) ==
  h = [k \in 0 .. n |->
         IF k = 0 THEN 0
         ELSE h[k - 1] + Power[k - 1] * op[BitOf(u, k - 1)][BitOf(v, k - 1)]]

\* There is one for every n.
LEMMA ByBitsExists ==
  ASSUME NEW op, NEW u, NEW v
  PROVE  \A n \in Nat : \E h : IsByBits(h, op, n, u, v)
<1> DEFINE add(k) == Power[k] * op[BitOf(u, k)][BitOf(v, k)]
           T == {n \in Nat : \E h : IsByBits(h, op, n, u, v)}
<1>0. \A h, n : IsByBits(h, op, n, u, v) <=>
                  h = [k \in 0 .. n |-> IF k = 0 THEN 0 ELSE h[k - 1] + add(k - 1)]
  BY DEF IsByBits
<1> HIDE DEF add
<1>1. 0 \in T
  <2> DEFINE h == [m \in 0 .. 0 |-> 0]
  <2>1. h = [k \in 0 .. 0 |-> IF k = 0 THEN 0 ELSE h[k - 1] + add(k - 1)]
    OBVIOUS
  <2>2. IsByBits(h, op, 0, u, v)
    BY <2>1, <1>0
  <2>3. QED
    BY <2>2
<1>2. ASSUME NEW n \in Nat, n \in T PROVE n + 1 \in T
  <2>1. PICK g : IsByBits(g, op, n, u, v)
    BY <1>2
  <2> DEFINE h == [m \in 0 .. n + 1 |-> IF m = n + 1 THEN g[n] + add(n) ELSE g[m]]
             k == [m \in 0 .. n + 1 |-> IF m = 0 THEN 0 ELSE h[m - 1] + add(m - 1)]
  <2>2. ASSUME NEW m \in 0 .. n + 1 PROVE h[m] = k[m]
    <3>1. CASE m = n + 1
      <4>1. h[m] = g[n] + add(n)
        BY <3>1
      <4>2. m # 0 /\ m - 1 = n /\ n \in 0 .. n + 1 /\ n # n + 1
        BY <3>1
      <4>3. h[m - 1] = g[n]
        BY <4>2
      <4>4. QED
        BY <3>1, <4>1, <4>2, <4>3
    <3>2. CASE m # n + 1
      <4>1. m \in 0 .. n
        BY <3>2
      <4>2. h[m] = g[m]
        BY <3>2
      <4>3. g[m] = IF m = 0 THEN 0 ELSE g[m - 1] + add(m - 1)
        BY <2>1, <4>1, <1>0
      <4>4. ASSUME m # 0 PROVE h[m - 1] = g[m - 1]
        BY <4>1, <4>4
      <4>5. k[m] = IF m = 0 THEN 0 ELSE h[m - 1] + add(m - 1)
        OBVIOUS
      <4> HIDE DEF h, k
      <4>6. QED
        BY <4>2, <4>3, <4>4, <4>5
    <3>3. QED
      BY <3>1, <3>2
  <2>3. h = k
    <3>1. h = [m \in 0 .. n + 1 |-> h[m]] /\ k = [m \in 0 .. n + 1 |-> k[m]]
      OBVIOUS
    <3> HIDE DEF h, k
    <3>2. QED
      BY <2>2, <3>1
  <2>4. IsByBits(h, op, n + 1, u, v)
    BY <2>3, <1>0
  <2>5. QED
    BY <2>4
<1> HIDE DEF T
<1>3. \A n \in Nat : n \in T
  BY <1>1, <1>2, SetInduction
<1>4. QED
  BY <1>3 DEF T

\* ByBits does its operation to every bit.
THEOREM ByBitsBits ==
  ASSUME NEW op \in BitOperation, NEW n \in Nat, NEW u \in Int, NEW v \in Int
  PROVE  /\ ByBits(op, n, u, v) \in 0 .. Power[n] - 1
         /\ \A k \in 0 .. n - 1 : BitOf(ByBits(op, n, u, v), k) = op[BitOf(u, k)][BitOf(v, k)]
<1> DEFINE bit(k) == op[BitOf(u, k)][BitOf(v, k)]
           h == CHOOSE g : IsByBits(g, op, n, u, v)
           Good(m) == /\ h[m] \in 0 .. Power[m] - 1
                      /\ \A k \in 0 .. m - 1 : BitOf(h[m], k) = bit(k)
           T == {m \in Nat : m <= n => Good(m)}
<1>1. ByBits(op, n, u, v) = h[n]
  BY DEF ByBits, IsByBits
<1>2. IsByBits(h, op, n, u, v)
  BY ByBitsExists
<1>3. ASSUME NEW m \in 0 .. n PROVE h[m] = IF m = 0 THEN 0 ELSE h[m - 1] + Power[m - 1] * bit(m - 1)
  <2> HIDE DEF h
  <2>1. QED
    BY <1>2 DEF IsByBits
<1>4. ASSUME NEW k \in Nat PROVE bit(k) \in 0 .. 1
  <2>1. BitOf(u, k) \in 0 .. 1 /\ BitOf(v, k) \in 0 .. 1
    BY BitRange
  <2>2. QED
    BY <2>1 DEF BitOperation
<1> HIDE DEF h, bit
<1>5. 0 \in T
  <2>1. h[0] = 0
    BY <1>3
  <2>2. QED
    BY <2>1, PowerStep
<1>6. ASSUME NEW m \in Nat, m \in T PROVE m + 1 \in T
  <2>1. ASSUME m + 1 <= n PROVE Good(m + 1)
    <3>1. Good(m)
      BY <1>6, <2>1
    <3>2. h[m + 1] = h[m] + Power[m] * bit(m)
      <4>1. m + 1 \in 0 .. n /\ m + 1 # 0 /\ (m + 1) - 1 = m
        BY <2>1
      <4>2. QED
        BY <4>1, <1>3
    <3>3. /\ Power[m] \in Nat /\ Power[m] > 0 /\ Power[m + 1] = 2 * Power[m]
          /\ bit(m) \in 0 .. 1 /\ h[m] \in Int /\ 0 <= h[m] /\ h[m] < Power[m]
      BY <3>1, <1>4, PowerPositive, PowerStep
    <3> DEFINE b == bit(m)
               w == h[m]
               t == h[m + 1]
    <3>4. t = w + b * Power[m] /\ b \in 0 .. 1 /\ w \in Int /\ 0 <= w /\ w < Power[m]
      <4>1. Power[m] * bit(m) = bit(m) * Power[m]
        BY <3>3
      <4>2. QED
        BY <4>1, <3>2, <3>3
    <3> HIDE DEF b, w, t
    <3>5. t \in 0 .. Power[m + 1] - 1
      <4>1. b * Power[m] \in Int /\ 0 <= b * Power[m] /\ b * Power[m] <= Power[m]
        BY <3>3, <3>4
      <4>2. QED
        BY <4>1, <3>3, <3>4
    <3>6. ASSUME NEW k \in 0 .. m PROVE BitOf(t, k) = bit(k)
      <4>1. CASE k < m
        <5>1. b \in Int /\ k \in Nat
          BY <3>4
        <5>2. BitOf(w + b * Power[m], k) = BitOf(w, k)
          BY <5>1, <4>1, <3>4, BitOfSum
        <5>3. k \in 0 .. m - 1
          BY <4>1
        <5>4. BitOf(w, k) = bit(k)
          BY <5>3, <3>1 DEF w
        <5>5. QED
          BY <5>2, <5>4, <3>4
      <4>2. CASE k = m
        <5>1. t = b * Power[m] + w /\ b \in Int /\ t \in Int
          BY <3>3, <3>4
        <5>2. t \div Power[m] = b
          BY <5>1, <3>3, <3>4, DivisionUnique
        <5>3. b % 2 = b
          BY <3>4
        <5>4. QED
          BY <5>2, <5>3, <4>2 DEF BitOf, b
      <4>3. QED
        BY <4>1, <4>2
    <3>7. (m + 1) - 1 = m
      OBVIOUS
    <3>8. QED
      BY <3>5, <3>6, <3>7 DEF t
  <2>2. QED
    BY <2>1
<1> HIDE DEF T
<1>7. n \in T
  BY <1>5, <1>6, SetInduction
<1>8. Good(n)
  BY <1>7 DEF T
<1>9. QED
  BY <1>1, <1>8 DEF bit

\* The three operations.
LEMMA Operations ==
  /\ Both \in BitOperation /\ Either \in BitOperation /\ OneOf \in BitOperation
  /\ \A a, b \in 0 .. 1 :
       /\ Both[a][b] = (IF a = 1 /\ b = 1 THEN 1 ELSE 0)
       /\ Either[a][b] = (IF a = 1 \/ b = 1 THEN 1 ELSE 0)
       /\ OneOf[a][b] = (IF a # b THEN 1 ELSE 0)
<1>1. Both \in BitOperation
  BY DEF BitOperation, Both
<1>2. Either \in BitOperation
  BY DEF BitOperation, Either
<1>3. OneOf \in BitOperation
  BY DEF BitOperation, OneOf
<1>4. ASSUME NEW a \in 0 .. 1, NEW b \in 0 .. 1
      PROVE  /\ Both[a][b] = (IF a = 1 /\ b = 1 THEN 1 ELSE 0)
             /\ Either[a][b] = (IF a = 1 \/ b = 1 THEN 1 ELSE 0)
             /\ OneOf[a][b] = (IF a # b THEN 1 ELSE 0)
  BY DEF Both, Either, OneOf
<1>5. QED
  BY <1>1, <1>2, <1>3, <1>4

\* And, bit by bit.
LEMMA BothBits ==
  ASSUME NEW n \in Nat, NEW u \in Int, NEW v \in Int
  PROVE  /\ ByBits(Both, n, u, v) \in 0 .. Power[n] - 1
         /\ \A k \in 0 .. n - 1 : BitOf(ByBits(Both, n, u, v), k) =
              IF BitOf(u, k) = 1 /\ BitOf(v, k) = 1 THEN 1 ELSE 0
<1>1. ASSUME NEW k \in 0 .. n - 1 PROVE BitOf(u, k) \in 0 .. 1 /\ BitOf(v, k) \in 0 .. 1
  <2>1. k \in Nat
    OBVIOUS
  <2>2. QED
    BY <2>1, BitRange
<1>2. QED
  BY <1>1, Operations, ByBitsBits

\* Or, bit by bit.
LEMMA EitherBits ==
  ASSUME NEW n \in Nat, NEW u \in Int, NEW v \in Int
  PROVE  /\ ByBits(Either, n, u, v) \in 0 .. Power[n] - 1
         /\ \A k \in 0 .. n - 1 : BitOf(ByBits(Either, n, u, v), k) =
              IF BitOf(u, k) = 1 \/ BitOf(v, k) = 1 THEN 1 ELSE 0
<1>1. ASSUME NEW k \in 0 .. n - 1 PROVE BitOf(u, k) \in 0 .. 1 /\ BitOf(v, k) \in 0 .. 1
  <2>1. k \in Nat
    OBVIOUS
  <2>2. QED
    BY <2>1, BitRange
<1>2. QED
  BY <1>1, Operations, ByBitsBits

\* Exclusive or, bit by bit.
LEMMA OneOfBits ==
  ASSUME NEW n \in Nat, NEW u \in Int, NEW v \in Int
  PROVE  /\ ByBits(OneOf, n, u, v) \in 0 .. Power[n] - 1
         /\ \A k \in 0 .. n - 1 : BitOf(ByBits(OneOf, n, u, v), k) =
              IF BitOf(u, k) # BitOf(v, k) THEN 1 ELSE 0
<1>1. ASSUME NEW k \in 0 .. n - 1 PROVE BitOf(u, k) \in 0 .. 1 /\ BitOf(v, k) \in 0 .. 1
  <2>1. k \in Nat
    OBVIOUS
  <2>2. QED
    BY <2>1, BitRange
<1>2. QED
  BY <1>1, Operations, ByBitsBits

\* The highest bit of a number.
LEMMA TopBit ==
  ASSUME NEW n \in Nat, NEW u \in 0 .. Power[n + 1] - 1
  PROVE  BitOf(u, n) = IF u < Power[n] THEN 0 ELSE 1
<1>1. Power[n] \in Nat /\ Power[n] > 0 /\ Power[n + 1] = 2 * Power[n]
  BY PowerPositive, PowerStep
<1>2. CASE u < Power[n]
  <2>1. u \in 0 .. Power[n] - 1 /\ n <= n
    BY <1>1, <1>2
  <2>2. QED
    BY <2>1, <1>2, BitAbove
<1>3. CASE ~(u < Power[n])
  <2> DEFINE r == u - Power[n]
  <2>1. r \in Int /\ 0 <= r /\ r < Power[n] /\ u = 1 * Power[n] + r /\ u \in Int
    BY <1>1, <1>3
  <2> HIDE DEF r
  <2>2. u \div Power[n] = 1
    BY <1>1, <2>1, DivisionUnique
  <2>3. QED
    BY <2>2, <1>3 DEF BitOf
<1>4. QED
  BY <1>2, <1>3

\* A bit, and the number that has only one.
LEMMA OneBit ==
  ASSUME NEW b \in 0 .. 1, NEW j \in Nat, NEW k \in Nat
  PROVE  BitOf(b * Power[j], k) = IF k = j THEN b ELSE 0
<1>1. BitOf(b * Power[j], k) = IF k < j THEN 0 ELSE BitOf(b, k - j)
  BY BitOfProduct
<1>2. ASSUME j <= k PROVE BitOf(b, k - j) = IF k = j THEN b ELSE 0
  <2>1. k - j \in Nat
    BY <1>2
  <2>2. CASE k = j
    <3>1. k - j = 0 /\ b \div 1 = b /\ b % 2 = b
      BY <2>2
    <3>2. QED
      BY <3>1, <2>2, PowerStep DEF BitOf
  <2>3. CASE k # j
    <3>1. 1 <= k - j
      BY <2>3, <1>2
    <3>2. Power[1] = 2
      <4>1. Power[0 + 1] = 2 * Power[0] /\ Power[0] = 1
        BY PowerStep
      <4>2. QED
        BY <4>1
    <3>3. b \in 0 .. Power[1] - 1
      BY <3>2
    <3>4. BitOf(b, k - j) = 0
      BY <2>1, <3>1, <3>3, BitAbove
    <3>5. QED
      BY <3>4, <2>3
  <2>4. QED
    BY <2>2, <2>3
<1>3. QED
  BY <1>1, <1>2

\* Exclusive or: zero exactly if the numbers are the same, and in the upper
\* half exactly if one of them is.
LEMMA OneOfZero ==
  ASSUME NEW n \in Nat, NEW u \in 0 .. Power[n] - 1, NEW v \in 0 .. Power[n] - 1
  PROVE  ByBits(OneOf, n, u, v) = 0 <=> u = v
<1> DEFINE w == ByBits(OneOf, n, u, v)
<1>0. u \in Int /\ v \in Int /\ Power[n] \in Nat /\ Power[n] > 0
  BY PowerPositive
<1>1. /\ w \in 0 .. Power[n] - 1
      /\ \A k \in 0 .. n - 1 : BitOf(w, k) = IF BitOf(u, k) # BitOf(v, k) THEN 1 ELSE 0
  BY <1>0, OneOfBits
<1>2. \A k \in 0 .. n - 1 : BitOf(0, k) = 0
  <2>1. ASSUME NEW k \in 0 .. n - 1 PROVE BitOf(0, k) = 0
    <3>1. 0 \in 0 .. Power[0] - 1 /\ k \in Nat /\ 0 <= k
      BY PowerStep
    <3>2. QED
      BY <3>1, BitAbove
  <2>2. QED
    BY <2>1
<1> HIDE DEF w
<1>3. ASSUME w = 0 PROVE u = v
  <2>1. \A k \in 0 .. n - 1 : BitOf(u, k) = BitOf(v, k)
    BY <1>1, <1>2, <1>3
  <2>2. QED
    BY <2>1, SmallSameBits
<1>4. ASSUME u = v PROVE w = 0
  <2>1. \A k \in 0 .. n - 1 : BitOf(w, k) = BitOf(0, k)
    BY <1>1, <1>2, <1>4
  <2>2. 0 \in 0 .. Power[n] - 1
    BY <1>0
  <2>3. QED
    BY <2>1, <2>2, <1>1, SmallSameBits
<1>5. QED
  BY <1>3, <1>4 DEF w

\* It is in the lower half exactly if both or neither are.
LEMMA OneOfUpper ==
  ASSUME NEW n \in Nat, NEW u \in 0 .. Power[n + 1] - 1, NEW v \in 0 .. Power[n + 1] - 1
  PROVE  ByBits(OneOf, n + 1, u, v) < Power[n] <=> (u < Power[n] <=> v < Power[n])
<1> DEFINE w == ByBits(OneOf, n + 1, u, v)
<1>1. u \in Int /\ v \in Int /\ n + 1 \in Nat /\ n \in 0 .. (n + 1) - 1
  BY PowerPositive
<1>2. w \in 0 .. Power[n + 1] - 1 /\ BitOf(w, n) = IF BitOf(u, n) # BitOf(v, n) THEN 1 ELSE 0
  BY <1>1, OneOfBits
<1> HIDE DEF w
<1>3. /\ BitOf(u, n) = IF u < Power[n] THEN 0 ELSE 1
      /\ BitOf(v, n) = IF v < Power[n] THEN 0 ELSE 1
      /\ BitOf(w, n) = IF w < Power[n] THEN 0 ELSE 1
  BY <1>2, TopBit
<1>4. QED
  BY <1>2, <1>3 DEF w

\* Exclusive or with one inverts a bit.
LEMMA OneOfOne ==
  ASSUME NEW n \in Nat, n > 0, NEW b \in 0 .. 1
  PROVE  ByBits(OneOf, n, b, 1) = 1 - b
<1> DEFINE w == ByBits(OneOf, n, b, 1)
<1>1. /\ w \in 0 .. Power[n] - 1
      /\ \A k \in 0 .. n - 1 : BitOf(w, k) = IF BitOf(b, k) # BitOf(1, k) THEN 1 ELSE 0
  <2>1. b \in Int /\ 1 \in Int
    OBVIOUS
  <2>2. QED
    BY <2>1, OneOfBits
<1>2. ASSUME NEW c \in 0 .. 1, NEW k \in Nat PROVE BitOf(c, k) = IF k = 0 THEN c ELSE 0
  <2>1. c * Power[0] = c
    BY PowerStep
  <2>2. QED
    BY <2>1, OneBit
<1> HIDE DEF w
<1>3. 1 - b \in 0 .. 1 /\ 1 \in 0 .. 1
  OBVIOUS
<1>4. ASSUME NEW k \in 0 .. n - 1 PROVE BitOf(w, k) = BitOf(1 - b, k)
  <2>1. k \in Nat
    OBVIOUS
  <2>2. /\ BitOf(b, k) = (IF k = 0 THEN b ELSE 0) /\ BitOf(1, k) = (IF k = 0 THEN 1 ELSE 0)
        /\ BitOf(1 - b, k) = (IF k = 0 THEN 1 - b ELSE 0)
    BY <2>1, <1>2, <1>3
  <2>3. BitOf(w, k) = IF BitOf(b, k) # BitOf(1, k) THEN 1 ELSE 0
    BY <1>1
  <2>4. QED
    BY <2>2, <2>3
<1>5. 1 - b \in 0 .. Power[n] - 1
  BY <1>3, PowerGreater, PowerPositive
<1>6. w = 1 - b
  BY <1>1, <1>4, <1>5, SmallSameBits
<1>7. QED
  BY <1>6 DEF w

\* And with one power of two selects a bit.
LEMMA BothBit ==
  ASSUME NEW n \in Nat, NEW j \in 0 .. n - 1, NEW u \in Int
  PROVE  ByBits(Both, n, u, Power[j]) = BitOf(u, j) * Power[j]
<1> DEFINE w == ByBits(Both, n, u, Power[j])
           b == BitOf(u, j)
<1>1. j \in Nat /\ j < n /\ Power[j] \in Int
  BY PowerPositive
<1>2. /\ w \in 0 .. Power[n] - 1
      /\ \A k \in 0 .. n - 1 : BitOf(w, k) =
           IF BitOf(u, k) = 1 /\ BitOf(Power[j], k) = 1 THEN 1 ELSE 0
  BY <1>1, BothBits
<1>3. b \in 0 .. 1
  BY <1>1, BitRange
<1> HIDE DEF w
<1>4. ASSUME NEW k \in 0 .. n - 1 PROVE BitOf(w, k) = BitOf(b * Power[j], k)
  <2>1. k \in Nat /\ 1 \in 0 .. 1 /\ 1 * Power[j] = Power[j]
    BY <1>1
  <2>2. BitOf(Power[j], k) = IF k = j THEN 1 ELSE 0
    BY <2>1, <1>1, OneBit
  <2>3. BitOf(b * Power[j], k) = IF k = j THEN b ELSE 0
    <3> HIDE DEF b
    <3>1. QED
      BY <2>1, <1>1, <1>3, OneBit
  <2>4. BitOf(w, k) = IF BitOf(u, k) = 1 /\ BitOf(Power[j], k) = 1 THEN 1 ELSE 0
    BY <1>2
  <2>5. QED
    BY <2>2, <2>3, <2>4, <1>3
<1>5. b * Power[j] \in 0 .. Power[n] - 1
  <2> HIDE DEF b
  <2>1. j + 1 \in Nat /\ j + 1 <= n
    BY <1>1
  <2>2. /\ Power[j] \in Nat /\ Power[j] > 0 /\ Power[j + 1] = 2 * Power[j]
        /\ Power[j + 1] <= Power[n] /\ Power[n] \in Nat
    BY <1>1, <2>1, PowerPositive, PowerStep, PowerMultiple
  <2>3. b * Power[j] \in Int /\ 0 <= b * Power[j] /\ b * Power[j] <= Power[j]
    BY <2>2, <1>3
  <2>4. QED
    BY <2>2, <2>3
<1> HIDE DEF b
<1>6. w = b * Power[j]
  BY <1>2, <1>4, <1>5, SmallSameBits
<1>7. QED
  BY <1>6 DEF w, b

\* Or of numbers that have no bit in common is their sum.
LEMMA EitherSum ==
  ASSUME NEW n \in Nat, NEW m \in Nat, NEW q \in Nat, NEW v \in 0 .. Power[m] - 1,
         q * Power[m] + v < Power[n]
  PROVE  ByBits(Either, n, q * Power[m], v) = q * Power[m] + v
<1> DEFINE u == q * Power[m]
           w == ByBits(Either, n, u, v)
<1>1. u \in Int /\ v \in Int /\ 0 <= u /\ 0 <= v /\ Power[m] \in Nat /\ Power[m] > 0
  BY PowerPositive
<1>2. /\ w \in 0 .. Power[n] - 1
      /\ \A k \in 0 .. n - 1 : BitOf(w, k) =
           IF BitOf(u, k) = 1 \/ BitOf(v, k) = 1 THEN 1 ELSE 0
  <2> HIDE DEF u
  <2>1. QED
    BY <1>1, EitherBits
<1> HIDE DEF w
<1>3. ASSUME NEW k \in 0 .. n - 1 PROVE BitOf(w, k) = BitOf(u + v, k)
  <2>1. k \in Nat
    OBVIOUS
  <2>2. /\ BitOf(w, k) = (IF BitOf(u, k) = 1 \/ BitOf(v, k) = 1 THEN 1 ELSE 0)
        /\ BitOf(u, k) \in 0 .. 1 /\ BitOf(v, k) \in 0 .. 1
    <3> HIDE DEF u
    <3>1. QED
      BY <1>1, <1>2, <2>1, BitRange
  <2>3. CASE k < m
    <3>1. BitOf(u, k) = 0
      BY <2>1, <2>3, BitOfProduct
    <3>2. BitOf(v + u, k) = BitOf(v, k)
      BY <1>1, <2>1, <2>3, BitOfSum
    <3>3. v + u = u + v
      BY <1>1
    <3> HIDE DEF u
    <3>4. QED
      BY <2>2, <3>1, <3>2, <3>3
  <2>4. CASE m <= k
    <3>1. BitOf(v, k) = 0
      BY <2>1, <2>4, BitAbove
    <3>2. /\ u \div Power[m] = q /\ (u + v) \div Power[m] = q
      <4> DEFINE t == u + v
      <4>1. u = q * Power[m] + 0 /\ t = q * Power[m] + v /\ v < Power[m] /\ t \in Int
        BY <1>1
      <4> HIDE DEF u, t
      <4>2. u \div Power[m] = q
        BY <4>1, <1>1, DivisionUnique
      <4>3. t \div Power[m] = q
        <5>1. q \in Int /\ v \in Int /\ 0 <= v /\ v < Power[m] /\ t \in Int
          BY <4>1, <1>1
        <5> DEFINE p == Power[m]
        <5>2. t = q * p + v /\ p \in Nat /\ p > 0 /\ v < p
          BY <4>1, <1>1
        <5> HIDE DEF t, p
        <5>3. t \div p = q
          BY <5>1, <5>2, DivisionUnique
        <5>4. QED
          BY <5>3 DEF p
      <4>4. QED
        BY <4>2, <4>3 DEF t
    <3>3. k - m \in Nat /\ m + (k - m) = k
      BY <2>4
    <3>4. /\ BitOf(u \div Power[m], k - m) = BitOf(u, m + (k - m))
          /\ BitOf((u + v) \div Power[m], k - m) = BitOf(u + v, m + (k - m))
      <4>1. u + v \in Int
        BY <1>1
      <4> HIDE DEF u
      <4>2. QED
        BY <4>1, <3>3, <1>1, BitOfQuotient
    <3> HIDE DEF u
    <3>5. BitOf(u, k) = BitOf(u + v, k)
      BY <3>2, <3>3, <3>4
    <3>6. QED
      BY <2>2, <3>1, <3>5
  <2>5. QED
    BY <2>3, <2>4
<1>4. u + v \in 0 .. Power[n] - 1
  BY <1>1, PowerPositive
<1> HIDE DEF u
<1>5. w = u + v
  BY <1>2, <1>3, <1>4, SmallSameBits
<1>6. QED
  BY <1>5 DEF w, u

-----------------------------------------------------------------------------
(* Words. *)

\* The sizes of words, of halves and of their ranges.
LEMMA Widths ==
  /\ Bits \in Nat /\ Bits >= 4 /\ Bits - 1 \in Nat /\ (Bits - 1) + 1 = Bits
  /\ ImmBits \in Nat /\ ImmBits >= 2 /\ Bits \div 2 = ImmBits
  /\ Modulus \in Nat /\ SignBit \in Nat /\ Modulus = 2 * SignBit /\ SignBit >= 8
  /\ Power[ImmBits] \in Nat /\ Power[ImmBits - 1] \in Nat /\ Power[ImmBits - 1] >= 2
  /\ Power[ImmBits] = 2 * Power[ImmBits - 1]
  /\ Modulus = Power[ImmBits] * Power[ImmBits]
  /\ SignBit = Power[ImmBits] * Power[ImmBits - 1]
<1>1. ImmBits \in Nat /\ ImmBits >= 2 /\ Bits = 2 * ImmBits
  BY WidthAssumption
<1>2. /\ Bits \in Nat /\ Bits >= 4 /\ Bits - 1 \in Nat /\ (Bits - 1) + 1 = Bits
      /\ Bits \div 2 = ImmBits /\ Bits = ImmBits + ImmBits
      /\ Bits - 1 = ImmBits + (ImmBits - 1) /\ ImmBits - 1 \in Nat /\ (ImmBits - 1) + 1 = ImmBits
  BY <1>1
<1>3. /\ Power[Bits] \in Nat /\ Power[Bits - 1] \in Nat /\ Power[ImmBits] \in Nat
      /\ Power[ImmBits - 1] \in Nat
  BY <1>1, <1>2, PowerPositive
<1>4. Power[Bits] = 2 * Power[Bits - 1]
  BY <1>2, PowerStep
<1>5. Power[ImmBits] = 2 * Power[ImmBits - 1]
  BY <1>2, PowerStep
<1>6. Power[Bits] = Power[ImmBits] * Power[ImmBits]
  BY <1>1, <1>2, PowerSum
<1>7. Power[Bits - 1] = Power[ImmBits] * Power[ImmBits - 1]
  BY <1>1, <1>2, PowerSum
<1>8. Power[ImmBits - 1] >= 2
  <2>1. ImmBits - 1 < Power[ImmBits - 1]
    BY <1>2, PowerGreater
  <2>2. QED
    BY <2>1, <1>1, <1>3
<1>9. Power[Bits - 1] >= 8
  <2> DEFINE h == Power[ImmBits - 1]
  <2>1. h \in Nat /\ h >= 2 /\ Power[Bits - 1] = (2 * h) * h
    BY <1>3, <1>5, <1>7, <1>8
  <2> HIDE DEF h
  <2>2. h * h >= 2 * h
    BY <2>1
  <2>3. QED
    BY <2>1, <2>2
<1>10. QED
  BY <1>1, <1>2, <1>3, <1>4, <1>5, <1>6, <1>7, <1>8, <1>9 DEF Modulus, SignBit

\* The remainder of a number that is not far from the interval.
LEMMA NearRemainder ==
  ASSUME NEW m \in Nat, m > 0, NEW x \in Int, -m <= x, x < 2 * m
  PROVE  x % m = IF x < 0 THEN x + m ELSE IF x < m THEN x ELSE x - m
<1>1. CASE x < 0
  <2> DEFINE r == x + m
  <2>1. x = (-1) * m + r /\ r \in Int /\ 0 <= r /\ r < m
    BY <1>1
  <2> HIDE DEF r
  <2>2. x % m = r
    BY <2>1, DivisionUnique
  <2>3. QED
    BY <2>2, <1>1 DEF r
<1>2. CASE 0 <= x /\ x < m
  <2>1. x = 0 * m + x
    OBVIOUS
  <2>2. x % m = x
    BY <2>1, <1>2, DivisionUnique
  <2>3. QED
    BY <2>2, <1>2
<1>3. CASE m <= x
  <2> DEFINE r == x - m
  <2>1. x = 1 * m + r /\ r \in Int /\ 0 <= r /\ r < m
    BY <1>3
  <2> HIDE DEF r
  <2>2. x % m = r
    BY <2>1, DivisionUnique
  <2>3. QED
    BY <2>2, <1>3 DEF r
<1>4. QED
  BY <1>1, <1>2, <1>3

\* A word as an unsigned number,
LEMMA WordUnsigned ==
  ASSUME NEW x \in SignedWord
  PROVE  /\ x \in Int /\ -SignBit <= x /\ x < SignBit
         /\ U(x) = (IF x < 0 THEN x + Modulus ELSE x)
         /\ U(x) \in 0 .. Modulus - 1
<1>1. x \in Int /\ -SignBit <= x /\ x < SignBit
  BY Widths DEF SignedWord
<1>2. x % Modulus = IF x < 0 THEN x + Modulus ELSE x
  BY <1>1, Widths, NearRemainder
<1>3. QED
  BY <1>1, <1>2, Widths DEF U

\* as every number modulo the word size is.
LEMMA UnsignedRange ==
  ASSUME NEW x \in Int
  PROVE  U(x) \in Int /\ 0 <= U(x) /\ U(x) < Modulus
BY Widths, Division DEF U

\* A number as a word is one,
LEMMA SignedRange ==
  ASSUME NEW u \in Int
  PROVE  S(u) \in SignedWord /\ S(u) \in Int
<1> DEFINE r == (u + SignBit) % Modulus
<1>1. r \in Int /\ 0 <= r /\ r < Modulus
  BY Widths, Division
<1>2. S(u) = r - SignBit
  BY DEF S
<1> HIDE DEF r
<1>3. QED
  BY <1>1, <1>2, Widths DEF SignedWord

\* and which, for a number that is not far from the words.
LEMMA SignedNear ==
  ASSUME NEW u \in Int, -3 * SignBit <= u, u < 3 * SignBit
  PROVE  S(u) = IF u < -SignBit THEN u + Modulus ELSE IF u < SignBit THEN u ELSE u - Modulus
<1> DEFINE v == u + SignBit
<1>1. v \in Int /\ -Modulus <= v /\ v < 2 * Modulus
  BY Widths
<1> HIDE DEF v
<1>2. v % Modulus = IF v < 0 THEN v + Modulus ELSE IF v < Modulus THEN v ELSE v - Modulus
  <2>1. Modulus \in Nat /\ Modulus > 0
    BY Widths
  <2>2. QED
    BY <2>1, <1>1, NearRemainder
<1>3. S(u) = (v % Modulus) - SignBit
  BY DEF S, v
<1>4. v < 0 <=> u < -SignBit
  BY Widths DEF v
<1>5. v < Modulus <=> u < SignBit
  BY Widths DEF v
<1>6. v = u + SignBit
  BY DEF v
<1>7. QED
  BY <1>2, <1>3, <1>4, <1>5, <1>6, Widths

\* A number as a word keeps its low bits.
LEMMA SignedUnsigned ==
  ASSUME NEW u \in Int
  PROVE  U(S(u)) = u % Modulus
<1> DEFINE v == u + SignBit
           m == Modulus
           q == v \div m
           r == v % m
<1>0. v \in Int /\ v = u + SignBit /\ SignBit \in Int
  BY Widths
<1>1. m \in Nat /\ m > 0
  BY Widths
<1>2. S(u) = r - SignBit
  BY DEF S
<1>3. U(S(u)) = S(u) % m
  BY DEF U
<1> HIDE DEF v, m
<1>4. q \in Int /\ r \in Int /\ v = q * m + r
  BY <1>0, <1>1, Division
<1> HIDE DEF q, r
<1>5. r - SignBit = u + (-q) * m /\ -q \in Int
  BY <1>0, <1>1, <1>4
<1>6. (u + (-q) * m) % m = u % m
  BY <1>1, <1>5, DivisionShift
<1>7. QED
  BY <1>2, <1>3, <1>5, <1>6 DEF m

\* An unsigned number survives being a word,
LEMMA SignedBack ==
  ASSUME NEW u \in 0 .. Modulus - 1
  PROVE  U(S(u)) = u /\ S(u) = (IF u < SignBit THEN u ELSE u - Modulus)
<1>1. u \in Int /\ 0 <= u /\ u < Modulus
  BY Widths
<1>2. u % Modulus = u
  BY <1>1, Widths, NearRemainder
<1>3. U(S(u)) = u
  BY <1>1, <1>2, SignedUnsigned
<1>4. -3 * SignBit <= u /\ u < 3 * SignBit /\ ~(u < -SignBit)
  BY <1>1, Widths
<1>5. S(u) = IF u < SignBit THEN u ELSE u - Modulus
  BY <1>1, <1>4, SignedNear
<1>6. QED
  BY <1>3, <1>5

\* and a word is itself.
LEMMA SignedSame ==
  ASSUME NEW x \in SignedWord
  PROVE  S(x) = x
<1>1. /\ x \in Int /\ -3 * SignBit <= x /\ x < 3 * SignBit /\ ~(x < -SignBit)
      /\ x < SignBit
  BY WordUnsigned, Widths
<1>2. QED
  BY <1>1, SignedNear

\* Small powers.
LEMMA SmallPowers == Power[0] = 1 /\ Power[1] = 2
<1>1. Power[0] = 1 /\ Power[0 + 1] = 2 * Power[0]
  BY PowerStep
<1>2. QED
  BY <1>1

-----------------------------------------------------------------------------
(* Halves of words. *)

\* A word is its upper half and its lower half.
LEMMA Halves ==
  ASSUME NEW u \in 0 .. Modulus - 1
  PROVE  /\ u \div Power[ImmBits] \in 0 .. Power[ImmBits] - 1
         /\ u % Power[ImmBits] \in 0 .. Power[ImmBits] - 1
         /\ u = (u \div Power[ImmBits]) * Power[ImmBits] + (u % Power[ImmBits])
<1> DEFINE i == Power[ImmBits]
           q == u \div i
           r == u % i
<1>1. i \in Nat /\ i >= 4 /\ Modulus = i * i
  BY Widths
<1>2. u \in Int /\ 0 <= u /\ u < i * i
  BY <1>1
<1> HIDE DEF i
<1>3. q \in Int /\ r \in Int /\ 0 <= r /\ r < i /\ u = q * i + r
  BY <1>1, <1>2, Division
<1> HIDE DEF q, r
<1>4. q >= 0
  <2>1. ASSUME q <= -1 PROVE FALSE
    <3>1. q * i <= (-1) * i
      BY <2>1, <1>1, <1>3
    <3>2. QED
      BY <3>1, <1>1, <1>2, <1>3
  <2>2. QED
    BY <2>1, <1>3
<1>5. q < i
  <2>1. ASSUME i <= q PROVE FALSE
    <3>1. i * i <= q * i
      BY <2>1, <1>1, <1>3
    <3>2. QED
      BY <3>1, <1>1, <1>2, <1>3
  <2>2. QED
    BY <2>1, <1>1, <1>3
<1>6. q \in 0 .. i - 1 /\ r \in 0 .. i - 1
  BY <1>1, <1>3, <1>4, <1>5
<1>7. QED
  BY <1>3, <1>6 DEF q, r, i

\* A half word is its own low half.
LEMMA SmallRemainder ==
  ASSUME NEW i \in 0 .. Power[ImmBits] - 1
  PROVE  i % Power[ImmBits] = i
<1> DEFINE p == Power[ImmBits]
<1>1. p \in Nat /\ p >= 4 /\ i \in Int /\ 0 <= i /\ i < p
  BY Widths
<1> HIDE DEF p
<1>2. i % p = i
  BY <1>1, NearRemainder
<1>3. QED
  BY <1>2 DEF p

\* ORi of a lower half to a word whose lower half is zero.
LEMMA OrLow ==
  ASSUME NEW q \in 0 .. Power[ImmBits] - 1, NEW r \in 0 .. Power[ImmBits] - 1
  PROVE  Result("ORi", S(q * Power[ImmBits]), r) = S(q * Power[ImmBits] + r)
<1> DEFINE i == Power[ImmBits]
           p == q * i
<1>1. i \in Nat /\ i >= 4 /\ Modulus = i * i /\ q \in Nat /\ q <= i - 1 /\ r \in Nat /\ r < i
  BY Widths
<1> HIDE DEF i
<1>2. p \in Nat /\ p <= (i - 1) * i
  BY <1>1
<1>3. p \in Nat /\ p + r < i * i
  <2>1. (i - 1) * i = i * i - i /\ i * i \in Int
    BY <1>1
  <2> HIDE DEF p
  <2>2. QED
    BY <2>1, <1>1, <1>2
<1>4. p \in 0 .. Modulus - 1
  <2> HIDE DEF p
  <2>1. i * i \in Int
    BY <1>1
  <2>2. QED
    BY <2>1, <1>1, <1>3
<1>5. U(S(p)) = p
  <2> HIDE DEF p
  <2>1. QED
    BY <1>4, SignedBack
<1>6. ByBits(Either, Bits, p, r) = p + r
  <2>1. q * Power[ImmBits] + r < Power[Bits]
    BY <1>1, <1>3 DEF Modulus, i
  <2>2. r \in 0 .. Power[ImmBits] - 1 /\ q \in Nat /\ Bits \in Nat /\ ImmBits \in Nat
    BY <1>1, Widths
  <2>3. ByBits(Either, Bits, q * Power[ImmBits], r) = q * Power[ImmBits] + r
    BY <2>1, <2>2, EitherSum
  <2>4. QED
    BY <2>3 DEF i
<1>7. uc16(r) = r
  BY SmallRemainder DEF uc16
<1>8. Result("ORi", S(p), r) = S(ByBits(Either, Bits, U(S(p)), uc16(r)))
  BY DEF Result, BitOr
<1>9. QED
  BY <1>5, <1>6, <1>7, <1>8 DEF i

-----------------------------------------------------------------------------
(* Products and quotients. *)

\* A product is no larger than the square of a bound of its factors.
LEMMA ProductBound ==
  ASSUME NEW h \in Nat, NEW a \in Int, NEW b \in Int,
         -h <= a, a <= h, -h <= b, b <= h
  PROVE  a * b \in Int /\ -(h * h) <= a * b /\ a * b <= h * h
<1>1. (h - a) * (h + b) >= 0 /\ (h + a) * (h - b) >= 0
  <2>1. \A s, t \in Int : s >= 0 /\ t >= 0 => s * t >= 0
    OBVIOUS
  <2>2. QED
    BY <2>1
<1>2. (h - a) * (h - b) >= 0 /\ (h + a) * (h + b) >= 0
  <2>1. \A s, t \in Int : s >= 0 /\ t >= 0 => s * t >= 0
    OBVIOUS
  <2>2. QED
    BY <2>1
<1>3. (h - a) * (h + b) + (h + a) * (h - b) = 2 * (h * h) - 2 * (a * b)
  OBVIOUS
<1>4. (h - a) * (h - b) + (h + a) * (h + b) = 2 * (h * h) + 2 * (a * b)
  OBVIOUS
<1> DEFINE p == a * b
           q == h * h
           c == (h - a) * (h + b)
           d == (h + a) * (h - b)
           e == (h - a) * (h - b)
           f == (h + a) * (h + b)
<1>5. p \in Int /\ q \in Int /\ c \in Int /\ d \in Int /\ e \in Int /\ f \in Int
  OBVIOUS
<1>6. c >= 0 /\ d >= 0 /\ e >= 0 /\ f >= 0 /\ c + d = 2 * q - 2 * p /\ e + f = 2 * q + 2 * p
  BY <1>1, <1>2, <1>3, <1>4
<1> HIDE DEF p, q, c, d, e, f
<1>7. -q <= p /\ p <= q
  BY <1>5, <1>6
<1>8. QED
  BY <1>5, <1>7 DEF p, q

\* The signed product, in HI and LO.
LEMMA SignedProduct ==
  ASSUME NEW x \in SignedWord, NEW y \in SignedWord
  PROVE  S((x * y) \div Modulus) * Modulus + U(S(x * y)) = x * y
<1> DEFINE p == x * y
           m == Modulus
           h == SignBit
           q == p \div m
           r == p % m
<1>1. h \in Nat /\ h >= 8 /\ m \in Nat /\ m > 0 /\ m = 2 * h
  BY Widths
<1>2. x \in Int /\ y \in Int /\ -h <= x /\ x <= h /\ -h <= y /\ y <= h
  <2>1. x \in Int /\ y \in Int /\ -h <= x /\ x < h /\ -h <= y /\ y < h
    BY WordUnsigned
  <2> HIDE DEF h
  <2>2. QED
    BY <2>1, <1>1
<1>3. p \in Int /\ -(h * h) <= p /\ p <= h * h
  <2> HIDE DEF h
  <2>1. QED
    BY <1>1, <1>2, ProductBound
<1>4. U(S(p)) = r
  <2> HIDE DEF p
  <2>1. QED
    BY <1>3, SignedUnsigned DEF r
<1> HIDE DEF p, m, h
<1>5. q \in Int /\ r \in Int /\ 0 <= r /\ r < m /\ p = q * m + r
  BY <1>1, <1>3, Division
<1> HIDE DEF q, r
<1>6. q < h
  <2>1. ASSUME h <= q PROVE FALSE
    <3>1. h * m <= q * m
      BY <2>1, <1>1, <1>5
    <3>2. h * m = 2 * (h * h) /\ h * h > 0 /\ q * m \in Int /\ h * h \in Int
      BY <1>1, <1>5
    <3>3. QED
      BY <3>1, <3>2, <1>3, <1>5
  <2>2. QED
    BY <2>1, <1>1, <1>5
<1>7. -h <= q
  <2>1. ASSUME q + 1 <= -h PROVE FALSE
    <3>1. (q + 1) * m <= (-h) * m
      BY <2>1, <1>1, <1>5
    <3>2. (q + 1) * m = q * m + m /\ (-h) * m = -(2 * (h * h)) /\ h * h > 0 /\ q * m \in Int
          /\ h * h \in Int
      BY <1>1, <1>5
    <3>3. QED
      BY <3>1, <3>2, <1>1, <1>3, <1>5
  <2>2. QED
    BY <2>1, <1>1, <1>5
<1>8. q \in SignedWord
  BY <1>1, <1>5, <1>6, <1>7 DEF SignedWord, h
<1>9. S(q) = q
  BY <1>8, SignedSame
<1>10. QED
  BY <1>4, <1>5, <1>9 DEF p, q, m

\* The unsigned one.
LEMMA UnsignedProduct ==
  ASSUME NEW x \in SignedWord, NEW y \in SignedWord
  PROVE  U(S((U(x) * U(y)) \div Modulus)) * Modulus + U(S(U(x) * U(y))) = U(x) * U(y)
<1> DEFINE a == U(x)
           b == U(y)
           p == a * b
           m == Modulus
           q == p \div m
           r == p % m
<1>1. m \in Nat /\ m > 0
  BY Widths
<1>2. a \in Int /\ 0 <= a /\ a <= m - 1 /\ b \in Int /\ 0 <= b /\ b <= m - 1
  BY WordUnsigned, <1>1
<1> HIDE DEF a, b
<1>3. p \in Int /\ 0 <= p /\ p < m * m
  <2> HIDE DEF m
  <2>1. a * b <= (m - 1) * b /\ (m - 1) * b <= (m - 1) * m /\ (m - 1) * m = m * m - m
    BY <1>1, <1>2
  <2>2. a * b \in Int /\ 0 <= a * b /\ (m - 1) * b \in Int /\ m * m \in Int
    BY <1>1, <1>2
  <2>3. QED
    BY <2>1, <2>2, <1>1
<1>4. U(S(p)) = r
  <2> HIDE DEF p
  <2>1. QED
    BY <1>3, SignedUnsigned DEF r
<1> HIDE DEF p, m
<1>5. q \in Int /\ r \in Int /\ 0 <= r /\ r < m /\ p = q * m + r
  BY <1>1, <1>3, Division
<1> HIDE DEF q, r
<1>6. q < m
  <2>1. ASSUME m <= q PROVE FALSE
    <3>1. m * m <= q * m /\ q * m \in Int /\ m * m \in Int
      BY <2>1, <1>1, <1>5
    <3>2. QED
      BY <3>1, <1>3, <1>5
  <2>2. QED
    BY <2>1, <1>1, <1>5
<1>7. 0 <= q
  <2>1. ASSUME q <= -1 PROVE FALSE
    <3>1. q * m <= (-1) * m /\ q * m \in Int
      BY <2>1, <1>1, <1>5
    <3>2. QED
      BY <3>1, <1>1, <1>3, <1>5
  <2>2. QED
    BY <2>1, <1>5
<1>8. q \in 0 .. Modulus - 1
  BY <1>1, <1>5, <1>6, <1>7 DEF m
<1>9. U(S(q)) = q
  BY <1>8, SignedBack
<1>10. QED
  BY <1>4, <1>5, <1>9 DEF p, q, m, a, b

\* Division by what is not zero, unless the quotient does not fit.
LEMMA SignedDivision ==
  ASSUME NEW x \in SignedWord, NEW y \in SignedWord, y # 0, ~(x = -SignBit /\ y = -1)
  PROVE  /\ y * S(Quotient(x, y)) + S(Remainder(x, y)) = x
         /\ Abs(S(Remainder(x, y))) < Abs(y)
         /\ S(Remainder(x, y)) = 0 \/ (S(Remainder(x, y)) < 0) = (x < 0)
<1> DEFINE a == Abs(x)
           b == Abs(y)
           k == a \div b
           r == a % b
           q == Quotient(x, y)
           m == Remainder(x, y)
           h == SignBit
<1>1. h \in Nat /\ h >= 8 /\ x \in Int /\ y \in Int /\ -h <= x /\ x < h /\ -h <= y /\ y < h
  BY Widths, WordUnsigned
<1>2. /\ a = (IF x < 0 THEN -x ELSE x) /\ a \in Nat /\ a <= h
      /\ b = (IF y < 0 THEN -y ELSE y) /\ b \in Nat /\ b > 0 /\ b <= h
  BY <1>1 DEF Abs
<1>3. q = (IF (x < 0) = (y < 0) THEN 1 ELSE -1) * k /\ m = x - y * q
  BY DEF Quotient, Remainder
<1> HIDE DEF a, b, q, m, h
<1>4. k \in Int /\ r \in Int /\ 0 <= r /\ r < b /\ a = k * b + r
  <2>1. a \in Int /\ b \in Nat /\ b > 0
    BY <1>2
  <2>2. /\ a \div b \in Int /\ a % b \in Int /\ 0 <= a % b /\ a % b < b
        /\ a = (a \div b) * b + (a % b)
    BY <2>1, Division
  <2>3. QED
    BY <2>2
<1> HIDE DEF k, r
<1>5. 0 <= k
  <2>1. ASSUME k <= -1 PROVE FALSE
    <3>1. k * b <= (-1) * b /\ k * b \in Int
      BY <2>1, <1>2, <1>4
    <3>2. QED
      BY <3>1, <1>2, <1>4
  <2>2. QED
    BY <2>1, <1>4
<1>6. k <= k * b /\ k * b \in Int /\ (b >= 2 => 2 * k <= k * b)
  BY <1>2, <1>4, <1>5
<1>7. k <= a /\ k <= h /\ (k = h => a = h /\ b = 1)
  <2>1. k <= a
    BY <1>2, <1>4, <1>6
  <2>2. ASSUME k = h PROVE a = h
    BY <2>1, <2>2, <1>1, <1>2
  <2>3. ASSUME k = h PROVE ~(b >= 2)
    BY <2>3, <1>1, <1>2, <1>4, <1>6
  <2>4. QED
    BY <2>1, <2>2, <2>3, <1>1, <1>2, <1>4
<1>8. /\ (x < 0) = (y < 0) => q = k
      /\ (x < 0) # (y < 0) => q = -k
  BY <1>3, <1>4
<1>9. /\ y * k = (IF y < 0 THEN -(k * b) ELSE k * b)
      /\ y * (-k) = -(y * k) /\ y * k \in Int
  BY <1>1, <1>2, <1>4
<1>10. m = (IF x < 0 THEN -r ELSE r) /\ q \in Int /\ y * q + m = x
  <2>1. q \in Int /\ y * q \in Int
    BY <1>1, <1>4, <1>8
  <2>2. y * q = (IF x < 0 THEN -(k * b) ELSE k * b)
    BY <1>6, <1>8, <1>9
  <2>3. m = (IF x < 0 THEN -r ELSE r)
    BY <2>1, <2>2, <1>1, <1>2, <1>3, <1>4, <1>6
  <2>4. y * q + m = x
    BY <2>1, <2>2, <2>3, <1>1, <1>2, <1>4, <1>6
  <2>5. QED
    BY <2>1, <2>3, <2>4
<1>11. q \in SignedWord
  <2>1. -h <= q /\ q <= h
    BY <1>1, <1>4, <1>5, <1>7, <1>8
  <2>2. q # h
    <3>1. SUFFICES ASSUME q = h PROVE FALSE
      OBVIOUS
    <3>2. (x < 0) = (y < 0) /\ k = h
      BY <3>1, <1>1, <1>4, <1>5, <1>8
    <3>3. a = h /\ b = 1
      BY <3>2, <1>7
    <3>4. x = -h /\ y = -1
      BY <3>2, <3>3, <1>1, <1>2
    <3>5. QED
      BY <3>4 DEF h
  <2>3. QED
    BY <2>1, <2>2, <1>1, <1>10 DEF SignedWord, h
<1>12. m \in SignedWord
  BY <1>1, <1>2, <1>4, <1>10 DEF SignedWord, h
<1>13. S(q) = q /\ S(m) = m
  BY <1>11, <1>12, SignedSame
<1>14. Abs(m) = r /\ Abs(y) = b
  BY <1>4, <1>10 DEF Abs, b
<1>15. m = 0 \/ (m < 0) = (x < 0)
  BY <1>4, <1>10
<1>16. QED
  BY <1>4, <1>10, <1>13, <1>14, <1>15 DEF q, m

-----------------------------------------------------------------------------
(* Shifts. *)

\* The amount of a shift is what its instruction takes, constant or not.
LEMMA Amounts ==
  ASSUME NEW n \in 0 .. Bits - 1
  PROVE  c5(n) = n /\ U(n) = n /\ Reduced(n) = n
<1>1. n \in Nat /\ n < Bits /\ Bits \in Nat /\ Bits > 0 /\ -Bits <= n
  BY Widths
<1>2. n % Bits = n
  BY <1>1, NearRemainder
<1>3. Bits < Modulus /\ Modulus \in Nat
  BY Widths, PowerGreater DEF Modulus
<1>4. n % Modulus = n
  <2>1. Modulus > 0 /\ -Modulus <= n /\ n < Modulus /\ n < 2 * Modulus /\ n \in Int
    BY <1>1, <1>3
  <2>2. QED
    BY <2>1, <1>1, <1>3, NearRemainder
<1>5. Reduced(n) = n
  BY <1>1 DEF Reduced
<1>6. QED
  BY <1>2, <1>4, <1>5 DEF c5, U

\* A shift to the left, by the width too, bit by bit.
LEMMA LeftBits ==
  ASSUME NEW x \in SignedWord, NEW n \in 0 .. Bits
  PROVE  /\ ShiftLeft(x, n) \in 0 .. Modulus - 1
         /\ \A k \in 0 .. Bits - 1 :
              BitOf(ShiftLeft(x, n), k) = IF k < n THEN 0 ELSE Bit(x, k - n)
<1>1. U(x) \in Int /\ Bits \in Nat /\ n \in Nat /\ n <= Bits
  BY WordUnsigned, Widths
<1>2. CASE n < Bits
  <2>1. ShiftLeft(x, n) = (U(x) * Power[n]) % Power[Bits]
    BY <1>1, <1>2 DEF ShiftLeft, Modulus
  <2>2. Power[n] \in Int /\ Power[Bits] \in Nat /\ Power[Bits] > 0
    BY <1>1, PowerPositive
  <2> DEFINE p == U(x) * Power[n]
  <2>3. p \in Int
    BY <1>1, <2>2
  <2>4. p % Power[Bits] \in 0 .. Modulus - 1
    <3> HIDE DEF p
    <3>1. p % Power[Bits] \in Int /\ 0 <= p % Power[Bits] /\ p % Power[Bits] < Power[Bits]
      BY <2>2, <2>3, Division
    <3>2. QED
      BY <3>1, <2>2 DEF Modulus
  <2>5. ASSUME NEW k \in 0 .. Bits - 1
        PROVE  BitOf(p % Power[Bits], k) = IF k < n THEN 0 ELSE Bit(x, k - n)
    <3>1. k \in Nat /\ k < Bits
      BY <1>1
    <3>2. BitOf(p, k) = IF k < n THEN 0 ELSE BitOf(U(x), k - n)
      BY <3>1, <1>1, BitOfProduct
    <3> HIDE DEF p
    <3>3. BitOf(p % Power[Bits], k) = BitOf(p, k)
      BY <3>1, <2>3, <1>1, BitOfRemainder
    <3>4. QED
      BY <3>2, <3>3 DEF Bit
  <2>6. QED
    BY <2>1, <2>4, <2>5
<1>3. CASE n = Bits
  <2>1. ShiftLeft(x, n) = 0
    BY <1>1, <1>3 DEF ShiftLeft
  <2>2. ASSUME NEW k \in 0 .. Bits - 1 PROVE BitOf(0, k) = 0 /\ k < n
    <3>1. k \in Nat /\ k < n
      BY <1>1, <1>3
    <3>2. 0 \in 0 .. Power[0] - 1
      BY SmallPowers
    <3>3. BitOf(0, k) = 0
      BY <3>1, <3>2, BitAbove
    <3>4. QED
      BY <3>1, <3>3
  <2>3. QED
    BY <2>1, <2>2, Widths
<1>4. QED
  BY <1>1, <1>2, <1>3

\* A shift to the right.
LEMMA RightBits ==
  ASSUME NEW x \in SignedWord, NEW n \in 0 .. Bits
  PROVE  /\ ShiftRight(x, n) \in 0 .. Modulus - 1
         /\ \A k \in 0 .. Bits - 1 :
              BitOf(ShiftRight(x, n), k) = IF k + n < Bits THEN Bit(x, k + n) ELSE 0
<1>1. /\ U(x) \in Int /\ 0 <= U(x) /\ U(x) < Modulus /\ U(x) \in 0 .. Power[Bits] - 1
      /\ Bits \in Nat /\ n \in Nat /\ n <= Bits
  BY WordUnsigned, Widths DEF Modulus
<1>2. CASE n < Bits
  <2> DEFINE p == Power[n]
             u == U(x)
             q == u \div p
             r == u % p
  <2>1. ShiftRight(x, n) = q
    BY <1>1, <1>2 DEF ShiftRight
  <2>2. p \in Nat /\ p > 0
    BY <1>1, PowerPositive
  <2>3. q \in 0 .. Modulus - 1
    <3>1. u \in Int /\ 0 <= u /\ u < Modulus
      BY <1>1
    <3> HIDE DEF u, p
    <3>2. q \in Int /\ r \in Int /\ 0 <= r /\ r < p /\ u = q * p + r
      BY <2>2, <3>1, Division
    <3> HIDE DEF q, r
    <3>3. 0 <= q
      <4>1. ASSUME q <= -1 PROVE FALSE
        <5>1. q * p <= (-1) * p /\ q * p \in Int
          BY <4>1, <2>2, <3>2
        <5>2. QED
          BY <5>1, <3>1, <3>2, <2>2
      <4>2. QED
        BY <4>1, <3>2
    <3>4. q <= q * p /\ q * p \in Int
      BY <3>2, <3>3, <2>2
    <3>5. QED
      BY <3>1, <3>2, <3>3, <3>4, Widths
  <2>4. ASSUME NEW k \in 0 .. Bits - 1
        PROVE  BitOf(q, k) = IF k + n < Bits THEN Bit(x, k + n) ELSE 0
    <3>1. k \in Nat /\ k < Bits /\ n + k = k + n
      BY <1>1
    <3>2. BitOf(q, k) = BitOf(U(x), k + n)
      BY <3>1, <1>1, BitOfQuotient
    <3>3. CASE k + n < Bits
      BY <3>2, <3>3 DEF Bit
    <3>4. CASE ~(k + n < Bits)
      <4>1. k + n \in Nat /\ Bits <= k + n
        BY <3>1, <3>4, <1>1
      <4>2. BitOf(U(x), k + n) = 0
        BY <4>1, <1>1, BitAbove
      <4>3. QED
        BY <4>2, <3>2, <3>4
    <3>5. QED
      BY <3>3, <3>4
  <2>5. QED
    BY <2>1, <2>3, <2>4
<1>3. CASE n = Bits
  <2>1. ShiftRight(x, n) = 0
    BY <1>1, <1>3 DEF ShiftRight
  <2>2. ASSUME NEW k \in 0 .. Bits - 1 PROVE BitOf(0, k) = 0 /\ ~(k + n < Bits)
    <3>1. k \in Nat /\ ~(k + n < Bits) /\ 0 <= k
      BY <1>1, <1>3
    <3>2. 0 \in 0 .. Power[0] - 1
      BY SmallPowers
    <3>3. BitOf(0, k) = 0
      BY <3>1, <3>2, BitAbove
    <3>4. QED
      BY <3>1, <3>3
  <2>3. QED
    BY <2>1, <2>2, Widths
<1>4. QED
  BY <1>1, <1>2, <1>3

\* The quotient by a power of two of a number that is not negative.
LEMMA SmallerQuotient ==
  ASSUME NEW u \in Nat, NEW p \in Nat, p > 0
  PROVE  u \div p \in Nat /\ u \div p <= u
<1> DEFINE q == u \div p
           r == u % p
<1>1. q \in Int /\ r \in Int /\ 0 <= r /\ r < p /\ u = q * p + r
  BY Division
<1> HIDE DEF q, r
<1>2. 0 <= q
  <2>1. ASSUME q <= -1 PROVE FALSE
    <3>1. q * p <= (-1) * p /\ q * p \in Int
      BY <2>1, <1>1
    <3>2. QED
      BY <3>1, <1>1
  <2>2. QED
    BY <2>1, <1>1
<1>3. q <= q * p /\ q * p \in Int
  BY <1>1, <1>2
<1>4. q \in Nat /\ q <= u
  BY <1>1, <1>2, <1>3
<1>5. QED
  BY <1>4 DEF q

\* The sign that SRA puts back.
LEMMA SignBitOf ==
  ASSUME NEW x \in SignedWord
  PROVE  /\ BitOf(U(x), Bits - 1) = (IF x < 0 THEN 1 ELSE 0)
         /\ BitAnd(U(x), SignBit) = IF x < 0 THEN SignBit ELSE 0
<1>1. /\ x \in Int /\ U(x) \in 0 .. Modulus - 1 /\ U(x) \in Int
      /\ (U(x) < SignBit <=> ~(x < 0))
  BY WordUnsigned, Widths
<1>2. BitOf(U(x), Bits - 1) = IF x < 0 THEN 1 ELSE 0
  <2>1. Bits - 1 \in Nat /\ U(x) \in 0 .. Power[(Bits - 1) + 1] - 1
    BY <1>1, Widths DEF Modulus
  <2>2. BitOf(U(x), Bits - 1) = IF U(x) < Power[Bits - 1] THEN 0 ELSE 1
    BY <2>1, TopBit
  <2>3. QED
    BY <2>2, <1>1 DEF SignBit
<1>3. BitAnd(U(x), SignBit) = BitOf(U(x), Bits - 1) * SignBit
  <2>1. U(x) \in Int /\ Bits \in Nat /\ Bits - 1 \in 0 .. Bits - 1
    BY <1>1, Widths
  <2>2. ByBits(Both, Bits, U(x), Power[Bits - 1]) = BitOf(U(x), Bits - 1) * Power[Bits - 1]
    BY <2>1, BothBit
  <2>3. QED
    BY <2>2 DEF BitAnd, SignBit
<1>4. QED
  BY <1>2, <1>3, Widths

\* An arithmetic shift of a word that is not negative divides it.
LEMMA SignedShiftUp ==
  ASSUME NEW x \in SignedWord, x >= 0, NEW n \in 0 .. Bits - 1
  PROVE  S(ShiftRightSigned(x, n)) = x \div Power[n]
<1>1. /\ x \in Nat /\ x < SignBit /\ U(x) = x /\ ~(x < 0)
      /\ Bits \in Nat /\ n \in Nat
  BY WordUnsigned, Widths
<1> DEFINE q == x \div Power[n]
<1>2. q \in Nat /\ q <= x
  BY <1>1, PowerPositive, SmallerQuotient
<1>3. ShiftRight(x, n) = q
  BY <1>1 DEF ShiftRight
<1>4. BitAnd(U(x), SignBit) = 0
  BY <1>1, SignBitOf
<1>5. ShiftRightSigned(x, n) = ByBits(Either, Bits, 0, q)
  BY <1>3, <1>4 DEF ShiftRightSigned, BitOr
<1> HIDE DEF q
<1>6. ByBits(Either, Bits, 0, q) = q
  <2>1. q \in 0 .. Power[Bits] - 1 /\ 0 * Power[Bits] = 0 /\ 0 + q = q /\ q < Power[Bits]
    BY <1>1, <1>2, Widths DEF Modulus
  <2>2. 0 * Power[Bits] + q < Power[Bits]
    BY <2>1
  <2>3. ByBits(Either, Bits, 0 * Power[Bits], q) = 0 * Power[Bits] + q
    BY <2>1, <2>2, <1>1, EitherSum
  <2>4. QED
    BY <2>1, <2>3
<1>7. S(q) = q
  <2>1. q \in SignedWord
    BY <1>1, <1>2, Widths DEF SignedWord
  <2>2. QED
    BY <2>1, SignedSame
<1>8. QED
  BY <1>5, <1>6, <1>7 DEF q

\* One of a negative word by zero changes nothing; by more it puts back one bit
\* where the quotient has n.
LEMMA SignedShiftDown ==
  ASSUME NEW x \in SignedWord, x < 0, NEW n \in 0 .. Bits - 1
  PROVE  /\ n = 0 => S(ShiftRightSigned(x, n)) = x
         /\ n > 0 => S(ShiftRightSigned(x, n)) = (x \div Power[n]) + Power[Bits - n] - SignBit
<1>1. /\ x \in Int /\ -SignBit <= x /\ x < 0 /\ U(x) = x + Modulus /\ U(x) \in 0 .. Modulus - 1
      /\ U(x) \in Nat /\ Bits \in Nat /\ n \in Nat /\ n < Bits
  BY WordUnsigned, Widths
<1>2. BitAnd(U(x), SignBit) = SignBit
  BY <1>1, SignBitOf
<1>3. ShiftRightSigned(x, n) = ByBits(Either, Bits, SignBit, U(x) \div Power[n])
  BY <1>1, <1>2 DEF ShiftRightSigned, BitOr, ShiftRight
<1>4. ASSUME n = 0 PROVE S(ShiftRightSigned(x, n)) = x
  <2> DEFINE w == ByBits(Either, Bits, SignBit, U(x))
  <2>1. U(x) \div Power[n] = U(x)
    BY <1>1, <1>4, SmallPowers
  <2>2. /\ w \in 0 .. Power[Bits] - 1
        /\ \A k \in 0 .. Bits - 1 : BitOf(w, k) =
             IF BitOf(SignBit, k) = 1 \/ BitOf(U(x), k) = 1 THEN 1 ELSE 0
    <3>1. SignBit \in Int /\ U(x) \in Int /\ Bits \in Nat
      BY <1>1, Widths
    <3>2. QED
      BY <3>1, EitherBits
  <2> HIDE DEF w
  <2>3. ASSUME NEW k \in 0 .. Bits - 1 PROVE BitOf(w, k) = BitOf(U(x), k)
    <3>1. k \in Nat /\ BitOf(U(x), k) \in 0 .. 1
      BY <1>1, BitRange
    <3>2. BitOf(SignBit, k) = IF k = Bits - 1 THEN 1 ELSE 0
      <4>1. 1 \in 0 .. 1 /\ Bits - 1 \in Nat /\ 1 * Power[Bits - 1] = SignBit
        BY Widths DEF SignBit
      <4>2. BitOf(1 * Power[Bits - 1], k) = IF k = Bits - 1 THEN 1 ELSE 0
        BY <4>1, <3>1, OneBit
      <4>3. QED
        BY <4>1, <4>2
    <3>3. CASE k = Bits - 1
      BY <3>3, <3>2, <2>2, <1>1, SignBitOf
    <3>4. CASE k # Bits - 1
      BY <3>1, <3>2, <3>4, <2>2
    <3>5. QED
      BY <3>3, <3>4
  <2>4. w = U(x)
    BY <2>2, <2>3, <1>1, SmallSameBits DEF Modulus
  <2>5. S(U(x)) = x
    BY <1>1, SignedBack, Widths
  <2>6. QED
    BY <1>3, <2>1, <2>4, <2>5 DEF w
<1>5. ASSUME n > 0
      PROVE  S(ShiftRightSigned(x, n)) = (x \div Power[n]) + Power[Bits - n] - SignBit
  <2> DEFINE p == Power[n]
             e == Power[Bits - n]
             q == x \div p
             v == U(x) \div p
             h == SignBit
             m == Modulus
  <2>1. p \in Nat /\ p >= 2 /\ e \in Nat /\ e > 0 /\ m = e * p /\ h \in Nat /\ h > 0 /\ m = 2 * h
    <3>1. Bits - n \in Nat /\ (Bits - n) + n = Bits
      BY <1>1
    <3>2. Power[(Bits - n) + n] = Power[Bits - n] * Power[n]
      BY <3>1, <1>1, PowerSum
    <3>3. n < Power[n] /\ Power[n] \in Nat /\ Power[Bits - n] \in Nat /\ Power[Bits - n] > 0
      BY <3>1, <1>1, PowerGreater, PowerPositive
    <3>4. QED
      BY <3>1, <3>2, <3>3, <1>1, <1>5, Widths DEF Modulus
  <2>2. x \in Int /\ -h <= x /\ x < 0 /\ U(x) = x + m
    BY <1>1
  <2> HIDE DEF p, e, h, m
  <2>3. v = q + e
    <3>1. (x + e * p) \div p = (x \div p) + e
      <4>1. x \in Int /\ e \in Int /\ p \in Nat /\ p > 0
        BY <2>1, <2>2
      <4>2. QED
        BY <4>1, DivisionShift
    <3>2. QED
      BY <3>1, <2>1, <2>2
  <2> DEFINE r == x % p
  <2>4. q \in Int /\ r \in Int /\ 0 <= r /\ r < p /\ x = q * p + r
    <3>1. p > 0
      BY <2>1
    <3>2. QED
      BY <3>1, <2>1, <2>2, Division
  <2>5. v \in Nat /\ v < h
    <3>1. U(x) \in Nat /\ p > 0
      BY <2>1, <1>1
    <3>2. v \in Nat
      BY <3>1, <2>1, SmallerQuotient
    <3>3. U(x) < m
      BY <2>1, <2>2
    <3> DEFINE s == U(x) % p
    <3>4. s \in Int /\ 0 <= s /\ U(x) = v * p + s
      BY <3>1, <2>1, Division
    <3> DEFINE u == U(x)
    <3>5. u \in Nat /\ u < m /\ u = v * p + s
      BY <3>1, <3>3, <3>4
    <3> HIDE DEF v, s, u
    <3>6. 2 * v <= v * p /\ v * p \in Int
      BY <3>2, <2>1
    <3>7. v < h
      BY <3>2, <3>4, <3>5, <3>6, <2>1
    <3>8. QED
      BY <3>2, <3>7
  <2> HIDE DEF v, q, r
  <2>6. ByBits(Either, Bits, h, v) = h + v
    <3>1. h = Power[Bits - 1] /\ m = Power[Bits] /\ Bits - 1 \in Nat
      BY Widths DEF h, SignBit, m, Modulus
    <3>2. 1 * h = h /\ v \in 0 .. h - 1 /\ h + v < m
      BY <2>1, <2>5
    <3>3. v \in 0 .. Power[Bits - 1] - 1 /\ 1 * Power[Bits - 1] + v < Power[Bits]
      BY <3>1, <3>2
    <3>4. ByBits(Either, Bits, 1 * Power[Bits - 1], v) = 1 * Power[Bits - 1] + v
      BY <3>1, <3>3, <1>1, EitherSum
    <3>5. QED
      BY <3>1, <3>2, <3>4
  <2>7. S(h + v) = v - h
    <3> DEFINE t == h + v
    <3>1. t \in 0 .. m - 1 /\ ~(t < h) /\ t - m = v - h
      BY <2>1, <2>5
    <3> HIDE DEF t
    <3>2. S(t) = IF t < h THEN t ELSE t - m
      BY <3>1, SignedBack DEF h, m
    <3>3. QED
      BY <3>1, <3>2 DEF t
  <2>8. S(ShiftRightSigned(x, n)) = v - h
    BY <1>3, <2>6, <2>7 DEF v, p, h
  <2>9. v - h = q + e - h
    BY <2>3, <2>1, <2>4
  <2>10. QED
    BY <2>8, <2>9 DEF q, e, h, p
<1>6. QED
  BY <1>4, <1>5

\* So it divides exactly unless a negative word moves by two or more.
LEMMA SignedShiftExact ==
  ASSUME NEW x \in SignedWord, NEW n \in 0 .. Bits - 1
  PROVE  S(ShiftRightSigned(x, n)) = x \div Power[n] <=> (x >= 0 \/ n < 2)
<1>1. x \in Int /\ Bits \in Nat /\ n \in Nat /\ n < Bits /\ Bits - 1 \in Nat
  BY WordUnsigned, Widths
<1>2. CASE x >= 0
  BY <1>2, SignedShiftUp
<1>3. CASE x < 0 /\ n = 0
  <2>1. S(ShiftRightSigned(x, n)) = x /\ x \div Power[n] = x
    BY <1>1, <1>3, SignedShiftDown, SmallPowers
  <2>2. QED
    BY <2>1, <1>3
<1>4. CASE x < 0 /\ n > 0
  <2> DEFINE s == S(ShiftRightSigned(x, n))
             q == x \div Power[n]
             e == Power[Bits - n]
             h == SignBit
  <2>1. s = q + e - h
    BY <1>4, SignedShiftDown
  <2>2. q \in Int /\ e \in Int /\ h \in Int
    <3>1. Power[n] \in Nat /\ Power[n] > 0 /\ Bits - n \in Nat
      BY <1>1, PowerPositive
    <3>2. QED
      BY <3>1, <1>1, Division, PowerPositive, Widths
  <2>3. e = h <=> n < 2
    <3>1. CASE n = 1
      BY <3>1 DEF SignBit
    <3>2. CASE n >= 2
      <4> DEFINE a == Bits - n
                 b == Bits - 1
      <4>1. a \in Nat /\ b \in Nat /\ a <= b /\ a < b
        BY <3>2, <1>1
      <4>2. b - a - 1 \in Nat /\ Power[b] = (2 * Power[b - a - 1]) * Power[a]
        BY <4>1, PowerMultiple
      <4> HIDE DEF a, b
      <4> DEFINE f == Power[b - a - 1]
                 g == Power[a]
      <4>3. f \in Nat /\ f > 0 /\ g \in Nat /\ g > 0 /\ Power[b] = (2 * f) * g
        BY <4>1, <4>2, PowerPositive
      <4> HIDE DEF f, g
      <4>4. f * g >= g /\ f * g \in Int /\ (2 * f) * g = 2 * (f * g)
        BY <4>3
      <4>5. g # Power[b]
        BY <4>3, <4>4
      <4>6. QED
        BY <4>5, <3>2, <1>1 DEF g, a, b, SignBit
    <3>3. QED
      BY <3>1, <3>2, <1>1, <1>4
  <2> HIDE DEF s, q, e, h
  <2>4. s = q <=> e = h
    BY <2>1, <2>2
  <2>5. QED
    BY <2>3, <2>4, <1>1, <1>4 DEF s, q
<1>5. QED
  BY <1>1, <1>2, <1>3, <1>4
=============================================================================
