---------------------------- MODULE PowersProofs ----------------------------
(***************************************************************************)
(* Induction and recursion on the natural numbers, stated for sets and     *)
(* functions, the powers of two, and depths in binary trees.               *)
(***************************************************************************)
EXTENDS Powers, TLAPS, WellFoundedInduction

(* Induction on the natural numbers, for a set instead of a predicate. *)
LEMMA SetInduction ==
  ASSUME NEW S, 0 \in S, \A n \in Nat : n \in S => n + 1 \in S
  PROVE  \A n \in Nat : n \in S
<1> DEFINE T == Nat \ S
<1> SUFFICES ASSUME T # {} PROVE FALSE
  OBVIOUS
<1>1. PICK x \in T : \A y \in T : ~(<<y, x>> \in OpToRel(<, Nat))
  BY WFMin, NatLessThanWellFounded
<1>2. \A y \in T : ~ (y < x)
  BY <1>1 DEF OpToRel
<1>3. x # 0 /\ x \in Nat
  OBVIOUS
<1>4. x - 1 \in Nat /\ x - 1 \notin T
  BY <1>2, <1>3
<1>. QED BY <1>4, <1>3

(* A set of natural numbers that is not empty has a least element. *)
LEMMA LeastNumber ==
  ASSUME NEW S, S \subseteq Nat, S # {}
  PROVE  \E m \in S : \A n \in S : m <= n
<1>1. PICK m \in S : \A n \in S : ~(<<n, m>> \in OpToRel(<, Nat))
  BY WFMin, NatLessThanWellFounded
<1>2. \A n \in S : ~ (n < m)
  BY <1>1 DEF OpToRel
<1>. QED BY <1>2

(* f starts with first and goes on by step.                                *)
Iterates(f, first, step) == f[0] = first /\ \A n \in Nat : f[n + 1] = step[n][f[n]]

(* A function may be defined by recursion on the natural numbers. *)
LEMMA Recursion ==
  ASSUME NEW S, NEW first \in S, NEW step \in [Nat -> [S -> S]]
  PROVE  \E f \in [Nat -> S] : Iterates(f, first, step)
<1> DEFINE Upto(n) == {g \in [0 .. n -> S] : g[0] = first /\ \A k \in 0 .. n - 1 : g[k + 1] = step[k][g[k]]}
           Ex == {n \in Nat : Upto(n) # {}}
           Un == {n \in Nat : \A m \in Nat : \A g \in Upto(n + m), h \in Upto(n) : g[n] = h[n]}
<1>1. \A n \in Nat : n \in Ex
  <2>1. 0 \in Ex
    <3>1. [k \in 0 .. 0 |-> first] \in Upto(0)
      OBVIOUS
    <3>. QED BY <3>1
  <2>2. ASSUME NEW n \in Nat, n \in Ex PROVE n + 1 \in Ex
    <3>1. PICK g : g \in Upto(n)
      BY <2>2
    <3> DEFINE h == [k \in 0 .. n + 1 |-> IF k <= n THEN g[k] ELSE step[n][g[n]]]
    <3>2. step[n][g[n]] \in S
      BY <3>1
    <3>3. h \in [0 .. n + 1 -> S]
      BY <3>1, <3>2
    <3>4. h[0] = first
      BY <3>1
    <3>5. ASSUME NEW k \in 0 .. (n + 1) - 1 PROVE h[k + 1] = step[k][h[k]]
      <4>1. CASE k = n
        BY <4>1
      <4>2. CASE k # n
        BY <4>2, <3>1
      <4>. QED BY <4>1, <4>2
    <3> HIDE DEF h
    <3>6. h \in Upto(n + 1)
      BY <3>3, <3>4, <3>5
    <3>. QED BY <3>6
  <2>. QED
    <3> HIDE DEF Ex
    <3>. QED BY <2>1, <2>2, SetInduction
<1>2. \A n \in Nat : n \in Un
  <2>1. 0 \in Un
    OBVIOUS
  <2>2. ASSUME NEW n \in Nat, n \in Un PROVE n + 1 \in Un
    <3>0. ASSUME NEW m \in Nat, NEW g \in Upto(n + 1 + m), NEW h \in Upto(n + 1)
          PROVE  g[n + 1] = h[n + 1]
      <4> DEFINE r == [k \in 0 .. n |-> h[k]]
      <4>1. r \in Upto(n)
        OBVIOUS
      <4>2. g \in Upto(n + (1 + m))
        OBVIOUS
      <4>3. g[n] = r[n]
        BY <2>2, <4>1, <4>2, 1 + m \in Nat
      <4>4. g[n + 1] = step[n][g[n]] /\ h[n + 1] = step[n][h[n]]
        OBVIOUS
      <4>. QED BY <4>3, <4>4
    <3> HIDE DEF Upto
    <3>. QED BY <3>0
  <2>. QED
    <3> HIDE DEF Un
    <3>. QED BY <2>1, <2>2, SetInduction
<1> DEFINE at(n) == CHOOSE g : g \in Upto(n)
           f == [n \in Nat |-> at(n)[n]]
<1>3. \A n \in Nat : at(n) \in Upto(n)
  <2> SUFFICES ASSUME NEW n \in Nat PROVE at(n) \in Upto(n)
    OBVIOUS
  <2>1. \E g : g \in Upto(n)
    BY <1>1
  <2> HIDE DEF Upto
  <2>. QED BY <2>1
<1> HIDE DEF at
<1>4. f \in [Nat -> S] /\ f[0] = first
  BY <1>3
<1>5. ASSUME NEW n \in Nat PROVE f[n + 1] = step[n][f[n]]
  <2>1. at(n + 1) \in Upto(n + 1) /\ at(n) \in Upto(n)
    BY <1>3
  <2>2. at(n + 1)[n] = at(n)[n]
    BY <1>2, <2>1, 1 \in Nat
  <2>3. at(n + 1)[n + 1] = step[n][at(n + 1)[n]]
    BY <2>1
  <2>. QED BY <2>2, <2>3
<1>. QED BY <1>4, <1>5 DEF Iterates

(* pow2 is well-defined: it doubles at every step.                         *)
LEMMA PowersOfTwo ==
  /\ pow2 \in [Nat -> Nat]
  /\ pow2[0] = 1
  /\ \A k \in Nat : pow2[k + 1] = 2 * pow2[k]
<1> DEFINE step == [n \in Nat |-> [v \in Nat |-> 2 * v]]
<1>1. step \in [Nat -> [Nat -> Nat]] /\ 1 \in Nat
  OBVIOUS
<1> HIDE DEF step
<1>0. \E f \in [Nat -> Nat] : Iterates(f, 1, step)
  BY <1>1, Recursion, Zenon
<1> USE DEF step
<1>2. PICK f \in [Nat -> Nat] : f[0] = 1 /\ \A n \in Nat : f[n + 1] = step[n][f[n]]
  BY <1>0 DEF Iterates
<1>3. ASSUME NEW k \in Nat PROVE f[k] = IF k = 0 THEN 1 ELSE 2 * f[k - 1]
  <2>1. CASE k = 0
    BY <2>1, <1>2
  <2>2. CASE k # 0
    <3>1. k - 1 \in Nat /\ k = (k - 1) + 1
      BY <2>2
    <3>. QED BY <3>1, <2>2, <1>2
  <2>. QED BY <2>1, <2>2
<1>4. f = [k \in Nat |-> IF k = 0 THEN 1 ELSE 2 * f[k - 1]]
  BY <1>3
<1>5. pow2 = [k \in Nat |-> IF k = 0 THEN 1 ELSE 2 * pow2[k - 1]]
  BY <1>4, Zenon DEF pow2
<1>6. \A k \in Nat : pow2[k] = IF k = 0 THEN 1 ELSE 2 * pow2[k - 1]
  BY <1>5, Zenon
<1>7. pow2[0] = 1
  BY <1>6
<1>8. \A k \in Nat : pow2[k + 1] = 2 * pow2[k]
  BY <1>6
<1> DEFINE N == {k \in Nat : pow2[k] \in Nat}
<1>9. 0 \in N /\ \A n \in Nat : n \in N => n + 1 \in N
  BY <1>7, <1>8
<1>10. \A k \in Nat : k \in N
  <2> HIDE DEF N
  <2>. QED BY <1>9, SetInduction
<1>11. DOMAIN pow2 = Nat
  BY <1>5, Zenon
<1>12. pow2 \in [Nat -> Nat]
  BY <1>10, <1>5, Zenon
<1>. QED BY <1>7, <1>8, <1>12

(* A power of two is positive. *)
LEMMA PowerPositive ==
  \A k \in Nat : pow2[k] \in Nat /\ pow2[k] >= 1
<1> DEFINE P == {k \in Nat : pow2[k] \in Nat /\ pow2[k] >= 1}
<1>1. 0 \in P /\ \A n \in Nat : n \in P => n + 1 \in P
  BY PowersOfTwo
<1>2. \A k \in Nat : k \in P
  <2> HIDE DEF P
  <2>. QED BY <1>1, SetInduction
<1>. QED BY <1>2

(* Exponents add up. *)
LEMMA PowerProduct ==
  ASSUME NEW a \in Nat, NEW b \in Nat
  PROVE  pow2[a] * pow2[b] = pow2[a + b]
<1> DEFINE A == {n \in Nat : pow2[n] * pow2[b] = pow2[n + b]}
<1>1. 0 \in A
  <2>1. pow2[0] = 1 /\ pow2[b] \in Nat /\ 0 + b = b
    BY PowersOfTwo
  <2>2. 1 * pow2[b] = pow2[b]
    BY <2>1
  <2>. QED BY <2>1, <2>2
<1>2. ASSUME NEW n \in Nat, n \in A PROVE n + 1 \in A
  <2>1. pow2[n + 1] = 2 * pow2[n] /\ pow2[(n + b) + 1] = 2 * pow2[n + b] /\ (n + 1) + b = (n + b) + 1
    BY PowersOfTwo
  <2>2. pow2[n] \in Nat /\ pow2[b] \in Nat /\ pow2[n] * pow2[b] = pow2[n + b]
    BY <1>2, PowersOfTwo
  <2>3. (2 * pow2[n]) * pow2[b] = 2 * (pow2[n] * pow2[b])
    BY <2>2
  <2>. QED BY <2>1, <2>2, <2>3
<1>3. \A n \in Nat : n \in A
  <2> HIDE DEF A
  <2>. QED BY <1>1, <1>2, SetInduction
<1>. QED BY <1>3

(* Powers of two grow, and faster than their exponents.                    *)
LEMMA PowerMonotone ==
  ASSUME NEW a \in Nat, NEW b \in Nat, a <= b
  PROVE  pow2[a] <= pow2[b]
<1>1. b - a \in Nat /\ a + (b - a) = b
  OBVIOUS
<1>2. pow2[b] = pow2[a] * pow2[b - a]
  BY <1>1, PowerProduct
<1>3. pow2[a] \in Nat /\ pow2[b - a] \in Nat /\ pow2[b - a] >= 1
  BY <1>1, PowerPositive
<1>4. \A x, y \in Nat : y >= 1 => x * y >= x
  OBVIOUS
<1>. QED BY <1>2, <1>3, <1>4

LEMMA PowerExceeds ==
  \A k \in Nat : k < pow2[k]
<1> DEFINE P == {k \in Nat : k < pow2[k]}
<1>1. 0 \in P
  BY PowersOfTwo
<1>2. ASSUME NEW n \in Nat, n \in P PROVE n + 1 \in P
  BY <1>2, PowersOfTwo
<1>3. \A k \in Nat : k \in P
  <2> HIDE DEF P
  <2>. QED BY <1>1, <1>2, SetInduction
<1>. QED BY <1>3

(* The powers next above one.                                              *)
LEMMA PowersAbove ==
  ASSUME NEW n \in Nat
  PROVE  /\ pow2[n + 1] = 2 * pow2[n] /\ pow2[n + 2] = 4 * pow2[n] /\ pow2[n + 3] = 8 * pow2[n]
         /\ pow2[n + 4] = 16 * pow2[n] /\ pow2[n + 5] = 32 * pow2[n]
<1>1. \A k \in Nat : pow2[k] \in Nat /\ pow2[k + 1] = 2 * pow2[k]
  BY PowersOfTwo
<1>2. /\ (n + 1) + 1 = n + 2 /\ (n + 2) + 1 = n + 3 /\ (n + 3) + 1 = n + 4 /\ (n + 4) + 1 = n + 5
      /\ n + 1 \in Nat /\ n + 2 \in Nat /\ n + 3 \in Nat /\ n + 4 \in Nat
  OBVIOUS
<1>3. /\ pow2[n + 1] = 2 * pow2[n] /\ pow2[n + 2] = 2 * pow2[n + 1]
      /\ pow2[n + 3] = 2 * pow2[n + 2] /\ pow2[n + 4] = 2 * pow2[n + 3]
      /\ pow2[n + 5] = 2 * pow2[n + 4]
  BY <1>1, <1>2, Zenon
<1>4. /\ pow2[n] \in Nat /\ pow2[n + 1] \in Nat /\ pow2[n + 2] \in Nat
      /\ pow2[n + 3] \in Nat /\ pow2[n + 4] \in Nat
  BY <1>1, <1>2, Zenon
<1>. QED BY <1>3, <1>4

LEMMA SmallPowers == pow2[0] = 1 /\ pow2[1] = 2 /\ pow2[2] = 4
<1>1. pow2[0] = 1 /\ pow2[0 + 1] = 2 * pow2[0] /\ pow2[0 + 2] = 4 * pow2[0]
  BY PowersOfTwo, PowersAbove
<1>. QED BY <1>1

(* The depth of a generalized index is the one height at which the powers  *)
(* of two bracket it.                                                      *)
LEMMA DepthSpec ==
  ASSUME NEW h \in Nat \ {0}
  PROVE  /\ Depth(h) \in Nat
         /\ pow2[Depth(h)] <= h /\ h < pow2[Depth(h) + 1]
<1> DEFINE S == {e \in Nat : h < pow2[e]}
           Fit(d) == pow2[d] <= h /\ h < pow2[d + 1]
<1>1. h \in S
  BY PowerExceeds
<1>2. PICK e \in S : \A n \in S : e <= n
  BY <1>1, LeastNumber
<1>3. e # 0
  BY <1>2, PowersOfTwo
<1>4. e - 1 \in Nat /\ e - 1 \notin S /\ (e - 1) + 1 = e
  BY <1>2, <1>3
<1>5. Fit(e - 1)
  BY <1>2, <1>4, PowersOfTwo
<1>6. e - 1 \in 0 .. h
  BY <1>4, <1>1, <1>2
<1>7. \E d \in 0 .. h : Fit(d)
  BY <1>5, <1>6, Zenon
<1>8. Depth(h) = CHOOSE d \in 0 .. h : Fit(d)
  BY Zenon DEF Depth
<1>9. Depth(h) \in 0 .. h /\ Fit(Depth(h))
  BY <1>7, <1>8, Zenon
<1>. QED BY <1>9

(* Powers that bracket an index give its depth.                            *)
LEMMA DepthIs ==
  ASSUME NEW h \in Nat \ {0}, NEW d \in Nat, pow2[d] <= h, h < pow2[d + 1]
  PROVE  Depth(h) = d
<1> DEFINE D == Depth(h)
<1>1. D \in Nat /\ pow2[D] <= h /\ h < pow2[D + 1]
  BY DepthSpec
<1> HIDE DEF D
<1>2. pow2[D] \in Nat /\ pow2[D + 1] \in Nat /\ pow2[d] \in Nat /\ pow2[d + 1] \in Nat
  BY <1>1, PowersOfTwo
<1>3. ~ (D < d)
  <2> SUFFICES ASSUME D + 1 <= d PROVE FALSE
    BY <1>1
  <2>1. pow2[D + 1] <= pow2[d]
    BY <1>1, PowerMonotone
  <2>. QED BY <1>1, <1>2, <2>1
<1>4. ~ (d < D)
  <2> SUFFICES ASSUME d + 1 <= D PROVE FALSE
    BY <1>1
  <2>1. pow2[d + 1] <= pow2[D]
    BY <1>1, PowerMonotone
  <2>. QED BY <1>1, <1>2, <2>1
<1>5. D = d
  BY <1>1, <1>3, <1>4
<1>. QED BY <1>5 DEF D

(* A power that does not exceed the index bounds its depth from below.     *)
LEMMA DepthAtLeast ==
  ASSUME NEW h \in Nat \ {0}, NEW d \in Nat, pow2[d] <= h
  PROVE  d <= Depth(h)
<1> DEFINE D == Depth(h)
<1>1. D \in Nat /\ h < pow2[D + 1]
  BY DepthSpec
<1> SUFFICES d <= D
  OBVIOUS
<1> HIDE DEF D
<1> SUFFICES ASSUME D + 1 <= d PROVE FALSE
  BY <1>1
<1>2. pow2[D + 1] <= pow2[d]
  BY <1>1, PowerMonotone
<1>3. pow2[d] \in Nat /\ pow2[D + 1] \in Nat
  BY <1>1, PowersOfTwo
<1>. QED BY <1>1, <1>2, <1>3

(* Quotient and remainder.                                                 *)
LEMMA Division ==
  ASSUME NEW n \in Nat, NEW P \in Nat, P # 0
  PROVE  /\ n \div P \in Nat /\ n % P \in Nat /\ n % P < P
         /\ n = (n \div P) * P + (n % P)
<1> DEFINE q == n \div P
<1>1. q \in Int /\ q * P <= n /\ n < (q + 1) * P /\ n % P = n - q * P
  OBVIOUS
<1> HIDE DEF q
<1>2. q * P \in Int /\ (q + 1) * P = q * P + P
  BY <1>1
<1>3. q >= 0
  <2> SUFFICES ASSUME q <= -1 PROVE FALSE
    BY <1>1
  <2>1. \A x, y \in Int : x <= -1 /\ y >= 0 => (x + 1) * y <= 0
    OBVIOUS
  <2>. QED BY <1>1, <2>1
<1>. QED BY <1>1, <1>2, <1>3 DEF q

(* Quotient and remainder, from the multiples that bracket a number.       *)
LEMMA QuotientIs ==
  ASSUME NEW n \in Nat, NEW P \in Nat, P # 0, NEW q \in Nat, q * P <= n, n < (q + 1) * P
  PROVE  n \div P = q /\ n % P = n - q * P
<1> DEFINE r == n \div P
<1>1. r \in Nat /\ r * P <= n /\ n < (r + 1) * P /\ n % P = n - r * P
  OBVIOUS
<1> HIDE DEF r
<1>2. \A x, y, z \in Nat : x <= y => x * z <= y * z
  OBVIOUS
<1>3. r * P \in Nat /\ q * P \in Nat /\ (r + 1) * P \in Nat /\ (q + 1) * P \in Nat
  BY <1>1
<1>4. ~ (q < r)
  <2> SUFFICES ASSUME q + 1 <= r PROVE FALSE
    BY <1>1
  <2>1. (q + 1) * P <= r * P
    BY <1>1, <1>2
  <2>. QED BY <1>1, <1>3, <2>1
<1>5. ~ (r < q)
  <2> SUFFICES ASSUME r + 1 <= q PROVE FALSE
    BY <1>1
  <2>1. (r + 1) * P <= q * P
    BY <1>1, <1>2
  <2>. QED BY <1>1, <1>3, <2>1
<1>6. q = r
  BY <1>1, <1>4, <1>5
<1>. QED BY <1>1, <1>6 DEF r

=============================================================================
