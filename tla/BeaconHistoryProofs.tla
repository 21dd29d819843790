------------------------ MODULE BeaconHistoryProofs ------------------------
(***************************************************************************)
(* Proofs about BeaconHistory, for every depth of the two accumulators and *)
(* every chain that the list of summaries has room for: type correctness,  *)
(* and that every ancestor is found under the gindex of step 7.            *)
(***************************************************************************)
EXTENDS BeaconHistory, PowersProofs, SequenceTheorems

S == SLOTS_PER_HISTORICAL_ROOT

(* The ring has no gaps behind the state's slot.                           *)
Filled == \A j \in Indices : j < slot => block_roots[j] \in 0 .. MAX_SLOT

(* The ring holds the blocks of the last S slots, the summaries those of   *)
(* the windows that are over.                                              *)
Ring    == \A m \in blocks : m < slot /\ slot - m <= S => block_roots[m % S] = m
Archive == \A m \in blocks : m \div S < Len(historical_summaries) =>
             historical_summaries[m \div S + 1][m % S] = m

HistoryInv ==
  /\ TypeOK
  /\ 0 \in blocks
  /\ Len(historical_summaries) = slot \div S
  /\ Filled /\ Ring /\ Archive

---------------------------------------------------------------------------
(* Windows of S slots.                                                     *)
LEMMA WindowFacts ==
  /\ S \in Nat /\ S # 0
  /\ Indices = 0 .. S - 1
  /\ \A m \in Nat : /\ m \div S \in Nat /\ m % S \in Nat /\ m % S \in Indices
                    /\ m = (m \div S) * S + (m % S)
<1>1. S \in Nat /\ S # 0
  BY TreeDepthAssumption, PowerPositive DEF S, SLOTS_PER_HISTORICAL_ROOT
<1>2. Indices = 0 .. S - 1
  BY DEF Indices, S
<1> HIDE DEF S
<1>3. ASSUME NEW m \in Nat
      PROVE  m \div S \in Nat /\ m % S \in Nat /\ m % S \in Indices /\ m = (m \div S) * S + (m % S)
  <2>1. m \div S \in Nat /\ m % S \in Nat /\ m % S < S /\ m = (m \div S) * S + (m % S)
    BY <1>1, Division, Zenon
  <2>. QED BY <1>1, <1>2, <2>1
<1>. QED BY <1>1, <1>2, <1>3, Zenon

(* The next slot is in the same window, or is the first of the next one.   *)
LEMMA NextWindow ==
  ASSUME NEW n \in Nat
  PROVE  /\ (n + 1) % S = 0 => (n + 1) \div S = n \div S + 1 /\ n + 1 = (n \div S + 1) * S
         /\ (n + 1) % S # 0 => (n + 1) \div S = n \div S
<1> DEFINE q == n \div S
           r == n % S
           k == n + 1
           p == q + 1
<1>1. q \in Nat /\ r \in Nat /\ r \in Indices /\ n = q * S + r
  BY WindowFacts, Zenon
<1>2. S \in Nat /\ S # 0 /\ Indices = 0 .. S - 1
  BY WindowFacts, Zenon
<1>3. k \in Nat /\ k = n + 1 /\ p \in Nat /\ p = q + 1
  BY <1>1
<1> SUFFICES /\ k % S = 0 => k \div S = p /\ k = p * S
             /\ k % S # 0 => k \div S = q
  BY DEF k, p
<1> HIDE DEF q, r, k, p, S
<1>4. p * S = q * S + S /\ (p + 1) * S = q * S + S + S /\ q * S \in Nat /\ p * S \in Nat
  BY <1>1, <1>2, <1>3
<1>5. CASE r + 1 < S
  <2>1. q * S <= k /\ k < (q + 1) * S
    BY <1>1, <1>2, <1>3, <1>4, <1>5
  <2>2. k \div S = q /\ k % S = k - q * S
    BY <1>1, <1>2, <1>3, <2>1, QuotientIs, Zenon
  <2>. QED BY <1>1, <1>2, <1>3, <1>4, <2>2
<1>6. CASE r + 1 = S
  <2>1. k = p * S
    BY <1>1, <1>2, <1>3, <1>4, <1>6
  <2>2. p * S <= k /\ k < (p + 1) * S
    <3>1. \A x, y \in Nat : y # 0 => x <= x /\ x < x + y
      OBVIOUS
    <3>2. (p + 1) * S = k + S
      BY <1>4, <2>1
    <3>. QED BY <1>2, <1>3, <2>1, <3>1, <3>2, Zenon
  <2>3. k \div S = p /\ k % S = k - p * S
    BY <1>2, <1>3, <2>2, QuotientIs, Zenon
  <2>. QED BY <1>3, <1>4, <2>1, <2>3
<1>. QED BY <1>1, <1>2, <1>5, <1>6

(* Slots less than S apart have places of their own in the ring.           *)
LEMMA PlacesApart ==
  ASSUME NEW m \in Nat, NEW n \in Nat, m < n, n - m < S
  PROVE  m % S # n % S
<1> SUFFICES ASSUME m % S = n % S PROVE FALSE
  OBVIOUS
<1> DEFINE a == m \div S
           b == n \div S
           r == m % S
<1>1. a \in Nat /\ b \in Nat /\ r \in Nat /\ m = a * S + r /\ n = b * S + r /\ S \in Nat /\ S # 0
  <2>1. m = a * S + (m % S) /\ n = b * S + (n % S) /\ a \in Nat /\ b \in Nat /\ r \in Nat
    BY WindowFacts, Zenon
  <2>2. n = b * S + r
    BY <2>1, Zenon
  <2>. QED BY <2>1, <2>2, WindowFacts, Zenon
<1> HIDE DEF a, b, r, S
<1>2. \A x, y, z \in Nat : x <= y => x * z <= y * z
  OBVIOUS
<1>3. a * S \in Nat /\ b * S \in Nat /\ (a + 1) * S = a * S + S
  BY <1>1
<1>4. CASE a < b
  <2>1. (a + 1) * S <= b * S
    BY <1>1, <1>2, <1>4
  <2>. QED BY <1>1, <1>3, <2>1
<1>5. CASE b <= a
  <2>1. b * S <= a * S
    BY <1>1, <1>2, <1>5
  <2>. QED BY <1>1, <1>3, <2>1
<1>. QED BY <1>1, <1>4, <1>5

(* The newest block.                                                       *)
LEMMA NewestBlock ==
  ASSUME NEW B, NEW n \in Nat, B \subseteq 0 .. n, 0 \in B
  PROVE  Max(B) \in B /\ \A b \in B : b <= Max(B)
<1> DEFINE T == {n - b : b \in B}
<1>1. T \subseteq Nat /\ n - 0 \in T
  OBVIOUS
<1>2. PICK t \in T : \A u \in T : t <= u
  <2> HIDE DEF T
  <2>. QED BY <1>1, LeastNumber
<1>3. PICK x \in B : t = n - x
  BY <1>2
<1>4. ASSUME NEW b \in B PROVE x >= b
  <2>1. t <= n - b
    BY <1>2
  <2>. QED BY <1>3, <2>1
<1>5. Max(B) = CHOOSE y \in B : \A b \in B : y >= b
  BY DEF Max
<1>6. Max(B) \in B /\ \A b \in B : Max(B) >= b
  BY <1>4, <1>5, Zenon
<1>. QED BY <1>6

---------------------------------------------------------------------------
(* The invariant is inductive.  With the newest block in its place, the    *)
(* ring reaches back S slots from the new slot; a window that is over is   *)
(* summarised by such a ring, and so holds all of its blocks.              *)
LEMMA SlotProcessed ==
  ASSUME HistoryInv, ProcessSlot,
         blocks' = blocks \/ blocks' = blocks \union {slot + 1}
  PROVE  HistoryInv'
<1> DEFINE M == Max(blocks)
           place == slot % S
           window == slot \div S
           over == (slot + 1) % S = 0
<1>1. /\ slot \in Nat /\ slot + 1 \in 0 .. MAX_SLOT /\ slot' = slot + 1
      /\ block_roots' = [block_roots EXCEPT ![place] = M]
      /\ historical_summaries' = IF over THEN Append(historical_summaries, block_roots')
                                 ELSE historical_summaries
  BY MaxSlotAssumption DEF HistoryInv, TypeOK, ProcessSlot, S
<1>2. /\ S \in Nat /\ S # 0 /\ Indices = 0 .. S - 1
      /\ place \in Indices /\ window \in Nat /\ slot = window * S + place
  BY <1>1, WindowFacts, Zenon
<1>3. M \in blocks /\ \A b \in blocks : b <= M
  BY <1>1, NewestBlock DEF HistoryInv, TypeOK
<1>4. /\ blocks \subseteq 0 .. slot /\ 0 \in blocks /\ MAX_SLOT \in Nat /\ M \in 0 .. MAX_SLOT
      /\ block_roots \in [Indices -> (0 .. MAX_SLOT) \union {NONE}]
      /\ historical_summaries \in Seq([Indices -> 0 .. MAX_SLOT])
      /\ Len(historical_summaries) = window
  <2>1. /\ blocks \subseteq 0 .. slot /\ 0 \in blocks /\ MAX_SLOT \in Nat
        /\ block_roots \in [Indices -> (0 .. MAX_SLOT) \union {NONE}]
        /\ historical_summaries \in Seq([Indices -> 0 .. MAX_SLOT])
    BY MaxSlotAssumption DEF HistoryInv, TypeOK
  <2>2. Len(historical_summaries) = window
    BY DEF HistoryInv
  <2> HIDE DEF M, window
  <2>3. M \in 0 .. MAX_SLOT
    BY <1>1, <1>3, <2>1
  <2>. QED BY <2>1, <2>2, <2>3
<1>5. /\ over => (slot + 1) \div S = window + 1 /\ slot + 1 = (window + 1) * S
      /\ ~over => (slot + 1) \div S = window
  BY <1>1, NextWindow, Zenon
<1>6. Filled /\ Ring /\ Archive
  BY DEF HistoryInv
<1>7. slot < S => place = slot
  <2>1. S \in Nat /\ S # 0 /\ 0 * S = 0 /\ (0 + 1) * S = S
    <3>1. \A x \in Nat : 0 * x = 0 /\ (0 + 1) * x = x
      OBVIOUS
    <3>. QED BY <1>2, <3>1, Zenon
  <2>2. SUFFICES ASSUME slot < S PROVE slot % S = slot
    BY DEF place
  <2>3. 0 \in Nat /\ 0 * S <= slot /\ slot < (0 + 1) * S
    BY <1>1, <2>1, <2>2
  <2>4. slot % S = slot - 0 * S
    BY <1>1, <2>1, <2>3, QuotientIs, Zenon
  <2>5. slot - 0 = slot
    BY <1>1
  <2>. QED BY <2>1, <2>4, <2>5, Zenon
<1> HIDE DEF M, place, window, over, S
<1>8. (window + 1) * S = window * S + S /\ window * S \in Nat /\ (window + 1) * S >= S
  <2>1. \A x, y \in Nat : (x + 1) * y = x * y + y /\ x * y \in Nat
    OBVIOUS
  <2>. QED BY <1>2, <2>1
<1>0. \A m \in blocks' : m \in Nat /\ m <= slot + 1 /\ (m <= slot => m \in blocks)
  <2>1. \A m \in blocks : m \in Nat /\ m <= slot
    BY <1>1, <1>4
  <2>2. CASE blocks' = blocks
    BY <1>1, <2>1, <2>2
  <2>3. CASE blocks' = blocks \union {slot + 1}
    BY <1>1, <2>1, <2>3
  <2>. QED BY <2>2, <2>3
<1>9. /\ block_roots' \in [Indices -> (0 .. MAX_SLOT) \union {NONE}]
      /\ \A j \in Indices : block_roots'[j] = IF j = place THEN M ELSE block_roots[j]
  BY <1>1, <1>2, <1>4
<1>10. Filled'
  <2> SUFFICES ASSUME NEW j \in Indices, j < slot + 1 PROVE block_roots'[j] \in 0 .. MAX_SLOT
    BY <1>1 DEF Filled
  <2>1. CASE j = place
    BY <1>4, <1>9, <2>1
  <2>2. CASE j # place
    <3>1. j < slot
      BY <1>1, <1>2, <1>7, <2>2
    <3>. QED BY <1>6, <1>9, <2>2, <3>1 DEF Filled
  <2>. QED BY <2>1, <2>2
<1>11. over => block_roots' \in [Indices -> 0 .. MAX_SLOT]
  <2> SUFFICES ASSUME over PROVE \A j \in Indices : block_roots'[j] \in 0 .. MAX_SLOT
    BY <1>9
  <2>1. \A j \in Indices : j < slot + 1
    BY <1>1, <1>2, <1>5, <1>8
  <2>. QED BY <1>1, <1>10, <2>1 DEF Filled
<1>12. TypeOK'
  <2>1. blocks' \subseteq 0 .. slot'
    BY <1>0, <1>1
  <2>2. historical_summaries' \in Seq([Indices -> 0 .. MAX_SLOT])
    BY <1>1, <1>4, <1>11, AppendProperties
  <2>. QED BY <1>1, <1>9, <2>1, <2>2 DEF TypeOK, Indices
<1>13. Len(historical_summaries') = slot' \div S
  BY <1>1, <1>4, <1>5, <1>11, AppendProperties
<1>14. Ring'
  <2> SUFFICES ASSUME NEW m \in blocks', m < slot + 1, (slot + 1) - m <= S
               PROVE  block_roots'[m % S] = m
    BY <1>1 DEF Ring, S
  <2>1. m \in blocks /\ m \in Nat /\ m <= slot
    BY <1>0, <1>1
  <2>2. m % S \in Indices
    BY <2>1, WindowFacts, Zenon
  <2>3. CASE m = slot
    <3>1. M = slot
      BY <1>1, <1>3, <1>4, <2>1, <2>3
    <3>2. m % S = place
      BY <2>3 DEF place
    <3>. QED BY <1>9, <2>2, <2>3, <3>1, <3>2
  <2>4. CASE m < slot
    <3>1. slot - m < S /\ slot - m <= S
      BY <1>1, <1>2, <2>1
    <3>2. m % S # place
      BY <1>1, <2>1, <2>4, <3>1, PlacesApart DEF place
    <3>3. block_roots[m % S] = m
      BY <1>6, <2>1, <2>4, <3>1 DEF Ring
    <3>. QED BY <1>9, <2>2, <3>2, <3>3
  <2>. QED BY <1>1, <2>1, <2>3, <2>4
<1>15. Archive'
  <2> SUFFICES ASSUME NEW m \in blocks', m \div S < Len(historical_summaries')
               PROVE  historical_summaries'[m \div S + 1][m % S] = m
    BY DEF Archive, S
  <2> DEFINE w == m \div S
  <2>7. w < Len(historical_summaries')
    OBVIOUS
  <2>1. m \in Nat /\ m <= slot + 1
    BY <1>0
  <2>2. w \in Nat /\ m % S \in Indices /\ m % S \in Nat /\ m = w * S + (m % S)
    BY <2>1, WindowFacts, Zenon
  <2>3. m # slot + 1
    <3> SUFFICES ASSUME m = slot + 1 PROVE FALSE
      OBVIOUS
    <3>. QED BY <1>1, <1>4, <1>5, <1>11, AppendProperties
  <2>4. m \in blocks /\ m <= slot
    BY <1>0, <1>1, <2>1, <2>3
  <2> HIDE DEF w
  <2> SUFFICES historical_summaries'[w + 1][m % S] = m
    BY DEF w
  <2>5. CASE w < Len(historical_summaries)
    <3>1. historical_summaries'[w + 1] = historical_summaries[w + 1]
      BY <1>1, <1>4, <1>11, <2>2, <2>5, AppendProperties
    <3>2. historical_summaries[w + 1][m % S] = m
      BY <1>6, <2>4, <2>5 DEF Archive, w
    <3>. QED BY <3>1, <3>2
  <2>6. CASE ~ (w < Len(historical_summaries))
    <3>1. over /\ w = window
      <4>1. Len(historical_summaries') = IF over THEN window + 1 ELSE window
        BY <1>1, <1>5, <1>13
      <4>. QED BY <1>2, <1>4, <2>2, <2>6, <2>7, <4>1
    <3>2. historical_summaries'[w + 1] = block_roots'
      BY <1>1, <1>4, <1>11, <3>1, AppendProperties
    <3>3. m < slot + 1 /\ (slot + 1) - m <= S
      BY <1>1, <1>2, <1>5, <1>8, <2>1, <2>2, <2>4, <3>1
    <3>4. block_roots'[m % S] = m
      BY <1>1, <1>14, <2>4, <3>3 DEF Ring, S
    <3>. QED BY <3>2, <3>4
  <2>. QED BY <2>5, <2>6
<1>. QED BY <1>4, <1>10, <1>12, <1>13, <1>14, <1>15 DEF HistoryInv, S

---------------------------------------------------------------------------
(* The lookup of a generalized index.  Shifting makes room for the index   *)
(* of a leaf below a node.                                                 *)
LEMMA ShiftOrIs ==
  ASSUME NEW g \in Nat, NEW d \in Nat, NEW index \in Nat, index < pow2[d]
  PROVE  ShiftOr(g, d, index) = g * pow2[d] + index
<1> DEFINE P == pow2[d]
<1>1. P \in Nat /\ P # 0
  BY PowerPositive
<1>2. ShiftOr(g, d, index) = g * P + (index % P)
  BY DEF ShiftOr
<1> SUFFICES ShiftOr(g, d, index) = g * P + index
  OBVIOUS
<1>3. index < P
  OBVIOUS
<1> HIDE DEF P
<1>4. 0 * P = 0 /\ (0 + 1) * P = P
  BY <1>1
<1>5. 0 * P <= index /\ index < (0 + 1) * P
  BY <1>3, <1>4
<1>6. index % P = index - 0 * P
  BY <1>1, <1>5, QuotientIs
<1>. QED BY <1>2, <1>4, <1>6

(* The n binary digits of g that end k places from the last are t.         *)
Digits(g, k, n, t) ==
  \E hi, lo \in Nat : /\ t \in Nat /\ t < pow2[n] /\ lo < pow2[k]
                       /\ g = (hi * pow2[n] + t) * pow2[k] + lo

(* The n branchings that end k above g are the n binary digits of g there. *)
LEMMA TurnsIs ==
  ASSUME NEW g, NEW d \in Nat, Depth(g) = d,
         NEW first \in Nat, NEW last \in Nat, NEW k \in Nat, NEW n \in Nat,
         d - last = k, last - first + 1 = n,
         NEW t, Digits(g, k, n, t)
  PROVE  Turns(g, first, last) = t
<1>9. PICK hi, lo \in Nat : /\ t \in Nat /\ t < pow2[n] /\ lo < pow2[k]
                            /\ g = (hi * pow2[n] + t) * pow2[k] + lo
  BY Zenon DEF Digits
<1> DEFINE K == pow2[k]
           N == pow2[n]
           v == hi * N + t
<1>1. K \in Nat /\ K # 0 /\ N \in Nat /\ N # 0
  BY PowerPositive
<1>2. Turns(g, first, last) = (g \div K) % N
  BY DEF Turns
<1>3. g = v * K + lo /\ lo < K /\ t < N
  BY <1>9
<1> SUFFICES (g \div K) % N = t
  BY <1>2
<1> HIDE DEF K, N
<1>4. v \in Nat
  BY <1>1, <1>9
<1>5. hi * N <= v /\ v < (hi + 1) * N /\ v - hi * N = t
  BY <1>1, <1>3, <1>9
<1>6. v % N = t
  BY <1>1, <1>4, <1>5, <1>9, QuotientIs
<1> HIDE DEF v
<1>7. g \in Nat /\ v * K <= g /\ g < (v + 1) * K
  BY <1>1, <1>3, <1>4, <1>9
<1>8. g \div K = v
  BY <1>1, <1>4, <1>7, QuotientIs
<1>. QED BY <1>6, <1>8

(* The leaf of the ring.                                                   *)
LEMMA RingLookup ==
  ASSUME NEW j \in Indices
  PROVE  BlockRootAt(block_roots_leaf_gindex(j)) = block_roots[j]
<1> DEFINE D == BLOCK_ROOTS_VECTOR_DEPTH
           g == block_roots_leaf_gindex(j)
           d == D + 2
<1>1. /\ D \in Nat /\ d \in Nat /\ j \in Nat /\ j < pow2[D]
      /\ pow2[D] \in Nat /\ pow2[D] # 0 /\ pow2[0] = 1 /\ pow2[2] = 4
      /\ pow2[d] = 4 * pow2[D] /\ pow2[d + 1] = 8 * pow2[D]
  <2>1. D \in Nat /\ S \in Nat /\ Indices = 0 .. S - 1 /\ S = pow2[D]
    BY TreeDepthAssumption, WindowFacts DEF S, SLOTS_PER_HISTORICAL_ROOT
  <2>2. pow2[D] \in Nat /\ pow2[D] # 0
    BY <2>1, PowerPositive
  <2>3. pow2[D + 2] = 4 * pow2[D] /\ pow2[D + 3] = 8 * pow2[D]
    BY <2>1, PowersAbove
  <2>4. D + 2 + 1 = D + 3
    BY <2>1
  <2>. QED BY <2>1, <2>2, <2>3, <2>4, SmallPowers
<1>2. g = 5 * pow2[D] + j
  BY <1>1, ShiftOrIs DEF block_roots_leaf_gindex, BLOCK_ROOTS_FIELD_GINDEX
<1>8. d = D + 2
  OBVIOUS
<1> HIDE DEF g, d, D
<1>3. Depth(g) = d
  BY <1>1, <1>2, DepthIs
<1>4. Turns(g, 1, 2) = 1
  <2>1. g = (1 * pow2[2] + 1) * pow2[D] + j /\ 1 < pow2[2]
    BY <1>1, <1>2
  <2>2. d - 2 = D /\ 2 - 1 + 1 = 2
    BY <1>1, <1>8
  <2>4. Digits(g, D, 2, 1)
    BY <1>1, <2>1 DEF Digits
  <2>. QED BY <1>1, <1>3, <2>2, <2>4, TurnsIs
<1>5. Turns(g, 3, d) = j
  <2>1. g = (5 * pow2[D] + j) * pow2[0] + 0 /\ 0 < pow2[0]
    BY <1>1, <1>2
  <2>2. d - d = 0 /\ d - 3 + 1 = D
    BY <1>1, <1>8
  <2>4. Digits(g, 0, D, j)
    BY <1>1, <2>1 DEF Digits
  <2>. QED BY <1>1, <1>3, <2>2, <2>4, TurnsIs
<1>6. RootsVectorAt(block_roots, g, 2) = block_roots[j]
  <2>1. d = 2 + BLOCK_ROOTS_VECTOR_DEPTH /\ 2 + 1 = 3
    BY <1>1, <1>8 DEF D
  <2>. QED BY <1>3, <1>5, <2>1 DEF RootsVectorAt
<1>7. BlockRootAt(g) = RootsVectorAt(block_roots, g, 2)
  BY <1>1, <1>3, <1>4, <1>8 DEF BlockRootAt
<1>. QED BY <1>6, <1>7 DEF g

(* The leaf of a summary.                                                  *)
LEMMA ArchiveLookup ==
  ASSUME NEW j \in Indices, NEW i \in Nat, i < Len(historical_summaries),
         i < pow2[HISTORICAL_SUMMARIES_LIST_DEPTH]
  PROVE  BlockRootAt(historical_summaries_leaf_gindex(i, j)) = historical_summaries[i + 1][j]
<1> DEFINE D == BLOCK_ROOTS_VECTOR_DEPTH
           H == HISTORICAL_SUMMARIES_LIST_DEPTH
           g == historical_summaries_leaf_gindex(i, j)
           d == D + H + 4
           P == pow2[D]
           Q == pow2[H]
           R == pow2[D + H]
           A == i * P
<1>1. /\ D \in Nat /\ H \in Nat /\ d \in Nat /\ j \in Nat /\ j < P
      /\ P \in Nat /\ P # 0 /\ Q \in Nat /\ i < Q /\ R \in Nat /\ R = P * Q
  <2>1. D \in Nat /\ H \in Nat /\ S \in Nat /\ Indices = 0 .. S - 1 /\ S = P
    BY TreeDepthAssumption, WindowFacts DEF S, SLOTS_PER_HISTORICAL_ROOT
  <2>2. P \in Nat /\ P # 0 /\ Q \in Nat /\ R \in Nat
    BY <2>1, PowerPositive
  <2>3. R = P * Q
    BY <2>1, PowerProduct
  <2>. QED BY <2>1, <2>2, <2>3
<1>2. /\ pow2[0] = 1 /\ pow2[1] = 2 /\ pow2[2] = 4 /\ pow2[D + 1] = 2 * P
      /\ pow2[D + H + 1] = 2 * R /\ pow2[D + H + 2] = 4 * R
      /\ pow2[d] = 16 * R /\ pow2[d + 1] = 32 * R
  <2>1. D + H \in Nat /\ D + H + 4 + 1 = D + H + 5
    BY <1>1
  <2>2. pow2[D + 1] = 2 * P
    BY <1>1, PowersAbove
  <2>3. /\ pow2[D + H + 1] = 2 * R /\ pow2[D + H + 2] = 4 * R
        /\ pow2[D + H + 4] = 16 * R /\ pow2[D + H + 5] = 32 * R
    BY <2>1, PowersAbove, Zenon
  <2>. QED BY <2>1, <2>2, <2>3, SmallPowers, Zenon
<1> HIDE DEF P, Q, R
<1>3. /\ A \in Nat /\ A + P <= R /\ 24 * R + 2 * A \in Nat
      /\ (12 * Q + i) * (2 * P) = 24 * R + 2 * A
      /\ (2 * (12 * Q + i)) * P = 24 * R + 2 * A
  <2>1. A \in Nat /\ (i + 1) * P = A + P /\ Q * P = R
    BY <1>1
  <2>2. \A x, y, z \in Nat : x <= y => x * z <= y * z
    OBVIOUS
  <2>3. (i + 1) * P <= Q * P
    BY <1>1, <2>2
  <2>4. \A x, y, z \in Nat : /\ (12 * x + y) * (2 * z) = 24 * (x * z) + 2 * (y * z)
                           /\ (2 * (12 * x + y)) * z = 24 * (x * z) + 2 * (y * z)
    OBVIOUS
  <2>. QED BY <1>1, <2>1, <2>3, <2>4
<1>4. g = 24 * R + 2 * A + j
  <2>6. 1 \in Nat /\ 0 < pow2[1] /\ 12 * Q + i \in Nat
    BY <1>1, <1>2
  <2>1. ShiftOr(6, 1, 0) = 12
    <3>1. ShiftOr(6, 1, 0) = 6 * pow2[1] + 0
      BY <2>6, ShiftOrIs, Zenon
    <3>. QED BY <1>2, <3>1
  <2>2. ShiftOr(12, H, i) = 12 * Q + i
    BY <1>1, ShiftOrIs DEF Q
  <2>3. ShiftOr(12 * Q + i, 1, 0) = 2 * (12 * Q + i)
    <3>1. ShiftOr(12 * Q + i, 1, 0) = (12 * Q + i) * pow2[1] + 0
      BY <2>6, ShiftOrIs, Zenon
    <3>. QED BY <1>1, <1>2, <2>6, <3>1
  <2>4. ShiftOr(2 * (12 * Q + i), D, j) = (2 * (12 * Q + i)) * P + j
    BY <1>1, ShiftOrIs DEF P
  <2>5. g = ShiftOr(ShiftOr(ShiftOr(ShiftOr(6, 1, 0), H, i), 1, 0), D, j)
    BY DEF historical_summaries_leaf_gindex, HISTORICAL_SUMMARIES_FIELD_GINDEX
  <2>. QED BY <1>3, <2>1, <2>2, <2>3, <2>4, <2>5
<1> HIDE DEF A, d
<1>14. g \in Nat \ {0} /\ pow2[d] <= g /\ g < pow2[d + 1]
  BY <1>1, <1>2, <1>3, <1>4
<1> HIDE DEF g
<1> USE DEF d
<1>5. Depth(g) = d
  BY <1>1, <1>14, DepthIs, Zenon
<1>6. Turns(g, 1, 2) = 2
  <2>1. g = (1 * pow2[2] + 2) * pow2[D + H + 2] + (2 * A + j)
    BY <1>1, <1>2, <1>3, <1>4
  <2>2. d - 2 = D + H + 2 /\ 2 - 1 + 1 = 2 /\ D + H + 2 \in Nat
    BY <1>1
  <2>3. 2 * A + j \in Nat /\ 2 * A + j < pow2[D + H + 2] /\ 2 < pow2[2]
    BY <1>1, <1>2, <1>3
  <2>4. Digits(g, D + H + 2, 2, 2)
    BY <1>1, <2>1, <2>3 DEF Digits
  <2>. QED BY <1>1, <1>5, <2>2, <2>4, TurnsIs
<1>7. Turns(g, 3, 3) = 0
  <2>1. g = (6 * pow2[1] + 0) * pow2[D + H + 1] + (2 * A + j)
    BY <1>1, <1>2, <1>3, <1>4
  <2>2. d - 3 = D + H + 1 /\ 3 - 3 + 1 = 1 /\ D + H + 1 \in Nat
    BY <1>1
  <2>3. 2 * A + j \in Nat /\ 2 * A + j < pow2[D + H + 1] /\ 0 < pow2[1]
    BY <1>1, <1>2, <1>3
  <2>4. Digits(g, D + H + 1, 1, 0)
    BY <1>1, <2>1, <2>3 DEF Digits
  <2>. QED BY <1>1, <1>5, <2>2, <2>4, TurnsIs
<1>8. Turns(g, 4, 3 + H) = i
  <2>1. g = (12 * pow2[H] + i) * pow2[D + 1] + j
    BY <1>1, <1>2, <1>3, <1>4 DEF Q
  <2>2. d - (3 + H) = D + 1 /\ 3 + H - 4 + 1 = H /\ D + 1 \in Nat /\ 3 + H \in Nat
    BY <1>1
  <2>3. j < pow2[D + 1] /\ i < pow2[H]
    BY <1>1, <1>2 DEF Q
  <2>4. Digits(g, D + 1, H, i)
    BY <1>1, <2>1, <2>3 DEF Digits
  <2>. QED BY <1>1, <1>5, <2>2, <2>4, TurnsIs
<1>9. Turns(g, 3 + H + 1, 3 + H + 1) = 0
  <2>1. g = ((12 * Q + i) * pow2[1] + 0) * pow2[D] + j
    BY <1>1, <1>2, <1>3, <1>4 DEF P
  <2>2. d - (3 + H + 1) = D /\ 3 + H + 1 - (3 + H + 1) + 1 = 1 /\ 3 + H + 1 \in Nat
    BY <1>1
  <2>3. j < pow2[D] /\ 0 < pow2[1] /\ 12 * Q + i \in Nat
    BY <1>1, <1>2 DEF P
  <2>4. Digits(g, D, 1, 0)
    BY <1>1, <2>1, <2>3 DEF Digits
  <2>. QED BY <1>1, <1>5, <2>2, <2>4, TurnsIs
<1>10. Turns(g, 3 + H + 1 + 1, d) = j
  <2>1. g = ((2 * (12 * Q + i)) * pow2[D] + j) * pow2[0] + 0
    BY <1>1, <1>2, <1>3, <1>4 DEF P
  <2>2. d - d = 0 /\ d - (3 + H + 1 + 1) + 1 = D /\ 3 + H + 1 + 1 \in Nat
    BY <1>1
  <2>3. j < pow2[D] /\ 0 < pow2[0] /\ 2 * (12 * Q + i) \in Nat
    BY <1>1, <1>2 DEF P
  <2>4. Digits(g, 0, D, j)
    BY <1>1, <2>1, <2>3 DEF Digits
  <2>. QED BY <1>1, <1>5, <2>2, <2>4, TurnsIs
<1>11. RootsVectorAt(historical_summaries[i + 1], g, 3 + H + 1) = historical_summaries[i + 1][j]
  <2>1. d = 3 + H + 1 + BLOCK_ROOTS_VECTOR_DEPTH
    BY <1>1
  <2>. QED BY <1>5, <1>10, <2>1 DEF RootsVectorAt
<1>12. SummariesAt(g) = historical_summaries[i + 1][j]
  <2>1. d > 3 + H
    BY <1>1
  <2>. QED BY <1>5, <1>7, <1>8, <1>9, <1>11, <2>1 DEF SummariesAt
<1>13. BlockRootAt(g) = SummariesAt(g)
  BY <1>1, <1>5, <1>6 DEF BlockRootAt
<1>. QED BY <1>12, <1>13 DEF g

---------------------------------------------------------------------------
LEMMA HistoryInvInit == Init => HistoryInv
<1> SUFFICES ASSUME Init PROVE HistoryInv
  OBVIOUS
<1>1. S \in Nat /\ S # 0 /\ 0 \div S \in Nat /\ 0 = (0 \div S) * S + (0 % S) /\ 0 % S \in Nat
  BY WindowFacts
<1>2. 0 \div S = 0
  <2> HIDE DEF S
  <2>1. 0 * S <= 0 /\ 0 < (0 + 1) * S
    BY <1>1
  <2>. QED BY <1>1, <2>1, QuotientIs
<1>3. historical_summaries = <<>> /\ historical_summaries \in Seq([Indices -> 0 .. MAX_SLOT])
  BY EmptySeq DEF Init
<1>4. TypeOK
  BY <1>3, MaxSlotAssumption DEF Init, TypeOK
<1>5. Len(historical_summaries) = 0
  BY <1>3
<1>6. Filled
  BY WindowFacts DEF Init, Filled
<1>7. Ring
  BY DEF Init, Ring
<1>8. Archive
  <2> SUFFICES ASSUME NEW m \in blocks PROVE ~ (m \div S < 0)
    BY <1>5 DEF Archive
  <2>1. m = 0
    BY DEF Init
  <2>. QED BY <1>2, <2>1
<1>. QED BY <1>2, <1>4, <1>5, <1>6, <1>7, <1>8 DEF Init, HistoryInv

LEMMA HistoryInvNext == HistoryInv /\ [Next]_vars => HistoryInv'
<1> SUFFICES ASSUME HistoryInv, [Next]_vars PROVE HistoryInv'
  OBVIOUS
<1>1. CASE NextBlock
  BY <1>1, SlotProcessed DEF NextBlock
<1>2. CASE SkippedSlot
  BY <1>2, SlotProcessed DEF SkippedSlot
<1>3. CASE UNCHANGED vars
  BY <1>3 DEF vars, HistoryInv, TypeOK, Filled, Ring, Archive
<1>. QED BY <1>1, <1>2, <1>3 DEF Next

LEMMA HistoryInvHolds == Spec => []HistoryInv
BY HistoryInvInit, HistoryInvNext, PTL DEF Spec

(* Every chain keeps the two accumulators of past block roots well formed: *)
(* each summary is a full ring of block roots.                             *)
THEOREM TypeCorrect == Spec => []TypeOK
<1>1. HistoryInv => TypeOK
  BY DEF HistoryInv
<1>. QED BY <1>1, HistoryInvHolds, PTL

(* An ancestor at most S slots back is in the ring; an older one belongs   *)
(* to a window that is over, and so to the summary of that window, whose   *)
(* index fits into the list.                                               *)
LEMMA InvariantReaches == HistoryInv => AncestorsReachable
<1> SUFFICES ASSUME HistoryInv, NEW m \in 0 .. MAX_SLOT, IsAncestor(m)
             PROVE  BlockRootAt(ancestor_gindex(m, slot)) = m
  BY DEF AncestorsReachable
<1> DEFINE Q == pow2[HISTORICAL_SUMMARIES_LIST_DEPTH]
           w == m \div S
           window == slot \div S
           j == m % S
<1>1. /\ slot \in Nat /\ slot <= MAX_SLOT /\ MAX_SLOT \in Nat
      /\ m \in Nat /\ m < slot /\ m \in blocks
  BY MaxSlotAssumption DEF HistoryInv, TypeOK, IsAncestor
<1>2. S \in Nat /\ S # 0 /\ Indices = 0 .. S - 1
  BY WindowFacts, Zenon
<1>3. w \in Nat /\ j \in Indices /\ j \in Nat /\ m = w * S + j
  BY <1>1, WindowFacts, Zenon
<1>4. window \in Nat /\ slot % S \in Indices /\ slot = window * S + (slot % S)
  BY <1>1, WindowFacts, Zenon
<1>5. Len(historical_summaries) = window /\ Ring /\ Archive
  BY DEF HistoryInv
<1>6. ancestor_gindex(m, slot) = IF slot - m <= S THEN block_roots_leaf_gindex(j)
                                 ELSE historical_summaries_leaf_gindex(w, j)
  BY DEF ancestor_gindex, S
<1>7. CASE slot - m <= S
  <2>1. block_roots[j] = m
    BY <1>1, <1>5, <1>7 DEF Ring
  <2>2. BlockRootAt(block_roots_leaf_gindex(j)) = block_roots[j]
    BY <1>3, RingLookup
  <2>. QED BY <1>6, <1>7, <2>1, <2>2
<1>8. CASE ~ (slot - m <= S)
  <2>1. Q \in Nat /\ MAX_SLOT <= S * Q
    <3>1. S = pow2[BLOCK_ROOTS_VECTOR_DEPTH]
      BY DEF S, SLOTS_PER_HISTORICAL_ROOT
    <3>2. S * Q = pow2[BLOCK_ROOTS_VECTOR_DEPTH + HISTORICAL_SUMMARIES_LIST_DEPTH]
      BY <3>1, TreeDepthAssumption, PowerProduct
    <3>. QED BY <3>2, TreeDepthAssumption, PowerPositive, MaxSlotAssumption
  <2>2. \A x, y, z \in Nat : x <= y => x * z <= y * z
    OBVIOUS
  <2> HIDE DEF Q, w, window, j, S
  <2>3. w * S \in Nat /\ window * S \in Nat /\ (w + 1) * S = w * S + S /\ (Q + 1) * S = S * Q + S
    BY <1>2, <1>3, <1>4, <2>1
  <2>4. w < window
    <3> SUFFICES ASSUME window <= w PROVE FALSE
      BY <1>3, <1>4
    <3>1. window * S <= w * S
      BY <1>2, <1>3, <1>4, <2>2
    <3>. QED BY <1>1, <1>2, <1>3, <1>4, <1>8, <2>3, <3>1
  <2>5. w < Q
    <3> SUFFICES ASSUME Q <= w PROVE FALSE
      BY <1>3, <2>1
    <3>1. Q * S <= w * S /\ Q * S = S * Q /\ Q * S \in Nat
      BY <1>2, <1>3, <2>1, <2>2
    <3>. QED BY <1>1, <1>2, <1>3, <2>1, <2>3, <3>1
  <2>6. historical_summaries[w + 1][j] = m
    BY <1>1, <1>5, <2>4 DEF Archive, w, j
  <2>7. BlockRootAt(historical_summaries_leaf_gindex(w, j)) = historical_summaries[w + 1][j]
    BY <1>3, <1>5, <2>4, <2>5, ArchiveLookup DEF Q
  <2>. QED BY <1>6, <1>8, <2>6, <2>7
<1>. QED BY <1>7, <1>8

(* Step 7 can prove every strict ancestor of a finalized block, for every  *)
(* depth of the two accumulators and every chain, slots without a block    *)
(* included, up to the capacity of the list of summaries.                  *)
THEOREM AncestorsFound == Spec => []AncestorsReachable
BY InvariantReaches, HistoryInvHolds, PTL

=============================================================================
