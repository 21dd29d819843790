-------------------------- MODULE MerkleizeProofs --------------------------
(***************************************************************************)
(* Proofs about Merkleize for every list of chunks, every byte string,     *)
(* every limit and every chunk size.                                       *)
(***************************************************************************)
EXTENDS Containers, PowersProofs, SequenceTheorems

(* A level of the padded tree, computed from the level below it. *)
Row(list, tree, h) ==
  [k \in Nat \ {0} |->
     IF (k - 1) * pow2[h] >= Len(list) THEN ZERO_HASHES[h]
     ELSE IF h = 0 THEN list[k]
     ELSE hash_concat(tree[h - 1][2 * k - 1], tree[h - 1][2 * k])]

Upto(list, tree, n) == \A h \in 0 .. n : tree[h] = Row(list, tree, h)

(* A level depends on the tree only through the level below.               *)
LEMMA RowLocal ==
  ASSUME NEW list, NEW f, NEW g, NEW h \in Nat, h > 0 => f[h - 1] = g[h - 1]
  PROVE  Row(list, f, h) = Row(list, g, h)
<1>1. CASE h = 0
  BY <1>1, Zenon DEF Row
<1>2. CASE h # 0
  <2>1. f[h - 1] = g[h - 1]
    BY <1>2
  <2>. QED BY <2>1, Zenon DEF Row
<1>. QED BY <1>1, <1>2

(* Trees built up to level n agree at level n.                             *)
LEMMA UptoUnique ==
  \A n \in Nat : \A list, f, g : Upto(list, f, n) /\ Upto(list, g, n) => f[n] = g[n]
<1> DEFINE U == {n \in Nat : \A list, f, g : Upto(list, f, n) /\ Upto(list, g, n) => f[n] = g[n]}
<1>1. 0 \in U
  <2> SUFFICES ASSUME NEW list, NEW f, NEW g, Upto(list, f, 0), Upto(list, g, 0)
               PROVE  f[0] = g[0]
    OBVIOUS
  <2>1. f[0] = Row(list, f, 0) /\ g[0] = Row(list, g, 0)
    BY DEF Upto
  <2>2. Row(list, f, 0) = Row(list, g, 0)
    BY RowLocal
  <2>. QED BY <2>1, <2>2
<1>2. ASSUME NEW n \in Nat, n \in U PROVE n + 1 \in U
  <2> SUFFICES ASSUME NEW list, NEW f, NEW g, Upto(list, f, n + 1), Upto(list, g, n + 1)
               PROVE  f[n + 1] = g[n + 1]
    OBVIOUS
  <2>1. Upto(list, f, n) /\ Upto(list, g, n)
    BY DEF Upto
  <2>2. f[n] = g[n]
    BY <1>2, <2>1
  <2>3. f[n + 1] = Row(list, f, n + 1) /\ g[n + 1] = Row(list, g, n + 1)
    BY DEF Upto
  <2>4. Row(list, f, n + 1) = Row(list, g, n + 1)
    BY <2>2, RowLocal, (n + 1) - 1 = n
  <2>. QED BY <2>3, <2>4
<1>. QED
  <2> HIDE DEF U
  <2>1. \A n \in Nat : n \in U
    BY <1>1, <1>2, SetInduction
  <2> USE DEF U
  <2>. QED BY <2>1

(* A tree can be built up to any level.                                    *)
LEMMA UptoExists ==
  \A n \in Nat : \A list : \E f : Upto(list, f, n)
<1> DEFINE X == {n \in Nat : \A list : \E f : Upto(list, f, n)}
<1>1. 0 \in X
  <2> SUFFICES ASSUME NEW list PROVE \E f : Upto(list, f, 0)
    OBVIOUS
  <2> DEFINE f == [m \in 0 .. 0 |-> Row(list, <<>>, 0)]
  <2>1. Row(list, f, 0) = Row(list, <<>>, 0)
    BY RowLocal
  <2>2. f[0] = Row(list, f, 0)
    BY <2>1
  <2> HIDE DEF f
  <2>3. Upto(list, f, 0)
    BY <2>2 DEF Upto
  <2>. QED BY <2>3
<1>2. ASSUME NEW n \in Nat, n \in X PROVE n + 1 \in X
  <2> SUFFICES ASSUME NEW list PROVE \E f : Upto(list, f, n + 1)
    OBVIOUS
  <2>1. PICK g : Upto(list, g, n)
    BY <1>2
  <2> DEFINE f == [m \in 0 .. n + 1 |-> IF m <= n THEN g[m] ELSE Row(list, g, n + 1)]
  <2>2. \A m \in 0 .. n : f[m] = g[m]
    OBVIOUS
  <2>3. f[n + 1] = Row(list, g, n + 1)
    OBVIOUS
  <2> HIDE DEF f
  <2>4. ASSUME NEW h \in 0 .. n + 1 PROVE f[h] = Row(list, f, h)
    <3>1. Row(list, f, h) = Row(list, g, h)
      <4>1. h > 0 => f[h - 1] = g[h - 1]
        BY <2>2
      <4>. QED BY <4>1, RowLocal
    <3>2. CASE h = n + 1
      BY <3>1, <3>2, <2>3
    <3>3. CASE h # n + 1
      <4>1. h \in 0 .. n
        BY <3>3
      <4>. QED BY <4>1, <3>1, <2>1, <2>2 DEF Upto
    <3>. QED BY <3>2, <3>3
  <2>5. Upto(list, f, n + 1)
    BY <2>4 DEF Upto
  <2>. QED BY <2>5
<1>. QED
  <2> HIDE DEF X
  <2>1. \A n \in Nat : n \in X
    BY <1>1, <1>2, SetInduction
  <2> USE DEF X
  <2>. QED BY <2>1

(* The padded tree is well-defined: a node is what its definition says. *)
LEMMA PaddedNode ==
  ASSUME NEW list, NEW h \in Nat, NEW k \in Nat \ {0}
  PROVE  PaddedTree(list)[h][k] =
           IF (k - 1) * pow2[h] >= Len(list) THEN ZERO_HASHES[h]
           ELSE IF h = 0 THEN list[k]
           ELSE hash_concat(PaddedTree(list)[h - 1][2 * k - 1], PaddedTree(list)[h - 1][2 * k])
<1> DEFINE at(n) == CHOOSE g : Upto(list, g, n)
           f == [n \in Nat |-> at(n)[n]]
<1>1. \A n \in Nat : Upto(list, at(n), n)
  BY UptoExists, Zenon
<1> HIDE DEF at
<1>2. ASSUME NEW n \in Nat PROVE f[n] = Row(list, f, n)
  <2>1. at(n)[n] = Row(list, at(n), n)
    BY <1>1 DEF Upto
  <2>2. n > 0 => at(n)[n - 1] = f[n - 1]
    <3> SUFFICES ASSUME n > 0 PROVE at(n)[n - 1] = at(n - 1)[n - 1]
      OBVIOUS
    <3>1. Upto(list, at(n), n - 1)
      BY <1>1 DEF Upto
    <3>2. n - 1 \in Nat /\ Upto(list, at(n - 1), n - 1)
      BY <1>1
    <3>. QED BY <3>1, <3>2, UptoUnique
  <2>3. Row(list, at(n), n) = Row(list, f, n)
    BY <2>2, RowLocal
  <2>4. f[n] = at(n)[n]
    OBVIOUS
  <2>. QED BY <2>1, <2>3, <2>4
<1>3. f = [n \in Nat |-> Row(list, f, n)]
  BY <1>2
<1>4. PaddedTree(list) = [n \in Nat |-> Row(list, PaddedTree(list), n)]
  <2> HIDE DEF f
  <2>1. \E t : t = [n \in Nat |-> Row(list, t, n)]
    BY <1>3
  <2>. QED BY <2>1, Zenon DEF PaddedTree, Row
<1>5. PaddedTree(list)[h] = Row(list, PaddedTree(list), h)
  BY <1>4, Zenon
<1>. QED BY <1>5, Zenon DEF Row

(* A node above the leaves.                                                *)
LEMMA PaddedParent ==
  ASSUME NEW list, NEW h \in Nat, NEW k \in Nat \ {0}
  PROVE  PaddedTree(list)[h + 1][k] =
           IF (k - 1) * pow2[h + 1] >= Len(list) THEN ZERO_HASHES[h + 1]
           ELSE hash_concat(PaddedTree(list)[h][2 * k - 1], PaddedTree(list)[h][2 * k])
<1>1. h + 1 \in Nat /\ ~ (h + 1 = 0) /\ (h + 1) - 1 = h
  OBVIOUS
<1>. QED BY <1>1, PaddedNode

---------------------------------------------------------------------------
(* A rounded-up quotient is the number of pieces of size b that hold a.    *)
LEMMA CeilDivFacts ==
  ASSUME NEW a \in Nat, NEW b \in Nat \ {0}
  PROVE  /\ CeilDiv(a, b) \in Nat
         /\ a <= b * CeilDiv(a, b)
         /\ b * (CeilDiv(a, b) - 1) < a
BY DEF CeilDiv

(* There are no more pieces than elements.                                 *)
LEMMA CeilDivSmall ==
  ASSUME NEW a \in Nat, NEW b \in Nat \ {0}
  PROVE  CeilDiv(a, b) <= a
<1> DEFINE c == CeilDiv(a, b)
<1>1. c \in Nat /\ b * (c - 1) < a
  BY CeilDivFacts
<1> SUFFICES c <= a
  OBVIOUS
<1> HIDE DEF c
<1>2. CASE c = 0
  BY <1>2
<1>3. CASE c # 0
  <2> DEFINE d == c - 1
  <2>1. d \in Nat
    BY <1>1, <1>3
  <2>2. \A x, y \in Nat : y # 0 => y * x >= x
    OBVIOUS
  <2>3. b * d >= d
    BY <2>1, <2>2
  <2>. QED BY <1>1, <2>3
<1>. QED BY <1>2, <1>3

(* Pairs.                                                                  *)
LEMMA CeilDivTwo ==
  ASSUME NEW a \in Nat
  PROVE  CeilDiv(a, 2) \in Nat /\ a <= 2 * CeilDiv(a, 2) /\ 2 * CeilDiv(a, 2) <= a + 1
BY DEF CeilDiv

(* levels finds a height, and a tree of that height is wide enough.        *)
LEMMA LevelsFit ==
  ASSUME NEW n \in Nat, n <= pow2[MAX_DEPTH]
  PROVE  levels(n) \in 0 .. MAX_DEPTH /\ n <= pow2[levels(n)]
<1> DEFINE S == {k \in Nat : n <= pow2[k]}
           Fit(k) == n <= pow2[k] /\ (k > 0 => pow2[k - 1] < n)
<1>1. MAX_DEPTH \in S
  BY SizesAssumption
<1>2. PICK m \in S : \A k \in S : m <= k
  BY <1>1, LeastNumber
<1>3. m \in 0 .. MAX_DEPTH
  BY <1>1, <1>2, SizesAssumption
<1>4. Fit(m)
  <2>1. ASSUME m > 0 PROVE pow2[m - 1] < n
    <3>1. m - 1 \in Nat /\ m - 1 \notin S
      BY <1>2, <2>1
    <3>. QED BY <3>1, PowersOfTwo
  <2>. QED BY <2>1, <1>2
<1>5. \E k \in 0 .. MAX_DEPTH : Fit(k)
  BY <1>3, <1>4, Zenon
<1>6. levels(n) = CHOOSE k \in 0 .. MAX_DEPTH : Fit(k)
  BY Zenon DEF levels
<1>7. levels(n) \in 0 .. MAX_DEPTH /\ Fit(levels(n))
  BY <1>5, <1>6, Zenon
<1>. QED BY <1>7

---------------------------------------------------------------------------
(* The invariant of the reduction: level depth of the padded tree, as far  *)
(* as the chunks reach, is what cur holds.                                 *)
IsSequence(s) == s \in Seq({s[k] : k \in DOMAIN s})
Fits          == Len(chunks) <= pow2[target_levels]

Input ==
  /\ IsSequence(chunks) /\ target_levels \in 0 .. MAX_DEPTH
  /\ data # NONE => chunks = pack(data)

Level ==
  pc = "loop" =>
    /\ Fits /\ chunks # <<>> /\ Len(cur) \in Nat /\ DOMAIN cur = 1 .. Len(cur)
    /\ (Len(cur) - 1) * pow2[depth] < Len(chunks)
    /\ Len(chunks) <= Len(cur) * pow2[depth]
    /\ \A k \in 1 .. Len(cur) : cur[k] = PaddedTree(chunks)[depth][k]

Root ==
  pc = "done" =>
    result = IF ~ Fits THEN VALUE_ERROR
             ELSE IF data = NONE THEN PaddedRoot(chunks, target_levels)
             ELSE mix_in_length(PaddedRoot(chunks, target_levels), Len(data))

IInv == Input /\ TypeOK /\ (pc = "call" => cur = <<>> /\ depth = 0) /\ Level /\ Root

(* merkleize's arguments keep their properties while the call is running.  *)
LEMMA InputKept ==
  ASSUME Input, UNCHANGED call
  PROVE  Input'
BY DEF Input, call, IsSequence, target_levels

(* pack returns a sequence with as many chunks as the bytes fill.          *)
LEMMA PackLength ==
  ASSUME NEW bytes \in Seq(Byte)
  PROVE  Len(pack(bytes)) = CeilDiv(Len(bytes), BYTES_PER_CHUNK) /\ IsSequence(pack(bytes))
<1> DEFINE n == CeilDiv(Len(bytes), BYTES_PER_CHUNK)
<1>1. n \in Nat
  BY CeilDivFacts, SizesAssumption
<1>2. PICK f : f = pack(bytes)
  OBVIOUS
<1> HIDE DEF n
<1>3. f \in [1 .. n -> {f[k] : k \in DOMAIN f}] /\ DOMAIN f = 1 .. n
  <2>1. pack(bytes) = [c \in 1 .. n |-> pack(bytes)[c]]
    BY DEF pack, n
  <2>. QED BY <1>2, <2>1
<1>4. f \in Seq({f[k] : k \in DOMAIN f}) /\ Len(f) = n
  BY <1>1, <1>3
<1>. QED BY <1>2, <1>4 DEF IsSequence, n

(* The arguments of every call have the properties of Input.               *)
LEMMA InputInit ==
  ASSUME Init
  PROVE  Input
<1>1. CASE data = NONE /\ chunks \in ChunkLists /\ limit \in Limits \union {NONE}
  <2>1. IsSequence(chunks) /\ Len(chunks) \in Nat /\ Len(chunks) <= pow2[MAX_DEPTH]
    BY <1>1, InputsAssumption, DepthAssumption DEF IsSequence
  <2>2. \A n \in Nat : n <= pow2[MAX_DEPTH] => AtLeastOne(n) \in Nat /\ AtLeastOne(n) <= pow2[MAX_DEPTH]
    <3>1. pow2[MAX_DEPTH] \in Nat /\ pow2[MAX_DEPTH] >= 1
      BY PowerPositive, SizesAssumption
    <3>. QED BY <3>1 DEF AtLeastOne
  <2>3. target_levels \in 0 .. MAX_DEPTH
    BY <1>1, <2>1, <2>2, LevelsFit, InputsAssumption, DepthAssumption DEF target_levels
  <2>. QED BY <1>1, <2>1, <2>3 DEF Input
<1>2. ASSUME data \in Datas, chunks = pack(data),
             NEW bytes \in Limits, limit = AtLeastOne(CeilDiv(bytes, BYTES_PER_CHUNK))
      PROVE  Input
  <2>1. bytes \in Nat /\ bytes <= pow2[MAX_DEPTH]
    BY InputsAssumption, DepthAssumption
  <2>2. CeilDiv(bytes, BYTES_PER_CHUNK) \in Nat /\ CeilDiv(bytes, BYTES_PER_CHUNK) <= bytes
    BY <2>1, CeilDivFacts, CeilDivSmall, SizesAssumption
  <2>3. AtLeastOne(limit) \in Nat /\ AtLeastOne(limit) <= pow2[MAX_DEPTH] /\ limit \in Nat /\ limit # NONE
    <3>1. pow2[MAX_DEPTH] \in Nat /\ pow2[MAX_DEPTH] >= 1
      BY PowerPositive, SizesAssumption
    <3>. QED BY <1>2, <2>1, <2>2, <3>1, InputsAssumption DEF AtLeastOne
  <2>4. target_levels \in 0 .. MAX_DEPTH
    BY <2>3, LevelsFit DEF target_levels
  <2>. QED BY <1>2, <2>4, PackLength, InputsAssumption DEF Input
<1>. QED BY <1>1, <1>2 DEF Init

(* The lists and the height as numbers.                                    *)
LEMMA Lengths ==
  ASSUME Input
  PROVE  /\ Len(chunks) \in Nat /\ (chunks # <<>> => Len(chunks) > 0)
         /\ (chunks = <<>> => Len(chunks) = 0)
         /\ DOMAIN chunks = 1 .. Len(chunks)
         /\ target_levels \in Nat
<1>1. target_levels \in Nat
  BY SizesAssumption DEF Input
<1>2. PICK S : chunks \in Seq(S)
  BY DEF Input, IsSequence
<1>. QED BY <1>1, <1>2, EmptySeq, LenProperties

(* One turn of the loop climbs one level of the padded tree.               *)
LEMMA CombineNodes ==
  ASSUME Input, TypeOK, Level, CombineLevel
  PROVE  /\ depth + 1 <= target_levels
         /\ Len(cur') \in Nat /\ Len(cur') <= Len(cur)
         /\ Level'
<1> DEFINE n == Len(cur)
           m == CeilDiv(n, 2)
           L == Len(chunks)
           P == pow2[depth]
           Q == pow2[target_levels]
           T == PaddedTree(chunks)
<1>0. pc = "loop" /\ depth \in Nat /\ depth <= target_levels /\ L \in Nat /\ L > 0
  BY Lengths DEF CombineLevel, TypeOK, Level
<1>1. n \in Nat /\ DOMAIN cur = 1 .. n /\ (n - 1) * P < L /\ L <= n * P /\ L <= Q
      /\ \A k \in 1 .. n : cur[k] = T[depth][k]
  BY <1>0 DEF Level, Fits
<1>2. P \in Nat /\ P >= 1 /\ pow2[depth + 1] = 2 * P
  BY <1>0, PowerPositive, PowersOfTwo
<1>3. m \in Nat /\ n <= 2 * m /\ 2 * m <= n + 1
  BY <1>1, CeilDivTwo
<1>4. n > 1 \/ depth < target_levels
  BY DEF CombineLevel, Unfinished
<1>5. cur' = [k \in 1 .. m |-> hash_concat(cur[2 * k - 1],
                                  IF 2 * k <= n THEN cur[2 * k] ELSE ZERO_HASHES[depth])]
      /\ depth' = depth + 1 /\ chunks' = chunks /\ target_levels' = target_levels
  BY DEF CombineLevel, Combined, call, target_levels
<1>6. Len(cur') = m /\ DOMAIN cur' = 1 .. m
  BY <1>5, <1>3
<1> HIDE DEF n, m, L, P, Q, T
<1>7. depth + 1 <= target_levels
  <2> SUFFICES ASSUME depth = target_levels PROVE FALSE
    BY <1>0, Lengths
  <2>1. P = Q
    BY DEF P, Q
  <2>2. (n - 1) * P < P
    <3>1. \A x, y, z \in Int : x < y /\ y <= z => x < z
      OBVIOUS
    <3>2. (n - 1) * P \in Int /\ L \in Int /\ P \in Int
      BY <1>0, <1>1, <1>2
    <3>. QED BY <2>1, <1>1, <3>1, <3>2, Zenon
  <2>3. n - 1 >= 1
    BY <1>1, <1>4, <2>2, Lengths
  <2>4. \A x, y \in Nat : x >= 1 => x * y >= y
    OBVIOUS
  <2>5. n - 1 \in Nat
    BY <1>1, <2>3
  <2>. QED BY <2>2, <2>3, <2>4, <2>5, <1>1, <1>2
<1>8. n >= 1
  <2> SUFFICES ASSUME n = 0 PROVE FALSE
    BY <1>1
  <2>. QED BY <1>0, <1>1, <1>2
<1>9. m >= 1 /\ m <= n
  BY <1>8, <1>1, <1>3
<1>10. L <= m * (2 * P)
  <2>1. \A x, y, z \in Nat : x <= y => x * z <= y * z
    OBVIOUS
  <2>2. n * P <= (2 * m) * P
    BY <2>1, <1>1, <1>2, <1>3
  <2>. QED BY <2>2, <1>0, <1>1, <1>2, <1>3
<1>11. \A k \in 1 .. m : (k - 1) * (2 * P) < L
  <2> SUFFICES ASSUME NEW k \in 1 .. m PROVE (k - 1) * (2 * P) < L
    OBVIOUS
  <2>1. \A x, y, z \in Nat : x <= y => x * z <= y * z
    OBVIOUS
  <2>2. 2 * (k - 1) \in Nat /\ n - 1 \in Nat /\ 2 * (k - 1) <= n - 1
    BY <1>1, <1>3, <1>8
  <2>3. (2 * (k - 1)) * P <= (n - 1) * P
    BY <2>1, <2>2, <1>2
  <2>4. (k - 1) * (2 * P) = (2 * (k - 1)) * P
    BY <1>2, <1>3
  <2>. QED BY <2>3, <2>4, <2>2, <1>0, <1>1, <1>2
<1>12. ASSUME NEW k \in 1 .. m PROVE cur'[k] = T[depth + 1][k]
  <2>0. k \in Nat \ {0} /\ 2 * k - 1 \in 1 .. n /\ 2 * k \in Nat \ {0} /\ (2 * k) - 1 = 2 * k - 1
    BY <1>1, <1>3
  <2>1. ~ ((k - 1) * pow2[depth + 1] >= L)
    BY <1>0, <1>2, <1>3, <1>11
  <2>2. T[depth + 1][k] = hash_concat(T[depth][2 * k - 1], T[depth][2 * k])
    <3>1. k \in Nat \ {0}
      BY <2>0
    <3>. QED BY <1>0, <2>1, <3>1, PaddedParent, Zenon DEF T, L
  <2>3. cur[2 * k - 1] = T[depth][2 * k - 1]
    BY <2>0, <1>1
  <2>4. (IF 2 * k <= n THEN cur[2 * k] ELSE ZERO_HASHES[depth]) = T[depth][2 * k]
    <3>1. CASE 2 * k <= n
      BY <3>1, <2>0, <1>1
    <3>2. CASE ~ (2 * k <= n)
      <4>1. \A x, y, z \in Nat : x <= y => x * z <= y * z
        OBVIOUS
      <4>2. n <= 2 * k - 1 /\ 2 * k - 1 \in Nat
        BY <3>2, <2>0, <1>1
      <4> DEFINE reach == n * P
                 start == (2 * k - 1) * P
      <4>3. reach \in Nat /\ start \in Nat /\ reach <= start /\ L <= reach
        BY <4>1, <4>2, <1>1, <1>2
      <4> HIDE DEF reach, start
      <4>4. (2 * k - 1) * pow2[depth] >= L
        <5>1. start >= L
          BY <4>3, <1>0
        <5>. QED BY <5>1, Zenon DEF start, P
      <4>5. T[depth][2 * k] = ZERO_HASHES[depth]
        BY <4>4, <1>0, <2>0, PaddedNode DEF T, L
      <4>. QED BY <3>2, <4>5
    <3>. QED BY <3>1, <3>2
  <2>5. cur'[k] = hash_concat(cur[2 * k - 1], IF 2 * k <= n THEN cur[2 * k] ELSE ZERO_HASHES[depth])
    BY <1>5
  <2>. QED BY <2>2, <2>3, <2>4, <2>5
<1>13. Level'
  <2>1. (m - 1) * pow2[depth + 1] < L /\ L <= m * pow2[depth + 1]
    BY <1>2, <1>9, <1>10, <1>11, <1>3
  <2>2. Fits /\ chunks # <<>>
    BY <1>0 DEF Level
  <2>3. Fits' /\ chunks' # <<>> /\ Len(cur') \in Nat /\ DOMAIN cur' = 1 .. Len(cur')
    BY <2>2, <1>3, <1>5, <1>6 DEF Fits
  <2>. QED BY <2>1, <2>3, <1>5, <1>6, <1>12 DEF Level, L, T
<1>. QED BY <1>3, <1>6, <1>7, <1>9, <1>13 DEF n

(* Returning the root of the padded tree establishes the invariant.        *)
LEMMA ReturnRoot ==
  ASSUME Input, TypeOK, Fits, NEW root, root = PaddedRoot(chunks, target_levels), Return(root)
  PROVE  IInv'
<1>1. target_levels' = target_levels
  BY DEF Return, call, target_levels
<1>2. Input'
  BY InputKept DEF Return
<1>3. TypeOK'
  BY <1>1 DEF TypeOK, Return, call
<1>4. pc' = "done" /\ chunks' = chunks /\ data' = data
      /\ result' = IF data = NONE THEN root ELSE mix_in_length(root, Len(data))
  BY DEF Return, call
<1>5. Fits' /\ PaddedRoot(chunks, target_levels)' = PaddedRoot(chunks, target_levels)
  <2>1. Fits'
    BY <1>1, <1>4 DEF Fits
  <2>2. PaddedRoot(chunks, target_levels)' = PaddedRoot(chunks, target_levels)
    BY <1>1, <1>4
  <2>. QED BY <2>1, <2>2
<1>6. Level' /\ (pc' = "call" => cur' = <<>> /\ depth' = 0)
  BY <1>4 DEF Level
<1>7. Root'
  BY <1>4, <1>5 DEF Root
<1>. QED BY <1>2, <1>3, <1>6, <1>7 DEF IInv

(* The invariant is inductive.                                             *)
LEMMA Inductive ==
  /\ Init => IInv
  /\ IInv /\ [Next]_vars => IInv'
<1>1. ASSUME Init PROVE IInv
  <2>1. Input /\ Len(chunks) \in Nat /\ target_levels \in Nat
    BY <1>1, InputInit, Lengths
  <2>2. data \in Datas \union {NONE} /\ pc = "call" /\ cur = <<>> /\ depth = 0
    BY <1>1 DEF Init
  <2>3. TypeOK
    BY <2>1, <2>2 DEF TypeOK
  <2>. QED BY <2>1, <2>2, <2>3 DEF IInv, Level, Root
<1>2. ASSUME IInv, [Next]_vars PROVE IInv'
  <2>0. Input /\ TypeOK /\ (pc = "call" => cur = <<>> /\ depth = 0) /\ Level /\ Root
    BY <1>2 DEF IInv
  <2>1. CASE TooManyChunks
    <3>1. UNCHANGED call /\ UNCHANGED <<cur, depth>> /\ pc' = "done" /\ result' = VALUE_ERROR
      BY <2>1 DEF TooManyChunks
    <3>2. TypeOK'
      BY <2>0, <3>1 DEF TypeOK, call, target_levels
    <3>3. ~ Fits /\ Fits' = Fits
      <4>1. ~ (Len(chunks) <= pow2[target_levels])
        <5>1. Len(chunks) \in Nat /\ pow2[target_levels] \in Nat
          BY <2>0, Lengths, PowersOfTwo
        <5>. QED BY <2>1, <5>1 DEF TooManyChunks
      <4>. QED BY <3>1, <4>1 DEF Fits, call, target_levels
    <3>. QED BY <2>0, <3>1, <3>2, <3>3, InputKept DEF IInv, Level, Root
  <2>2. CASE NoChunks
    <3>1. Len(chunks) = 0 /\ target_levels \in Nat
      BY <2>0, <2>2, Lengths DEF NoChunks
    <3>2. Fits
      BY <3>1, PowerPositive DEF Fits
    <3>3. ZERO_HASHES[target_levels] = PaddedRoot(chunks, target_levels)
      <4>1. (1 - 1) * pow2[target_levels] >= Len(chunks)
        BY <3>1, PowerPositive
      <4>2. 1 \in Nat \ {0}
        OBVIOUS
      <4>. QED BY <3>1, <4>1, <4>2, PaddedNode DEF PaddedRoot
    <3>. QED BY <2>0, <2>2, <3>2, <3>3, ReturnRoot DEF NoChunks
  <2>3. CASE Enter
    <3>1. UNCHANGED call /\ UNCHANGED depth /\ cur' = chunks /\ pc' = "loop"
          /\ chunks # <<>> /\ Fits /\ depth = 0
      BY <2>0, <2>3 DEF Enter, Fits
    <3>2. Len(chunks) \in Nat /\ Len(chunks) > 0 /\ target_levels \in Nat
          /\ DOMAIN chunks = 1 .. Len(chunks)
      BY <2>0, <3>1, Lengths
    <3>3. TypeOK'
      BY <2>0, <3>1, <3>2 DEF TypeOK, call, target_levels
    <3>4. ASSUME NEW k \in 1 .. Len(chunks) PROVE chunks[k] = PaddedTree(chunks)[0][k]
      <4>1. k \in Nat \ {0} /\ ~ ((k - 1) * pow2[0] >= Len(chunks))
        BY <3>2, PowersOfTwo
      <4>. QED BY <4>1, PaddedNode
    <3>5. Fits'
      BY <3>1 DEF Fits, call, target_levels
    <3>6. Level'
      <4>1. (Len(chunks) - 1) * pow2[0] < Len(chunks) /\ Len(chunks) <= Len(chunks) * pow2[0]
        <5>1. (Len(chunks) - 1) * 1 < Len(chunks) /\ Len(chunks) <= Len(chunks) * 1
          BY <3>2
        <5>2. pow2[0] = 1
          BY PowersOfTwo
        <5>. QED BY <5>1, <5>2
      <4>2. chunks' = chunks /\ depth' = 0 /\ cur' = chunks
        BY <3>1 DEF call
      <4>. QED BY <3>1, <3>2, <3>4, <3>5, <4>1, <4>2 DEF Level
    <3>7. Root'
      BY <3>1 DEF Root
    <3>. QED BY <2>0, <3>1, <3>3, <3>6, <3>7, InputKept DEF IInv
  <2>4. CASE CombineLevel
    <3>1. UNCHANGED <<pc, call, result>> /\ depth' = depth + 1 /\ pc = "loop"
      BY <2>4 DEF CombineLevel
    <3>2. depth + 1 <= target_levels /\ Len(cur') \in Nat /\ Len(cur') <= Len(cur) /\ Level'
      BY <2>0, <2>4, CombineNodes
    <3>3. Len(cur) \in Nat /\ Len(chunks) \in Nat /\ target_levels \in Nat
      BY <2>0, <3>1, Lengths DEF Level
    <3>4. TypeOK'
      BY <2>0, <3>1, <3>2, <3>3 DEF TypeOK, call, target_levels
    <3>5. Input'
      BY <2>0, <3>1, InputKept
    <3>. QED BY <3>1, <3>2, <3>4, <3>5 DEF IInv, Root
  <2>5. CASE Finish
    <3>1. pc = "loop" /\ ~ Unfinished /\ Return(cur[1])
      BY <2>5 DEF Finish
    <3>2. target_levels \in Nat /\ Len(chunks) \in Nat /\ Len(chunks) > 0 /\ Fits
      BY <2>0, <3>1, Lengths DEF Level
    <3>3. depth = target_levels /\ Len(cur) <= 1
      BY <2>0, <3>1, <3>2 DEF Unfinished, TypeOK, Level
    <3>4. 1 \in 1 .. Len(cur)
      <4>1. Len(cur) \in Nat /\ Len(chunks) <= Len(cur) * pow2[depth] /\ pow2[depth] \in Nat
        BY <2>0, <3>1, <3>2, <3>3, PowerPositive DEF Level
      <4>. QED BY <4>1, <3>2
    <3>5. cur[1] = PaddedRoot(chunks, target_levels)
      BY <2>0, <3>1, <3>3, <3>4 DEF Level, PaddedRoot
    <3>. QED BY <2>0, <3>1, <3>2, <3>5, ReturnRoot
  <2>6. CASE UNCHANGED vars
    <3>1. UNCHANGED call /\ UNCHANGED <<pc, cur, depth, result>>
      BY <2>6 DEF vars, call
    <3>2. Input'
      BY <2>0, <3>1, InputKept
    <3>3. UNCHANGED <<pc, data, chunks, limit, cur, depth, result>>
      BY <2>6 DEF vars
    <3>4. target_levels' = target_levels
      BY <3>3 DEF target_levels
    <3>5. TypeOK' /\ Level'
      BY <2>0, <3>3, <3>4 DEF TypeOK, Level, Fits
    <3>6. Root'
      BY <2>0, <3>3, <3>4 DEF Root, Fits, PaddedRoot
    <3>. QED BY <2>0, <3>2, <3>3, <3>5, <3>6 DEF IInv
  <2>. QED BY <1>2, <2>1, <2>2, <2>3, <2>4, <2>5, <2>6 DEF Next
<1>. QED BY <1>1, <1>2

(* The loop never climbs past the top of the padded tree and a level is    *)
(* never longer than the list it started from, for every list and limit.   *)
THEOREM TypeCorrect == Spec => []TypeOK
<1>1. IInv => TypeOK
  BY DEF IInv
<1>. QED BY <1>1, Inductive, PTL DEF Spec

(* merkleize is right: what the reduction returns is the root of the tree  *)
(* padded with zero chunks, for every list, byte string and limit that     *)
(* fits the precomputed zero subtrees.                                     *)
THEOREM RootCorrect == Spec => []RootExact
<1>1. IInv => RootExact
  BY DEF IInv, Root, RootExact
<1>. QED BY <1>1, Inductive, PTL DEF Spec

---------------------------------------------------------------------------
(* Equal hashes come from equal inputs.                                    *)
LEMMA HashInjective ==
  \A a, b, c, d : hash_concat(a, b) = hash_concat(c, d) => a = c /\ b = d
<1> SUFFICES ASSUME NEW a, NEW b, NEW c, NEW d, hash_concat(a, b) = hash_concat(c, d)
             PROVE  a = c /\ b = d
  OBVIOUS
<1>1. hash_concat(a, b).left = hash_concat(c, d).left /\ hash_concat(a, b).right = hash_concat(c, d).right
  OBVIOUS
<1>. QED BY <1>1 DEF hash_concat

(* Each zero hash is the hash of two of the level below. *)
LEMMA ZeroHashes ==
  /\ ZERO_HASHES[0] = ZeroChunk
  /\ \A d \in 0 .. MAX_DEPTH :
       d < MAX_DEPTH => ZERO_HASHES[d + 1] = hash_concat(ZERO_HASHES[d], ZERO_HASHES[d])
<1> DEFINE Body(f, d) == IF d = 0 THEN ZeroChunk ELSE hash_concat(f[d - 1], f[d - 1])
           E == {n \in Nat : \E f : f = [d \in 0 .. n |-> Body(f, d)]}
<1>1. 0 \in E
  <2> DEFINE f == [d \in 0 .. 0 |-> ZeroChunk]
  <2>1. f = [d \in 0 .. 0 |-> Body(f, d)]
    OBVIOUS
  <2>. QED BY <2>1
<1>2. ASSUME NEW n \in Nat, n \in E PROVE n + 1 \in E
  <2>1. PICK g : g = [d \in 0 .. n |-> Body(g, d)]
    BY <1>2
  <2> DEFINE f == [d \in 0 .. n + 1 |-> IF d = n + 1 THEN hash_concat(g[n], g[n]) ELSE g[d]]
  <2>2. f[n] = g[n] /\ f[n + 1] = hash_concat(g[n], g[n]) /\ \A d \in 0 .. n : f[d] = g[d]
    OBVIOUS
  <2> HIDE DEF f
  <2>3. ASSUME NEW d \in 0 .. n + 1 PROVE f[d] = Body(f, d)
    <3>1. CASE d = n + 1
      <4>1. d # 0 /\ d - 1 = n
        BY <3>1
      <4>. QED BY <2>2, <3>1, <4>1
    <3>2. CASE d # n + 1
      <4>1. d \in 0 .. n /\ (d # 0 => d - 1 \in 0 .. n)
        BY <3>2
      <4>2. g[d] = Body(g, d)
        BY <2>1, <4>1
      <4>3. Body(g, d) = Body(f, d)
        BY <2>2, <4>1
      <4>. QED BY <2>2, <4>1, <4>2, <4>3
    <3>. QED BY <3>1, <3>2
  <2>4. f = [d \in 0 .. n + 1 |-> f[d]]
    BY DEF f
  <2>5. f = [d \in 0 .. n + 1 |-> Body(f, d)]
    BY <2>3, <2>4
  <2>. QED BY <2>5
<1>3. MAX_DEPTH \in E
  <2>1. \A n \in Nat : n \in E
    <3> HIDE DEF E
    <3>. QED BY <1>1, <1>2, SetInduction
  <2>. QED BY <2>1, SizesAssumption
<1>4. ZERO_HASHES = [d \in 0 .. MAX_DEPTH |-> Body(ZERO_HASHES, d)]
  <2>1. \E f : f = [d \in 0 .. MAX_DEPTH |-> Body(f, d)]
    BY <1>3
  <2>. QED BY <2>1, Zenon DEF ZERO_HASHES
<1>5. \A d \in 0 .. MAX_DEPTH : ZERO_HASHES[d] = Body(ZERO_HASHES, d)
  BY <1>4, Zenon
<1>6. ZERO_HASHES[0] = ZeroChunk
  BY <1>5, SizesAssumption
<1>7. ASSUME NEW d \in 0 .. MAX_DEPTH, d < MAX_DEPTH
      PROVE  ZERO_HASHES[d + 1] = hash_concat(ZERO_HASHES[d], ZERO_HASHES[d])
  <2>1. d + 1 \in 0 .. MAX_DEPTH /\ ~ (d + 1 = 0) /\ (d + 1) - 1 = d
    BY <1>7, SizesAssumption
  <2>2. ZERO_HASHES[d + 1] = Body(ZERO_HASHES, d + 1)
    BY <1>5, <2>1, Zenon
  <2>3. Body(ZERO_HASHES, d + 1) = hash_concat(ZERO_HASHES[d], ZERO_HASHES[d])
    BY <2>1
  <2>. QED BY <2>2, <2>3
<1>. QED BY <1>6, <1>7

(* A leaf of the padded tree is a chunk or, past the list, a zero chunk. *)
LEMMA PaddedLeaf ==
  ASSUME NEW list, Len(list) \in Nat, NEW k \in Nat \ {0}
  PROVE  PaddedTree(list)[0][k] = At(list, k, ZeroChunk)
<1>1. (k - 1) * pow2[0] = k - 1
  <2>1. (k - 1) * 1 = k - 1
    OBVIOUS
  <2>. QED BY <2>1, PowersOfTwo
<1>2. PaddedTree(list)[0][k] = IF k - 1 >= Len(list) THEN ZERO_HASHES[0] ELSE list[k]
  BY <1>1, PaddedNode
<1>3. k - 1 >= Len(list) <=> ~ (k <= Len(list))
  OBVIOUS
<1>. QED BY <1>2, <1>3, ZeroHashes DEF At

(* A node above the leaves, past the list or not, is the hash of the two   *)
(* below it.                                                               *)
LEMMA PaddedPair ==
  ASSUME NEW list, Len(list) \in Nat, NEW h \in 0 .. MAX_DEPTH, h < MAX_DEPTH, NEW k \in Nat \ {0}
  PROVE  PaddedTree(list)[h + 1][k] =
           hash_concat(PaddedTree(list)[h][2 * k - 1], PaddedTree(list)[h][2 * k])
<1>0. h \in Nat
  OBVIOUS
<1>1. CASE ~ ((k - 1) * pow2[h + 1] >= Len(list))
  BY <1>0, <1>1, PaddedParent
<1>2. CASE (k - 1) * pow2[h + 1] >= Len(list)
  <2> DEFINE P == pow2[h]
  <2>1. P \in Nat /\ pow2[h + 1] = 2 * P
    BY <1>0, PowersOfTwo
  <2>2. \A x, y, n \in Nat :
           x # 0 /\ (x - 1) * (2 * y) >= n => (2 * x - 2) * y >= n /\ (2 * x - 1) * y >= n
    <3> SUFFICES ASSUME NEW x \in Nat, NEW y \in Nat, NEW n \in Nat, x # 0, (x - 1) * (2 * y) >= n
                 PROVE  (2 * x - 2) * y >= n /\ (2 * x - 1) * y >= n
      OBVIOUS
    <3> DEFINE z == (x - 1) * y
    <3>1. (2 * x - 2) * y = 2 * z /\ (2 * x - 1) * y = 2 * z + y /\ (x - 1) * (2 * y) = 2 * z /\ z \in Nat
      OBVIOUS
    <3> HIDE DEF z
    <3>. QED BY <3>1
  <2>3. (2 * k - 2) * P >= Len(list) /\ (2 * k - 1) * P >= Len(list)
    BY <1>2, <2>1, <2>2
  <2> DEFINE i == 2 * k - 1
             j == 2 * k
  <2>4. i \in Nat \ {0} /\ j \in Nat \ {0} /\ i - 1 = 2 * k - 2 /\ j - 1 = 2 * k - 1
    OBVIOUS
  <2> HIDE DEF i, j
  <2>5. PaddedTree(list)[h][i] = ZERO_HASHES[h]
    BY <1>0, <2>3, <2>4, PaddedNode
  <2>6. PaddedTree(list)[h][j] = ZERO_HASHES[h]
    BY <1>0, <2>3, <2>4, PaddedNode
  <2>7. PaddedTree(list)[h + 1][k] = ZERO_HASHES[h + 1]
    BY <1>0, <1>2, PaddedParent
  <2>8. ZERO_HASHES[h + 1] = hash_concat(ZERO_HASHES[h], ZERO_HASHES[h])
    BY ZeroHashes
  <2>. QED BY <2>5, <2>6, <2>7, <2>8 DEF i, j
<1>. QED BY <1>1, <1>2

(* The leaves under node k of level h are the same in two padded trees. *)
SameLeaves(a, b, h, k) ==
  \A j \in 1 .. pow2[h] :
    At(a, (k - 1) * pow2[h] + j, ZeroChunk) = At(b, (k - 1) * pow2[h] + j, ZeroChunk)

(* The leaves under a node are those under its two children.               *)
LEMMA LeavesSplit ==
  ASSUME NEW a, NEW b, NEW h \in Nat, NEW k \in Nat \ {0}
  PROVE  SameLeaves(a, b, h + 1, k)
           <=> SameLeaves(a, b, h, 2 * k - 1) /\ SameLeaves(a, b, h, 2 * k)
<1> DEFINE P == pow2[h]
           m == (k - 1) * (2 * P)
           Same(x) == At(a, x, ZeroChunk) = At(b, x, ZeroChunk)
<1>1. P \in Nat /\ pow2[h + 1] = 2 * P
  BY PowersOfTwo
<1>2. m \in Nat /\ ((2 * k - 1) - 1) * P = m /\ (2 * k - 1) * P = m + P
  <2>1. \A x, y \in Nat : /\ x * (2 * y) \in Nat
                          /\ (2 * x) * y = x * (2 * y)
                          /\ (2 * x + 1) * y = x * (2 * y) + y
    OBVIOUS
  <2>2. k - 1 \in Nat /\ (2 * k - 1) - 1 = 2 * (k - 1) /\ 2 * k - 1 = 2 * (k - 1) + 1
    OBVIOUS
  <2> HIDE DEF P
  <2>. QED BY <1>1, <2>1, <2>2
<1>3. SameLeaves(a, b, h + 1, k) <=> \A j \in 1 .. 2 * P : Same(m + j)
  BY <1>1, Zenon DEF SameLeaves
<1>4. SameLeaves(a, b, h, 2 * k - 1) <=> \A j \in 1 .. P : Same(m + j)
  BY <1>2, Zenon DEF SameLeaves
<1>5. SameLeaves(a, b, h, 2 * k) <=> \A j \in 1 .. P : Same((m + P) + j)
  BY <1>2, Zenon DEF SameLeaves
<1> HIDE DEF P, m, Same
<1>6. ASSUME \A j \in 1 .. 2 * P : Same(m + j)
      PROVE  (\A j \in 1 .. P : Same(m + j)) /\ (\A j \in 1 .. P : Same((m + P) + j))
  <2>1. \A j \in 1 .. P : j \in 1 .. 2 * P /\ P + j \in 1 .. 2 * P /\ (m + P) + j = m + (P + j)
    BY <1>1, <1>2
  <2>. QED BY <1>6, <2>1
<1>7. ASSUME \A j \in 1 .. P : Same(m + j), \A j \in 1 .. P : Same((m + P) + j), NEW j \in 1 .. 2 * P
      PROVE  Same(m + j)
  <2>1. CASE j <= P
    BY <1>1, <1>7, <2>1
  <2>2. CASE ~ (j <= P)
    <3>1. j - P \in 1 .. P /\ (m + P) + (j - P) = m + j
      BY <1>1, <1>2, <2>2
    <3>. QED BY <1>7, <3>1
  <2>. QED BY <2>1, <2>2
<1>. QED BY <1>3, <1>4, <1>5, <1>6, <1>7

(* Two nodes are equal exactly when the leaves under them are.             *)
LEMMA SameNode ==
  ASSUME NEW a, NEW b, Len(a) \in Nat, Len(b) \in Nat
  PROVE  \A h \in 0 .. MAX_DEPTH : \A k \in Nat \ {0} :
           PaddedTree(a)[h][k] = PaddedTree(b)[h][k] <=> SameLeaves(a, b, h, k)
<1> DEFINE Same(h) == \A k \in Nat \ {0} :
                        PaddedTree(a)[h][k] = PaddedTree(b)[h][k] <=> SameLeaves(a, b, h, k)
           H == {h \in Nat : h <= MAX_DEPTH => Same(h)}
<1>1. 0 \in H
  <2> SUFFICES ASSUME NEW k \in Nat \ {0}
               PROVE  PaddedTree(a)[0][k] = PaddedTree(b)[0][k] <=> SameLeaves(a, b, 0, k)
    OBVIOUS
  <2>1. pow2[0] = 1
    BY PowersOfTwo
  <2>2. (k - 1) * 1 + 1 = k /\ \A j \in 1 .. 1 : j = 1
    OBVIOUS
  <2>3. SameLeaves(a, b, 0, k) <=> At(a, k, ZeroChunk) = At(b, k, ZeroChunk)
    <3>1. \A j \in 1 .. 1 : (k - 1) * 1 + j = k
      OBVIOUS
    <3>2. 1 \in 1 .. 1
      OBVIOUS
    <3>. QED BY <2>1, <3>1, <3>2, Zenon DEF SameLeaves
  <2>. QED BY <2>3, PaddedLeaf
<1>2. ASSUME NEW h \in Nat, h \in H PROVE h + 1 \in H
  <2> SUFFICES ASSUME h + 1 <= MAX_DEPTH, NEW k \in Nat \ {0}
               PROVE  PaddedTree(a)[h + 1][k] = PaddedTree(b)[h + 1][k] <=> SameLeaves(a, b, h + 1, k)
    OBVIOUS
  <2>1. h \in 0 .. MAX_DEPTH /\ h < MAX_DEPTH
    BY SizesAssumption
  <2>2. Same(h)
    BY <1>2, <2>1
  <2> DEFINE i == 2 * k - 1
             j == 2 * k
  <2>3. i \in Nat \ {0} /\ j \in Nat \ {0}
    OBVIOUS
  <2>4. PaddedTree(a)[h + 1][k] = hash_concat(PaddedTree(a)[h][i], PaddedTree(a)[h][j])
    BY <2>1, PaddedPair
  <2>5. PaddedTree(b)[h + 1][k] = hash_concat(PaddedTree(b)[h][i], PaddedTree(b)[h][j])
    BY <2>1, PaddedPair
  <2>6. SameLeaves(a, b, h + 1, k) <=> SameLeaves(a, b, h, i) /\ SameLeaves(a, b, h, j)
    BY LeavesSplit
  <2> HIDE DEF i, j
  <2>7. /\ PaddedTree(a)[h][i] = PaddedTree(b)[h][i] <=> SameLeaves(a, b, h, i)
        /\ PaddedTree(a)[h][j] = PaddedTree(b)[h][j] <=> SameLeaves(a, b, h, j)
    BY <2>2, <2>3, Zenon
  <2>8. hash_concat(PaddedTree(a)[h][i], PaddedTree(a)[h][j])
          = hash_concat(PaddedTree(b)[h][i], PaddedTree(b)[h][j])
        <=> PaddedTree(a)[h][i] = PaddedTree(b)[h][i] /\ PaddedTree(a)[h][j] = PaddedTree(b)[h][j]
    BY HashInjective
  <2>. QED BY <2>4, <2>5, <2>6, <2>7, <2>8
<1>3. \A h \in Nat : h \in H
  <2> HIDE DEF H
  <2>. QED BY <1>1, <1>2, SetInduction
<1>. QED BY <1>3

(* Roots of one height are equal exactly when the padded lists are.        *)
LEMMA SameRoot ==
  ASSUME NEW a, NEW b, Len(a) \in Nat, Len(b) \in Nat, NEW t \in 0 .. MAX_DEPTH,
         Len(a) <= pow2[t], Len(b) <= pow2[t]
  PROVE  PaddedRoot(a, t) = PaddedRoot(b, t)
           <=> \A j \in Nat \ {0} : At(a, j, ZeroChunk) = At(b, j, ZeroChunk)
<1>1. pow2[t] \in Nat
  BY PowersOfTwo
<1>2. PaddedRoot(a, t) = PaddedRoot(b, t) <=> SameLeaves(a, b, t, 1)
  <2>1. 1 \in Nat \ {0}
    OBVIOUS
  <2>. QED BY <2>1, SameNode DEF PaddedRoot
<1>3. SameLeaves(a, b, t, 1) <=> \A j \in 1 .. pow2[t] : At(a, j, ZeroChunk) = At(b, j, ZeroChunk)
  <2>1. \A j \in 1 .. pow2[t] : (1 - 1) * pow2[t] + j = j
    BY <1>1
  <2>. QED BY <2>1, Zenon DEF SameLeaves
<1>4. ASSUME \A j \in 1 .. pow2[t] : At(a, j, ZeroChunk) = At(b, j, ZeroChunk), NEW j \in Nat \ {0}
      PROVE  At(a, j, ZeroChunk) = At(b, j, ZeroChunk)
  <2>1. CASE j <= pow2[t]
    BY <1>1, <1>4, <2>1
  <2>2. CASE ~ (j <= pow2[t])
    BY <1>1, <2>2 DEF At
  <2>. QED BY <2>1, <2>2
<1>. QED BY <1>1, <1>2, <1>3, <1>4

(* A chunk of bytes, past the end too, holds the bytes at its place.       *)
LEMMA PackedLeaf ==
  ASSUME NEW bytes \in Seq(Byte), NEW c \in Nat \ {0}
  PROVE  At(pack(bytes), c, ZeroChunk)
           = Chunk([k \in 1 .. BYTES_PER_CHUNK |-> At(bytes, (c - 1) * BYTES_PER_CHUNK + k, 0)])
<1> DEFINE B == BYTES_PER_CHUNK
           n == CeilDiv(Len(bytes), B)
<1>1. B \in Nat \ {0} /\ Len(bytes) \in Nat /\ n \in Nat /\ Len(bytes) <= B * n
      /\ Len(pack(bytes)) = n
  BY SizesAssumption, CeilDivFacts, PackLength
<1>2. CASE c <= n
  <2>1. c \in 1 .. n
    BY <1>1, <1>2
  <2>2. pack(bytes)[c] = Chunk([k \in 1 .. B |-> At(bytes, (c - 1) * B + k, 0)])
    BY <2>1, Zenon DEF pack
  <2>. QED BY <1>1, <1>2, <2>2 DEF At
<1>3. CASE ~ (c <= n)
  <2>1. ASSUME NEW k \in 1 .. B PROVE At(bytes, (c - 1) * B + k, 0) = 0
    <3>1. \A x, y, z \in Nat : x <= y => z * x <= y * z
      OBVIOUS
    <3>2. c - 1 \in Nat /\ n <= c - 1
      BY <1>1, <1>3
    <3> HIDE DEF B, n
    <3>3. B * n <= (c - 1) * B
      BY <1>1, <3>1, <3>2
    <3>4. (c - 1) * B \in Nat /\ B * n \in Nat
      BY <1>1, <3>2
    <3>5. ~ ((c - 1) * B + k <= Len(bytes))
      <4> DEFINE x == (c - 1) * B
                 y == B * n
      <4>1. x \in Nat /\ y \in Nat /\ y <= x /\ Len(bytes) <= y /\ k \in Nat /\ k >= 1
        BY <1>1, <3>3, <3>4
      <4> HIDE DEF x, y
      <4>2. ~ (x + k <= Len(bytes))
        BY <1>1, <4>1
      <4>. QED BY <4>2 DEF x
    <3>. QED BY <3>5, Zenon DEF At
  <2>2. [k \in 1 .. B |-> At(bytes, (c - 1) * B + k, 0)] = [k \in 1 .. B |-> 0]
    BY <2>1, Zenon
  <2>. QED BY <1>1, <1>3, <2>2 DEF At, ZeroChunk
<1>. QED BY <1>2, <1>3

(* Byte strings fill the same chunks exactly when, padded with zero bytes, *)
(* they are the same.                                                      *)
LEMMA SameChunks ==
  ASSUME NEW a \in Seq(Byte), NEW b \in Seq(Byte)
  PROVE  (\A c \in Nat \ {0} : At(pack(a), c, ZeroChunk) = At(pack(b), c, ZeroChunk))
           <=> \A m \in Nat \ {0} : At(a, m, 0) = At(b, m, 0)
<1> DEFINE B == BYTES_PER_CHUNK
           content(list, c) == [k \in 1 .. B |-> At(list, (c - 1) * B + k, 0)]
<1>0. B \in Nat \ {0}
  BY SizesAssumption
<1>1. \A c \in Nat \ {0} : /\ At(pack(a), c, ZeroChunk) = Chunk(content(a, c))
                           /\ At(pack(b), c, ZeroChunk) = Chunk(content(b, c))
  BY PackedLeaf
<1>2. ASSUME \A c \in Nat \ {0} : At(pack(a), c, ZeroChunk) = At(pack(b), c, ZeroChunk),
             NEW m \in Nat \ {0}
      PROVE  At(a, m, 0) = At(b, m, 0)
  <2>1. PICK c \in Nat \ {0}, k \in 1 .. B : (c - 1) * B + k = m
    <3> DEFINE q == (m - 1) \div B
               r == (m - 1) % B
    <3>1. q \in Nat /\ r \in Nat /\ r < B /\ m - 1 = q * B + r
      BY <1>0, Division, m - 1 \in Nat
    <3> HIDE DEF q, r, B
    <3>2. q + 1 \in Nat \ {0} /\ r + 1 \in 1 .. B /\ (q + 1) - 1 = q
      BY <1>0, <3>1
    <3>3. q * B + (r + 1) = m
      BY <1>0, <3>1
    <3>. QED BY <3>2, <3>3
  <2>2. Chunk(content(a, c)) = Chunk(content(b, c))
    BY <1>1, <1>2
  <2>3. content(a, c) = content(b, c)
    <3> HIDE DEF content
    <3>1. Chunk(content(a, c)).bytes = Chunk(content(b, c)).bytes
      BY <2>2
    <3>. QED BY <3>1 DEF Chunk
  <2>4. content(a, c)[k] = content(b, c)[k]
    BY <2>3
  <2>. QED BY <2>1, <2>4, Zenon
<1>3. ASSUME \A m \in Nat \ {0} : At(a, m, 0) = At(b, m, 0), NEW c \in Nat \ {0}
      PROVE  At(pack(a), c, ZeroChunk) = At(pack(b), c, ZeroChunk)
  <2>1. \A k \in 1 .. B : (c - 1) * B + k \in Nat \ {0}
    BY <1>0
  <2>2. content(a, c) = content(b, c)
    BY <1>3, <2>1, Zenon
  <2>. QED BY <1>1, <2>2
<1>. QED BY <1>2, <1>3

(* Sequences of one length that are the same when padded are the same.     *)
LEMMA SameSequence ==
  ASSUME NEW S, NEW a \in Seq(S), NEW b \in Seq(S), NEW zero, Len(a) = Len(b),
         \A m \in Nat \ {0} : At(a, m, zero) = At(b, m, zero)
  PROVE  a = b
<1>1. \A m \in 1 .. Len(a) : m \in Nat \ {0} /\ m <= Len(a) /\ m <= Len(b)
  OBVIOUS
<1>2. \A m \in 1 .. Len(a) : a[m] = b[m]
  BY <1>1 DEF At
<1>. QED BY <1>2

(* The mixed-in root determines the root and the length.                   *)
LEMMA MixInjective ==
  ASSUME NEW r, NEW s, NEW m, NEW n, mix_in_length(r, m) = mix_in_length(s, n)
  PROVE  r = s /\ m = n
<1>1. r = s /\ [length |-> m] = [length |-> n]
  <2>1. hash_concat(r, [length |-> m]) = hash_concat(s, [length |-> n])
    BY Zenon DEF mix_in_length
  <2>. QED BY <2>1, HashInjective
<1>2. [length |-> m].length = [length |-> n].length
  BY <1>1
<1>. QED BY <1>1, <1>2

(* The invariant keeps two byte strings from having one root.              *)
LEMMA BytesApart == IInv => BytesBound
<1> SUFFICES ASSUME IInv, pc = "done", data # NONE, result # VALUE_ERROR,
                    NEW other \in Datas,
                    mix_in_length(PaddedRoot(pack(other), target_levels), Len(other)) = result
             PROVE  other = data
  BY DEF BytesBound
<1>1. data \in Seq(Byte) /\ other \in Seq(Byte) /\ chunks = pack(data) /\ Fits
      /\ target_levels \in Nat
  BY InputsAssumption, Lengths DEF IInv, Input, TypeOK, Root
<1>2. result = mix_in_length(PaddedRoot(pack(data), target_levels), Len(data))
  BY <1>1 DEF IInv, Root
<1>3. Len(other) = Len(data) /\ PaddedRoot(pack(other), target_levels) = PaddedRoot(pack(data), target_levels)
  BY <1>2, MixInjective
<1>4. Len(pack(other)) = Len(pack(data)) /\ Len(pack(other)) \in Nat /\ Len(pack(other)) <= pow2[target_levels]
  <2>1. Len(pack(data)) = CeilDiv(Len(data), BYTES_PER_CHUNK)
        /\ Len(pack(other)) = CeilDiv(Len(other), BYTES_PER_CHUNK)
    BY <1>1, PackLength
  <2>2. Len(pack(other)) = Len(pack(data))
    BY <1>3, <2>1, Zenon
  <2>3. Len(chunks) \in Nat
    BY Lengths DEF IInv
  <2>. QED BY <1>1, <2>2, <2>3 DEF Fits
<1>5. target_levels \in 0 .. MAX_DEPTH
  BY DEF IInv, Input
<1>6. \A c \in Nat \ {0} : At(pack(other), c, ZeroChunk) = At(pack(data), c, ZeroChunk)
  BY <1>3, <1>4, <1>5, SameRoot
<1>7. \A m \in Nat \ {0} : At(other, m, 0) = At(data, m, 0)
  BY <1>1, <1>6, SameChunks
<1>. QED BY <1>1, <1>3, <1>7, SameSequence

(* bytelist_root binds its argument: no other byte string has its root, so *)
(* zero bytes at the end and zero padding are never confused.              *)
THEOREM BytesCorrect == Spec => []BytesBound
BY BytesApart, Inductive, PTL DEF Spec

---------------------------------------------------------------------------
(* The chunks below node k of level d. *)
Below(list, d, k) ==
  SubSeq(list, (k - 1) * pow2[d] + 1,
         IF k * pow2[d] < Len(list) THEN k * pow2[d] ELSE Len(list))

(* Those chunks are a stretch of the list.                                 *)
LEMMA BelowLength ==
  ASSUME NEW S, NEW list \in Seq(S), NEW d \in Nat, NEW k \in Nat \ {0}, (k - 1) * pow2[d] < Len(list)
  PROVE  /\ Len(Below(list, d, k)) = (IF k * pow2[d] < Len(list) THEN k * pow2[d] ELSE Len(list))
                                       - (k - 1) * pow2[d]
         /\ \A j \in 1 .. Len(Below(list, d, k)) : Below(list, d, k)[j] = list[(k - 1) * pow2[d] + j]
<1> DEFINE P == pow2[d]
           m == (k - 1) * P
           last == IF k * P < Len(list) THEN k * P ELSE Len(list)
<1>1. P \in Nat /\ P >= 1 /\ Len(list) \in Nat
  BY PowerPositive
<1>2. m \in Nat /\ k * P = m + P
  BY <1>1
<1>3. last \in Nat /\ m + 1 <= last /\ last <= Len(list)
  BY <1>1, <1>2
<1>4. PICK sub : sub = SubSeq(list, m + 1, last)
  OBVIOUS
<1> HIDE DEF m, last
<1>5. Len(sub) = last - m /\ \A j \in 1 .. Len(sub) : sub[j] = list[m + j]
  <2>1. m + 1 \in 1 .. Len(list) + 1 /\ last \in (m + 1) - 1 .. Len(list)
    BY <1>1, <1>2, <1>3
  <2>2. Len(sub) = last - (m + 1) + 1 /\ \A j \in 1 .. last - (m + 1) + 1 : sub[j] = list[(m + 1) + j - 1]
    <3>1. /\ Len(SubSeq(list, m + 1, last)) =
                IF m + 1 <= last THEN last - (m + 1) + 1 ELSE 0
          /\ \A j \in 1 .. last - (m + 1) + 1 : SubSeq(list, m + 1, last)[j] = list[(m + 1) + j - 1]
      BY <2>1, SubSeqProperties
    <3>. QED BY <3>1, <1>3, <1>4
  <2>3. \A j \in Nat : (m + 1) + j - 1 = m + j
    BY <1>2
  <2>4. last - (m + 1) + 1 = last - m
    BY <1>2, <1>3
  <2>5. Len(sub) = last - m
    BY <2>2, <2>4
  <2>6. \A j \in 1 .. Len(sub) : sub[j] = list[m + j]
    <3> SUFFICES ASSUME NEW j \in 1 .. last - m PROVE sub[j] = list[m + j]
      BY <2>5
    <3>1. j \in Nat /\ j \in 1 .. last - (m + 1) + 1
      BY <2>4, <1>2, <1>3
    <3>2. sub[j] = list[(m + 1) + j - 1]
      BY <2>2, <3>1
    <3>. QED BY <3>1, <3>2, <2>3
  <2>. QED BY <2>5, <2>6
<1>6. sub = Below(list, d, k)
  BY <1>4 DEF Below, last, m
<1>. QED BY <1>5, <1>6 DEF last, m

(* A node is the root of the padded tree over the chunks below it.         *)
LEMMA SubTree ==
  ASSUME NEW S, NEW list \in Seq(S), NEW d \in Nat, NEW k \in Nat \ {0}, (k - 1) * pow2[d] < Len(list)
  PROVE  PaddedTree(list)[d][k] = PaddedRoot(Below(list, d, k), d)
<1> DEFINE P == pow2[d]
           L == Len(list)
           sub == Below(list, d, k)
           Same(h) == \A j \in 1 .. pow2[d - h] :
                        PaddedTree(sub)[h][j] = PaddedTree(list)[h][(k - 1) * pow2[d - h] + j]
           H == {h \in Nat : h <= d => Same(h)}
<1>1. P \in Nat /\ P >= 1 /\ L \in Nat
  BY PowerPositive
<1>2. Len(sub) = (IF k * P < L THEN k * P ELSE L) - (k - 1) * P
      /\ \A j \in 1 .. Len(sub) : sub[j] = list[(k - 1) * P + j]
  BY BelowLength
<1>3. k * P = (k - 1) * P + P /\ (k - 1) * P \in Nat
  BY <1>1
<1> HIDE DEF sub
<1>4. ASSUME NEW x \in Nat, x < P
      PROVE  x >= Len(sub) <=> (k - 1) * P + x >= L
  <2>1. \A m, end, p, n, y \in Nat, size \in Int :
           end = m + p /\ size = (IF end < n THEN end ELSE n) - m /\ y < p
             => (y >= size <=> m + y >= n)
    OBVIOUS
  <2>2. k * P \in Nat
    BY <1>1, <1>3
  <2>3. Len(sub) \in Int
    <3>1. \A m, end, n \in Nat : (IF end < n THEN end ELSE n) - m \in Int
      OBVIOUS
    <3>. QED BY <1>1, <1>2, <1>3, <2>2, <3>1, Zenon
  <2>. QED BY <1>1, <1>2, <1>3, <1>4, <2>1, <2>2, <2>3, Zenon
<1>5. ASSUME NEW h \in Nat, h <= d, NEW j \in 1 .. pow2[d - h]
      PROVE  /\ j \in Nat \ {0} /\ (k - 1) * pow2[d - h] + j \in Nat \ {0}
             /\ (j - 1) * pow2[h] >= Len(sub)
                  <=> (((k - 1) * pow2[d - h] + j) - 1) * pow2[h] >= L
  <2> DEFINE R == pow2[d - h]
             Q == pow2[h]
             x == (j - 1) * Q
  <2>1. R \in Nat /\ Q \in Nat /\ Q >= 1 /\ R * Q = P
    <3>1. d - h \in Nat /\ (d - h) + h = d
      BY <1>5
    <3>. QED BY <3>1, PowerPositive, PowerProduct
  <2>2. j \in Nat \ {0} /\ j - 1 \in Nat /\ j <= R
    BY <1>5, <2>1
  <2>3. (k - 1) * R \in Nat /\ (k - 1) * R + j \in Nat \ {0}
    BY <2>1, <2>2
  <2>4. x \in Nat /\ x < P
    <3>1. \A a, b, c \in Nat : a <= b => a * c <= b * c
      OBVIOUS
    <3>2. j * Q <= R * Q
      BY <3>1, <2>1, <2>2
    <3>3. j * Q = x + Q /\ x \in Nat
      <4>1. \A a, b \in Nat : a # 0 => a * b = (a - 1) * b + b /\ (a - 1) * b \in Nat
        OBVIOUS
      <4>. QED BY <4>1, <2>1, <2>2
    <3>. QED BY <3>2, <3>3, <2>1
  <2>5. (((k - 1) * R + j) - 1) * Q = (k - 1) * P + x
    <3>1. \A a, b, c \in Nat : (a * b) * c = a * (b * c)
      OBVIOUS
    <3>2. \A a, b, c \in Nat : (a + b) * c = a * c + b * c
      OBVIOUS
    <3>3. k - 1 \in Nat
      OBVIOUS
    <3>4. ((k - 1) * R) * Q = (k - 1) * P
      BY <3>1, <3>3, <2>1
    <3>5. ((k - 1) * R + (j - 1)) * Q = ((k - 1) * R) * Q + x
      BY <3>2, <2>1, <2>2, <2>3
    <3>6. ((k - 1) * R + j) - 1 = (k - 1) * R + (j - 1)
      BY <2>2, <2>3
    <3>. QED BY <3>4, <3>5, <3>6
  <2>. QED BY <2>2, <2>3, <2>4, <2>5, <1>4
<1>6. 0 \in H
  <2> SUFFICES ASSUME NEW j \in 1 .. pow2[d]
               PROVE  PaddedTree(sub)[0][j] = PaddedTree(list)[0][(k - 1) * P + j]
    OBVIOUS
  <2> DEFINE i == (k - 1) * P + j
  <2>1. j \in Nat \ {0} /\ i \in Nat \ {0} /\ ((j - 1) * pow2[0] >= Len(sub) <=> (i - 1) * pow2[0] >= L)
    BY <1>5, d - 0 = d
  <2>2. PaddedTree(sub)[0][j] = IF (j - 1) * pow2[0] >= Len(sub) THEN ZERO_HASHES[0] ELSE sub[j]
    BY <2>1, PaddedNode
  <2>3. PaddedTree(list)[0][i] = IF (i - 1) * pow2[0] >= L THEN ZERO_HASHES[0] ELSE list[i]
    BY <2>1, PaddedNode
  <2>4. ~ ((j - 1) * pow2[0] >= Len(sub)) => sub[j] = list[i]
    <3>1. (j - 1) * pow2[0] = j - 1
      <4>1. (j - 1) * 1 = j - 1
        BY <2>1
      <4>. QED BY <4>1, PowersOfTwo
    <3>. QED BY <3>1, <2>1, <1>1, <1>2, <1>3
  <2>. QED BY <2>1, <2>2, <2>3, <2>4, Zenon
<1>7. ASSUME NEW h \in Nat, h \in H PROVE h + 1 \in H
  <2> SUFFICES ASSUME h + 1 <= d, NEW j \in 1 .. pow2[d - (h + 1)]
               PROVE  PaddedTree(sub)[h + 1][j]
                        = PaddedTree(list)[h + 1][(k - 1) * pow2[d - (h + 1)] + j]
    OBVIOUS
  <2> DEFINE R == pow2[d - (h + 1)]
             i == (k - 1) * R + j
  <2>1. j \in Nat \ {0} /\ i \in Nat \ {0}
        /\ ((j - 1) * pow2[h + 1] >= Len(sub) <=> (i - 1) * pow2[h + 1] >= L)
    BY <1>5
  <2>2. R \in Nat /\ pow2[d - h] = 2 * R /\ j <= R
    <3>1. d - (h + 1) \in Nat /\ d - h = (d - (h + 1)) + 1
      OBVIOUS
    <3>. QED BY <3>1, PowersOfTwo
  <2>3. Same(h)
    BY <1>7
  <2>4. 2 * i - 1 = (k - 1) * (2 * R) + (2 * j - 1) /\ 2 * i = (k - 1) * (2 * R) + 2 * j
    <3>1. \A a, b, c \in Nat : 2 * (a * b + c) = a * (2 * b) + 2 * c
      OBVIOUS
    <3>2. k - 1 \in Nat
      OBVIOUS
    <3>3. 2 * i = (k - 1) * (2 * R) + 2 * j
      BY <3>1, <3>2, <2>1, <2>2
    <3>4. (k - 1) * (2 * R) \in Nat
      BY <2>2
    <3>. QED BY <3>3, <3>4, <2>1
  <2>5. 2 * j - 1 \in 1 .. pow2[d - h] /\ 2 * j \in 1 .. pow2[d - h]
    <3>1. \A a \in Nat \ {0}, b \in Nat :
             a <= b => 2 * a - 1 \in 1 .. 2 * b /\ 2 * a \in 1 .. 2 * b
      OBVIOUS
    <3>. QED BY <2>1, <2>2, <3>1, Zenon
  <2>6. PaddedTree(sub)[h][2 * j - 1] = PaddedTree(list)[h][2 * i - 1]
        /\ PaddedTree(sub)[h][2 * j] = PaddedTree(list)[h][2 * i]
    BY <2>2, <2>3, <2>4, <2>5
  <2> HIDE DEF i, R
  <2>7. h + 1 \in Nat /\ ~ (h + 1 = 0) /\ (h + 1) - 1 = h
    OBVIOUS
  <2>8. PaddedTree(sub)[h + 1][j] = IF (j - 1) * pow2[h + 1] >= Len(sub) THEN ZERO_HASHES[h + 1]
           ELSE hash_concat(PaddedTree(sub)[h][2 * j - 1], PaddedTree(sub)[h][2 * j])
    BY <2>1, PaddedParent
  <2>9. PaddedTree(list)[h + 1][i] = IF (i - 1) * pow2[h + 1] >= L THEN ZERO_HASHES[h + 1]
           ELSE hash_concat(PaddedTree(list)[h][2 * i - 1], PaddedTree(list)[h][2 * i])
    BY <2>1, PaddedParent
  <2>10. PaddedTree(sub)[h + 1][j] = PaddedTree(list)[h + 1][i]
    BY <2>1, <2>6, <2>8, <2>9, Zenon
  <2>. QED BY <2>10 DEF i, R
<1>8. \A h \in Nat : h \in H
  <2> HIDE DEF H
  <2>. QED BY <1>6, <1>7, SetInduction
<1>9. Same(d)
  BY <1>8
<1>10. 1 \in 1 .. pow2[d - d] /\ (k - 1) * pow2[d - d] + 1 = k
  <2>1. \A x : x = 1 => 1 \in 1 .. x /\ (k - 1) * x + 1 = k
    OBVIOUS
  <2>2. pow2[d - d] = 1
    BY PowersOfTwo, d - d = 0
  <2>. QED BY <2>1, <2>2, Zenon
<1>. QED BY <1>9, <1>10 DEF PaddedRoot, sub

(* The invariant says what every element of the level is the root of.      *)
LEMMA LevelRoots == IInv => LevelExact
<1> SUFFICES ASSUME IInv, pc = "loop", NEW k \in DOMAIN cur
             PROVE  cur[k] = PaddedRoot(Below(chunks, depth, k), depth)
  BY DEF LevelExact, Below
<1>1. DOMAIN cur = 1 .. Len(cur) /\ Len(cur) \in Nat /\ (Len(cur) - 1) * pow2[depth] < Len(chunks)
      /\ cur[k] = PaddedTree(chunks)[depth][k]
  BY DEF IInv, Level
<1>2. depth \in Nat /\ Len(chunks) \in Nat /\ pow2[depth] \in Nat
  <2>1. depth \in Nat /\ Len(chunks) \in Nat
    BY Lengths DEF IInv, TypeOK
  <2>. QED BY <2>1, PowersOfTwo
<1>3. k \in Nat \ {0} /\ k - 1 <= Len(cur) - 1
  BY <1>1
<1>4. (k - 1) * pow2[depth] < Len(chunks)
  <2>1. \A x, y, z \in Nat : x <= y => x * z <= y * z
    OBVIOUS
  <2>2. k - 1 \in Nat /\ Len(cur) - 1 \in Nat
    BY <1>1, <1>3
  <2>3. (k - 1) * pow2[depth] <= (Len(cur) - 1) * pow2[depth]
    BY <2>1, <2>2, <1>2, <1>3
  <2>. QED BY <2>2, <2>3, <1>1, <1>2
<1>5. PICK S : chunks \in Seq(S)
  BY DEF IInv, Input, IsSequence
<1>. QED BY <1>1, <1>2, <1>3, <1>4, <1>5, SubTree

(* While merkleize runs, every element of the level is the root over the   *)
(* chunks below it, in every state of every call.                          *)
THEOREM LevelCorrect == Spec => []LevelExact
BY LevelRoots, Inductive, PTL DEF Spec

---------------------------------------------------------------------------
(* Containers: for every set of objects whose fields hold what the         *)
(* containers accept, the root of an object identifies it.                 *)

(* The sizes the roots depend on.                                          *)
LEMMA Sizes ==
  /\ BYTES_PER_CHUNK \in Nat \ {0} /\ 20 <= BYTES_PER_CHUNK
  /\ NUMBER_BYTES \in Nat \ {0} /\ NUMBER_BYTES <= BYTES_PER_CHUNK
  /\ MAX_DEPTH \in Nat /\ pow2[MAX_DEPTH] \in Nat /\ 256 <= pow2[MAX_DEPTH]
  /\ NONE \notin Nat
BY SizesAssumption, ObjectsAssumption, InputsAssumption, PowersOfTwo DEF MAX_READS

---------------------------------------------------------------------------
(* Lists of chunks *)

(* The tree over a list is high enough for it.                             *)
LEMMA Target ==
  ASSUME NEW n \in Nat, n <= pow2[MAX_DEPTH]
  PROVE  levels(AtLeastOne(n)) \in 0 .. MAX_DEPTH /\ n <= pow2[levels(AtLeastOne(n))]
<1> DEFINE m == AtLeastOne(n)
<1>1. m \in Nat /\ m <= pow2[MAX_DEPTH] /\ n <= m
  BY Sizes DEF AtLeastOne
<1> HIDE DEF m
<1>2. levels(m) \in 0 .. MAX_DEPTH /\ m <= pow2[levels(m)]
  BY <1>1, LevelsFit
<1>3. pow2[levels(m)] \in Nat
  BY <1>2, PowersOfTwo
<1>. QED BY <1>1, <1>2, <1>3 DEF m

(* The root of a list hashed against a limit determines the list up to     *)
(* zero chunks at its end, and depends on nothing else.                    *)
LEMMA LimitedRoot ==
  ASSUME NEW a, NEW b, NEW max \in Nat, max <= pow2[MAX_DEPTH],
         Len(a) \in 0 .. max, Len(b) \in 0 .. max
  PROVE  merkle_root(a, max) = merkle_root(b, max)
           <=> \A k \in Nat \ {0} : At(a, k, ZeroChunk) = At(b, k, ZeroChunk)
<1> DEFINE t == levels(AtLeastOne(max))
<1>1. t \in 0 .. MAX_DEPTH /\ max <= pow2[t] /\ pow2[t] \in Nat
  <2>1. t \in 0 .. MAX_DEPTH /\ max <= pow2[t]
    BY Target
  <2>. QED BY <2>1, PowersOfTwo
<1>2. max # NONE
  BY Sizes
<1>3. merkle_root(a, max) = PaddedRoot(a, t) /\ merkle_root(b, max) = PaddedRoot(b, t)
  BY <1>2 DEF merkle_root
<1> HIDE DEF t
<1>4. Len(a) \in Nat /\ Len(b) \in Nat /\ Len(a) <= pow2[t] /\ Len(b) <= pow2[t]
  BY <1>1
<1>. QED BY <1>1, <1>3, <1>4, SameRoot

(* The root of a list of known length determines the list.                 *)
LEMMA ListRoot ==
  ASSUME NEW a, NEW b, NEW n \in Nat, n <= pow2[MAX_DEPTH], Len(a) = n, Len(b) = n
  PROVE  merkle_root(a, NONE) = merkle_root(b, NONE) <=> \A k \in 1 .. n : a[k] = b[k]
<1> DEFINE t == levels(AtLeastOne(n))
<1>1. t \in 0 .. MAX_DEPTH /\ n <= pow2[t]
  BY Target
<1>2. merkle_root(a, NONE) = PaddedRoot(a, t) /\ merkle_root(b, NONE) = PaddedRoot(b, t)
  BY DEF merkle_root
<1> HIDE DEF t
<1>3. PaddedRoot(a, t) = PaddedRoot(b, t)
        <=> \A k \in Nat \ {0} : At(a, k, ZeroChunk) = At(b, k, ZeroChunk)
  BY <1>1, SameRoot
<1>4. (\A k \in Nat \ {0} : At(a, k, ZeroChunk) = At(b, k, ZeroChunk)) <=> \A k \in 1 .. n : a[k] = b[k]
  BY DEF At
<1>. QED BY <1>2, <1>3, <1>4

(* The root of a list whose first leaf is a chunk of bytes is not that of  *)
(* a list hashed in a higher tree: going down to the left, one is at its   *)
(* leaf when the other is at a hash.                                       *)
LEMMA HigherTree ==
  ASSUME NEW a, NEW b, Len(a) \in Nat, Len(b) \in Nat, NEW d \in Nat \ {0},
         NEW bytes, At(a, 1, ZeroChunk) = Chunk(bytes)
  PROVE  \A t \in Nat : t + d <= MAX_DEPTH => PaddedRoot(a, t) # PaddedRoot(b, t + d)
<1> DEFINE T == {t \in Nat : t + d <= MAX_DEPTH => PaddedRoot(a, t) # PaddedRoot(b, t + d)}
<1>0. 1 \in Nat \ {0} /\ 2 * 1 - 1 = 1
  OBVIOUS
<1>1. \A list, h : Len(list) \in Nat /\ h \in 0 .. MAX_DEPTH /\ h < MAX_DEPTH =>
        PaddedRoot(list, h + 1) = hash_concat(PaddedRoot(list, h), PaddedTree(list)[h][2])
  <2> SUFFICES ASSUME NEW list, NEW h \in 0 .. MAX_DEPTH, Len(list) \in Nat, h < MAX_DEPTH
               PROVE  PaddedRoot(list, h + 1) = hash_concat(PaddedRoot(list, h), PaddedTree(list)[h][2])
    OBVIOUS
  <2>1. PaddedTree(list)[h + 1][1] = hash_concat(PaddedTree(list)[h][2 * 1 - 1], PaddedTree(list)[h][2 * 1])
    BY <1>0, PaddedPair
  <2>2. 2 * 1 = 2
    OBVIOUS
  <2>. QED BY <1>0, <2>1, <2>2 DEF PaddedRoot
<1>2. 0 \in T
  <2> SUFFICES ASSUME d <= MAX_DEPTH, PaddedRoot(a, 0) = PaddedRoot(b, d) PROVE FALSE
    OBVIOUS
  <2>1. d - 1 \in 0 .. MAX_DEPTH /\ d - 1 < MAX_DEPTH /\ (d - 1) + 1 = d
    BY Sizes
  <2>2. PaddedRoot(b, d) = hash_concat(PaddedRoot(b, d - 1), PaddedTree(b)[d - 1][2])
    BY <1>1, <2>1
  <2>3. PaddedRoot(a, 0) = Chunk(bytes)
    BY <1>0, PaddedLeaf DEF PaddedRoot
  <2>4. DOMAIN Chunk(bytes) = {"bytes"}
    BY DEF Chunk
  <2>5. \A x, y : DOMAIN hash_concat(x, y) = {"left", "right"}
    BY DEF hash_concat
  <2>. QED BY <2>2, <2>3, <2>4, <2>5
<1>3. ASSUME NEW t \in Nat, t \in T PROVE t + 1 \in T
  <2> SUFFICES ASSUME (t + 1) + d <= MAX_DEPTH, PaddedRoot(a, t + 1) = PaddedRoot(b, (t + 1) + d)
               PROVE  FALSE
    OBVIOUS
  <2>1. t \in 0 .. MAX_DEPTH /\ t < MAX_DEPTH /\ t + d \in 0 .. MAX_DEPTH /\ t + d < MAX_DEPTH
        /\ (t + 1) + d = (t + d) + 1
    BY Sizes
  <2>2. PaddedRoot(a, t + 1) = hash_concat(PaddedRoot(a, t), PaddedTree(a)[t][2])
    BY <1>1, <2>1
  <2>3. PaddedRoot(b, (t + 1) + d) = hash_concat(PaddedRoot(b, t + d), PaddedTree(b)[t + d][2])
    BY <1>1, <2>1
  <2>4. PaddedRoot(a, t) = PaddedRoot(b, t + d)
    BY <2>2, <2>3, HashInjective
  <2>. QED BY <1>3, <2>1, <2>4
<1>4. \A t \in Nat : t \in T
  <2> HIDE DEF T
  <2>. QED BY <1>2, <1>3, SetInduction
<1>. QED BY <1>4

(* A list and the list merkleized in its place have the same leaves and    *)
(* the same tree.                                                          *)
LEMMA ZeroChunkAdded ==
  ASSUME NEW S, NEW list \in Seq(S)
  PROVE  /\ Len(OrZeroChunk(list)) \in Nat
         /\ Len(OrZeroChunk(list)) = AtLeastOne(Len(list))
         /\ \A k \in Nat \ {0} : At(OrZeroChunk(list), k, ZeroChunk) = At(list, k, ZeroChunk)
<1>1. CASE list = <<>>
  <2>1. OrZeroChunk(list) = <<ZeroChunk>> /\ Len(list) = 0
    BY <1>1 DEF OrZeroChunk
  <2>2. Len(<<ZeroChunk>>) = 1 /\ <<ZeroChunk>>[1] = ZeroChunk
    OBVIOUS
  <2>3. AtLeastOne(0) = 1
    BY DEF AtLeastOne
  <2>. QED BY <2>1, <2>2, <2>3 DEF At
<1>2. CASE list # <<>>
  <2>1. OrZeroChunk(list) = list
    BY <1>2 DEF OrZeroChunk
  <2>2. Len(list) \in Nat /\ Len(list) # 0
    BY <1>2, EmptySeq
  <2>3. \A n \in Nat : n # 0 => AtLeastOne(n) = n
    BY DEF AtLeastOne
  <2>. QED BY <2>1, <2>2, <2>3
<1>. QED BY <1>1, <1>2

---------------------------------------------------------------------------
(* Numbers *)

(* The digit of a number at a power of 256. *)
Digit(x, P)      == (x \div P) % 256
NextPower(P, Q) == Q = 256 * P

(* The remainder by the next power of 256 is the next digit and the        *)
(* remainder by this one.                                                  *)
LEMMA NextDigit ==
  ASSUME NEW x \in Nat, NEW P \in Nat \ {0}, NEW Q \in Nat, NextPower(P, Q)
  PROVE  x % Q = Digit(x, P) * P + (x % P)
<1> DEFINE q == x \div P
           r == x % P
           a == q \div 256
           b == q % 256
<1>0. Q = 256 * P
  BY DEF NextPower
<1>1. q \in Nat /\ r \in Nat /\ r < P /\ x = q * P + r
  BY Division
<1>2. a \in Nat /\ b \in 0 .. 255 /\ q = a * 256 + b
  <2> HIDE DEF q
  <2>. QED BY <1>1
<1> HIDE DEF q, r, a, b
<1>3. q * P = a * (256 * P) + b * P
  <2>1. \A u, v, w \in Nat : (u * 256 + v) * w = u * (256 * w) + v * w
    OBVIOUS
  <2>. QED BY <1>2, <2>1
<1> DEFINE bP == b * P
           aQ == a * Q
<1>4. bP \in Nat /\ bP <= 255 * P
  <2>1. \A u, v \in Nat : u <= 255 => u * v \in Nat /\ u * v <= 255 * v
    OBVIOUS
  <2>. QED BY <1>2, <2>1
<1>5. Q \in Nat /\ Q # 0 /\ aQ \in Nat /\ (a + 1) * Q = aQ + Q
  <2>1. \A u, v \in Nat : u * v \in Nat /\ (u + 1) * v = u * v + v
    OBVIOUS
  <2>2. Q \in Nat /\ Q # 0
    BY <1>0
  <2>. QED BY <1>2, <2>1, <2>2
<1>6. x = aQ + bP + r
  BY <1>0, <1>1, <1>3
<1>7. bP + r < Q
  <2> HIDE DEF bP, aQ
  <2>. QED BY <1>0, <1>1, <1>4
<1> HIDE DEF bP, aQ
<1>8. aQ <= x /\ x < (a + 1) * Q
  BY <1>1, <1>4, <1>5, <1>6, <1>7
<1>9. x % Q = x - aQ
  <2>1. \A u, v, w \in Nat : v # 0 /\ w * v <= u /\ u < (w + 1) * v => u % v = u - w * v
    BY QuotientIs
  <2>2. Q # 0 /\ a * Q <= x /\ x < (a + 1) * Q
    BY <1>5, <1>8, Zenon DEF aQ
  <2>3. a \in Nat /\ Q \in Nat
    BY <1>2
  <2>4. x % Q = x - a * Q
    BY <2>1, <2>2, <2>3, Zenon
  <2>. QED BY <2>4, Zenon DEF aQ
<1>10. x % Q = bP + r
  BY <1>1, <1>4, <1>5, <1>6, <1>9
<1>. QED BY <1>10 DEF bP, b, q, r, Digit

(* Numbers with the same n lowest digits agree up to the n-th power of 256. *)
LEMMA SameDigits ==
  ASSUME NEW x \in Nat, NEW y \in Nat, NEW n \in Nat,
         \A k \in 1 .. n : Digit(x, pow2[8 * (k - 1)]) = Digit(y, pow2[8 * (k - 1)])
  PROVE  x % pow2[8 * n] = y % pow2[8 * n]
<1> DEFINE M == {m \in Nat : m <= n => x % pow2[8 * m] = y % pow2[8 * m]}
<1>1. 0 \in M
  <2>1. 8 * 0 = 0 /\ pow2[0] = 1 /\ x % 1 = 0 /\ y % 1 = 0
    BY PowersOfTwo
  <2>. QED BY <2>1
<1>2. ASSUME NEW m \in Nat, m \in M PROVE m + 1 \in M
  <2> SUFFICES ASSUME m + 1 <= n PROVE x % pow2[8 * (m + 1)] = y % pow2[8 * (m + 1)]
    OBVIOUS
  <2> DEFINE P == pow2[8 * m]
  <2>1. P \in Nat \ {0}
    BY PowerPositive, 8 * m \in Nat
  <2>2. pow2[8 * (m + 1)] = 256 * P
    <3>1. 8 * m \in Nat /\ (8 * m) + 5 \in Nat /\ ((8 * m) + 5) + 3 = 8 * (m + 1)
      OBVIOUS
    <3>2. pow2[(8 * m) + 5] = 32 * P
      BY <3>1, PowersAbove
    <3>3. pow2[((8 * m) + 5) + 3] = 8 * pow2[(8 * m) + 5]
      BY <3>1, PowersAbove
    <3> HIDE DEF P
    <3>. QED BY <2>1, <3>1, <3>2, <3>3
  <2>3. Digit(x, P) = Digit(y, P)
    <3>1. m + 1 \in 1 .. n /\ (m + 1) - 1 = m
      OBVIOUS
    <3>. QED BY <3>1
  <2>4. x % P = y % P
    BY <1>2
  <2> HIDE DEF P
  <2> DEFINE Q == pow2[8 * (m + 1)]
  <2>7. Q \in Nat
    BY PowersOfTwo, 8 * (m + 1) \in Nat
  <2> HIDE DEF Q
  <2>5. x % Q = Digit(x, P) * P + (x % P)
    BY <2>1, <2>2, <2>7, NextDigit DEF Q, NextPower
  <2>6. y % Q = Digit(y, P) * P + (y % P)
    BY <2>1, <2>2, <2>7, NextDigit DEF Q, NextPower
  <2>. QED BY <2>3, <2>4, <2>5, <2>6 DEF Q
<1>3. \A m \in Nat : m \in M
  <2> HIDE DEF M
  <2>. QED BY <1>1, <1>2, SetInduction
<1>. QED BY <1>3

(* A byte string that fits a chunk is determined by the chunk and by its   *)
(* length.                                                                 *)
LEMMA PaddedInjective ==
  ASSUME NEW a \in Seq(Byte), NEW b \in Seq(Byte), Len(a) = Len(b),
         Len(a) # 0, Len(a) <= BYTES_PER_CHUNK, Padded(a) = Padded(b)
  PROVE  a = b
<1> DEFINE B == BYTES_PER_CHUNK
           content(list) == [k \in 1 .. B |-> At(list, (1 - 1) * B + k, 0)]
<1>0. B \in Nat \ {0} /\ Len(a) \in Nat
  BY Sizes
<1>1. ASSUME NEW list \in Seq(Byte), Len(list) # 0
      PROVE  Padded(list) = Chunk(content(list))
  <2>1. 1 <= Len(pack(list))
    <3> DEFINE n == CeilDiv(Len(list), B)
    <3>1. n \in Nat /\ Len(list) <= B * n /\ Len(pack(list)) = n
      BY <1>0, CeilDivFacts, PackLength
    <3>2. Len(list) \in Nat
      OBVIOUS
    <3> HIDE DEF n, B
    <3>3. n # 0
      <4>1. B * 0 = 0
        BY <1>0
      <4>. QED BY <1>1, <3>1, <3>2, <4>1
    <3>. QED BY <3>1, <3>3
  <2>2. At(pack(list), 1, ZeroChunk) = pack(list)[1]
    BY <2>1, Zenon DEF At
  <2>3. At(pack(list), 1, ZeroChunk) = Chunk(content(list))
    <3>1. 1 \in Nat \ {0}
      OBVIOUS
    <3>. QED BY <3>1, PackedLeaf
  <2>. QED BY <2>2, <2>3 DEF Padded
<1>2. Chunk(content(a)) = Chunk(content(b))
  BY <1>1
<1>3. content(a) = content(b)
  <2> HIDE DEF content
  <2>1. Chunk(content(a)).bytes = Chunk(content(b)).bytes
    BY <1>2
  <2>. QED BY <2>1 DEF Chunk
<1>4. ASSUME NEW k \in 1 .. Len(a) PROVE a[k] = b[k]
  <2>1. k \in 1 .. B /\ (1 - 1) * B + k = k /\ k <= Len(a) /\ k <= Len(b)
    BY <1>0
  <2>2. content(a)[k] = content(b)[k]
    BY <1>3
  <2>3. At(a, k, 0) = At(b, k, 0)
    BY <2>1, <2>2, Zenon
  <2>. QED BY <2>1, <2>3, Zenon DEF At
<1>. QED BY <1>4

(* The chunk of an address, or of any few bytes, determines them.          *)
LEMMA ShortInjective ==
  ASSUME NEW n \in 1 .. 20, NEW a \in Vector(n), NEW b \in Vector(n), Padded(a) = Padded(b)
  PROVE  a = b
<1>1. a \in Seq(Byte) /\ b \in Seq(Byte) /\ Len(a) = n /\ Len(b) = n
  BY DEF Vector
<1>2. n # 0 /\ n <= BYTES_PER_CHUNK
  BY Sizes
<1>. QED BY <1>1, <1>2, PaddedInjective

(* The chunk of an address determines it.                                  *)
LEMMA AddressInjective ==
  ASSUME NEW a \in Vector(20), NEW b \in Vector(20), Padded(a) = Padded(b)
  PROVE  a = b
<1>1. 20 \in 1 .. 20
  OBVIOUS
<1>. QED BY <1>1, ShortInjective

(* The chunk of a number determines it.                                    *)
LEMMA UintInjective ==
  ASSUME NEW x \in Number, NEW y \in Number, uint_root(x) = uint_root(y)
  PROVE  x = y
<1> DEFINE n == NUMBER_BYTES
           digit(z, k) == Digit(z, pow2[8 * (k - 1)])
<1>1. n \in Nat \ {0} /\ n <= BYTES_PER_CHUNK
  BY Sizes
<1>2. pow2[8 * n] \in Nat /\ x \in Nat /\ y \in Nat /\ x < pow2[8 * n] /\ y < pow2[8 * n]
  <2>1. 8 * n \in Nat
    BY <1>1
  <2>2. pow2[8 * n] \in Nat
    BY <2>1, PowersOfTwo
  <2>. QED BY <2>2 DEF Number
<1>3. ASSUME NEW z \in Nat
      PROVE  /\ little(z) \in Seq(Byte) /\ Len(little(z)) = n
             /\ \A k \in 1 .. n : little(z)[k] = digit(z, k)
  <2>1. ASSUME NEW k \in 1 .. n PROVE digit(z, k) \in Byte
    <3>1. 8 * (k - 1) \in Nat
      BY <1>1
    <3>2. pow2[8 * (k - 1)] \in Nat /\ pow2[8 * (k - 1)] # 0
      BY <3>1, PowerPositive
    <3>3. z \div pow2[8 * (k - 1)] \in Nat
      BY <3>2, Division
    <3>. QED BY <3>3 DEF Byte, Digit
  <2>2. little(z) = [k \in 1 .. n |-> digit(z, k)]
    BY DEF little, Digit
  <2> HIDE DEF digit
  <2>3. little(z) \in [1 .. n -> Byte] /\ \A k \in 1 .. n : little(z)[k] = digit(z, k)
    BY <2>1, <2>2
  <2>. QED BY <1>1, <2>3
<1>4. little(x) = little(y)
  BY <1>1, <1>2, <1>3, PaddedInjective DEF uint_root
<1>5. \A k \in 1 .. n : digit(x, k) = digit(y, k)
  BY <1>2, <1>3, <1>4
<1>6. x % pow2[8 * n] = y % pow2[8 * n]
  <2>1. n \in Nat
    BY <1>1
  <2>. QED BY <2>1, <1>2, <1>5, SameDigits, Zenon
<1>7. \A u, v \in Nat : u < v => u % v = u
  <2> SUFFICES ASSUME NEW u \in Nat, NEW v \in Nat, u < v PROVE u % v = u
    OBVIOUS
  <2>1. 0 * v <= u /\ u < (0 + 1) * v /\ u - 0 * v = u
    OBVIOUS
  <2>. QED BY <2>1, QuotientIs
<1>. QED BY <1>2, <1>6, <1>7

---------------------------------------------------------------------------
(* Byte strings and bits *)

Blocks(bytes) == CeilDiv(Len(bytes), BYTES_PER_CHUNK)

(* The tree over the chunks of a byte string.                              *)
LEMMA VectorTree ==
  ASSUME NEW bytes \in Seq(Byte), Blocks(bytes) <= pow2[MAX_DEPTH]
  PROVE  LET list == OrZeroChunk(pack(bytes))
             t    == levels(AtLeastOne(Blocks(bytes)))
         IN  /\ t \in 0 .. MAX_DEPTH /\ Len(list) \in Nat /\ Len(list) <= pow2[t]
             /\ bytevector_root(bytes) = PaddedRoot(list, t)
             /\ \A c \in Nat \ {0} : At(list, c, ZeroChunk) = At(pack(bytes), c, ZeroChunk)
<1> DEFINE list == OrZeroChunk(pack(bytes))
           n    == Blocks(bytes)
           t    == levels(AtLeastOne(n))
<1>1. n \in Nat /\ Len(pack(bytes)) = n
  BY Sizes, CeilDivFacts, PackLength DEF Blocks
<1>2. PICK S : pack(bytes) \in Seq(S)
  BY PackLength DEF IsSequence
<1>3. /\ Len(list) \in Nat /\ Len(list) = AtLeastOne(n)
      /\ \A c \in Nat \ {0} : At(list, c, ZeroChunk) = At(pack(bytes), c, ZeroChunk)
  BY <1>1, <1>2, ZeroChunkAdded
<1> HIDE DEF list, n
<1>4. Len(list) <= pow2[MAX_DEPTH]
  BY <1>1, <1>3, Sizes DEF AtLeastOne, n
<1>5. AtLeastOne(Len(list)) = AtLeastOne(n)
  <2>1. \A m \in Nat : AtLeastOne(AtLeastOne(m)) = AtLeastOne(m)
    BY DEF AtLeastOne
  <2>. QED BY <1>1, <1>3, <2>1
<1>6. levels(AtLeastOne(Len(list))) \in 0 .. MAX_DEPTH /\ Len(list) <= pow2[levels(AtLeastOne(Len(list)))]
  BY <1>3, <1>4, Target
<1>7. bytevector_root(bytes) = PaddedRoot(list, t)
  BY <1>5 DEF bytevector_root, merkle_root, list
<1>. QED BY <1>3, <1>5, <1>6, <1>7 DEF list, n

(* Byte strings hashed without their length have one root exactly when     *)
(* their trees have one height and they differ in zero bytes at their end. *)
LEMMA SameVectors ==
  ASSUME NEW a \in Seq(Byte), NEW b \in Seq(Byte),
         Blocks(a) <= pow2[MAX_DEPTH], Blocks(b) <= pow2[MAX_DEPTH]
  PROVE  bytevector_root(a) = bytevector_root(b)
           <=> /\ levels(AtLeastOne(Blocks(a))) = levels(AtLeastOne(Blocks(b)))
               /\ \A m \in Nat \ {0} : At(a, m, 0) = At(b, m, 0)
<1> DEFINE p == OrZeroChunk(pack(a))
           q == OrZeroChunk(pack(b))
           t == levels(AtLeastOne(Blocks(a)))
           u == levels(AtLeastOne(Blocks(b)))
<1>1. /\ t \in 0 .. MAX_DEPTH /\ Len(p) \in Nat /\ Len(p) <= pow2[t]
      /\ bytevector_root(a) = PaddedRoot(p, t)
      /\ \A c \in Nat \ {0} : At(p, c, ZeroChunk) = At(pack(a), c, ZeroChunk)
  BY VectorTree
<1>2. /\ u \in 0 .. MAX_DEPTH /\ Len(q) \in Nat /\ Len(q) <= pow2[u]
      /\ bytevector_root(b) = PaddedRoot(q, u)
      /\ \A c \in Nat \ {0} : At(q, c, ZeroChunk) = At(pack(b), c, ZeroChunk)
  BY VectorTree
<1> HIDE DEF p, q, t, u
<1>3. CASE t = u
  <2>1. bytevector_root(a) = bytevector_root(b)
          <=> \A c \in Nat \ {0} : At(p, c, ZeroChunk) = At(q, c, ZeroChunk)
    BY <1>1, <1>2, <1>3, SameRoot
  <2>2. (\A c \in Nat \ {0} : At(p, c, ZeroChunk) = At(q, c, ZeroChunk))
          <=> \A m \in Nat \ {0} : At(a, m, 0) = At(b, m, 0)
    BY <1>1, <1>2, SameChunks
  <2>. QED BY <1>3, <2>1, <2>2 DEF t, u
<1>4. CASE t # u
  <2>1. 1 \in Nat \ {0}
    OBVIOUS
  <2>2. PICK x, y : At(p, 1, ZeroChunk) = Chunk(x) /\ At(q, 1, ZeroChunk) = Chunk(y)
    BY <1>1, <1>2, <2>1, PackedLeaf
  <2>3. CASE t < u
    <3>1. u - t \in Nat \ {0} /\ t \in Nat /\ t + (u - t) = u /\ t + (u - t) <= MAX_DEPTH
      BY <1>1, <1>2, <2>3, Sizes
    <3>2. PaddedRoot(p, t) # PaddedRoot(q, t + (u - t))
      BY <1>1, <1>2, <2>2, <3>1, HigherTree
    <3>. QED BY <1>1, <1>2, <1>4, <3>1, <3>2 DEF t, u
  <2>4. CASE u < t
    <3>1. t - u \in Nat \ {0} /\ u \in Nat /\ u + (t - u) = t /\ u + (t - u) <= MAX_DEPTH
      BY <1>1, <1>2, <2>4, Sizes
    <3>2. PaddedRoot(q, u) # PaddedRoot(p, u + (t - u))
      BY <1>1, <1>2, <2>2, <3>1, HigherTree
    <3>. QED BY <1>1, <1>2, <1>4, <3>1, <3>2 DEF t, u
  <2>. QED BY <1>1, <1>2, <1>4, <2>3, <2>4
<1>. QED BY <1>3, <1>4

(* A vector of at most 256 bytes is determined by its root.                *)
LEMMA VectorInjective ==
  ASSUME NEW n \in 1 .. 256, NEW a \in Vector(n), NEW b \in Vector(n),
         bytevector_root(a) = bytevector_root(b)
  PROVE  a = b
<1>1. a \in Seq(Byte) /\ b \in Seq(Byte) /\ Len(a) = n /\ Len(b) = n
  BY DEF Vector
<1>2. Blocks(a) = CeilDiv(n, BYTES_PER_CHUNK) /\ Blocks(b) = CeilDiv(n, BYTES_PER_CHUNK)
  BY <1>1 DEF Blocks
<1>3. CeilDiv(n, BYTES_PER_CHUNK) \in Nat /\ CeilDiv(n, BYTES_PER_CHUNK) <= n
  <2>1. n \in Nat /\ BYTES_PER_CHUNK \in Nat \ {0}
    BY Sizes
  <2>. QED BY <2>1, CeilDivFacts, CeilDivSmall
<1>4. CeilDiv(n, BYTES_PER_CHUNK) <= pow2[MAX_DEPTH]
  BY <1>3, Sizes
<1>5. \A m \in Nat \ {0} : At(a, m, 0) = At(b, m, 0)
  BY <1>1, <1>2, <1>4, SameVectors
<1>. QED BY <1>1, <1>5, SameSequence

(* A byte list within its limit is determined by its root.                 *)
LEMMA ByteListInjective ==
  ASSUME NEW max \in 1 .. 256, NEW a \in List(Byte, max), NEW b \in List(Byte, max),
         bytelist_root(a, max) = bytelist_root(b, max)
  PROVE  a = b
<1> DEFINE B == BYTES_PER_CHUNK
           limit_chunks == AtLeastOne(CeilDiv(max, B))
<1>1. a \in Seq(Byte) /\ b \in Seq(Byte) /\ Len(a) <= max /\ Len(b) <= max
  BY DEF List
<1>2. CeilDiv(max, B) \in Nat /\ CeilDiv(max, B) <= max /\ max <= B * CeilDiv(max, B)
  <2>1. max \in Nat /\ B \in Nat \ {0}
    BY Sizes
  <2> HIDE DEF B
  <2>. QED BY <2>1, CeilDivFacts, CeilDivSmall
<1>3. limit_chunks \in Nat /\ limit_chunks <= pow2[MAX_DEPTH] /\ CeilDiv(max, B) <= limit_chunks
  BY <1>2, Sizes DEF AtLeastOne
<1>4. ASSUME NEW list \in Seq(Byte), Len(list) <= max
      PROVE  Len(pack(list)) \in 0 .. limit_chunks
  <2> DEFINE n == CeilDiv(Len(list), B)
             m == CeilDiv(max, B)
  <2>1. n \in Nat /\ B * (n - 1) < Len(list) /\ Len(pack(list)) = n
    BY Sizes, CeilDivFacts, PackLength
  <2>2. n <= m
    <3> HIDE DEF n, m, B, limit_chunks
    <3> SUFFICES ASSUME m < n PROVE FALSE
      BY <1>2, <2>1 DEF m
    <3>1. n - 1 \in Nat /\ m <= n - 1 /\ B \in Nat /\ m \in Nat
      BY <1>2, <2>1, Sizes DEF m, B
    <3>2. \A x, y, z \in Nat : x <= y => z * x <= z * y
      OBVIOUS
    <3>3. B * m <= B * (n - 1)
      BY <3>1, <3>2
    <3>4. B * m \in Nat /\ B * (n - 1) \in Nat
      BY <3>1
    <3>. QED BY <1>2, <1>4, <2>1, <3>3, <3>4 DEF m
  <2>. QED BY <1>2, <1>3, <2>1, <2>2
<1> HIDE DEF limit_chunks
<1>5. merkle_root(pack(a), limit_chunks) = merkle_root(pack(b), limit_chunks) /\ Len(a) = Len(b)
  BY MixInjective DEF bytelist_root, limit_chunks
<1>6. \A c \in Nat \ {0} : At(pack(a), c, ZeroChunk) = At(pack(b), c, ZeroChunk)
  BY <1>1, <1>3, <1>4, <1>5, LimitedRoot
<1>7. \A m \in Nat \ {0} : At(a, m, 0) = At(b, m, 0)
  BY <1>1, <1>6, SameChunks
<1>. QED BY <1>1, <1>5, <1>7, SameSequence

(* The bytes of a bit vector, past the end too.                            *)
LEMMA PackedByte ==
  ASSUME NEW bits \in Seq(BOOLEAN), NEW j \in Nat \ {0}
  PROVE  LET b(i) == Bit(bits, 8 * (j - 1) + i)
         IN  At(packed_bits(bits), j, 0) =
               b(1) + 2 * b(2) + 4 * b(3) + 8 * b(4) + 16 * b(5) + 32 * b(6) + 64 * b(7) + 128 * b(8)
<1> DEFINE n == CeilDiv(Len(bits), 8)
           b(i) == Bit(bits, 8 * (j - 1) + i)
           sum == b(1) + 2 * b(2) + 4 * b(3) + 8 * b(4) + 16 * b(5) + 32 * b(6) + 64 * b(7) + 128 * b(8)
<1>1. n \in Nat /\ Len(bits) \in Nat /\ Len(bits) <= 8 * n
  BY CeilDivFacts
<1>2. Len(packed_bits(bits)) = n
  BY <1>1 DEF packed_bits
<1> HIDE DEF n
<1>3. CASE j <= n
  <2>1. j \in 1 .. n
    BY <1>1, <1>3
  <2>2. packed_bits(bits)[j] = sum
    BY <2>1, Zenon DEF packed_bits, n
  <2>. QED BY <1>2, <1>3, <2>2 DEF At
<1>4. CASE ~ (j <= n)
  <2>1. \A i \in 1 .. 8 : b(i) = 0
    BY <1>1, <1>4 DEF Bit, At
  <2>2. sum = 0
    BY <2>1
  <2>. QED BY <1>2, <1>4, <2>2 DEF At
<1>. QED BY <1>3, <1>4

(* The bytes of a bit vector are bytes, and the bits come back from them.  *)
LEMMA BitsBack ==
  ASSUME NEW bits \in Seq(BOOLEAN)
  PROVE  /\ packed_bits(bits) \in Seq(Byte)
         /\ Len(packed_bits(bits)) = CeilDiv(Len(bits), 8)
         /\ \A j \in Nat \ {0} : \A r \in 0 .. 7 :
              (At(packed_bits(bits), j, 0) \div pow2[r]) % 2 = Bit(bits, 8 * (j - 1) + (r + 1))
<1> DEFINE n == CeilDiv(Len(bits), 8)
           b(j, i) == Bit(bits, 8 * (j - 1) + i)
           sum(j) == b(j, 1) + 2 * b(j, 2) + 4 * b(j, 3) + 8 * b(j, 4) + 16 * b(j, 5) + 32 * b(j, 6)
                       + 64 * b(j, 7) + 128 * b(j, 8)
<1>1. n \in Nat
  BY CeilDivFacts
<1>2. \A j, i : b(j, i) \in {0, 1}
  BY DEF Bit
<1> HIDE DEF b, n
<1>3. packed_bits(bits) = [j \in 1 .. n |-> sum(j)]
  BY Zenon DEF packed_bits, n, b
<1>4. ASSUME NEW j
      PROVE  /\ sum(j) \in Byte
             /\ (sum(j) \div 1) % 2 = b(j, 1) /\ (sum(j) \div 2) % 2 = b(j, 2)
             /\ (sum(j) \div 4) % 2 = b(j, 3) /\ (sum(j) \div 8) % 2 = b(j, 4)
             /\ (sum(j) \div 16) % 2 = b(j, 5) /\ (sum(j) \div 32) % 2 = b(j, 6)
             /\ (sum(j) \div 64) % 2 = b(j, 7) /\ (sum(j) \div 128) % 2 = b(j, 8)
  <2>1. PICK x1, x2, x3, x4, x5, x6, x7, x8 \in {0, 1} :
          /\ x1 = b(j, 1) /\ x2 = b(j, 2) /\ x3 = b(j, 3) /\ x4 = b(j, 4)
          /\ x5 = b(j, 5) /\ x6 = b(j, 6) /\ x7 = b(j, 7) /\ x8 = b(j, 8)
    BY <1>2
  <2> DEFINE s == x1 + 2 * x2 + 4 * x3 + 8 * x4 + 16 * x5 + 32 * x6 + 64 * x7 + 128 * x8
  <2>2. sum(j) = s
    BY <2>1
  <2>3. s \in Byte
    BY DEF Byte
  <2>4. /\ (s \div 1) % 2 = x1 /\ (s \div 2) % 2 = x2 /\ (s \div 4) % 2 = x3
        /\ (s \div 8) % 2 = x4 /\ (s \div 16) % 2 = x5 /\ (s \div 32) % 2 = x6
        /\ (s \div 64) % 2 = x7 /\ (s \div 128) % 2 = x8
    OBVIOUS
  <2> HIDE DEF s, sum
  <2>. QED BY <2>1, <2>2, <2>3, <2>4
<1>5. ASSUME NEW j \in Nat \ {0}, NEW r \in 0 .. 7
      PROVE  (At(packed_bits(bits), j, 0) \div pow2[r]) % 2 = b(j, r + 1)
  <2>1. At(packed_bits(bits), j, 0) = sum(j)
    BY PackedByte DEF b
  <2>2. /\ pow2[0] = 1 /\ pow2[1] = 2 /\ pow2[2] = 4 /\ pow2[3] = 8 /\ pow2[4] = 16 /\ pow2[5] = 32
        /\ pow2[6] = 64 /\ pow2[7] = 128
    <3>1. /\ pow2[2 + 1] = 2 * pow2[2] /\ pow2[2 + 2] = 4 * pow2[2] /\ pow2[2 + 3] = 8 * pow2[2]
          /\ pow2[2 + 4] = 16 * pow2[2] /\ pow2[2 + 5] = 32 * pow2[2]
      BY PowersAbove
    <3>2. 2 + 1 = 3 /\ 2 + 2 = 4 /\ 2 + 3 = 5 /\ 2 + 4 = 6 /\ 2 + 5 = 7
      OBVIOUS
    <3>3. 2 * 4 = 8 /\ 4 * 4 = 16 /\ 8 * 4 = 32 /\ 16 * 4 = 64 /\ 32 * 4 = 128
      OBVIOUS
    <3>. QED BY <3>1, <3>2, <3>3, SmallPowers
  <2>4. r = 0 \/ r = 1 \/ r = 2 \/ r = 3 \/ r = 4 \/ r = 5 \/ r = 6 \/ r = 7
    OBVIOUS
  <2> HIDE DEF sum
  <2>. QED BY <1>4, <2>1, <2>2, <2>4
<1>6. packed_bits(bits) \in Seq(Byte) /\ Len(packed_bits(bits)) = n
  <2> HIDE DEF sum
  <2>. QED BY <1>1, <1>3, <1>4
<1>. QED BY <1>5, <1>6 DEF b, n

(* The place of a bit in its byte.                                         *)
LEMMA BitPlace ==
  ASSUME NEW i \in Nat \ {0}
  PROVE  LET j == (i - 1) \div 8 + 1
             r == (i - 1) % 8
         IN  j \in Nat \ {0} /\ r \in 0 .. 7 /\ 8 * (j - 1) + (r + 1) = i
OBVIOUS

(* An element of a padded list of bits is a bit.                           *)
LEMMA BitAt ==
  ASSUME NEW bits \in Seq(BOOLEAN), NEW i \in Nat \ {0}
  PROVE  At(bits, i, FALSE) \in BOOLEAN /\ (Bit(bits, i) = 1 <=> At(bits, i, FALSE))
<1>1. At(bits, i, FALSE) \in BOOLEAN
  <2>1. CASE i <= Len(bits)
    <3>1. bits[i] \in BOOLEAN
      <4>1. i \in 1 .. Len(bits)
        BY <2>1
      <4>. QED BY <4>1
    <3>. QED BY <2>1, <3>1, Zenon DEF At
  <2>2. CASE ~ (i <= Len(bits))
    BY <2>2, Zenon DEF At
  <2>. QED BY <2>1, <2>2
<1>2. CASE At(bits, i, FALSE)
  BY <1>1, <1>2, Zenon DEF Bit
<1>3. CASE ~ At(bits, i, FALSE)
  <2>1. Bit(bits, i) = 0 /\ 0 # 1
    BY <1>3 DEF Bit
  <2>. QED BY <1>1, <1>3, <2>1, Zenon
<1>. QED BY <1>2, <1>3

(* The roots of two bit vectors are one exactly when their trees have one  *)
(* height and the vectors differ in absent members at their end.           *)
LEMMA SameBits ==
  ASSUME NEW a \in List(BOOLEAN, MAX_BITS), NEW b \in List(BOOLEAN, MAX_BITS)
  PROVE  bitvector_root(a) = bitvector_root(b)
           <=> /\ Height(a) = Height(b)
               /\ \A i \in Nat \ {0} : At(a, i, FALSE) = At(b, i, FALSE)
<1> DEFINE p == packed_bits(a)
           q == packed_bits(b)
<1>1. ASSUME NEW bits \in List(BOOLEAN, MAX_BITS)
      PROVE  /\ bits \in Seq(BOOLEAN) /\ packed_bits(bits) \in Seq(Byte)
             /\ Blocks(packed_bits(bits)) <= pow2[MAX_DEPTH]
             /\ Height(bits) = levels(AtLeastOne(Blocks(packed_bits(bits))))
  <2> DEFINE c == CeilDiv(Len(bits), 8)
             d == CeilDiv(c, BYTES_PER_CHUNK)
             P == pow2[MAX_DEPTH]
  <2>1. bits \in Seq(BOOLEAN) /\ Len(bits) \in Nat /\ Len(bits) <= 8 * P /\ P \in Nat
    BY Sizes DEF List, MAX_BITS
  <2>2. packed_bits(bits) \in Seq(Byte) /\ Len(packed_bits(bits)) = c
    BY <2>1, BitsBack
  <2>3. c \in Nat /\ 8 * (c - 1) < Len(bits)
    BY <2>1, CeilDivFacts
  <2> HIDE DEF P
  <2>4. c <= P
    <3> HIDE DEF c
    <3>. QED BY <2>1, <2>3
  <2> HIDE DEF c
  <2>5. d \in Nat /\ d <= c
    BY <2>3, Sizes, CeilDivFacts, CeilDivSmall
  <2>6. Blocks(packed_bits(bits)) = d
    BY <2>2 DEF Blocks
  <2>7. Height(bits) = levels(AtLeastOne(d))
    BY DEF Height, c
  <2> HIDE DEF d
  <2>. QED BY <2>1, <2>2, <2>3, <2>4, <2>5, <2>6, <2>7 DEF P
<1>2. bitvector_root(a) = bitvector_root(b)
        <=> Height(a) = Height(b) /\ \A m \in Nat \ {0} : At(p, m, 0) = At(q, m, 0)
  BY <1>1, SameVectors DEF bitvector_root
<1>3. ASSUME \A m \in Nat \ {0} : At(p, m, 0) = At(q, m, 0), NEW i \in Nat \ {0}
      PROVE  At(a, i, FALSE) = At(b, i, FALSE)
  <2>1. PICK j \in Nat \ {0}, r \in 0 .. 7 : 8 * (j - 1) + (r + 1) = i
    BY BitPlace
  <2>2. Bit(a, 8 * (j - 1) + (r + 1)) = Bit(b, 8 * (j - 1) + (r + 1))
    <3>1. At(p, j, 0) = At(q, j, 0)
      BY <1>3
    <3>2. /\ (At(p, j, 0) \div pow2[r]) % 2 = Bit(a, 8 * (j - 1) + (r + 1))
          /\ (At(q, j, 0) \div pow2[r]) % 2 = Bit(b, 8 * (j - 1) + (r + 1))
      BY <1>1, BitsBack
    <3>. QED BY <3>1, <3>2, Zenon
  <2>3. Bit(a, i) = Bit(b, i)
    BY <2>1, <2>2
  <2>. QED BY <1>1, <2>3, BitAt
<1>4. ASSUME \A i \in Nat \ {0} : At(a, i, FALSE) = At(b, i, FALSE), NEW m \in Nat \ {0}
      PROVE  At(p, m, 0) = At(q, m, 0)
  <2>1. \A i \in 1 .. 8 : 8 * (m - 1) + i \in Nat \ {0}
    OBVIOUS
  <2>2. \A i \in 1 .. 8 : Bit(a, 8 * (m - 1) + i) = Bit(b, 8 * (m - 1) + i)
    BY <1>4, <2>1, Zenon DEF Bit
  <2>3. 1 \in 1 .. 8 /\ 2 \in 1 .. 8 /\ 3 \in 1 .. 8 /\ 4 \in 1 .. 8 /\ 5 \in 1 .. 8 /\ 6 \in 1 .. 8
        /\ 7 \in 1 .. 8 /\ 8 \in 1 .. 8
    OBVIOUS
  <2> DEFINE x(i) == Bit(a, 8 * (m - 1) + i)
             y(i) == Bit(b, 8 * (m - 1) + i)
  <2>4. /\ x(1) = y(1) /\ x(2) = y(2) /\ x(3) = y(3) /\ x(4) = y(4)
        /\ x(5) = y(5) /\ x(6) = y(6) /\ x(7) = y(7) /\ x(8) = y(8)
    BY <2>2, <2>3
  <2>5. At(p, m, 0) = x(1) + 2 * x(2) + 4 * x(3) + 8 * x(4) + 16 * x(5) + 32 * x(6) + 64 * x(7) + 128 * x(8)
    BY <1>1, PackedByte
  <2>6. At(q, m, 0) = y(1) + 2 * y(2) + 4 * y(3) + 8 * y(4) + 16 * y(5) + 32 * y(6) + 64 * y(7) + 128 * y(8)
    BY <1>1, PackedByte
  <2> HIDE DEF x, y
  <2>. QED BY <2>4, <2>5, <2>6
<1>. QED BY <1>2, <1>3, <1>4

---------------------------------------------------------------------------
(* Lists hashed without their length *)

(* What is left of a list without the zeros at its end.                    *)
LEMMA TrailingCut ==
  ASSUME NEW S, NEW list \in Seq(S), NEW zero
  PROVE  LET kept == WithoutTrailing(list, zero)
         IN  /\ kept \in Seq(S) /\ Len(kept) \in 0 .. Len(list)
             /\ Len(kept) > 0 => kept[Len(kept)] # zero
             /\ \A k \in Nat \ {0} : At(kept, k, zero) = At(list, k, zero)
<1> DEFINE L == Len(list)
           Zeros(n) == \A k \in n + 1 .. L : list[k] = zero
           Cut(n) == (n > 0 => list[n] # zero) /\ Zeros(n)
           N == {n \in Nat : n <= L /\ Zeros(n)}
<1>1. L \in Nat /\ L \in N
  OBVIOUS
<1>2. PICK m \in N : \A n \in N : m <= n
  BY <1>1, LeastNumber
<1>3. m \in 0 .. L /\ Cut(m)
  <2> SUFFICES ASSUME m > 0, list[m] = zero PROVE FALSE
    BY <1>1, <1>2
  <2>1. m - 1 \in N /\ m \in Nat
    BY <1>1, <1>2
  <2>2. m <= m - 1
    BY <1>2, <2>1, Zenon
  <2>. QED BY <2>1, <2>2
<1>4. PICK n : n = CHOOSE k \in 0 .. L : Cut(k)
  OBVIOUS
<1>5. n \in 0 .. L /\ Cut(n)
  BY <1>3, <1>4, Zenon
<1>6. WithoutTrailing(list, zero) = SubSeq(list, 1, n)
  BY <1>4, Zenon DEF WithoutTrailing
<1> DEFINE kept == SubSeq(list, 1, n)
<1>7. kept \in Seq(S) /\ Len(kept) = n /\ \A k \in 1 .. n : kept[k] = list[k]
  <2>1. 1 \in 1 .. L + 1 /\ n \in 1 - 1 .. L
    BY <1>1, <1>5
  <2>2. /\ SubSeq(list, 1, n) \in Seq(S)
        /\ Len(SubSeq(list, 1, n)) = IF 1 <= n THEN n - 1 + 1 ELSE 0
        /\ \A i \in 1 .. n - 1 + 1 : SubSeq(list, 1, n)[i] = list[1 + i - 1]
    BY <2>1, SubSeqProperties
  <2>3. n \in Nat /\ n - 1 + 1 = n /\ \A i \in 1 .. n : 1 + i - 1 = i
    BY <1>5
  <2>. QED BY <2>2, <2>3
<1> HIDE DEF kept
<1>8. \A k \in Nat \ {0} : At(kept, k, zero) = At(list, k, zero)
  BY <1>1, <1>5, <1>7 DEF At
<1>9. n > 0 => kept[n] # zero
  BY <1>5, <1>7
<1>. QED BY <1>1, <1>5, <1>6, <1>7, <1>8, <1>9 DEF kept

(* Two lists are the same without the zeros at their end exactly when they *)
(* are the same padded with zeros.                                         *)
LEMMA SameTrailing ==
  ASSUME NEW S, NEW a \in Seq(S), NEW b \in Seq(S), NEW zero
  PROVE  WithoutTrailing(a, zero) = WithoutTrailing(b, zero)
           <=> \A k \in Nat \ {0} : At(a, k, zero) = At(b, k, zero)
<1> DEFINE p == WithoutTrailing(a, zero)
           q == WithoutTrailing(b, zero)
<1>1. /\ p \in Seq(S) /\ (Len(p) > 0 => p[Len(p)] # zero)
      /\ \A k \in Nat \ {0} : At(p, k, zero) = At(a, k, zero)
  BY TrailingCut
<1>2. /\ q \in Seq(S) /\ (Len(q) > 0 => q[Len(q)] # zero)
      /\ \A k \in Nat \ {0} : At(q, k, zero) = At(b, k, zero)
  BY TrailingCut
<1> HIDE DEF p, q
<1>3. ASSUME \A k \in Nat \ {0} : At(a, k, zero) = At(b, k, zero) PROVE p = q
  <2>1. \A k \in Nat \ {0} : At(p, k, zero) = At(q, k, zero)
    BY <1>1, <1>2, <1>3
  <2>2. Len(p) \in Nat /\ Len(q) \in Nat
    BY <1>1, <1>2
  <2>3. ASSUME Len(p) < Len(q) PROVE FALSE
    <3>1. Len(q) \in Nat \ {0} /\ At(p, Len(q), zero) = zero /\ At(q, Len(q), zero) = q[Len(q)]
      BY <2>2, <2>3 DEF At
    <3>. QED BY <1>2, <2>1, <2>2, <2>3, <3>1
  <2>4. ASSUME Len(q) < Len(p) PROVE FALSE
    <3>1. Len(p) \in Nat \ {0} /\ At(q, Len(p), zero) = zero /\ At(p, Len(p), zero) = p[Len(p)]
      BY <2>2, <2>4 DEF At
    <3>. QED BY <1>1, <2>1, <2>2, <2>4, <3>1
  <2>5. Len(p) = Len(q)
    BY <2>2, <2>3, <2>4
  <2>. QED BY <1>1, <1>2, <2>1, <2>5, SameSequence
<1>4. ASSUME p = q, NEW k \in Nat \ {0} PROVE At(a, k, zero) = At(b, k, zero)
  BY <1>1, <1>2, <1>4
<1>. QED BY <1>3, <1>4 DEF p, q

(* The root of a branch, hashed without its length, identifies it up to    *)
(* zero digests at its end.                                                *)
LEMMA SameBranch ==
  ASSUME NEW a \in Branch, NEW b \in Branch
  PROVE  merkle_root(a, MAX_BRANCH) = merkle_root(b, MAX_BRANCH)
           <=> WithoutTrailing(a, ZeroChunk) = WithoutTrailing(b, ZeroChunk)
<1>1. a \in Seq(Bytes32) /\ b \in Seq(Bytes32) /\ Len(a) \in 0 .. MAX_BRANCH /\ Len(b) \in 0 .. MAX_BRANCH
  <2>1. a \in Seq(Bytes32) /\ b \in Seq(Bytes32) /\ Len(a) <= MAX_BRANCH /\ Len(b) <= MAX_BRANCH
    BY Zenon DEF Branch, List
  <2>2. Len(a) \in Nat /\ Len(b) \in Nat
    BY <2>1
  <2>3. \A n \in Nat : n <= MAX_BRANCH => n \in 0 .. MAX_BRANCH
    BY DEF MAX_BRANCH
  <2>. QED BY <2>1, <2>2, <2>3, Zenon
<1>2. MAX_BRANCH \in Nat /\ MAX_BRANCH <= pow2[MAX_DEPTH]
  BY Sizes DEF MAX_BRANCH
<1>. QED BY <1>1, <1>2, LimitedRoot, SameTrailing

(* A hash of a node is not a chunk of zero bytes.                          *)
LEMMA KeccakFacts ==
  /\ \A x, y : keccak256(x) = keccak256(y) => x = y
  /\ \A x : keccak256(x) # ZeroChunk
<1>1. ASSUME NEW x, NEW y, keccak256(x) = keccak256(y) PROVE x = y
  <2>1. keccak256(x).keccak = keccak256(y).keccak
    BY <1>1
  <2>. QED BY <2>1 DEF keccak256
<1>2. ASSUME NEW x PROVE keccak256(x) # ZeroChunk
  <2>1. DOMAIN keccak256(x) = {"keccak"} /\ DOMAIN ZeroChunk = {"bytes"}
    BY DEF keccak256, ZeroChunk, Chunk
  <2>. QED BY <2>1
<1>. QED BY <1>1, <1>2

(* A Merkle-Patricia proof, though hashed without its length, is           *)
(* determined by its root.                                                 *)
LEMMA NodesInjective ==
  ASSUME NEW p \in List(Node, MAX_NODES), NEW q \in List(Node, MAX_NODES), node_roots(p) = node_roots(q)
  PROVE  p = q
<1> DEFINE hashes(proof) == [k \in DOMAIN proof |-> keccak256(proof[k])]
           T == {keccak256(x) : x \in Node}
           a == hashes(p)
           b == hashes(q)
<1>0. MAX_NODES \in Nat \ {0} /\ MAX_NODES <= pow2[MAX_DEPTH]
  BY Sizes DEF MAX_NODES
<1>1. ASSUME NEW proof \in List(Node, MAX_NODES)
      PROVE  /\ proof \in Seq(Node) /\ hashes(proof) \in Seq(T) /\ Len(hashes(proof)) = Len(proof)
             /\ \A k \in 1 .. Len(proof) : hashes(proof)[k] = keccak256(proof[k])
             /\ Len(OrZeroChunk(hashes(proof))) \in 0 .. MAX_NODES
             /\ \A k \in Nat \ {0} :
                  At(OrZeroChunk(hashes(proof)), k, ZeroChunk) = At(hashes(proof), k, ZeroChunk)
  <2>1. proof \in Seq(Node) /\ Len(proof) \in Nat /\ Len(proof) <= MAX_NODES /\ DOMAIN proof = 1 .. Len(proof)
    BY DEF List
  <2>2. \A k \in 1 .. Len(proof) : proof[k] \in Node
    BY <2>1
  <2>3. hashes(proof) \in [1 .. Len(proof) -> T]
    BY <2>1, <2>2
  <2> HIDE DEF T
  <2>4. hashes(proof) \in Seq(T) /\ Len(hashes(proof)) = Len(proof)
    BY <2>1, <2>3
  <2>5. \A k \in 1 .. Len(proof) : hashes(proof)[k] = keccak256(proof[k])
    BY <2>1
  <2> HIDE DEF hashes
  <2>6. /\ Len(OrZeroChunk(hashes(proof))) \in Nat
        /\ Len(OrZeroChunk(hashes(proof))) = AtLeastOne(Len(proof))
        /\ \A k \in Nat \ {0} :
             At(OrZeroChunk(hashes(proof)), k, ZeroChunk) = At(hashes(proof), k, ZeroChunk)
    BY <2>4, ZeroChunkAdded
  <2>7. AtLeastOne(Len(proof)) <= MAX_NODES
    BY <1>0, <2>1 DEF AtLeastOne
  <2>. QED BY <1>0, <2>1, <2>4, <2>5, <2>6, <2>7
<1>2. merkle_root(OrZeroChunk(a), MAX_NODES) = merkle_root(OrZeroChunk(b), MAX_NODES)
  BY Zenon DEF node_roots
<1> HIDE DEF hashes
<1>3. \A k \in Nat \ {0} : At(a, k, ZeroChunk) = At(b, k, ZeroChunk)
  <2>1. \A k \in Nat \ {0} : At(OrZeroChunk(a), k, ZeroChunk) = At(OrZeroChunk(b), k, ZeroChunk)
    BY <1>0, <1>1, <1>2, LimitedRoot
  <2>. QED BY <1>1, <2>1
<1>4. /\ Len(p) \in Nat /\ Len(q) \in Nat /\ Len(a) = Len(p) /\ Len(b) = Len(q)
      /\ \A k \in 1 .. Len(p) : At(a, k, ZeroChunk) = keccak256(p[k])
      /\ \A k \in 1 .. Len(q) : At(b, k, ZeroChunk) = keccak256(q[k])
  <2>1. ASSUME NEW proof \in List(Node, MAX_NODES)
        PROVE  /\ Len(proof) \in Nat /\ Len(hashes(proof)) = Len(proof)
               /\ \A k \in 1 .. Len(proof) : At(hashes(proof), k, ZeroChunk) = keccak256(proof[k])
    <3>1. /\ proof \in Seq(Node) /\ Len(hashes(proof)) = Len(proof)
          /\ \A k \in 1 .. Len(proof) : hashes(proof)[k] = keccak256(proof[k])
      BY <1>1
    <3>2. \A k \in 1 .. Len(proof) : k <= Len(hashes(proof))
      BY <3>1
    <3>3. \A k \in 1 .. Len(proof) : At(hashes(proof), k, ZeroChunk) = keccak256(proof[k])
      BY <3>1, <3>2, Zenon DEF At
    <3>. QED BY <3>1, <3>3
  <2>. QED BY <2>1
<1> HIDE DEF a, b
<1>5. ASSUME NEW k \in Nat \ {0} PROVE k <= Len(p) <=> k <= Len(q)
  <2>1. k <= Len(p) => At(a, k, ZeroChunk) = keccak256(p[k])
    BY <1>4
  <2>2. k <= Len(q) => At(b, k, ZeroChunk) = keccak256(q[k])
    BY <1>4
  <2>3. ~ (k <= Len(p)) => At(a, k, ZeroChunk) = ZeroChunk
    BY <1>4 DEF At
  <2>4. ~ (k <= Len(q)) => At(b, k, ZeroChunk) = ZeroChunk
    BY <1>4 DEF At
  <2>. QED BY <1>3, <2>1, <2>2, <2>3, <2>4, KeccakFacts
<1>6. Len(p) = Len(q)
  <2>1. Len(p) # 0 => Len(p) <= Len(q)
    BY <1>4, <1>5
  <2>2. Len(q) # 0 => Len(q) <= Len(p)
    BY <1>4, <1>5
  <2>. QED BY <1>4, <2>1, <2>2
<1>7. \A k \in 1 .. Len(p) : p[k] = q[k]
  <2> SUFFICES ASSUME NEW k \in 1 .. Len(p) PROVE p[k] = q[k]
    OBVIOUS
  <2>1. At(a, k, ZeroChunk) = keccak256(p[k]) /\ At(b, k, ZeroChunk) = keccak256(q[k])
    BY <1>4, <1>6
  <2>2. k \in Nat \ {0}
    BY <1>4
  <2>. QED BY <1>3, <2>1, <2>2, KeccakFacts
<1>8. p \in Seq(Node) /\ q \in Seq(Node)
  BY Zenon DEF List
<1>. QED BY <1>4, <1>6, <1>7, <1>8

---------------------------------------------------------------------------
(* Containers *)

(* A header is determined by its root.                                     *)
LEMMA HeaderInjective ==
  ASSUME NEW x \in BeaconBlockHeader, NEW y \in BeaconBlockHeader, header_root(x) = header_root(y)
  PROVE  x = y
<1> DEFINE a == header_chunks(x)
           b == header_chunks(y)
<1>1. /\ x.slot \in Number /\ x.proposer_index \in Number
      /\ y.slot \in Number /\ y.proposer_index \in Number
  BY DEF BeaconBlockHeader
<1>2. Len(a) = 5 /\ Len(b) = 5 /\ 5 <= pow2[MAX_DEPTH]
  BY Sizes DEF header_chunks
<1>3. \A k \in 1 .. 5 : a[k] = b[k]
  <2> DEFINE n == 5
  <2>1. n \in Nat /\ merkle_root(a, NONE) = merkle_root(b, NONE)
    BY DEF header_root
  <2>2. Len(a) = n /\ Len(b) = n /\ n <= pow2[MAX_DEPTH]
    BY <1>2
  <2> HIDE DEF a, b, n
  <2>3. \A k \in 1 .. n : a[k] = b[k]
    BY ONLY <2>1, <2>2, ListRoot
  <2>. QED BY <2>3 DEF n
<1>4. a[1] = b[1] /\ a[2] = b[2] /\ a[3] = b[3] /\ a[4] = b[4] /\ a[5] = b[5]
  <2> HIDE DEF a, b
  <2>. QED BY <1>3
<1>5. /\ uint_root(x.slot) = uint_root(y.slot)
      /\ uint_root(x.proposer_index) = uint_root(y.proposer_index)
      /\ x.parent_root = y.parent_root /\ x.state_root = y.state_root /\ x.body_root = y.body_root
  BY <1>4 DEF header_chunks, bytes32_root
<1>6. x.slot = y.slot /\ x.proposer_index = y.proposer_index
  BY <1>1, <1>5, UintInjective
<1>. QED BY <1>5, <1>6 DEF BeaconBlockHeader

(* An execution header is determined by its root.                          *)
LEMMA ExecutionInjective ==
  ASSUME NEW x \in ExecutionPayloadHeader, NEW y \in ExecutionPayloadHeader,
         execution_root(x) = execution_root(y)
  PROVE  x = y
<1> DEFINE a == execution_chunks(x)
           b == execution_chunks(y)
<1>1. ASSUME NEW z \in ExecutionPayloadHeader
      PROVE  /\ z.fee_recipient \in Vector(20) /\ z.logs_bloom \in Vector(256)
             /\ z.extra_data \in List(Byte, MAX_EXTRA_DATA_BYTES)
             /\ z.block_number \in Number /\ z.gas_limit \in Number /\ z.gas_used \in Number
             /\ z.timestamp \in Number /\ z.base_fee_per_gas \in Number
             /\ z.blob_gas_used \in Number /\ z.excess_blob_gas \in Number
  BY DEF ExecutionPayloadHeader
<1>2. Len(a) = 17 /\ Len(b) = 17 /\ 17 <= pow2[MAX_DEPTH]
  BY Sizes DEF execution_chunks
<1>3. \A k \in 1 .. 17 : a[k] = b[k]
  <2> DEFINE n == 17
  <2>1. n \in Nat /\ merkle_root(a, NONE) = merkle_root(b, NONE)
    BY DEF execution_root
  <2>2. Len(a) = n /\ Len(b) = n /\ n <= pow2[MAX_DEPTH]
    BY <1>2
  <2> HIDE DEF a, b, n
  <2>3. \A k \in 1 .. n : a[k] = b[k]
    BY ONLY <2>1, <2>2, ListRoot
  <2>. QED BY <2>3 DEF n
<1>4. /\ a[1] = b[1] /\ a[2] = b[2] /\ a[3] = b[3] /\ a[4] = b[4] /\ a[5] = b[5] /\ a[6] = b[6]
      /\ a[7] = b[7] /\ a[8] = b[8] /\ a[9] = b[9] /\ a[10] = b[10] /\ a[11] = b[11]
      /\ a[12] = b[12] /\ a[13] = b[13] /\ a[14] = b[14] /\ a[15] = b[15] /\ a[16] = b[16]
      /\ a[17] = b[17]
  <2> HIDE DEF a, b
  <2>. QED BY <1>3
<1>5. /\ x.parent_hash = y.parent_hash /\ x.state_root = y.state_root
      /\ x.receipts_root = y.receipts_root /\ x.prev_randao = y.prev_randao
      /\ x.block_hash = y.block_hash /\ x.transactions_root = y.transactions_root
      /\ x.withdrawals_root = y.withdrawals_root
  BY <1>4 DEF execution_chunks, bytes32_root
<1>6. /\ Padded(x.fee_recipient) = Padded(y.fee_recipient)
      /\ bytevector_root(x.logs_bloom) = bytevector_root(y.logs_bloom)
      /\ bytelist_root(x.extra_data, MAX_EXTRA_DATA_BYTES) = bytelist_root(y.extra_data, MAX_EXTRA_DATA_BYTES)
  BY <1>4 DEF execution_chunks, bytes20_root
<1>7. /\ uint_root(x.block_number) = uint_root(y.block_number)
      /\ uint_root(x.gas_limit) = uint_root(y.gas_limit)
      /\ uint_root(x.gas_used) = uint_root(y.gas_used)
      /\ uint_root(x.timestamp) = uint_root(y.timestamp)
      /\ uint_root(x.base_fee_per_gas) = uint_root(y.base_fee_per_gas)
      /\ uint_root(x.blob_gas_used) = uint_root(y.blob_gas_used)
      /\ uint_root(x.excess_blob_gas) = uint_root(y.excess_blob_gas)
  BY <1>4 DEF execution_chunks
<1>8. /\ x.block_number = y.block_number /\ x.gas_limit = y.gas_limit /\ x.gas_used = y.gas_used
      /\ x.timestamp = y.timestamp /\ x.base_fee_per_gas = y.base_fee_per_gas
      /\ x.blob_gas_used = y.blob_gas_used /\ x.excess_blob_gas = y.excess_blob_gas
  BY <1>1, <1>7, UintInjective
<1>9. x.fee_recipient = y.fee_recipient
  BY <1>1, <1>6, AddressInjective
<1>10. x.logs_bloom = y.logs_bloom
  <2>1. 256 \in 1 .. 256
    OBVIOUS
  <2>. QED BY <1>1, <1>6, <2>1, VectorInjective
<1>11. x.extra_data = y.extra_data
  <2>1. MAX_EXTRA_DATA_BYTES \in 1 .. 256
    BY DEF MAX_EXTRA_DATA_BYTES
  <2>. QED BY <1>1, <1>6, <2>1, ByteListInjective
<1>. QED BY <1>5, <1>8, <1>9, <1>10, <1>11 DEF ExecutionPayloadHeader

(* A read proof is determined by its root, but for the state root it       *)
(* declares.                                                               *)
Bare(r) == [r EXCEPT !.declared_state_root = NONE]

LEMMA SameRead ==
  ASSUME NEW x \in ReadProof, NEW y \in ReadProof
  PROVE  read_proof_root(x) = read_proof_root(y) <=> Bare(x) = Bare(y)
<1> DEFINE a == read_proof_chunks(x)
           b == read_proof_chunks(y)
<1>1. ASSUME NEW z \in ReadProof
      PROVE  /\ z.read_kind \in Number /\ z.presence \in Number /\ z.address \in Vector(20)
             /\ z.value \in List(Byte, 128) /\ z.account_proof \in List(Node, MAX_NODES)
             /\ z.storage_proof \in List(Node, MAX_NODES)
             /\ Bare(z) = [type |-> "read", read_kind |-> z.read_kind, address |-> z.address,
                           slot |-> z.slot, value |-> z.value, account_proof |-> z.account_proof,
                           storage_proof |-> z.storage_proof, presence |-> z.presence,
                           declared_state_root |-> NONE]
  BY DEF ReadProof, Bare
<1>2. ASSUME read_proof_root(x) = read_proof_root(y) PROVE Bare(x) = Bare(y)
  <2>1. Len(a) = 7 /\ Len(b) = 7 /\ 7 <= pow2[MAX_DEPTH]
    BY Sizes DEF read_proof_chunks
  <2>2. \A k \in 1 .. 7 : a[k] = b[k]
    <3> DEFINE n == 7
    <3>1. n \in Nat /\ merkle_root(a, NONE) = merkle_root(b, NONE)
      BY <1>2 DEF read_proof_root
    <3>2. Len(a) = n /\ Len(b) = n /\ n <= pow2[MAX_DEPTH]
      BY <2>1
    <3> HIDE DEF a, b, n
    <3>3. \A k \in 1 .. n : a[k] = b[k]
      BY ONLY <3>1, <3>2, ListRoot
    <3>. QED BY <3>3 DEF n
  <2>3. /\ a[1] = b[1] /\ a[2] = b[2] /\ a[3] = b[3] /\ a[4] = b[4] /\ a[5] = b[5] /\ a[6] = b[6]
        /\ a[7] = b[7]
    <3> HIDE DEF a, b
    <3>. QED BY <2>2
  <2>4. /\ uint_root(x.read_kind) = uint_root(y.read_kind) /\ uint_root(x.presence) = uint_root(y.presence)
        /\ Padded(x.address) = Padded(y.address) /\ x.slot = y.slot
        /\ bytelist_root(x.value, 128) = bytelist_root(y.value, 128)
        /\ node_roots(x.account_proof) = node_roots(y.account_proof)
        /\ node_roots(x.storage_proof) = node_roots(y.storage_proof)
    BY <2>3 DEF read_proof_chunks, bytes32_root, bytes20_root
  <2>5. x.read_kind = y.read_kind /\ x.presence = y.presence
    BY <1>1, <2>4, UintInjective
  <2>6. x.address = y.address
    BY <1>1, <2>4, AddressInjective
  <2>7. x.value = y.value
    <3>1. 128 \in 1 .. 256
      OBVIOUS
    <3>. QED BY <1>1, <2>4, <3>1, ByteListInjective
  <2>8. x.account_proof = y.account_proof /\ x.storage_proof = y.storage_proof
    BY <1>1, <2>4, NodesInjective
  <2>. QED BY <1>1, <2>4, <2>5, <2>6, <2>7, <2>8
<1>3. ASSUME Bare(x) = Bare(y) PROVE read_proof_root(x) = read_proof_root(y)
  <2>1. /\ x.read_kind = y.read_kind /\ x.address = y.address /\ x.slot = y.slot /\ x.value = y.value
        /\ x.account_proof = y.account_proof /\ x.storage_proof = y.storage_proof
        /\ x.presence = y.presence
    BY <1>1, <1>3
  <2>. QED BY <2>1, Zenon DEF read_proof_root, read_proof_chunks
<1>. QED BY <1>2, <1>3

(* What a committee signs, a header under a domain of a fork, is           *)
(* determined by its signing root.                                         *)
LEMMA SameSigning ==
  ASSUME NEW x \in SigningData, NEW y \in SigningData,
         merkle_root(signing_chunks(x), NONE) = merkle_root(signing_chunks(y), NONE)
  PROVE  x = y
<1> DEFINE a == signing_chunks(x)
           b == signing_chunks(y)
           domain(z) == compute_domain(z.domain_type, z.fork_version, z.gvr)
           leaves(z) == <<Padded(z.fork_version), bytes32_root(z.gvr)>>
<1>1. /\ x.header \in BeaconBlockHeader /\ y.header \in BeaconBlockHeader
      /\ x.fork_version \in Vector(4) /\ y.fork_version \in Vector(4)
  BY DEF SigningData
<1>2. ASSUME NEW p, NEW q, Len(p) = 2, Len(q) = 2, merkle_root(p, NONE) = merkle_root(q, NONE)
      PROVE  p[1] = q[1] /\ p[2] = q[2]
  <2> DEFINE n == 2
  <2>1. n \in Nat /\ Len(p) = n /\ Len(q) = n /\ n <= pow2[MAX_DEPTH]
    BY <1>2, Sizes
  <2> HIDE DEF n
  <2>2. \A k \in 1 .. n : p[k] = q[k]
    BY ONLY <1>2, <2>1, ListRoot
  <2>. QED BY <2>2 DEF n
<1>3. header_root(x.header) = header_root(y.header) /\ domain(x) = domain(y)
  <2>1. Len(a) = 2 /\ Len(b) = 2 /\ a[1] = header_root(x.header) /\ b[1] = header_root(y.header)
        /\ a[2] = domain(x) /\ b[2] = domain(y)
    BY DEF signing_chunks
  <2> HIDE DEF a, b, domain
  <2>2. merkle_root(a, NONE) = merkle_root(b, NONE)
    BY DEF a, b
  <2>. QED BY <1>2, <2>1, <2>2
<1>4. x.domain_type = y.domain_type /\ merkle_root(leaves(x), NONE) = merkle_root(leaves(y), NONE)
  <2>1. domain(x).domain_type = domain(y).domain_type /\ domain(x).fork_data = domain(y).fork_data
    BY <1>3
  <2>. QED BY <2>1 DEF compute_domain
<1>5. Padded(x.fork_version) = Padded(y.fork_version) /\ x.gvr = y.gvr
  <2>1. /\ Len(leaves(x)) = 2 /\ leaves(x)[1] = Padded(x.fork_version) /\ leaves(x)[2] = x.gvr
        /\ Len(leaves(y)) = 2 /\ leaves(y)[1] = Padded(y.fork_version) /\ leaves(y)[2] = y.gvr
    BY DEF bytes32_root
  <2> HIDE DEF leaves
  <2>. QED BY <1>2, <1>4, <2>1
<1>6. x.header = y.header
  BY <1>1, <1>3, HeaderInjective
<1>7. x.fork_version = y.fork_version
  <2>1. 4 \in 1 .. 20
    OBVIOUS
  <2>. QED BY <1>1, <1>5, <2>1, ShortInjective
<1>. QED BY <1>4, <1>5, <1>6, <1>7 DEF SigningData

(* The reads of an envelope, hashed with their number.                     *)
LEMMA SameReads ==
  ASSUME NEW p \in List(ReadProof, MAX_READS), NEW q \in List(ReadProof, MAX_READS)
  PROVE  LET roots(reads) == [k \in DOMAIN reads |-> read_proof_root(reads[k])]
             root(reads)  == mix_in_length(merkle_root(OrZeroChunk(roots(reads)), MAX_READS), Len(reads))
             bares(reads) == [k \in DOMAIN reads |-> Bare(reads[k])]
         IN  root(p) = root(q) <=> bares(p) = bares(q)
<1> DEFINE roots(reads) == [k \in DOMAIN reads |-> read_proof_root(reads[k])]
           tree(reads)  == merkle_root(OrZeroChunk(roots(reads)), MAX_READS)
           root(reads)  == mix_in_length(tree(reads), Len(reads))
           bares(reads) == [k \in DOMAIN reads |-> Bare(reads[k])]
           T == {read_proof_root(r) : r \in ReadProof}
           a == roots(p)
           b == roots(q)
<1>0. MAX_READS \in Nat \ {0} /\ MAX_READS <= pow2[MAX_DEPTH]
  BY Sizes DEF MAX_READS
<1>1. ASSUME NEW reads \in List(ReadProof, MAX_READS)
      PROVE  /\ reads \in Seq(ReadProof) /\ Len(reads) \in Nat /\ DOMAIN reads = 1 .. Len(reads)
             /\ Len(roots(reads)) = Len(reads)
             /\ \A k \in 1 .. Len(reads) : At(roots(reads), k, ZeroChunk) = read_proof_root(reads[k])
             /\ Len(OrZeroChunk(roots(reads))) \in 0 .. MAX_READS
             /\ \A k \in Nat \ {0} :
                  At(OrZeroChunk(roots(reads)), k, ZeroChunk) = At(roots(reads), k, ZeroChunk)
  <2>1. reads \in Seq(ReadProof) /\ Len(reads) <= MAX_READS
    BY Zenon DEF List
  <2>2. Len(reads) \in Nat /\ DOMAIN reads = 1 .. Len(reads)
    BY <2>1
  <2>3. \A k \in 1 .. Len(reads) : read_proof_root(reads[k]) \in T
    BY <2>1
  <2>4. roots(reads) \in Seq(T) /\ Len(roots(reads)) = Len(reads)
        /\ \A k \in 1 .. Len(reads) : roots(reads)[k] = read_proof_root(reads[k])
    <3> HIDE DEF T
    <3>. QED BY <2>2, <2>3
  <2> HIDE DEF T, roots
  <2>5. /\ Len(OrZeroChunk(roots(reads))) \in Nat
        /\ Len(OrZeroChunk(roots(reads))) = AtLeastOne(Len(reads))
        /\ \A k \in Nat \ {0} :
             At(OrZeroChunk(roots(reads)), k, ZeroChunk) = At(roots(reads), k, ZeroChunk)
    BY <2>4, ZeroChunkAdded
  <2>6. AtLeastOne(Len(reads)) <= MAX_READS
    BY <1>0, <2>1, <2>2 DEF AtLeastOne
  <2>7. \A k \in 1 .. Len(reads) : k <= Len(roots(reads))
    BY <2>2, <2>4
  <2>8. \A k \in 1 .. Len(reads) : At(roots(reads), k, ZeroChunk) = read_proof_root(reads[k])
    BY <2>4, <2>7, Zenon DEF At
  <2>. QED BY <1>0, <2>1, <2>2, <2>4, <2>5, <2>6, <2>8
<1>2. root(p) = root(q) <=> tree(p) = tree(q) /\ Len(p) = Len(q)
  <2> HIDE DEF tree
  <2>. QED BY MixInjective
<1> HIDE DEF roots
<1>3. tree(p) = tree(q) <=> \A k \in Nat \ {0} : At(a, k, ZeroChunk) = At(b, k, ZeroChunk)
  <2>1. tree(p) = tree(q)
          <=> \A k \in Nat \ {0} : At(OrZeroChunk(a), k, ZeroChunk) = At(OrZeroChunk(b), k, ZeroChunk)
    BY <1>0, <1>1, LimitedRoot
  <2>. QED BY <1>1, <2>1
<1> HIDE DEF tree
<1>4. ASSUME Len(p) = Len(q), NEW k \in 1 .. Len(p)
      PROVE  At(a, k, ZeroChunk) = At(b, k, ZeroChunk) <=> Bare(p[k]) = Bare(q[k])
  <2>1. p[k] \in ReadProof /\ q[k] \in ReadProof
    BY <1>1, <1>4
  <2>2. At(a, k, ZeroChunk) = read_proof_root(p[k]) /\ At(b, k, ZeroChunk) = read_proof_root(q[k])
    BY <1>1, <1>4
  <2>. QED BY <2>1, <2>2, SameRead
<1>5. ASSUME root(p) = root(q) PROVE bares(p) = bares(q)
  <2>1. Len(p) = Len(q) /\ \A k \in Nat \ {0} : At(a, k, ZeroChunk) = At(b, k, ZeroChunk)
    BY <1>2, <1>3, <1>5
  <2>2. \A k \in 1 .. Len(p) : k \in Nat \ {0}
    BY <1>1
  <2>3. \A k \in 1 .. Len(p) : Bare(p[k]) = Bare(q[k])
    BY <1>4, <2>1, <2>2
  <2>4. DOMAIN p = 1 .. Len(p) /\ DOMAIN q = 1 .. Len(p)
    BY <1>1, <2>1
  <2>. QED BY <2>3, <2>4, Zenon
<1>6. ASSUME bares(p) = bares(q) PROVE root(p) = root(q)
  <2>1. DOMAIN bares(p) = 1 .. Len(p) /\ DOMAIN bares(q) = 1 .. Len(q)
    BY <1>1
  <2>2. Len(p) = Len(q)
    BY <1>1, <1>6, <2>1
  <2>3. ASSUME NEW k \in 1 .. Len(p) PROVE Bare(p[k]) = Bare(q[k])
    <3>1. k \in DOMAIN p /\ k \in DOMAIN q
      BY <1>1, <2>2
    <3>2. bares(p)[k] = Bare(p[k]) /\ bares(q)[k] = Bare(q[k])
      BY <3>1
    <3>. QED BY <1>6, <3>2
  <2>4. ASSUME NEW k \in Nat \ {0} PROVE At(a, k, ZeroChunk) = At(b, k, ZeroChunk)
    <3>1. CASE k \in 1 .. Len(p)
      BY <1>4, <2>2, <2>3, <3>1
    <3>2. CASE k \notin 1 .. Len(p)
      <4>1. ~ (k <= Len(p)) /\ Len(a) = Len(p) /\ Len(b) = Len(p)
        BY <1>1, <2>2, <3>2
      <4>. QED BY <4>1, Zenon DEF At
    <3>. QED BY <3>1, <3>2
  <2>. QED BY <1>2, <1>3, <2>2, <2>4
<1>. QED BY <1>5, <1>6 DEF root, tree, roots, bares

(* Two envelopes have one root if they agree in all but the signature and  *)
(* the state roots their reads declare.                                    *)
LEMMA SameEnvelope ==
  ASSUME NEW x \in Envelope, NEW y \in Envelope
  PROVE  merkle_root(envelope_chunks(x), NONE) = merkle_root(envelope_chunks(y), NONE)
           <=> Identified(x) = Identified(y)
<1> DEFINE a == envelope_chunks(x)
           b == envelope_chunks(y)
           formats(z) == [k \in 1 .. 3 |-> uint_root(z.proof_format[k])]
           roots(z) == [k \in DOMAIN z.reads |-> read_proof_root(z.reads[k])]
           root(z)  == mix_in_length(merkle_root(OrZeroChunk(roots(z)), MAX_READS), Len(z.reads))
           bares(z) == [k \in DOMAIN z.reads |-> Bare(z.reads[k])]
<1>1. ASSUME NEW z \in Envelope
      PROVE  /\ z.version \in Number /\ z.chain_id \in Number /\ z.anchor_type \in Number
             /\ z.settlement_layer \in Number /\ z.block_number \in Number /\ z.beacon_slot \in Number
             /\ z.timestamp \in Number /\ z.finality_status \in Number /\ z.sig_alg \in Number
             /\ z.proof_format \in [1 .. 3 -> Number]
             /\ z.reads \in List(ReadProof, MAX_READS) /\ z.provider_key_hint \in List(Byte, 256)
  BY DEF Envelope
<1>2. ASSUME NEW z \in Envelope
      PROVE  Identified(z) =
               [type |-> "envelope", version |-> z.version, chain_id |-> z.chain_id,
                anchor_type |-> z.anchor_type, settlement_layer |-> z.settlement_layer,
                block_number |-> z.block_number, beacon_slot |-> z.beacon_slot,
                timestamp |-> z.timestamp, state_root |-> z.state_root,
                proof_format |-> z.proof_format, finality_status |-> z.finality_status,
                anchor_ref |-> z.anchor_ref, reads |-> bares(z), sig_alg |-> z.sig_alg,
                provider_sig |-> <<>>, provider_key_hint |-> z.provider_key_hint]
  <2>1. z.type = "envelope"
    BY DEF Envelope
  <2>2. Identified(z) = [z EXCEPT !.provider_sig = <<>>, !.reads = bares(z)]
    BY <2>1 DEF Identified, Bare
  <2> HIDE DEF bares
  <2>. QED BY <2>2 DEF Envelope
<1>3. root(x) = root(y) <=> bares(x) = bares(y)
  BY <1>1, SameReads
<1>4. Len(a) = 15 /\ Len(b) = 15 /\ 15 <= pow2[MAX_DEPTH]
  BY Sizes DEF envelope_chunks
<1>5. /\ a[9] = merkle_root(formats(x), NONE) /\ b[9] = merkle_root(formats(y), NONE)
      /\ a[12] = root(x) /\ b[12] = root(y)
  BY Zenon DEF envelope_chunks
<1>6. ASSUME merkle_root(a, NONE) = merkle_root(b, NONE) PROVE Identified(x) = Identified(y)
  <2>1. \A k \in 1 .. 15 : a[k] = b[k]
    <3> DEFINE n == 15
    <3>1. n \in Nat /\ merkle_root(a, NONE) = merkle_root(b, NONE)
      BY <1>6
    <3>2. Len(a) = n /\ Len(b) = n /\ n <= pow2[MAX_DEPTH]
      BY <1>4
    <3> HIDE DEF a, b, n
    <3>3. \A k \in 1 .. n : a[k] = b[k]
      BY ONLY <3>1, <3>2, ListRoot
    <3>. QED BY <3>3 DEF n
  <2>2. /\ a[1] = b[1] /\ a[2] = b[2] /\ a[3] = b[3] /\ a[4] = b[4] /\ a[5] = b[5] /\ a[6] = b[6]
        /\ a[7] = b[7] /\ a[8] = b[8] /\ a[9] = b[9] /\ a[10] = b[10] /\ a[11] = b[11]
        /\ a[12] = b[12] /\ a[13] = b[13] /\ a[15] = b[15]
    <3> HIDE DEF a, b
    <3>. QED BY <2>1
  <2>3. /\ x.state_root = y.state_root /\ x.anchor_ref = y.anchor_ref
        /\ bytelist_root(x.provider_key_hint, 256) = bytelist_root(y.provider_key_hint, 256)
    BY <2>2 DEF envelope_chunks, bytes32_root
  <2>4. /\ uint_root(x.version) = uint_root(y.version) /\ uint_root(x.chain_id) = uint_root(y.chain_id)
        /\ uint_root(x.anchor_type) = uint_root(y.anchor_type)
        /\ uint_root(x.settlement_layer) = uint_root(y.settlement_layer)
        /\ uint_root(x.block_number) = uint_root(y.block_number)
        /\ uint_root(x.beacon_slot) = uint_root(y.beacon_slot)
        /\ uint_root(x.timestamp) = uint_root(y.timestamp)
        /\ uint_root(x.finality_status) = uint_root(y.finality_status)
        /\ uint_root(x.sig_alg) = uint_root(y.sig_alg)
    BY <2>2 DEF envelope_chunks
  <2>5. /\ x.version = y.version /\ x.chain_id = y.chain_id /\ x.anchor_type = y.anchor_type
        /\ x.settlement_layer = y.settlement_layer /\ x.block_number = y.block_number
        /\ x.beacon_slot = y.beacon_slot /\ x.timestamp = y.timestamp
        /\ x.finality_status = y.finality_status /\ x.sig_alg = y.sig_alg
    BY <1>1, <2>4, UintInjective
  <2>6. x.proof_format = y.proof_format
    <3> DEFINE n == 3
    <3>1. n \in Nat /\ merkle_root(formats(x), NONE) = merkle_root(formats(y), NONE)
      BY <1>5, <2>2
    <3>2. Len(formats(x)) = n /\ Len(formats(y)) = n /\ n <= pow2[MAX_DEPTH]
      BY Sizes
    <3>3. \A k \in 1 .. 3 : formats(x)[k] = formats(y)[k]
      <4> HIDE DEF formats, n
      <4>1. \A k \in 1 .. n : formats(x)[k] = formats(y)[k]
        BY ONLY <3>1, <3>2, ListRoot
      <4>. QED BY <4>1 DEF n
    <3>4. ASSUME NEW k \in 1 .. 3 PROVE x.proof_format[k] = y.proof_format[k]
      <4>1. uint_root(x.proof_format[k]) = uint_root(y.proof_format[k])
        BY <3>3, Zenon
      <4>2. x.proof_format[k] \in Number /\ y.proof_format[k] \in Number
        BY <1>1
      <4>. QED BY <4>1, <4>2, UintInjective
    <3>. QED BY <1>1, <3>4
  <2>7. x.provider_key_hint = y.provider_key_hint
    <3>1. 256 \in 1 .. 256
      OBVIOUS
    <3>. QED BY <1>1, <2>3, <3>1, ByteListInjective
  <2>8. bares(x) = bares(y)
    <3> HIDE DEF a, b, root, bares
    <3>. QED BY <1>3, <1>5, <2>2
  <2> HIDE DEF bares
  <2>. QED BY <1>2, <2>3, <2>5, <2>6, <2>7, <2>8
<1>7. ASSUME Identified(x) = Identified(y) PROVE merkle_root(a, NONE) = merkle_root(b, NONE)
  <2>1. /\ x.version = y.version /\ x.chain_id = y.chain_id /\ x.anchor_type = y.anchor_type
        /\ x.settlement_layer = y.settlement_layer /\ x.block_number = y.block_number
        /\ x.beacon_slot = y.beacon_slot /\ x.timestamp = y.timestamp
        /\ x.state_root = y.state_root /\ x.proof_format = y.proof_format
        /\ x.finality_status = y.finality_status /\ x.anchor_ref = y.anchor_ref
        /\ bares(x) = bares(y) /\ x.sig_alg = y.sig_alg
        /\ x.provider_key_hint = y.provider_key_hint
    <3> HIDE DEF bares
    <3>. QED BY <1>2, <1>7
  <2>2. root(x) = root(y)
    BY <1>3, <2>1
  <2>3. a = b
    BY <2>1, <2>2, Zenon DEF envelope_chunks
  <2>. QED BY <2>3, Zenon
<1>. QED BY <1>6, <1>7

(* The flag of finality, hashed as a number, is hashed.                    *)
LEMMA FlagInjective ==
  ASSUME NEW p \in BOOLEAN, NEW q \in BOOLEAN,
         uint_root(IF p THEN 1 ELSE 0) = uint_root(IF q THEN 1 ELSE 0)
  PROVE  p = q
<1>1. 0 \in Number /\ 1 \in Number
  <2>1. \A k \in Nat \ {0} : pow2[k] \in Nat /\ 2 <= pow2[k]
    <3> SUFFICES ASSUME NEW k \in Nat \ {0} PROVE pow2[k] \in Nat /\ 2 <= pow2[k]
      OBVIOUS
    <3>1. k - 1 \in Nat /\ (k - 1) + 1 = k
      OBVIOUS
    <3>2. pow2[k - 1] \in Nat /\ pow2[k - 1] >= 1
      BY <3>1, PowerPositive
    <3>3. pow2[(k - 1) + 1] = 2 * pow2[k - 1]
      BY <3>1, PowersOfTwo
    <3>. QED BY <3>1, <3>2, <3>3
  <2>2. 8 * NUMBER_BYTES \in Nat \ {0}
    BY Sizes
  <2>. QED BY <2>1, <2>2 DEF Number
<1>2. uint_root(0) # uint_root(1)
  <2>1. 0 # 1
    OBVIOUS
  <2>. QED BY <1>1, <2>1, UintInjective
<1>3. CASE p /\ ~q
  BY <1>2, <1>3, Zenon
<1>4. CASE ~p /\ q
  BY <1>2, <1>4, Zenon
<1>5. p <=> q
  BY <1>3, <1>4
<1>. QED BY <1>5

(* Two anchors have one anchor_ref if they agree in the fields it          *)
(* identifies: what an envelope names by it is the anchor it came with.    *)
LEMMA SameAnchor ==
  ASSUME NEW x \in ConsensusAnchor, NEW y \in ConsensusAnchor
  PROVE  merkle_root(anchor_chunks(x), NONE) = merkle_root(anchor_chunks(y), NONE)
           <=> Identified(x) = Identified(y)
<1> DEFINE a == anchor_chunks(x)
           b == anchor_chunks(y)
           flag(z) == IF z.has_finality THEN 1 ELSE 0
           final(z) == IF z.has_finality THEN z.finalized_header ELSE ZERO_HEADER
           list(z, branch) == IF z.has_finality THEN branch ELSE <<>>
           kept(z, branch) == IF z.has_finality THEN WithoutTrailing(branch, ZeroChunk) ELSE <<>>
           bits(z) == <<WithoutTrailing(z.sync_committee_bits, FALSE), Height(z.sync_committee_bits)>>
           execution(z) == WithoutTrailing(z.execution_branch, ZeroChunk)
<1>1. ASSUME NEW z \in ConsensusAnchor
      PROVE  /\ z.attested_header \in BeaconBlockHeader /\ z.read_block_header \in BeaconBlockHeader
             /\ z.finalized_header \in BeaconBlockHeader
             /\ z.execution_header \in ExecutionPayloadHeader /\ z.signature_slot \in Number
             /\ z.sync_committee_bits \in List(BOOLEAN, MAX_BITS)
             /\ z.sync_committee_signature \in Vector(96) /\ z.has_finality \in BOOLEAN
             /\ z.execution_branch \in Branch /\ z.finality_branch \in Branch
             /\ z.ancestor_proof \in Branch
  BY DEF ConsensusAnchor
<1>2. ASSUME NEW z \in ConsensusAnchor
      PROVE  Identified(z) =
               [type |-> "anchor", attested_header |-> z.attested_header,
                signature_slot |-> z.signature_slot, sync_committee_bits |-> bits(z),
                sync_committee_signature |-> z.sync_committee_signature,
                read_block_header |-> z.read_block_header, execution_header |-> z.execution_header,
                execution_branch |-> execution(z), has_finality |-> z.has_finality,
                finalized_header |-> final(z), finality_branch |-> kept(z, z.finality_branch),
                ancestor_proof |-> kept(z, z.ancestor_proof)]
  <2>1. z.type = "anchor"
    BY DEF ConsensusAnchor
  <2>2. Identified(z) =
          [z EXCEPT !.sync_committee_bits = bits(z), !.execution_branch = execution(z),
                    !.finalized_header = final(z), !.finality_branch = kept(z, z.finality_branch),
                    !.ancestor_proof = kept(z, z.ancestor_proof)]
    BY <2>1 DEF Identified
  <2> HIDE DEF bits, execution, final, kept
  <2>. QED BY <2>2 DEF ConsensusAnchor
<1>3. bitvector_root(x.sync_committee_bits) = bitvector_root(y.sync_committee_bits) <=> bits(x) = bits(y)
  <2> DEFINE p == x.sync_committee_bits
             q == y.sync_committee_bits
  <2>1. p \in List(BOOLEAN, MAX_BITS) /\ q \in List(BOOLEAN, MAX_BITS)
    BY <1>1
  <2> HIDE DEF p, q
  <2>2. p \in Seq(BOOLEAN) /\ q \in Seq(BOOLEAN)
    BY <2>1, Zenon DEF List
  <2>3. WithoutTrailing(p, FALSE) = WithoutTrailing(q, FALSE)
          <=> \A i \in Nat \ {0} : At(p, i, FALSE) = At(q, i, FALSE)
    BY <2>2, SameTrailing
  <2>4. bitvector_root(p) = bitvector_root(q)
          <=> /\ Height(p) = Height(q)
              /\ \A i \in Nat \ {0} : At(p, i, FALSE) = At(q, i, FALSE)
    BY <2>1, SameBits
  <2>5. <<WithoutTrailing(p, FALSE), Height(p)>> = <<WithoutTrailing(q, FALSE), Height(q)>>
          <=> WithoutTrailing(p, FALSE) = WithoutTrailing(q, FALSE) /\ Height(p) = Height(q)
    OBVIOUS
  <2>. QED BY <2>3, <2>4, <2>5 DEF p, q
<1>4. merkle_root(x.execution_branch, MAX_BRANCH) = merkle_root(y.execution_branch, MAX_BRANCH)
        <=> execution(x) = execution(y)
  BY <1>1, SameBranch
<1>5. ASSUME x.has_finality = y.has_finality, NEW p \in Branch, NEW q \in Branch
      PROVE  merkle_root(list(x, p), MAX_BRANCH) = merkle_root(list(y, q), MAX_BRANCH)
               <=> kept(x, p) = kept(y, q)
  <2>1. CASE x.has_finality
    <3>1. list(x, p) = p /\ list(y, q) = q
      BY <1>5, <2>1, Zenon
    <3>2. /\ kept(x, p) = WithoutTrailing(p, ZeroChunk) /\ kept(y, q) = WithoutTrailing(q, ZeroChunk)
      BY <1>5, <2>1, Zenon
    <3> HIDE DEF list, kept
    <3>. QED BY <3>1, <3>2, SameBranch
  <2>2. CASE ~ x.has_finality
    <3>1. list(x, p) = <<>> /\ list(y, q) = <<>> /\ kept(x, p) = <<>> /\ kept(y, q) = <<>>
      BY <1>5, <2>2, Zenon
    <3> HIDE DEF list, kept
    <3>. QED BY <3>1, Zenon
  <2>. QED BY <2>1, <2>2, Zenon
<1>6. ASSUME NEW z
      PROVE  LET c == anchor_chunks(z)
             IN  /\ Len(c) = 11
                 /\ c[1] = header_root(z.attested_header) /\ c[2] = uint_root(z.signature_slot)
                 /\ c[3] = bitvector_root(z.sync_committee_bits)
                 /\ c[4] = bytevector_root(z.sync_committee_signature)
                 /\ c[5] = header_root(z.read_block_header)
                 /\ c[6] = execution_root(z.execution_header)
                 /\ c[7] = merkle_root(z.execution_branch, MAX_BRANCH)
                 /\ c[8] = uint_root(flag(z)) /\ c[9] = header_root(final(z))
                 /\ c[10] = merkle_root(list(z, z.finality_branch), MAX_BRANCH)
                 /\ c[11] = merkle_root(list(z, z.ancestor_proof), MAX_BRANCH)
  BY DEF anchor_chunks
<1>7. ASSUME merkle_root(a, NONE) = merkle_root(b, NONE) PROVE Identified(x) = Identified(y)
  <2>1. \A k \in 1 .. 11 : a[k] = b[k]
    <3> DEFINE n == 11
    <3>1. n \in Nat /\ merkle_root(a, NONE) = merkle_root(b, NONE)
      BY <1>7
    <3>2. Len(a) = n /\ Len(b) = n /\ n <= pow2[MAX_DEPTH]
      BY <1>6, Sizes
    <3> HIDE DEF a, b, n
    <3>3. \A k \in 1 .. n : a[k] = b[k]
      BY ONLY <3>1, <3>2, ListRoot
    <3>. QED BY <3>3 DEF n
  <2>2. /\ a[1] = b[1] /\ a[2] = b[2] /\ a[3] = b[3] /\ a[4] = b[4] /\ a[5] = b[5] /\ a[6] = b[6]
        /\ a[7] = b[7] /\ a[8] = b[8] /\ a[9] = b[9] /\ a[10] = b[10] /\ a[11] = b[11]
    <3> HIDE DEF a, b
    <3>. QED BY <2>1
  <2>3. /\ header_root(x.attested_header) = header_root(y.attested_header)
        /\ uint_root(x.signature_slot) = uint_root(y.signature_slot)
        /\ bitvector_root(x.sync_committee_bits) = bitvector_root(y.sync_committee_bits)
        /\ bytevector_root(x.sync_committee_signature) = bytevector_root(y.sync_committee_signature)
        /\ header_root(x.read_block_header) = header_root(y.read_block_header)
        /\ execution_root(x.execution_header) = execution_root(y.execution_header)
        /\ merkle_root(x.execution_branch, MAX_BRANCH) = merkle_root(y.execution_branch, MAX_BRANCH)
        /\ uint_root(flag(x)) = uint_root(flag(y)) /\ header_root(final(x)) = header_root(final(y))
        /\ merkle_root(list(x, x.finality_branch), MAX_BRANCH)
             = merkle_root(list(y, y.finality_branch), MAX_BRANCH)
        /\ merkle_root(list(x, x.ancestor_proof), MAX_BRANCH)
             = merkle_root(list(y, y.ancestor_proof), MAX_BRANCH)
    <3> HIDE DEF flag, final, list
    <3>. QED BY <1>6, <2>2
  <2>4. x.has_finality = y.has_finality
    BY <1>1, <2>3, FlagInjective
  <2>5. final(x) = final(y)
    <3>1. CASE x.has_finality
      <4>1. final(x) = x.finalized_header /\ final(y) = y.finalized_header
        BY <2>4, <3>1, Zenon
      <4> HIDE DEF final
      <4>. QED BY <1>1, <2>3, <4>1, HeaderInjective
    <3>2. CASE ~ x.has_finality
      BY <2>4, <3>2, Zenon
    <3>. QED BY <3>1, <3>2, Zenon
  <2>6. /\ kept(x, x.finality_branch) = kept(y, y.finality_branch)
        /\ kept(x, x.ancestor_proof) = kept(y, y.ancestor_proof)
    <3> HIDE DEF list, kept
    <3>. QED BY <1>1, <1>5, <2>3, <2>4
  <2>7. bits(x) = bits(y) /\ execution(x) = execution(y)
    BY <1>3, <1>4, <2>3
  <2>8. x.attested_header = y.attested_header /\ x.read_block_header = y.read_block_header
    BY <1>1, <2>3, HeaderInjective
  <2>9. x.execution_header = y.execution_header
    BY <1>1, <2>3, ExecutionInjective
  <2>10. x.signature_slot = y.signature_slot
    BY <1>1, <2>3, UintInjective
  <2>11. x.sync_committee_signature = y.sync_committee_signature
    <3>1. 96 \in 1 .. 256
      OBVIOUS
    <3>. QED BY <1>1, <2>3, <3>1, VectorInjective
  <2> HIDE DEF bits, execution, final, kept
  <2>. QED BY <1>2, <2>4, <2>5, <2>6, <2>7, <2>8, <2>9, <2>10, <2>11
<1>8. ASSUME Identified(x) = Identified(y) PROVE merkle_root(a, NONE) = merkle_root(b, NONE)
  <2>1. /\ x.attested_header = y.attested_header /\ x.signature_slot = y.signature_slot
        /\ bits(x) = bits(y) /\ x.sync_committee_signature = y.sync_committee_signature
        /\ x.read_block_header = y.read_block_header /\ x.execution_header = y.execution_header
        /\ execution(x) = execution(y) /\ x.has_finality = y.has_finality /\ final(x) = final(y)
        /\ kept(x, x.finality_branch) = kept(y, y.finality_branch)
        /\ kept(x, x.ancestor_proof) = kept(y, y.ancestor_proof)
    <3> HIDE DEF bits, execution, final, kept
    <3>. QED BY <1>2, <1>8
  <2>2. /\ bitvector_root(x.sync_committee_bits) = bitvector_root(y.sync_committee_bits)
        /\ merkle_root(x.execution_branch, MAX_BRANCH) = merkle_root(y.execution_branch, MAX_BRANCH)
    BY <1>3, <1>4, <2>1
  <2>3. /\ merkle_root(list(x, x.finality_branch), MAX_BRANCH)
             = merkle_root(list(y, y.finality_branch), MAX_BRANCH)
        /\ merkle_root(list(x, x.ancestor_proof), MAX_BRANCH)
             = merkle_root(list(y, y.ancestor_proof), MAX_BRANCH)
    <3> HIDE DEF list, kept
    <3>. QED BY <1>1, <1>5, <2>1
  <2>4. flag(x) = flag(y)
    BY <2>1, Zenon
  <2>5. a = b
    BY <2>1, <2>2, <2>3, <2>4, Zenon DEF anchor_chunks
  <2>. QED BY <2>5, Zenon
<1>. QED BY <1>7, <1>8

(* Reading the bytes of a committee's bits gives the bits.                 *)
LEMMA BitsRead ==
  ASSUME NEW bits \in Seq(BOOLEAN)
  PROVE  bits_from_hex(packed_bits(bits), Len(bits)) = bits
<1> DEFINE n == Len(bits)
           bytes == packed_bits(bits)
           m == CeilDiv(n, 8)
<1>1. n \in Nat /\ m \in Nat /\ n <= 8 * m
  BY CeilDivFacts
<1>2. bytes \in Seq(Byte) /\ Len(bytes) = m
      /\ \A j \in Nat \ {0} : \A r \in 0 .. 7 :
           (At(bytes, j, 0) \div pow2[r]) % 2 = Bit(bits, 8 * (j - 1) + (r + 1))
  BY BitsBack
<1> HIDE DEF bytes, m
<1>3. ASSUME NEW i \in 1 .. n
      PROVE  ((bytes[(i - 1) \div 8 + 1] \div pow2[(i - 1) % 8]) % 2 = 1) = bits[i]
  <2> DEFINE j == (i - 1) \div 8 + 1
             r == (i - 1) % 8
  <2>0. i \in Nat \ {0} /\ i <= n
    BY <1>1
  <2>1. j \in Nat \ {0} /\ r \in 0 .. 7 /\ 8 * (j - 1) + (r + 1) = i
    BY <2>0, BitPlace
  <2> HIDE DEF j, r
  <2>2. j <= Len(bytes)
    <3>1. \A x, y, z \in Nat : 8 * (x - 1) + (z + 1) <= 8 * y => x <= y
      OBVIOUS
    <3>2. r \in Nat /\ j \in Nat /\ 8 * (j - 1) + (r + 1) <= 8 * m
      BY <1>1, <2>0, <2>1
    <3>. QED BY <1>1, <1>2, <3>1, <3>2
  <2>3. At(bytes, j, 0) = bytes[j]
    BY <2>2, Zenon DEF At
  <2>4. (bytes[j] \div pow2[r]) % 2 = Bit(bits, i)
    BY <1>2, <2>1, <2>3
  <2>5. At(bits, i, FALSE) = bits[i]
    BY <2>0, Zenon DEF At
  <2>6. bits[i] \in BOOLEAN
    BY <1>1
  <2>7. Bit(bits, i) = 1 <=> bits[i]
    BY <2>0, <2>5, BitAt
  <2>8. ((bytes[j] \div pow2[r]) % 2 = 1) <=> bits[i]
    BY <2>4, <2>7, Zenon
  <2>. QED BY <2>6, <2>8, Zenon DEF j, r
<1>4. bits = [i \in 1 .. n |-> bits[i]]
  BY <1>1
<1>5. bits_from_hex(bytes, n) =
        [i \in 1 .. n |-> (bytes[(i - 1) \div 8 + 1] \div pow2[(i - 1) % 8]) % 2 = 1]
  BY Zenon DEF bits_from_hex
<1>6. bits_from_hex(bytes, n) = [i \in 1 .. n |-> bits[i]]
  BY <1>3, <1>5, Zenon
<1>. QED BY <1>4, <1>6, Zenon DEF bytes

(* An object is of the type its field says.                                *)
LEMMA ObjectType ==
  ASSUME NEW o \in Objects
  PROVE  /\ o \in BeaconBlockHeader <=> o.type = "header"
         /\ o \in ExecutionPayloadHeader <=> o.type = "execution"
         /\ o \in ConsensusAnchor <=> o.type = "anchor"
         /\ o \in ReadProof <=> o.type = "read"
         /\ o \in Envelope <=> o.type = "envelope"
         /\ o \in SigningData <=> o.type = "signing"
<1>1. o \in BeaconBlockHeader => o.type = "header"
  BY DEF BeaconBlockHeader
<1>2. o \in ExecutionPayloadHeader => o.type = "execution"
  BY DEF ExecutionPayloadHeader
<1>3. o \in ConsensusAnchor => o.type = "anchor"
  BY DEF ConsensusAnchor
<1>4. o \in ReadProof => o.type = "read"
  BY DEF ReadProof
<1>5. o \in Envelope => o.type = "envelope"
  BY DEF Envelope
<1>6. o \in SigningData => o.type = "signing"
  BY DEF SigningData
<1>. QED BY <1>1, <1>2, <1>3, <1>4, <1>5, <1>6, ObjectsAssumption

(* Two objects of one type have one root if they agree in what it          *)
(* identifies.                                                             *)
LEMMA SameObject ==
  ASSUME NEW x \in Objects, NEW y \in Objects, x.type = y.type
  PROVE  Roots[x] = Roots[y] <=> Identified(x) = Identified(y)
<1>0. Roots[x] = merkle_root(Chunks(x), NONE) /\ Roots[y] = merkle_root(Chunks(y), NONE)
  BY Zenon DEF Roots
<1>1. CASE x \in BeaconBlockHeader
  <2>1. y \in BeaconBlockHeader /\ x.type = "header" /\ y.type = "header"
    BY <1>1, ObjectType
  <2>2. Chunks(x) = header_chunks(x) /\ Chunks(y) = header_chunks(y)
        /\ Identified(x) = x /\ Identified(y) = y
    BY <2>1 DEF Chunks, Identified
  <2>3. x = y => header_root(x) = header_root(y)
    BY Zenon
  <2>. QED BY <1>0, <1>1, <2>1, <2>2, <2>3, HeaderInjective DEF header_root
<1>2. CASE x \in ExecutionPayloadHeader
  <2>1. y \in ExecutionPayloadHeader /\ x.type = "execution" /\ y.type = "execution"
    BY <1>2, ObjectType
  <2>2. Chunks(x) = execution_chunks(x) /\ Chunks(y) = execution_chunks(y)
        /\ Identified(x) = x /\ Identified(y) = y
    BY <2>1 DEF Chunks, Identified
  <2>3. x = y => execution_root(x) = execution_root(y)
    BY Zenon
  <2>. QED BY <1>0, <1>2, <2>1, <2>2, <2>3, ExecutionInjective DEF execution_root
<1>3. CASE x \in ConsensusAnchor
  <2>1. y \in ConsensusAnchor /\ x.type = "anchor" /\ y.type = "anchor"
    BY <1>3, ObjectType
  <2>2. Chunks(x) = anchor_chunks(x) /\ Chunks(y) = anchor_chunks(y)
    BY <2>1 DEF Chunks
  <2>. QED BY <1>0, <1>3, <2>1, <2>2, SameAnchor
<1>4. CASE x \in ReadProof
  <2>1. y \in ReadProof /\ x.type = "read" /\ y.type = "read"
    BY <1>4, ObjectType
  <2>2. Chunks(x) = read_proof_chunks(x) /\ Chunks(y) = read_proof_chunks(y)
        /\ Identified(x) = Bare(x) /\ Identified(y) = Bare(y)
    BY <2>1 DEF Chunks, Identified, Bare
  <2>. QED BY <1>0, <1>4, <2>1, <2>2, SameRead DEF read_proof_root
<1>5. CASE x \in Envelope
  <2>1. y \in Envelope /\ x.type = "envelope" /\ y.type = "envelope"
    BY <1>5, ObjectType
  <2>2. Chunks(x) = envelope_chunks(x) /\ Chunks(y) = envelope_chunks(y)
    BY <2>1 DEF Chunks
  <2>. QED BY <1>0, <1>5, <2>1, <2>2, SameEnvelope
<1>6. CASE x \in SigningData
  <2>1. y \in SigningData /\ x.type = "signing" /\ y.type = "signing"
    BY <1>6, ObjectType
  <2>2. Chunks(x) = signing_chunks(x) /\ Chunks(y) = signing_chunks(y)
        /\ Identified(x) = x /\ Identified(y) = y
    BY <2>1 DEF Chunks, Identified
  <2>3. x = y => merkle_root(signing_chunks(x), NONE) = merkle_root(signing_chunks(y), NONE)
    BY Zenon
  <2>. QED BY <1>0, <1>6, <2>1, <2>2, <2>3, SameSigning
<1>. QED BY <1>1, <1>2, <1>3, <1>4, <1>5, <1>6, ObjectsAssumption

---------------------------------------------------------------------------
(* The root of an object is taken by the loop of merkleize *)

(* hash_tree_root hands its field roots, and no limit, to merkleize.       *)
Object ==
  object # NONE =>
    object \in Objects /\ data = NONE /\ limit = NONE /\ chunks = Chunks(object)

RInv == IInv /\ Object

(* An object has at most seventeen fields, a sequence of roots.            *)
LEMMA ChunkCount ==
  ASSUME NEW o \in Objects
  PROVE  IsSequence(Chunks(o)) /\ Len(Chunks(o)) \in Nat /\ Len(Chunks(o)) <= 17
<1>1. CASE o \in BeaconBlockHeader
  <2>1. o.type = "header"
    BY <1>1 DEF BeaconBlockHeader
  <2>2. Chunks(o) = header_chunks(o)
    BY <2>1 DEF Chunks
  <2>. QED BY <2>2 DEF header_chunks, IsSequence
<1>2. CASE o \in ExecutionPayloadHeader
  <2>1. o.type = "execution"
    BY <1>2 DEF ExecutionPayloadHeader
  <2>2. Chunks(o) = execution_chunks(o)
    BY <2>1 DEF Chunks
  <2>. QED BY <2>2 DEF execution_chunks, IsSequence
<1>3. CASE o \in ConsensusAnchor
  <2>1. o.type = "anchor"
    BY <1>3 DEF ConsensusAnchor
  <2>2. Chunks(o) = anchor_chunks(o)
    BY <2>1 DEF Chunks
  <2>. QED BY <2>2 DEF anchor_chunks, IsSequence
<1>4. CASE o \in ReadProof
  <2>1. o.type = "read"
    BY <1>4 DEF ReadProof
  <2>2. Chunks(o) = read_proof_chunks(o)
    BY <2>1 DEF Chunks
  <2>. QED BY <2>2 DEF read_proof_chunks, IsSequence
<1>5. CASE o \in Envelope
  <2>1. o.type = "envelope"
    BY <1>5 DEF Envelope
  <2>2. Chunks(o) = envelope_chunks(o)
    BY <2>1 DEF Chunks
  <2>. QED BY <2>2 DEF envelope_chunks, IsSequence
<1>6. CASE o \in SigningData
  <2>1. o.type = "signing"
    BY <1>6 DEF SigningData
  <2>2. Chunks(o) = signing_chunks(o)
    BY <2>1 DEF Chunks
  <2>. QED BY <2>2 DEF signing_chunks, IsSequence
<1>. QED BY <1>1, <1>2, <1>3, <1>4, <1>5, <1>6, ObjectsAssumption

(* The tree over the fields is not higher than the zero subtrees.          *)
LEMMA ObjectFits ==
  ASSUME NEW o \in Objects
  PROVE  IsSequence(Chunks(o)) /\ Len(Chunks(o)) \in Nat /\ Len(Chunks(o)) <= pow2[MAX_DEPTH]
<1>1. IsSequence(Chunks(o)) /\ Len(Chunks(o)) \in Nat /\ Len(Chunks(o)) <= 17
  BY ChunkCount
<1>2. \A n \in Nat : n <= 17 => n <= pow2[MAX_DEPTH]
  BY Sizes
<1>. QED BY <1>1, <1>2

(* The invariant of a run that takes the root of an object.                *)
LEMMA RootInductive ==
  /\ RootInit => RInv
  /\ RInv /\ [RootNext]_<<vars, object>> => RInv'
<1>1. ASSUME Init, object = NONE PROVE RInv
  BY <1>1, Inductive DEF RInv, Object
<1>2. ASSUME object \in Objects, pc = "call", data = NONE, chunks = Chunks(object), limit = NONE,
             cur = <<>>, depth = 0
      PROVE  RInv
  <2>1. IsSequence(chunks) /\ Len(chunks) \in Nat /\ Len(chunks) <= pow2[MAX_DEPTH]
    BY <1>2, ObjectFits
  <2>2. target_levels \in 0 .. MAX_DEPTH
    BY <1>2, <2>1, Target DEF target_levels
  <2>3. Input /\ TypeOK
    BY <1>2, <2>1, <2>2, Sizes DEF Input, TypeOK
  <2>. QED BY <1>2, <2>3 DEF RInv, IInv, Object, Level, Root
<1>3. RootInit => RInv
  BY <1>1, <1>2 DEF RootInit
<1>4. ASSUME RInv, [RootNext]_<<vars, object>> PROVE RInv'
  <2>1. [Next]_vars /\ UNCHANGED <<call, object>>
    BY <1>4 DEF RootNext, Next, TooManyChunks, NoChunks, Enter, CombineLevel, Finish, Return, vars, call
  <2>2. IInv'
    BY <1>4, <2>1, Inductive DEF RInv
  <2>3. Object'
    BY <1>4, <2>1, Zenon DEF RInv, Object, call
  <2>. QED BY <2>2, <2>3 DEF RInv
<1>. QED BY <1>3, <1>4

(* The reduction is right for objects too: taking the root of a container  *)
(* keeps within the padded tree, and every level and the result are those  *)
(* of the tree over its field roots.                                       *)
THEOREM ContainerRoots == RootSpec => [](TypeOK /\ LevelExact /\ RootExact /\ BytesBound)
<1>1. RInv => TypeOK /\ LevelExact /\ RootExact /\ BytesBound
  BY LevelRoots, BytesApart DEF RInv, IInv, Root, RootExact
<1>. QED BY <1>1, RootInductive, PTL DEF RootSpec

(* What merkleize returns for an object identifies it: no two envelopes,   *)
(* anchors, reads, headers or signed messages share a root unless they     *)
(* agree in every field the root stands for, whatever the sizes of their   *)
(* numbers, committees, branches and proofs; and then they do share it.    *)
THEOREM RootsIdentify == RootSpec => []RootIdentifies
<1>1. RInv => RootIdentifies
  <2> SUFFICES ASSUME RInv, pc = "done", object # NONE,
                      NEW other \in Objects, other.type = object.type
               PROVE  Roots[other] = result <=> Identified(other) = Identified(object)
    BY DEF RootIdentifies
  <2>1. object \in Objects /\ data = NONE /\ limit = NONE /\ chunks = Chunks(object)
    BY DEF RInv, Object
  <2>2. Len(chunks) \in Nat /\ Len(chunks) <= pow2[MAX_DEPTH]
    BY <2>1, ObjectFits
  <2>3. target_levels = levels(AtLeastOne(Len(chunks))) /\ Fits
    BY <2>1, <2>2, Target DEF target_levels, Fits
  <2>4. result = PaddedRoot(chunks, levels(AtLeastOne(Len(chunks))))
    BY <2>1, <2>3 DEF RInv, IInv, Root
  <2>5. result = merkle_root(Chunks(object), NONE)
    BY <2>1, <2>4, Zenon DEF merkle_root
  <2>6. result = Roots[object]
    BY <2>1, <2>5, Zenon DEF Roots
  <2>. QED BY <2>1, <2>6, SameObject
<1>. QED BY <1>1, RootInductive, PTL DEF RootSpec

(* The bits of every committee come back from the bytes they are packed    *)
(* into, whole bytes or not.                                               *)
THEOREM BitsReturn == RootSpec => []BitsRoundTrip
<1>1. RInv => BitsRoundTrip
  <2> SUFFICES ASSUME RInv, object # NONE, object.type = "anchor"
               PROVE  LET bits == object.sync_committee_bits
                      IN  bits_from_hex(packed_bits(bits), Len(bits)) = bits
    BY DEF BitsRoundTrip
  <2> DEFINE bits == object.sync_committee_bits
             bytes == packed_bits(bits)
  <2>1. object \in ConsensusAnchor
    BY ObjectType DEF RInv, Object
  <2>2. bits \in Seq(BOOLEAN)
    <3>1. bits \in List(BOOLEAN, MAX_BITS)
      BY <2>1 DEF ConsensusAnchor
    <3>. QED BY <3>1, Zenon DEF List
  <2> HIDE DEF bits
  <2>. QED BY <2>2, BitsRead DEF bits
<1>. QED BY <1>1, RootInductive, PTL DEF RootSpec
===========================================================================
