--------------------------- MODULE MptWalkProofs ---------------------------
(***************************************************************************)
(* Proofs about MptWalk for every trie, every set of proof nodes, every    *)
(* key and every root.                                                     *)
(***************************************************************************)
EXTENDS MptBuild, TLAPS

(* A suffix of a suffix is a suffix, and dropping twice drops the sum.     *)
LEMMA SuffixType ==
  ASSUME NEW p \in Suffix
  PROVE  /\ Len(p) \in Nat /\ Len(p) <= KeyLen
         /\ \A j \in 1 .. Len(p) : p[j] \in Nibble
         /\ p \in [1 .. Len(p) -> Nibble]
<1>1. PICK k \in 0 .. KeyLen : p \in [1 .. k -> Nibble]
  BY DEF Suffix
<1>2. Len(p) = k
  BY <1>1, KeysAssumption
<1>. QED  BY <1>1, <1>2, KeysAssumption

LEMMA DropType ==
  ASSUME NEW p \in Suffix, NEW n \in 0 .. Len(p)
  PROVE  Drop(p, n) \in Suffix /\ Len(Drop(p, n)) = Len(p) - n
<1>1. Len(p) \in Nat /\ Len(p) <= KeyLen /\ \A j \in 1 .. Len(p) : p[j] \in Nibble
  BY SuffixType
<1>2. \A j \in 1 .. Len(p) - n : p[j + n] \in Nibble
  BY <1>1
<1>3. Drop(p, n) \in [1 .. Len(p) - n -> Nibble]
  BY <1>2 DEF Drop
<1>4. Len(p) - n \in 0 .. KeyLen
  BY <1>1, KeysAssumption
<1>5. Len(Drop(p, n)) = Len(p) - n
  BY <1>3, <1>4, KeysAssumption
<1>. QED  BY <1>3, <1>4, <1>5 DEF Suffix

LEMMA DropDrop ==
  ASSUME NEW p \in Suffix, NEW m \in 0 .. Len(p), NEW n \in 0 .. Len(p) - m
  PROVE  Drop(Drop(p, m), n) = Drop(p, m + n)
<1>1. Len(p) \in Nat /\ Len(Drop(p, m)) = Len(p) - m
  BY SuffixType, DropType
<1>2. Len(Drop(p, m)) - n = Len(p) - (m + n)
  BY <1>1
<1>3. \A j \in 1 .. Len(p) - (m + n) : Drop(p, m)[j + n] = p[j + (m + n)]
  BY <1>1 DEF Drop
<1>. QED  BY <1>2, <1>3 DEF Drop

LEMMA DropNothing ==
  ASSUME NEW p \in Suffix
  PROVE  Drop(p, 0) = p
<1>1. Len(p) \in Nat /\ p \in [1 .. Len(p) -> Nibble]
  BY SuffixType
<1>2. \A j \in 1 .. Len(p) : p[j + 0] = p[j]
  BY <1>1
<1>. QED  BY <1>1, <1>2 DEF Drop

---------------------------------------------------------------------------
(* Every fetched node is known, and the index stays inside the key.        *)
LEMMA ExtensionFits ==
  ASSUME TypeOK, At("extension"), IsPrefix(Fetched.path, Remaining)
  PROVE  /\ Len(Fetched.path) \in 0 .. Len(key) - idx
         /\ Remaining \in Suffix
<1>1. Len(Fetched.path) \in Nat
  BY TrieAssumption, NodeAssumption DEF TypeOK, At, Fetched
<1>2. Remaining \in Suffix /\ Len(Remaining) = Len(key) - idx /\ Len(key) \in Nat
  BY DropType, SuffixType DEF TypeOK, Remaining
<1>3. Len(Fetched.path) <= Len(Remaining)
  BY DEF IsPrefix
<1>. QED  BY <1>1, <1>2, <1>3 DEF TypeOK

LEMMA BranchFits ==
  ASSUME TypeOK, idx # Len(key)
  PROVE  /\ 1 \in 0 .. Len(key) - idx
         /\ Remaining \in Suffix /\ Len(Remaining) > 0
         /\ Remaining[1] = key[idx + 1] /\ key[idx + 1] \in Nibble
<1>1. Len(key) \in Nat /\ idx \in 0 .. Len(key) - 1
  BY SuffixType DEF TypeOK
<1>2. Remaining \in Suffix /\ Len(Remaining) = Len(key) - idx
  BY DropType DEF TypeOK, Remaining
<1>3. Remaining[1] = key[1 + idx]
  BY <1>1 DEF Remaining, Drop
<1>4. key[idx + 1] \in Nibble
  BY <1>1, SuffixType DEF TypeOK
<1>. QED  BY <1>1, <1>2, <1>3, <1>4

(* A descent of n nibbles keeps the types, and only known nodes are added. *)
LEMMA DescendType ==
  ASSUME TypeOK, NEW ref, NEW n \in 0 .. Len(key) - idx, Descend(ref, n),
         ref.type = "inlined" => ref.node \in Node
  PROVE  TypeOK'
<1>1. CASE ref.type \in {"hash", "inlined"}
  <2>1. idx + n \in 0 .. Len(key)
    BY SuffixType DEF TypeOK
  <2>. QED  BY <1>1, <2>1 DEF Descend, TypeOK, args
<1>2. CASE ref.type \notin {"hash", "inlined"}
  BY <1>2 DEF Descend, TypeOK, args, End
<1>. QED  BY <1>1, <1>2

(* The arguments, the index and the outcome of the walk stay in range.     *)
THEOREM TypeCorrect == Spec => []TypeOK
<1>1. Init => TypeOK
  <2> SUFFICES ASSUME Init PROVE TypeOK
    OBVIOUS
  <2>1. key \in Suffix /\ nodes \subseteq Node
    BY KeysAssumption DEF Init
  <2>. QED  BY <2>1, SuffixType DEF Init, TypeOK, Walking, Pending
<1>2. TypeOK /\ [Next]_vars => TypeOK'
  <2> SUFFICES ASSUME TypeOK, [Next]_vars
               PROVE  TypeOK'
    OBVIOUS
  <2>e. ASSUME NEW t \in {"value", "absent", "ValueError", "raise"}, NEW v, End(t, v)
        PROVE  TypeOK'
    BY <2>e DEF End, TypeOK, args
  <2>1. CASE WalkEmptyTrie
    BY <2>1, <2>e DEF WalkEmptyTrie
  <2>2. CASE WalkMissingNode
    BY <2>2, <2>e DEF WalkMissingNode
  <2>3. CASE WalkMalformed
    BY <2>3, <2>e DEF WalkMalformed
  <2>4. CASE WalkUndecodable
    BY <2>4, <2>e DEF WalkUndecodable
  <2>5. CASE WalkBranchValue
    BY <2>5, <2>e DEF WalkBranchValue
  <2>6. CASE WalkBranchEmptySlot
    BY <2>6, <2>e DEF WalkBranchEmptySlot
  <2>7. CASE WalkBranchDescend
    <3> DEFINE ref == Fetched.child[key[idx + 1]]
    <3>1. expected \in Node /\ Fetched.kind = "branch" /\ idx # Len(key) /\ Descend(ref, 1)
      BY <2>7 DEF WalkBranchDescend, At, TypeOK
    <3>2. ref.type = "inlined" => ref.node \in Node
      BY <3>1, BranchFits, NodeAssumption DEF Fetched
    <3>. QED  BY <3>1, <3>2, BranchFits, DescendType
  <2>8. CASE WalkLeaf
    BY <2>8, <2>e DEF WalkLeaf
  <2>9. CASE WalkExtensionDiverges
    BY <2>9, <2>e DEF WalkExtensionDiverges
  <2>10. CASE WalkExtensionDescend
    <3>1. expected \in Node /\ Fetched.kind = "extension" /\ Descend(Fetched.child, Len(Fetched.path))
      BY <2>10 DEF WalkExtensionDescend, At, TypeOK
    <3>2. Fetched.child.type = "inlined" => Fetched.child.node \in Node
      BY <3>1, NodeAssumption DEF Fetched
    <3>3. Len(Fetched.path) \in 0 .. Len(key) - idx
      BY <2>10, ExtensionFits DEF WalkExtensionDescend
    <3>. QED  BY <3>1, <3>2, <3>3, DescendType
  <2>11. CASE Return
    <3>1. Answer.type \in {"found", "None", "True", "False", "raise"}
      BY Zenon DEF Answer
    <3>. QED  BY <2>11, <3>1 DEF Return, TypeOK, args
  <2>12. CASE UNCHANGED vars
    BY <2>12 DEF vars, TypeOK
  <2>. QED
    BY <2>1, <2>2, <2>3, <2>4, <2>5, <2>6, <2>7, <2>8, <2>9, <2>10, <2>11, <2>12
       DEF Next, WalkStep
<1>. QED  BY <1>1, <1>2, PTL DEF Spec

---------------------------------------------------------------------------
(* The invariant of the walk: what the trie holds at the key is what the   *)
(* subtrie still to be fetched holds at the nibbles still to be matched.   *)
Tracking == outcome = Walking => ContentAt(root, key) = ContentAt(expected, Remaining)
IInv == TypeOK /\ Tracking /\ WalkSound /\ AnswerSound

LEMMA AtNode ==
  ASSUME TypeOK, Tracking, NEW kind, At(kind)
  PROVE  /\ expected \in DOMAIN Trie
         /\ Trie[expected].kind = kind
         /\ Remaining \in Suffix
         /\ ContentAt(root, key) = Content[expected][Remaining]
<1>1. expected \in DOMAIN Trie /\ Trie[expected].kind = kind
  BY NodeAssumption DEF At, TypeOK, Fetched
<1>2. Remaining \in Suffix
  BY DropType DEF TypeOK, Remaining
<1>3. ContentAt(root, key) = Content[expected][Remaining]
  BY DEF At, Tracking, ContentAt
<1>. QED  BY <1>1, <1>2, <1>3

(* Following a reference along n matched nibbles keeps track.              *)
LEMMA DescendTracks ==
  ASSUME TypeOK, NEW ref, NEW n \in 0 .. Len(key) - idx, Descend(ref, n),
         ref.type \in {"hash", "inlined"} =>
           ContentAt(root, key) = ContentAt(ref.node, Drop(Remaining, n)),
         outcome = Walking, AnswerSound
  PROVE  Tracking' /\ WalkSound' /\ AnswerSound'
<1>1. CASE ref.type \in {"hash", "inlined"}
  <2>1. Drop(Remaining, n) = Drop(key, idx + n)
    BY DropDrop DEF TypeOK, Remaining
  <2>2. UNCHANGED <<root, key, outcome, answer>> /\ idx' = idx + n /\ expected' = ref.node
    BY <1>1 DEF Descend, args
  <2>3. Remaining' = Drop(key, idx + n)
    BY <2>2 DEF Remaining
  <2>4. ContentAt(root, key)' = ContentAt(expected', Remaining')
    BY <1>1, <2>1, <2>2, <2>3 DEF ContentAt
  <2>. QED  BY <2>2, <2>4 DEF Tracking, ContentAt, WalkSound, AnswerSound, Walking, Pending
<1>2. CASE ref.type \notin {"hash", "inlined"}
  BY <1>2 DEF Descend, End, args, Tracking, WalkSound, AnswerSound, Walking, Pending
<1>. QED  BY <1>1, <1>2

(* Ending with a verdict is sound if the verdict is what the trie holds.   *)
LEMMA EndSound ==
  ASSUME NEW t \in {"value", "absent", "ValueError", "raise"}, NEW v, End(t, v),
         t = "value" => ContentAt(root, key) = v,
         t = "absent" => ContentAt(root, key) = ABSENT,
         AnswerSound
  PROVE  Tracking' /\ WalkSound' /\ AnswerSound'
<1>1. outcome' = [type |-> t, value |-> v] /\ UNCHANGED <<root, key, answer>>
  BY DEF End, args
<1>2. ContentAt(root, key)' = ContentAt(root, key)
  BY <1>1 DEF ContentAt
<1>3. outcome' # Walking
  BY <1>1 DEF Walking
<1>. QED  BY <1>1, <1>2, <1>3 DEF Tracking, WalkSound, AnswerSound

(* _walk is sound for every trie and every proof: a value it returns is    *)
(* the value that the trie committed by root holds at the key, and ABSENT  *)
(* means that it holds none; and so is every answer of the four functions. *)
THEOREM Soundness == Spec => [](WalkSound /\ AnswerSound)
<1>1. Init => IInv
  <2> SUFFICES ASSUME Init PROVE IInv
    OBVIOUS
  <2>1. TypeOK
    BY SuffixType, KeysAssumption DEF Init, TypeOK, Walking, Pending
  <2>2. Remaining = key
    BY <2>1, DropNothing DEF Init, Remaining, TypeOK
  <2>. QED  BY <2>1, <2>2 DEF Init, IInv, Tracking, WalkSound, AnswerSound, Walking, Pending
<1>2. IInv /\ TypeOK' /\ [Next]_vars => IInv'
  <2> SUFFICES ASSUME IInv, TypeOK', [Next]_vars
               PROVE  Tracking' /\ WalkSound' /\ AnswerSound'
    BY DEF IInv
  <2>t. TypeOK /\ Tracking /\ WalkSound /\ AnswerSound
    BY DEF IInv
  <2>1. CASE WalkEmptyTrie
    <3>1. ContentAt(root, key) = ABSENT
      BY <2>1, <2>t DEF WalkEmptyTrie, Tracking, ContentAt
    <3>. QED  BY <2>1, <2>t, <3>1, EndSound DEF WalkEmptyTrie
  <2>2. CASE WalkMissingNode
    BY <2>2, <2>t, EndSound DEF WalkMissingNode
  <2>3. CASE WalkMalformed
    BY <2>3, <2>t, EndSound DEF WalkMalformed
  <2>4. CASE WalkUndecodable
    BY <2>4, <2>t, EndSound DEF WalkUndecodable
  <2>5. CASE WalkBranchValue
    <3>1. At("branch") /\ idx = Len(key)
      BY <2>5 DEF WalkBranchValue
    <3>2. Len(Remaining) = 0
      <4>1. key \in Suffix /\ idx \in 0 .. Len(key) /\ Len(key) \in Nat
        BY <2>t, SuffixType DEF TypeOK
      <4>2. Len(Drop(key, idx)) = Len(key) - idx
        BY <4>1, DropType
      <4>. QED  BY <3>1, <4>1, <4>2 DEF Remaining
    <3>3. ContentAt(root, key) = IF Fetched.value = NoValue THEN ABSENT ELSE Fetched.value
      BY <2>t, <3>1, <3>2, AtNode, TrieAssumption DEF Fetched
    <3>. QED  BY <2>5, <2>t, <3>3, EndSound DEF WalkBranchValue
  <2>6. CASE WalkBranchEmptySlot
    <3>1. At("branch") /\ idx # Len(key) /\ Fetched.child[Remaining[1]].type = "empty"
      BY <2>6, <2>t, BranchFits DEF WalkBranchEmptySlot
    <3>2. ContentAt(root, key) = ABSENT
      BY <2>t, <3>1, BranchFits, AtNode, TrieAssumption DEF Fetched
    <3>. QED  BY <2>6, <2>t, <3>2, EndSound DEF WalkBranchEmptySlot
  <2>7. CASE WalkBranchDescend
    <3> DEFINE ref == Fetched.child[Remaining[1]]
    <3>1. At("branch") /\ idx # Len(key) /\ Descend(ref, 1)
      BY <2>7, <2>t, BranchFits DEF WalkBranchDescend
    <3>2. ref.type \in {"hash", "inlined"} =>
            ContentAt(root, key) = ContentAt(ref.node, Drop(Remaining, 1))
      BY <2>t, <3>1, BranchFits, AtNode, TrieAssumption DEF Fetched
    <3>3. outcome = Walking
      BY <3>1 DEF At
    <3>. QED  BY <2>t, <3>1, <3>2, <3>3, BranchFits, DescendTracks
  <2>8. CASE WalkLeaf
    <3>1. At("leaf")
      BY <2>8 DEF WalkLeaf
    <3>2. ContentAt(root, key) = IF Remaining = Fetched.path THEN Fetched.value ELSE ABSENT
      BY <2>t, <3>1, AtNode, TrieAssumption DEF Fetched
    <3>. QED  BY <2>8, <2>t, <3>2, EndSound DEF WalkLeaf
  <2>9. CASE WalkExtensionDiverges
    <3>1. At("extension") /\ ~IsPrefix(Fetched.path, Remaining)
      BY <2>9 DEF WalkExtensionDiverges
    <3>2. ContentAt(root, key) = ABSENT
      BY <2>t, <3>1, AtNode, TrieAssumption DEF Fetched
    <3>. QED  BY <2>9, <2>t, <3>2, EndSound DEF WalkExtensionDiverges
  <2>10. CASE WalkExtensionDescend
    <3>1. At("extension") /\ IsPrefix(Fetched.path, Remaining)
          /\ Descend(Fetched.child, Len(Fetched.path))
      BY <2>10 DEF WalkExtensionDescend
    <3>2. Fetched.child.type \in {"hash", "inlined"} =>
            ContentAt(root, key) = ContentAt(Fetched.child.node, Drop(Remaining, Len(Fetched.path)))
      BY <2>t, <3>1, AtNode, TrieAssumption DEF Fetched
    <3>3. outcome = Walking
      BY <3>1 DEF At
    <3>. QED  BY <2>t, <3>1, <3>2, <3>3, ExtensionFits, DescendTracks
  <2>11. CASE Return
    <3>1. UNCHANGED <<root, key, outcome>> /\ outcome # Walking /\ answer' = Answer
      BY <2>11 DEF Return, args
    <3>2. Answer.type = "found" => outcome.type = "value" /\ Answer.value = outcome.value
      BY Zenon DEF Answer
    <3>3. Answer.type = "True" => outcome.type = "absent"
      BY Zenon DEF Answer
    <3>4. ContentAt(root, key)' = ContentAt(root, key)
      BY <3>1 DEF ContentAt
    <3>. QED  BY <2>t, <3>1, <3>2, <3>3, <3>4 DEF Tracking, WalkSound, AnswerSound
  <2>12. CASE UNCHANGED vars
    <3>1. UNCHANGED <<root, key, outcome, answer, expected, idx>>
      BY <2>12 DEF vars
    <3>2. ContentAt(root, key)' = ContentAt(root, key)
          /\ ContentAt(expected, Remaining)' = ContentAt(expected, Remaining)
      BY <3>1 DEF ContentAt, Remaining
    <3>. QED  BY <2>t, <3>1, <3>2 DEF Tracking, WalkSound, AnswerSound
  <2>. QED
    BY <2>1, <2>2, <2>3, <2>4, <2>5, <2>6, <2>7, <2>8, <2>9, <2>10, <2>11, <2>12
       DEF Next, WalkStep
<1>3. IInv => WalkSound /\ AnswerSound
  BY DEF IInv
<1>. QED  BY <1>1, <1>2, <1>3, TypeCorrect, PTL DEF Spec

(* In particular the answers alone: whatever nodes a proof holds, an       *)
(* inclusion function returns only the committed value and an exclusion    *)
(* function says True only of an absent key.                               *)
THEOREM AnswersSound == Spec => []AnswerSound
BY Soundness, PTL

---------------------------------------------------------------------------
(* Below is well defined even if hashes could form a cycle: the functions  *)
(* that are closed under BelowNode have a least one.                       *)
Places   == Node \X Suffix
Nameable == Node \union {NoValue} \union {Trie[n].child.node : n \in Node}
              \union UNION {{Trie[n].child[x].node : x \in Nibble} : n \in Node}
Belows   == [Places -> SUBSET Nameable]

Leq(f, g) == \A s \in Places : f[s] \subseteq g[s]
Step(f)   == [s \in Places |-> BelowNode(f, s[1], s[2])]
Closed    == {f \in Belows : Leq(Step(f), f)}

LEMMA FollowingGrows ==
  ASSUME NEW f \in Belows, NEW g \in Belows, Leq(f, g), NEW ref, NEW p \in Suffix,
         ref.node \in Nameable, ref.type = "inlined" => ref.node \in Node
  PROVE  Following(f, ref, p) \subseteq Following(g, ref, p) /\ Following(f, ref, p) \subseteq Nameable
<1> DEFINE s == <<ref.node, p>>
<1>1. ASSUME ref.node \in Node
      PROVE  f[s] \subseteq g[s] /\ f[s] \subseteq Nameable
  <2>1. s \in Places
    BY <1>1 DEF Places
  <2>. QED BY <2>1 DEF Leq, Belows
<1>2. NoValue \in Nameable
  BY DEF Nameable
<1> HIDE DEF s
<1>3. CASE ref.type = "hash"
  <2>1. \A h : Following(h, ref, p) = IF ref.node = EMPTY_TRIE_ROOT THEN {}
                 ELSE {ref.node} \union (IF ref.node \in Node THEN h[s] ELSE {})
    BY <1>3 DEF Following, FetchedFrom, s
  <2>. QED BY <1>1, <2>1
<1>4. CASE ref.type = "inlined"
  <2>1. \A h : Following(h, ref, p) = h[s]
    BY <1>4 DEF Following, s
  <2>. QED BY <1>1, <1>4, <2>1
<1>5. CASE ref.type \notin {"hash", "inlined"}
  <2>1. \A h : Following(h, ref, p) = {NoValue}
    BY <1>5 DEF Following
  <2>. QED BY <1>2, <2>1
<1>. QED BY <1>3, <1>4, <1>5

LEMMA BelowNodeGrows ==
  ASSUME NEW f \in Belows, NEW g \in Belows, Leq(f, g), NEW n \in Node, NEW p \in Suffix
  PROVE  BelowNode(f, n, p) \subseteq BelowNode(g, n, p) /\ BelowNode(f, n, p) \subseteq Nameable
<1> DEFINE t == Trie[n]
<1>1. CASE t.kind = "branch" /\ Len(p) # 0 /\ t.child[p[1]].type # "empty"
  <2> DEFINE ref == t.child[p[1]]
  <2>1. \A h : BelowNode(h, n, p) = Following(h, ref, Drop(p, 1))
    BY <1>1 DEF BelowNode
  <2>2. p[1] \in Nibble /\ 1 \in 0 .. Len(p)
    BY <1>1, SuffixType
  <2>3. Drop(p, 1) \in Suffix
    BY <2>2, DropType
  <2>4. ref.node \in Nameable /\ (ref.type = "inlined" => ref.node \in Node)
    <3>1. ref.type = "inlined" => ref.node \in Node
      BY <1>1, <2>2, NodeAssumption
    <3>2. ref.node \in Nameable
      <4>1. ref.node \in {t.child[x].node : x \in Nibble}
        BY <2>2
      <4>2. \E y \in Node : ref.node \in {Trie[y].child[x].node : x \in Nibble}
        BY <4>1
      <4>3. ref.node \in UNION {{Trie[y].child[x].node : x \in Nibble} : y \in Node}
        BY <4>2
      <4>. QED BY <4>3, Zenon DEF Nameable
    <3>. QED BY <3>1, <3>2
  <2> HIDE DEF ref
  <2>. QED BY <2>1, <2>3, <2>4, FollowingGrows
<1>2. CASE t.kind = "extension" /\ IsPrefix(t.path, p)
  <2>1. \A h : BelowNode(h, n, p) = Following(h, t.child, Drop(p, Len(t.path)))
    BY <1>2 DEF BelowNode
  <2>2. Len(t.path) \in 0 .. Len(p)
    BY <1>2, SuffixType, TrieAssumption, NodeAssumption DEF IsPrefix
  <2>3. Drop(p, Len(t.path)) \in Suffix
    BY <2>2, DropType
  <2>4. t.child.node \in Nameable /\ (t.child.type = "inlined" => t.child.node \in Node)
    BY <1>2, NodeAssumption DEF Nameable
  <2> HIDE DEF t
  <2>. QED BY <2>1, <2>3, <2>4, FollowingGrows
<1>3. CASE /\ ~ (t.kind = "branch" /\ Len(p) # 0 /\ t.child[p[1]].type # "empty")
           /\ ~ (t.kind = "extension" /\ IsPrefix(t.path, p))
  <2>1. CASE t.kind \in {"leaf", "branch", "extension"}
    <3>1. \A h : BelowNode(h, n, p) = {}
      BY <1>3, <2>1 DEF BelowNode
    <3>. QED BY <3>1
  <2>2. CASE t.kind \notin {"leaf", "branch", "extension"}
    <3>1. \A h : BelowNode(h, n, p) = {NoValue}
      BY <2>2 DEF BelowNode
    <3>. QED BY <3>1 DEF Nameable
  <2>. QED BY <2>1, <2>2
<1>. QED BY <1>1, <1>2, <1>3

LEMMA StepGrows ==
  ASSUME NEW f \in Belows, NEW g \in Belows, Leq(f, g)
  PROVE  Leq(Step(f), Step(g)) /\ Step(f) \in Belows
<1>1. ASSUME NEW s \in Places
      PROVE  Step(f)[s] \subseteq Step(g)[s] /\ Step(f)[s] \subseteq Nameable
  <2>1. s[1] \in Node /\ s[2] \in Suffix
    BY DEF Places
  <2>2. Step(f)[s] = BelowNode(f, s[1], s[2]) /\ Step(g)[s] = BelowNode(g, s[1], s[2])
    BY DEF Step
  <2>3. BelowNode(f, s[1], s[2]) \subseteq BelowNode(g, s[1], s[2])
        /\ BelowNode(f, s[1], s[2]) \subseteq Nameable
    BY <2>1, BelowNodeGrows
  <2>. QED BY <2>2, <2>3
<1>2. DOMAIN Step(f) = Places /\ Step(f) = [s \in Places |-> Step(f)[s]]
  BY DEF Step
<1>3. Step(f) \in Belows
  BY <1>1, <1>2 DEF Belows
<1>. QED BY <1>1, <1>3 DEF Leq

LEMMA FixedPoint == \E f \in Belows : f = Step(f)
<1> DEFINE L == [s \in Places |-> {v \in Nameable : \A f \in Closed : v \in f[s]}]
<1>1. L \in Belows /\ \A f \in Closed : Leq(L, f)
  BY DEF Belows, Leq
<1>2. \A s \in Places : \A v \in Nameable : (\A f \in Closed : v \in f[s]) => v \in L[s]
  OBVIOUS
<1> HIDE DEF L
<1>3. Step(L) \in Belows
  <2>1. Leq(L, L)
    BY DEF Leq
  <2>. QED BY <1>1, <2>1, StepGrows
<1>4. Leq(Step(L), L)
  <2> SUFFICES ASSUME NEW s \in Places, NEW v \in Step(L)[s] PROVE v \in L[s]
    BY DEF Leq
  <2>1. v \in Nameable
    BY <1>3 DEF Belows
  <2>2. ASSUME NEW f \in Closed PROVE v \in f[s]
    <3>1. f \in Belows /\ Leq(Step(f), f) /\ Leq(L, f)
      BY <1>1 DEF Closed
    <3>2. Leq(Step(L), Step(f))
      BY <1>1, <3>1, StepGrows
    <3>. QED BY <3>1, <3>2 DEF Leq
  <2>. QED BY <1>2, <2>1, <2>2
<1>5. Leq(L, Step(L))
  <2>1. Leq(Step(Step(L)), Step(L))
    BY <1>1, <1>3, <1>4, StepGrows
  <2>2. Step(L) \in Closed
    BY <1>3, <2>1 DEF Closed
  <2>. QED BY <1>1, <2>2
<1>6. \A s \in Places : L[s] = Step(L)[s]
  BY <1>4, <1>5 DEF Leq
<1>7. L = Step(L)
  BY <1>1, <1>3, <1>6 DEF Belows
<1>. QED BY <1>1, <1>7

LEMMA BelowUnfolds ==
  \A n \in Node, p \in Suffix : Below[<<n, p>>] = BelowNode(Below, n, p)
<1>1. PICK f \in Belows : f = [s \in Places |-> BelowNode(f, s[1], s[2])]
  BY FixedPoint DEF Step
<1>2. Below = [s \in Places |-> BelowNode(Below, s[1], s[2])]
  BY <1>1, Zenon DEF Below, Places
<1> SUFFICES ASSUME NEW n \in Node, NEW p \in Suffix
             PROVE  Below[<<n, p>>] = BelowNode(Below, n, p)
  OBVIOUS
<1>3. <<n, p>> \in Places /\ <<n, p>>[1] = n /\ <<n, p>>[2] = p
  BY DEF Places
<1>. QED BY <1>2, <1>3, Zenon

---------------------------------------------------------------------------
(* The invariant of the walk's progress: of the nodes it needed, those     *)
(* that are not known are the ones it still needs.                         *)
StillNeeded == FetchedFrom(Below, expected, Remaining)

Progress == outcome = Walking => Needed \union nodes = StillNeeded \union nodes

ExactInv == TypeOK /\ Progress /\ WalkExact

(* A fetched node is no longer needed, but those below it are.             *)
LEMMA AtNeeds ==
  ASSUME TypeOK, Progress, NEW kind, At(kind)
  PROVE  /\ expected \in Node /\ Fetched.kind = kind /\ outcome = Walking
         /\ Remaining \in Suffix
         /\ Needed \union nodes = BelowNode(Below, expected, Remaining) \union nodes
<1>1. /\ expected \in Node /\ expected \in nodes /\ Fetched.kind = kind /\ outcome = Walking
      /\ expected # EMPTY_TRIE_ROOT
  BY DEF At, TypeOK
<1>2. Remaining \in Suffix
  BY DropType DEF TypeOK, Remaining
<1>3. StillNeeded = {expected} \union BelowNode(Below, expected, Remaining)
  BY <1>1, <1>2, BelowUnfolds DEF StillNeeded, FetchedFrom
<1>. QED BY <1>1, <1>2, <1>3 DEF Progress

LEMMA SameNeeded ==
  ASSUME UNCHANGED <<root, key>>
  PROVE  Needed' = Needed
BY DEF Needed, FetchedFrom

(* The walk may end with a verdict when nothing is needed any more, and    *)
(* without one when something needed is missing.                           *)
LEMMA EndExact ==
  ASSUME NEW t \in {"value", "absent", "ValueError", "raise"}, NEW v, End(t, v),
         t \in {"value", "absent"} <=> Needed \subseteq nodes
  PROVE  Progress' /\ WalkExact'
<1>1. outcome' = [type |-> t, value |-> v] /\ UNCHANGED <<root, key, nodes>>
  BY DEF End, args
<1>2. Needed' = Needed
  BY <1>1, SameNeeded
<1>3. outcome' # Walking /\ outcome'.type = t
  BY <1>1 DEF Walking
<1>. QED BY <1>1, <1>2, <1>3 DEF Progress, WalkExact

(* Following a reference, or failing to.                                   *)
LEMMA DescendExact ==
  ASSUME TypeOK, outcome = Walking, NEW ref, NEW n \in 0 .. Len(key) - idx, Descend(ref, n),
         ref.type = "inlined" => ref.node \in Node \ {EMPTY_TRIE_ROOT},
         Needed \union nodes = Following(Below, ref, Drop(Remaining, n)) \union nodes
  PROVE  Progress' /\ WalkExact'
<1> DEFINE q == Drop(Remaining, n)
<1>1. CASE ref.type \in {"hash", "inlined"}
  <2>1. q = Drop(key, idx + n)
    BY DropDrop DEF TypeOK, Remaining
  <2>2. /\ UNCHANGED <<root, key, outcome>> /\ idx' = idx + n /\ expected' = ref.node
        /\ nodes' = IF ref.type = "inlined" THEN nodes \union {ref.node} ELSE nodes
    BY <1>1 DEF Descend, args
  <2>3. Remaining' = q
    BY <2>1, <2>2 DEF Remaining
  <2>4. StillNeeded' = FetchedFrom(Below, ref.node, q)
    BY <2>2, <2>3 DEF StillNeeded
  <2>5. Needed' = Needed
    BY <2>2, SameNeeded
  <2> HIDE DEF q
  <2>6. CASE ref.type = "hash"
    <3>1. Following(Below, ref, q) = FetchedFrom(Below, ref.node, q)
      BY <2>6 DEF Following
    <3>2. nodes' = nodes
      BY <2>2, <2>6
    <3>. QED BY <2>2, <2>4, <2>5, <3>1, <3>2 DEF Progress, WalkExact, q
  <2>7. CASE ref.type = "inlined"
    <3>1. Following(Below, ref, q) = Below[<<ref.node, q>>]
      BY <2>7 DEF Following
    <3>2. FetchedFrom(Below, ref.node, q) = {ref.node} \union Below[<<ref.node, q>>]
      BY <2>7 DEF FetchedFrom
    <3>3. nodes' = nodes \union {ref.node}
      BY <2>2, <2>7
    <3>4. Needed \union nodes' = FetchedFrom(Below, ref.node, q) \union nodes'
      BY <3>1, <3>2, <3>3 DEF q
    <3>. QED BY <2>2, <2>4, <2>5, <3>4 DEF Progress, WalkExact
  <2>. QED BY <1>1, <2>6, <2>7
<1>2. CASE ref.type \notin {"hash", "inlined"}
  <2>1. Following(Below, ref, q) = {NoValue}
    BY <1>2 DEF Following
  <2>2. NoValue \notin nodes
    BY NodeAssumption DEF TypeOK
  <2>3. ~ (Needed \subseteq nodes)
    BY <2>1, <2>2
  <2>4. End("ValueError", ABSENT)
    BY <1>2 DEF Descend
  <2>. QED BY <2>3, <2>4, EndExact
<1>. QED BY <1>1, <1>2

(* A proof is refused exactly for what it lacks: whatever the trie and the *)
(* proof, extra nodes never change whether _walk comes to a verdict, and a *)
(* missing one, or a path that leaves the trie, never goes unnoticed.      *)
THEOREM WalkIsExact == Spec => []WalkExact
<1>1. Init => ExactInv
  <2> SUFFICES ASSUME Init PROVE ExactInv
    OBVIOUS
  <2>1. TypeOK
    BY SuffixType, KeysAssumption DEF Init, TypeOK, Walking, Pending
  <2>2. Remaining = key /\ expected = root
    BY <2>1, DropNothing DEF Init, Remaining, TypeOK
  <2>. QED  BY <2>1, <2>2 DEF Init, ExactInv, Progress, WalkExact, StillNeeded, Needed
<1>2. ExactInv /\ TypeOK' /\ [Next]_vars => ExactInv'
  <2> SUFFICES ASSUME ExactInv, TypeOK', [Next]_vars
               PROVE  Progress' /\ WalkExact'
    BY DEF ExactInv
  <2>t. TypeOK /\ Progress /\ WalkExact /\ NoValue \notin nodes
    BY NodeAssumption DEF ExactInv, TypeOK
  <2> DEFINE T == Trie[expected]
             B == BelowNode(Below, expected, Remaining)
  <2>1. CASE WalkEmptyTrie
    <3>1. outcome = Walking /\ StillNeeded = {} /\ End("absent", ABSENT)
      BY <2>1 DEF WalkEmptyTrie, StillNeeded, FetchedFrom
    <3>2. Needed \subseteq nodes
      BY <2>t, <3>1 DEF Progress
    <3>. QED  BY <3>1, <3>2, EndExact
  <2>2. CASE WalkMissingNode
    <3>1. outcome = Walking /\ expected \in StillNeeded /\ expected \notin nodes
          /\ End("ValueError", ABSENT)
      BY <2>2 DEF WalkMissingNode, StillNeeded, FetchedFrom
    <3>2. ~ (Needed \subseteq nodes)
      BY <2>t, <3>1 DEF Progress
    <3>. QED  BY <3>1, <3>2, EndExact
  <2>3. CASE WalkMalformed
    <3>1. At("malformed") /\ End("ValueError", ABSENT)
      BY <2>3 DEF WalkMalformed
    <3>2. T.kind = "malformed" /\ Needed \union nodes = B \union nodes
      BY <2>t, <3>1, AtNeeds DEF Fetched
    <3>3. B = {NoValue}
      BY <3>2 DEF BelowNode
    <3>4. ~ (Needed \subseteq nodes)
      BY <2>t, <3>2, <3>3
    <3>. QED  BY <3>1, <3>4, EndExact
  <2>4. CASE WalkUndecodable
    <3>1. At("undecodable") /\ End("raise", ABSENT)
      BY <2>4 DEF WalkUndecodable
    <3>2. T.kind = "undecodable" /\ Needed \union nodes = B \union nodes
      BY <2>t, <3>1, AtNeeds DEF Fetched
    <3>3. B = {NoValue}
      BY <3>2 DEF BelowNode
    <3>4. ~ (Needed \subseteq nodes)
      BY <2>t, <3>2, <3>3
    <3>. QED  BY <3>1, <3>4, EndExact
  <2>n. ASSUME B = {}, NEW kind, At(kind) PROVE Needed \subseteq nodes
    BY <2>t, <2>n, AtNeeds
  <2>5. CASE WalkBranchValue
    <3>1. At("branch") /\ idx = Len(key)
          /\ (End("absent", ABSENT) \/ End("value", Fetched.value))
      BY <2>5 DEF WalkBranchValue
    <3>2. Len(Remaining) = 0
      <4>1. key \in Suffix /\ idx \in 0 .. Len(key) /\ Len(key) \in Nat
        BY <2>t, SuffixType DEF TypeOK
      <4>2. Len(Drop(key, idx)) = Len(key) - idx
        BY <4>1, DropType
      <4>. QED  BY <3>1, <4>1, <4>2 DEF Remaining
    <3>3. T.kind = "branch"
      BY <2>t, <3>1, AtNeeds DEF Fetched
    <3>4. B = {}
      BY <3>2, <3>3 DEF BelowNode
    <3>5. Needed \subseteq nodes
      BY <2>n, <3>1, <3>4
    <3>. QED  BY <3>1, <3>5, EndExact
  <2>6. CASE WalkBranchEmptySlot
    <3>1. At("branch") /\ idx # Len(key) /\ Fetched.child[Remaining[1]].type = "empty"
          /\ End("absent", ABSENT)
      BY <2>6, <2>t, BranchFits DEF WalkBranchEmptySlot
    <3>2. T.kind = "branch" /\ T.child[Remaining[1]].type = "empty"
      BY <2>t, <3>1, AtNeeds DEF Fetched
    <3>3. B = {}
      BY <3>2 DEF BelowNode
    <3>4. Needed \subseteq nodes
      BY <2>n, <3>1, <3>3
    <3>. QED  BY <3>1, <3>4, EndExact
  <2>7. CASE WalkBranchDescend
    <3> DEFINE ref == T.child[Remaining[1]]
    <3>1. At("branch") /\ idx # Len(key) /\ ref.type # "empty" /\ Descend(ref, 1)
      BY <2>7, <2>t, BranchFits DEF WalkBranchDescend, Fetched
    <3>2. /\ T.kind = "branch" /\ outcome = Walking /\ expected \in Node
          /\ Needed \union nodes = B \union nodes
      BY <2>t, <3>1, AtNeeds DEF Fetched
    <3>3. /\ 1 \in 0 .. Len(key) - idx /\ Len(Remaining) > 0 /\ Remaining[1] \in Nibble
      BY <2>t, <3>1, BranchFits
    <3>4. B = Following(Below, ref, Drop(Remaining, 1))
      BY <3>1, <3>2, <3>3 DEF BelowNode
    <3>5. ref.type = "inlined" => ref.node \in Node \ {EMPTY_TRIE_ROOT}
      BY <3>2, <3>3, NodeAssumption
    <3> HIDE DEF ref, B
    <3>. QED  BY <2>t, <3>1, <3>2, <3>3, <3>4, <3>5, DescendExact
  <2>8. CASE WalkLeaf
    <3>1. At("leaf") /\ (End("absent", ABSENT) \/ End("value", Fetched.value))
      BY <2>8 DEF WalkLeaf
    <3>2. T.kind = "leaf"
      BY <2>t, <3>1, AtNeeds DEF Fetched
    <3>3. B = {}
      BY <3>2 DEF BelowNode
    <3>4. Needed \subseteq nodes
      BY <2>n, <3>1, <3>3
    <3>. QED  BY <3>1, <3>4, EndExact
  <2>9. CASE WalkExtensionDiverges
    <3>1. At("extension") /\ ~IsPrefix(T.path, Remaining) /\ End("absent", ABSENT)
      BY <2>9 DEF WalkExtensionDiverges, Fetched
    <3>2. T.kind = "extension"
      BY <2>t, <3>1, AtNeeds DEF Fetched
    <3>3. B = {}
      BY <3>1, <3>2 DEF BelowNode
    <3>4. Needed \subseteq nodes
      BY <2>n, <3>1, <3>3
    <3>. QED  BY <3>1, <3>4, EndExact
  <2>10. CASE WalkExtensionDescend
    <3>1. At("extension") /\ IsPrefix(T.path, Remaining) /\ Descend(T.child, Len(T.path))
      BY <2>10 DEF WalkExtensionDescend, Fetched
    <3>2. /\ T.kind = "extension" /\ outcome = Walking /\ expected \in Node
          /\ Needed \union nodes = B \union nodes
      BY <2>t, <3>1, AtNeeds DEF Fetched
    <3>3. Len(T.path) \in 0 .. Len(key) - idx
      BY <2>t, <3>1, ExtensionFits DEF Fetched
    <3>4. B = Following(Below, T.child, Drop(Remaining, Len(T.path)))
      BY <3>1, <3>2 DEF BelowNode
    <3>5. T.child.type = "inlined" => T.child.node \in Node \ {EMPTY_TRIE_ROOT}
      BY <3>2, NodeAssumption
    <3> HIDE DEF T, B
    <3>. QED  BY <2>t, <3>1, <3>2, <3>3, <3>4, <3>5, DescendExact
  <2>11. CASE Return
    <3>1. UNCHANGED <<root, key, nodes, outcome>> /\ outcome # Walking
      BY <2>11 DEF Return, args
    <3>2. Needed' = Needed
      BY <3>1, SameNeeded
    <3>. QED  BY <2>t, <3>1, <3>2 DEF Progress, WalkExact
  <2>12. CASE UNCHANGED vars
    <3>1. UNCHANGED <<root, key, nodes, outcome, expected, idx>>
      BY <2>12 DEF vars
    <3>2. Needed' = Needed /\ StillNeeded' = StillNeeded
      BY <3>1, SameNeeded DEF StillNeeded, Remaining
    <3>. QED  BY <2>t, <3>1, <3>2 DEF Progress, WalkExact
  <2>. QED
    BY <2>1, <2>2, <2>3, <2>4, <2>5, <2>6, <2>7, <2>8, <2>9, <2>10, <2>11, <2>12
       DEF Next, WalkStep
<1>3. ExactInv => WalkExact
  BY DEF ExactInv
<1>. QED  BY <1>1, <1>2, <1>3, TypeCorrect, PTL DEF Spec

---------------------------------------------------------------------------
(* The tries that the generator builds, seen from one of their two keys:   *)
(* the proof holds the branch and the leaf of the key, not the other leaf. *)
BuiltFor(own, value, other, branch, leaf, missing) ==
  /\ own \in [1 .. KeyLen -> Nibble] /\ other \in [1 .. KeyLen -> Nibble] /\ own[1] # other[1]
  /\ value \notin Undecodable /\ missing # branch /\ missing # leaf
  /\ branch # EMPTY_TRIE_ROOT /\ leaf # EMPTY_TRIE_ROOT /\ missing # EMPTY_TRIE_ROOT
  /\ Trie[branch].kind = "branch"
  /\ \A x \in Nibble :
       /\ x = own[1]   => Trie[branch].child[x] = [type |-> "hash", node |-> leaf]
       /\ x = other[1] => Trie[branch].child[x] = [type |-> "hash", node |-> missing]
       /\ x # own[1] /\ x # other[1] => Trie[branch].child[x].type = "empty"
  /\ Trie[leaf] = leaf_node(Tail(own), value)

Verdict(own, value, other) ==
  IF key = own THEN [type |-> "value", value |-> value]
  ELSE IF key[1] = other[1] THEN [type |-> "ValueError", value |-> ABSENT]
  ELSE [type |-> "absent", value |-> ABSENT]

Walks(own, value, other, branch, leaf, missing) ==
  root = branch /\ proof = {branch, leaf} =>
    /\ outcome = Walking =>
         /\ nodes = {branch, leaf} /\ answer = Pending
         /\ \/ idx = 0 /\ expected = branch
            \/ idx = 1 /\ key[1] = own[1] /\ expected = leaf
            \/ idx = 1 /\ key[1] = other[1] /\ expected = missing
    /\ outcome # Walking => outcome = Verdict(own, value, other)
    /\ answer # Pending => answer = Answer

(* Keys are whole hashes: past the first nibble a key is its own leaf's.   *)
LEMMA WholeKeys ==
  ASSUME NEW p \in [1 .. KeyLen -> Nibble], KeyLen # 0
  PROVE  /\ Len(p) = KeyLen /\ 0 # Len(p) /\ p[1] \in Nibble /\ p[0 + 1] = p[1]
         /\ \A q \in [1 .. KeyLen -> Nibble] : p[1] = q[1] => (Drop(p, 1) = Tail(q) <=> p = q)
<1>1. KeyLen \in Nat \ {0}
  BY KeysAssumption
<1>2. Len(p) = KeyLen /\ p[1] \in Nibble
  BY <1>1
<1>3. ASSUME NEW q \in [1 .. KeyLen -> Nibble], p[1] = q[1], Drop(p, 1) = Tail(q)
      PROVE  p = q
  <2>1. Len(q) = KeyLen /\ q \in Seq(Nibble) /\ Len(q) # 0
    BY <1>1
  <2>2. \A j \in 1 .. KeyLen - 1 : Tail(q)[j] = q[j + 1]
    BY <1>1, <2>1
  <2>3. \A j \in 1 .. KeyLen - 1 : Drop(p, 1)[j] = p[j + 1]
    BY <1>1, <1>2 DEF Drop
  <2>4. \A j \in 1 .. KeyLen - 1 : p[j + 1] = q[j + 1]
    BY <1>3, <2>2, <2>3
  <2>5. ASSUME NEW i \in 1 .. KeyLen PROVE p[i] = q[i]
    <3>1. CASE i = 1
      BY <1>3, <3>1
    <3>2. CASE i # 1
      <4>1. i - 1 \in 1 .. KeyLen - 1 /\ (i - 1) + 1 = i
        BY <1>1, <3>2
      <4>. QED BY <2>4, <4>1
    <3>. QED BY <3>1, <3>2
  <2>6. p = [i \in 1 .. KeyLen |-> p[i]] /\ q = [i \in 1 .. KeyLen |-> q[i]]
    OBVIOUS
  <2>. QED BY <2>5, <2>6, Zenon
<1>4. Drop(p, 1) = Tail(p)
  <2>1. Drop(p, 1) = [j \in 1 .. KeyLen - 1 |-> p[j + 1]]
    BY <1>2 DEF Drop
  <2>2. p \in Seq(Nibble) /\ Len(p) # 0
    BY <1>1, <1>2
  <2>3. /\ Tail(p) \in Seq(Nibble) /\ Len(Tail(p)) = KeyLen - 1
        /\ \A j \in 1 .. KeyLen - 1 : Tail(p)[j] = p[j + 1]
    BY <1>1, <1>2, <2>2
  <2>4. \A s \in Seq(Nibble) : s = [j \in 1 .. Len(s) |-> s[j]]
    OBVIOUS
  <2>5. Tail(p) = [j \in 1 .. KeyLen - 1 |-> Tail(p)[j]]
    BY <2>3, <2>4
  <2>. QED BY <2>1, <2>3, <2>5, Zenon
<1>. QED BY <1>1, <1>2, <1>3, <1>4

(* No step changes the arguments of the call.                              *)
LEMMA ArgumentsKept ==
  ASSUME [Next]_vars
  PROVE  UNCHANGED args
<1>1. \A type, value : End(type, value) => UNCHANGED args
  BY DEF End
<1>2. \A ref, n : Descend(ref, n) => UNCHANGED args
  BY <1>1 DEF Descend
<1>. QED BY <1>1, <1>2, Zenon DEF Next, WalkStep, Return, vars, args, WalkEmptyTrie, WalkMissingNode,
         WalkMalformed, WalkUndecodable, WalkBranchValue, WalkBranchEmptySlot, WalkBranchDescend,
         WalkLeaf, WalkExtensionDiverges, WalkExtensionDescend

(* Every step of the walk of such a proof ends it or goes from the branch  *)
(* to a leaf.                                                              *)
LEMMA WalksKept ==
  ASSUME NEW own, NEW value, NEW other, NEW branch, NEW leaf, NEW missing,
         BuiltFor(own, value, other, branch, leaf, missing),
         KeyLen # 0, key \in [1 .. KeyLen -> Nibble],
         Walks(own, value, other, branch, leaf, missing), [Next]_vars
  PROVE  Walks(own, value, other, branch, leaf, missing)'
<1> SUFFICES ASSUME root' = branch, proof' = {branch, leaf}
             PROVE  /\ outcome' = Walking =>
                         /\ nodes' = {branch, leaf} /\ answer' = Pending
                         /\ \/ idx' = 0 /\ expected' = branch
                            \/ idx' = 1 /\ key'[1] = own[1] /\ expected' = leaf
                            \/ idx' = 1 /\ key'[1] = other[1] /\ expected' = missing
                    /\ outcome' # Walking => outcome' = Verdict(own, value, other)'
                    /\ answer' # Pending => answer' = Answer'
  BY DEF Walks
<1>0. UNCHANGED args /\ key' = key /\ Verdict(own, value, other)' = Verdict(own, value, other)
  <2>1. UNCHANGED args
    BY ArgumentsKept
  <2>. QED BY <2>1 DEF args, Verdict
<1>1. root = branch /\ proof = {branch, leaf}
  BY <1>0 DEF args
<1>2. /\ outcome = Walking =>
           /\ nodes = {branch, leaf} /\ answer = Pending
           /\ \/ idx = 0 /\ expected = branch
              \/ idx = 1 /\ key[1] = own[1] /\ expected = leaf
              \/ idx = 1 /\ key[1] = other[1] /\ expected = missing
      /\ outcome # Walking => outcome = Verdict(own, value, other)
      /\ answer # Pending => answer = Answer
  BY <1>1 DEF Walks
<1>3. Len(key) = KeyLen /\ 0 # Len(key) /\ key[1] \in Nibble /\ key[0 + 1] = key[1]
      /\ \A q \in [1 .. KeyLen -> Nibble] : key[1] = q[1] => (Drop(key, 1) = Tail(q) <=> key = q)
  BY WholeKeys
<1>4. ASSUME NEW type \in {"value", "absent", "ValueError"}, NEW v, End(type, v), outcome = Walking,
             [type |-> type, value |-> v] = Verdict(own, value, other)
      PROVE  outcome' = Verdict(own, value, other) /\ outcome' # Walking /\ answer' = Pending
  BY <1>2, <1>4 DEF End, Walking
<1>5. CASE WalkStep
  <2>1. outcome = Walking
    BY <1>5 DEF WalkStep, At, WalkEmptyTrie, WalkMissingNode, WalkMalformed, WalkUndecodable,
                WalkBranchValue, WalkBranchEmptySlot, WalkBranchDescend, WalkLeaf,
                WalkExtensionDiverges, WalkExtensionDescend
  <2>2. CASE idx = 0 /\ expected = branch
    <3>1. WalkBranchEmptySlot \/ WalkBranchDescend
      <4>1. expected \in nodes /\ expected # EMPTY_TRIE_ROOT /\ Fetched.kind = "branch" /\ idx # Len(key)
        BY <1>2, <1>3, <2>1, <2>2 DEF BuiltFor, Fetched
      <4>. QED BY <1>5, <4>1 DEF WalkStep, At, WalkEmptyTrie, WalkMissingNode, WalkMalformed,
                  WalkUndecodable, WalkBranchValue, WalkLeaf, WalkExtensionDiverges, WalkExtensionDescend
    <3> DEFINE ref == Trie[branch].child[key[1]]
    <3>2. Fetched.child[key[idx + 1]] = ref
      BY <1>3, <2>2, Zenon DEF Fetched
    <3>3. CASE key[1] = own[1] \/ key[1] = other[1]
      <4> DEFINE next == IF key[1] = own[1] THEN leaf ELSE missing
      <4>1. ref = [type |-> "hash", node |-> next]
        BY <1>3, <3>3 DEF BuiltFor
      <4> HIDE DEF ref, next
      <4>2. ref.type = "hash" /\ ref.node = next
        BY <4>1
      <4>3. Descend(ref, 1)
        BY <3>1, <3>2, <4>2 DEF WalkBranchEmptySlot, WalkBranchDescend
      <4>4. idx' = 1 /\ expected' = next /\ nodes' = nodes /\ UNCHANGED <<outcome, answer>>
        BY <2>2, <4>2, <4>3 DEF Descend
      <4>5. (key[1] = own[1] /\ expected' = leaf) \/ (key[1] = other[1] /\ expected' = missing)
        BY <3>3, <4>4 DEF next
      <4>. QED BY <1>0, <1>2, <2>1, <4>4, <4>5
    <3>4. CASE key[1] # own[1] /\ key[1] # other[1]
      <4>1. ref.type = "empty"
        BY <1>3, <3>4 DEF BuiltFor
      <4> HIDE DEF ref
      <4>2. End("absent", ABSENT)
        BY <3>1, <3>2, <4>1 DEF WalkBranchEmptySlot, WalkBranchDescend
      <4>3. Verdict(own, value, other) = [type |-> "absent", value |-> ABSENT]
        <5>1. key # own
          BY <3>4
        <5>. QED BY <3>4, <5>1, Zenon DEF Verdict
      <4>. QED BY <1>0, <1>4, <2>1, <4>2, <4>3
    <3>. QED BY <3>3, <3>4
  <2>3. CASE idx = 1 /\ key[1] = own[1] /\ expected = leaf
    <3>1. WalkLeaf
      <4>1. expected \in nodes /\ expected # EMPTY_TRIE_ROOT /\ Fetched.kind = "leaf"
        BY <1>2, <2>1, <2>3 DEF BuiltFor, Fetched, leaf_node
      <4>. QED BY <1>5, <4>1 DEF WalkStep, At, WalkEmptyTrie, WalkMissingNode, WalkMalformed,
                  WalkUndecodable, WalkBranchValue, WalkBranchEmptySlot, WalkBranchDescend,
                  WalkExtensionDiverges, WalkExtensionDescend
    <3>2. Fetched.path = Tail(own) /\ Fetched.value = value /\ Remaining = Drop(key, 1)
      BY <2>3 DEF BuiltFor, Fetched, leaf_node, Remaining
    <3>3. Remaining = Fetched.path <=> key = own
      BY <1>3, <2>3, <3>2 DEF BuiltFor
    <3>4. CASE key = own
      <4>1. End("value", value)
        BY <3>1, <3>2, <3>3, <3>4, Zenon DEF WalkLeaf
      <4>2. Verdict(own, value, other) = [type |-> "value", value |-> value]
        BY <3>4, Zenon DEF Verdict
      <4>. QED BY <1>0, <1>4, <2>1, <4>1, <4>2
    <3>5. CASE key # own
      <4>1. End("absent", ABSENT)
        BY <3>1, <3>3, <3>5, Zenon DEF WalkLeaf
      <4>2. Verdict(own, value, other) = [type |-> "absent", value |-> ABSENT]
        BY <2>3, <3>5, Zenon DEF Verdict, BuiltFor
      <4>. QED BY <1>0, <1>4, <2>1, <4>1, <4>2
    <3>. QED BY <3>4, <3>5
  <2>4. CASE idx = 1 /\ key[1] = other[1] /\ expected = missing
    <3>1. WalkMissingNode
      <4>1. expected \notin nodes /\ expected # EMPTY_TRIE_ROOT
        BY <1>2, <2>1, <2>4 DEF BuiltFor
      <4>. QED BY <1>5, <4>1 DEF WalkStep, At, WalkEmptyTrie, WalkMalformed, WalkUndecodable,
                  WalkBranchValue, WalkBranchEmptySlot, WalkBranchDescend, WalkLeaf,
                  WalkExtensionDiverges, WalkExtensionDescend
    <3>2. End("ValueError", ABSENT)
      BY <3>1 DEF WalkMissingNode
    <3>3. Verdict(own, value, other) = [type |-> "ValueError", value |-> ABSENT]
      <4>1. key # own
        BY <2>4 DEF BuiltFor
      <4>. QED BY <2>4, <4>1, Zenon DEF Verdict
    <3>. QED BY <1>0, <1>4, <2>1, <3>2, <3>3
  <2>. QED BY <1>2, <2>1, <2>2, <2>3, <2>4
<1>6. CASE Return
  BY <1>0, <1>2, <1>6 DEF Return, Answer, args
<1>7. CASE UNCHANGED vars
  BY <1>0, <1>2, <1>7 DEF vars, Answer
<1>. QED BY <1>5, <1>6, <1>7 DEF Next

(* What the verdict makes of the answer.                                   *)
LEMMA WalksServe ==
  ASSUME NEW own, NEW value, NEW other, NEW h, NEW leaf, NEW missing,
         BuiltFor(own, value, other, h.branch, leaf, missing),
         Walks(own, value, other, h.branch, leaf, missing)
  PROVE  Serves({h.branch, leaf}, own, value, other, h)
<1> SUFFICES ASSUME answer # Pending, root = h.branch, proof = {h.branch, leaf}
             PROVE  /\ key = own /\ api \in Inclusion => answer = [type |-> "found", value |-> value]
                    /\ key # own /\ key[1] # other[1] /\ api \notin Inclusion => answer.type = "True"
                    /\ key[1] = other[1] => answer.type \in {"None", "False"}
  BY DEF Serves
<1>1. outcome = Verdict(own, value, other) /\ answer = Answer
  BY DEF Walks
<1>2. CASE key = own
  <2>1. outcome = [type |-> "value", value |-> value] /\ key[1] # other[1] /\ value \notin Undecodable
    BY <1>1, <1>2 DEF Verdict, BuiltFor
  <2>. QED BY <1>1, <1>2, <2>1 DEF Answer
<1>3. CASE key # own /\ key[1] = other[1]
  <2>1. outcome = [type |-> "ValueError", value |-> ABSENT]
    BY <1>1, <1>3 DEF Verdict
  <2>. QED BY <1>1, <1>3, <2>1 DEF Answer
<1>4. CASE key # own /\ key[1] # other[1]
  <2>1. outcome = [type |-> "absent", value |-> ABSENT]
    BY <1>1, <1>4 DEF Verdict
  <2>. QED BY <1>1, <1>4, <2>1 DEF Answer
<1>. QED BY <1>2, <1>3, <1>4

(* A trie that the builder made is one for either of its keys.             *)
LEMMA BothKeys ==
  ASSUME NEW b \in Builds
  PROVE  LET h == b.hashes
         IN  /\ BuiltFor(b.ka, b.va, b.kb, h.branch, h.a, h.b)
             /\ BuiltFor(b.kb, b.vb, b.ka, h.branch, h.b, h.a)
<1> DEFINE h == b.hashes
           trie == build_two_trie(h, b.ka, b.va, b.kb, b.vb)
<1>1. /\ b.ka \in [1 .. KeyLen -> Nibble] /\ b.kb \in [1 .. KeyLen -> Nibble] /\ b.ka[1] # b.kb[1]
      /\ \A n \in DOMAIN trie : n \in Node \ {EMPTY_TRIE_ROOT} /\ Trie[n] = trie[n]
      /\ h.branch # h.a /\ h.branch # h.b /\ h.a # h.b
      /\ b.va \notin Undecodable /\ b.vb \notin Undecodable
  BY BuildsAssumption
<1>2. DOMAIN trie = {h.branch, h.a, h.b}
  BY DEF build_two_trie
<1>3. /\ h.branch # EMPTY_TRIE_ROOT /\ h.a # EMPTY_TRIE_ROOT /\ h.b # EMPTY_TRIE_ROOT
      /\ Trie[h.branch] = trie[h.branch] /\ Trie[h.a] = trie[h.a] /\ Trie[h.b] = trie[h.b]
  <2> HIDE DEF trie, h
  <2>. QED BY <1>1, <1>2
<1>4. /\ trie[h.branch].kind = "branch"
      /\ \A x \in Nibble :
           /\ x = b.ka[1] => trie[h.branch].child[x] = [type |-> "hash", node |-> h.a]
           /\ x = b.kb[1] => trie[h.branch].child[x] = [type |-> "hash", node |-> h.b]
           /\ x # b.ka[1] /\ x # b.kb[1] => trie[h.branch].child[x].type = "empty"
  BY <1>1 DEF build_two_trie
<1>5. trie[h.a] = leaf_node(Tail(b.ka), b.va) /\ trie[h.b] = leaf_node(Tail(b.kb), b.vb)
  <2> HIDE DEF h
  <2>. QED BY <1>1 DEF build_two_trie
<1> HIDE DEF trie, h
<1>. QED BY <1>1, <1>3, <1>4, <1>5 DEF BuiltFor, h

(* The walk of every key over every trie that the generator builds, with   *)
(* either proof.                                                           *)
BuildsWalk ==
  \A b \in Builds :
    LET h == b.hashes
    IN  /\ Walks(b.ka, b.va, b.kb, h.branch, h.a, h.b)
        /\ Walks(b.kb, b.vb, b.ka, h.branch, h.b, h.a)

(* The proofs that the generator ships with a vector do what the vector    *)
(* needs, for every pair of keys, whatever their values and nibbles: they  *)
(* prove their key's value, the absence of every key but one, and nothing  *)
(* about that one, whose leaf they leave out.                              *)
THEOREM GeneratedProofsServe == Spec => []GeneratedProofServes
<1> DEFINE Inv == key \in [1 .. KeyLen -> Nibble] /\ BuildsWalk
<1>1. Init => Inv
  <2> SUFFICES ASSUME Init PROVE Inv
    OBVIOUS
  <2>1. key \in [1 .. KeyLen -> Nibble]
    BY BuildsAssumption DEF Init
  <2>2. \A own, value, other, branch, leaf, missing : Walks(own, value, other, branch, leaf, missing)
    BY DEF Init, Walks, Walking, Pending
  <2>. QED BY <2>1, <2>2, Zenon DEF BuildsWalk
<1>2. Inv /\ [Next]_vars => Inv'
  <2> SUFFICES ASSUME Inv, [Next]_vars PROVE Inv'
    OBVIOUS
  <2>1. key' = key
    BY ArgumentsKept DEF args
  <2>2. KeyLen # 0
    BY BuildsAssumption
  <2>3. ASSUME NEW b \in Builds
        PROVE  LET h == b.hashes
               IN  /\ Walks(b.ka, b.va, b.kb, h.branch, h.a, h.b)'
                   /\ Walks(b.kb, b.vb, b.ka, h.branch, h.b, h.a)'
    BY <2>2, BothKeys, WalksKept DEF BuildsWalk
  <2>. QED BY <2>1, <2>3, Zenon DEF BuildsWalk
<1>3. Inv => GeneratedProofServes
  <2> SUFFICES ASSUME Inv, NEW b \in Builds
               PROVE  /\ Serves(proof_a(b.hashes), b.ka, b.va, b.kb, b.hashes)
                      /\ Serves(proof_b(b.hashes), b.kb, b.vb, b.ka, b.hashes)
    BY DEF GeneratedProofServes
  <2>. QED BY BothKeys, WalksServe DEF BuildsWalk, proof_a, proof_b
<1>. QED BY <1>1, <1>2, <1>3, PTL DEF Spec
=============================================================================
