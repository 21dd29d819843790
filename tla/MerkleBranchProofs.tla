------------------------ MODULE MerkleBranchProofs ------------------------
(***************************************************************************)
(* Proofs about MerkleBranch for every tree, branch, leaf, generalized     *)
(* index and root.                                                         *)
(***************************************************************************)
EXTENDS MerkleBranch, PowersProofs, SequenceTheorems

(* Going to the parent: the parent of a node other than the root is a node *)
(* of the tree, nearer to the root, and the node and its sibling are the   *)
(* parent's children.                                                      *)
LEMMA ParentNode ==
  ASSUME NEW h \in Gindices, h > 1
  PROVE  /\ h \div 2 \in Gindices
         /\ h \div 2 < h
         /\ h % 2 = 1 => 2 * (h \div 2) + 1 = h
         /\ h % 2 # 1 => 2 * (h \div 2) = h
         /\ 2 * (h \div 2) + 1 \in Gindices
BY TreeSizeAssumption DEF Gindices

(* Equal hashes come from equal inputs.                                    *)
LEMMA HashInjective ==
  ASSUME NEW a, NEW b, NEW c, NEW d, HashConcat(a, b) = HashConcat(c, d)
  PROVE  a = c /\ b = d
<1>1. HashConcat(a, b).left = HashConcat(c, d).left /\ HashConcat(a, b).right = HashConcat(c, d).right
  OBVIOUS
<1>. QED  BY <1>1 DEF HashConcat

(* The locals of both loops stay in range in every reachable state.        *)
THEOREM TypeCorrect == Spec => []TypeOK
<1>1. Init => TypeOK
  BY InputsAssumption DEF Init, TypeOK, StartAt, Gindices
<1>2. TypeOK /\ [Next]_vars => TypeOK'
  <2> SUFFICES ASSUME TypeOK, [Next]_vars
               PROVE  TypeOK'
    OBVIOUS
  <2> USE DEF TypeOK
  <2>g. gindex \in Nat /\ gindex >= 1 /\ g \in Nat /\ g >= 1 /\ g <= gindex /\ Len(branch) \in Nat
    BY TreeSizeAssumption DEF Gindices
  <2>c. ASSUME Climb, g > 1, i < Len(branch)
        PROVE  g' \in 1 .. gindex /\ i' \in 0 .. Len(branch)
    BY <2>c, <2>g DEF Climb
  <2>1. CASE VerifyShort
    BY <2>1 DEF VerifyShort, args, locals
  <2>2. CASE VerifyClimb
    BY <2>2, <2>c DEF VerifyClimb, args
  <2>3. CASE VerifyReturn
    BY <2>3 DEF VerifyReturn, args, locals
  <2>4. CASE BuildClimb
    BY <2>4, <2>c DEF BuildClimb, args
  <2>5. CASE BuildRaise
    BY <2>5 DEF BuildRaise, args, locals
  <2>6. CASE BuildReturn
    BY <2>6, <2>g DEF BuildReturn
  <2>7. CASE UNCHANGED vars
    BY <2>7 DEF vars
  <2>. QED  BY <2>1, <2>2, <2>3, <2>4, <2>5, <2>6, <2>7 DEF Next
<1>. QED  BY <1>1, <1>2, PTL DEF Spec

(* The invariant of the climb.  Looking up the tree: if the digest reached *)
(* at height g is the tree's own, then so was the leaf it started from.    *)
Climbing == pc = "verify" => (node = Tree[g] => leaf = Tree[gindex])
Returned == result = "true" => pc = "done" /\ (root = Tree[1] => leaf = Tree[gindex])
IInv == TypeOK /\ Climbing /\ Returned

(* A hash with a sibling that is a tree node can only be computed from     *)
(* tree nodes: one turn of the loop reflects membership in the tree.       *)
LEMMA ClimbReflects ==
  ASSUME TypeOK, Climb, g > 1, node' = Tree[g']
  PROVE  node = Tree[g]
<1>0. g \in Gindices
  BY TreeSizeAssumption DEF TypeOK, Gindices
<1> DEFINE p == g \div 2
<1>1. Tree[p] = HashConcat(Tree[2 * p], Tree[2 * p + 1])
  BY <1>0, ParentNode, TreeAssumption
<1>2. CASE g % 2 = 1
  <2>1. HashConcat(branch[i + 1], node) = HashConcat(Tree[2 * p], Tree[2 * p + 1])
    BY <1>1, <1>2 DEF Climb
  <2>2. node = Tree[2 * p + 1]
    BY <2>1, HashInjective
  <2>. QED  BY <2>2, <1>0, <1>2, ParentNode
<1>3. CASE g % 2 # 1
  <2>1. HashConcat(node, branch[i + 1]) = HashConcat(Tree[2 * p], Tree[2 * p + 1])
    BY <1>1, <1>3 DEF Climb
  <2>2. node = Tree[2 * p]
    BY <2>1, HashInjective
  <2>. QED  BY <2>2, <1>0, <1>3, ParentNode
<1>. QED  BY <1>2, <1>3

(* verify_merkle_branch is sound: True against the root of a tree means    *)
(* that the leaf is the tree's node at the generalized index, whatever     *)
(* siblings were supplied.                                                 *)
THEOREM BranchSoundness == Spec => []BranchSound
<1>1. Init => IInv
  BY InputsAssumption DEF Init, IInv, TypeOK, StartAt, Gindices, Climbing, Returned
<1>2. IInv /\ TypeOK' /\ [Next]_vars => IInv'
  <2> SUFFICES ASSUME IInv, TypeOK', [Next]_vars
               PROVE  Climbing' /\ Returned'
    BY DEF IInv
  <2> USE DEF IInv
  <2>1. CASE VerifyShort
    BY <2>1 DEF VerifyShort, Climbing, Returned, args, locals
  <2>2. CASE VerifyClimb
    BY <2>2, ClimbReflects DEF VerifyClimb, Climbing, Returned, args
  <2>3. CASE VerifyReturn
    <3>1. g = 1
      BY <2>3 DEF VerifyReturn, TypeOK, Gindices
    <3>. QED  BY <2>3, <3>1 DEF VerifyReturn, Climbing, Returned, args, locals
  <2>4. CASE BuildClimb
    BY <2>4 DEF BuildClimb, Climbing, Returned, args
  <2>5. CASE BuildRaise
    BY <2>5 DEF BuildRaise, Climbing, Returned, args, locals
  <2>6. CASE BuildReturn
    BY <2>6 DEF BuildReturn, Climbing, Returned
  <2>7. CASE UNCHANGED vars
    BY <2>7 DEF vars, Climbing, Returned
  <2>. QED  BY <2>1, <2>2, <2>3, <2>4, <2>5, <2>6, <2>7 DEF Next
<1>3. IInv => BranchSound
  BY DEF IInv, Returned, BranchSound
<1>. QED  BY <1>1, <1>2, <1>3, TypeCorrect, PTL DEF Spec

---------------------------------------------------------------------------
(* verify_merkle_branch is exact.  The invariant says where the climb is   *)
(* (Position: g is the ancestor of gindex that is i levels up) and what    *)
(* the digest reached tells: it is the tree's own exactly when the leaf    *)
(* and the siblings read so far are.                                       *)

SiblingAt(k)  == Tree[Sibling(gindex \div pow2[k - 1])]
GenuineUpTo(n) == leaf = Tree[gindex] /\ \A k \in 1 .. n : branch[k] = SiblingAt(k)

Position == g * pow2[i] <= gindex /\ gindex < (g + 1) * pow2[i]
Exact    == pc = "verify" => (node = Tree[g] <=> GenuineUpTo(i))
Verdict  == result \in {"true", "false"} => pc = "done" /\ BranchExact
ExactInv == TypeOK /\ Position /\ Exact /\ Verdict

(* The position says where the climb is: which ancestor, and how deep.     *)
LEMMA PositionFacts ==
  ASSUME TypeOK, Position
  PROVE  /\ gindex \in Nat \ {0} /\ g \in Nat \ {0} /\ i \in Nat
         /\ g = gindex \div pow2[i]
         /\ g = 1 => Depth(gindex) = i
         /\ g > 1 => i < Depth(gindex)
<1> DEFINE P == pow2[i]
<1>1. gindex \in Nat \ {0} /\ g \in Nat \ {0} /\ i \in Nat
  BY TreeSizeAssumption DEF TypeOK, Gindices
<1>2. P \in Nat /\ P >= 1 /\ pow2[i + 1] = 2 * P /\ pow2[i + 1] \in Nat
  BY <1>1, PowerPositive, PowersOfTwo
<1>3. g * P <= gindex /\ gindex < (g + 1) * P
  BY DEF Position
<1> HIDE DEF P
<1>4. g = gindex \div P
  <2> DEFINE q == gindex \div P
  <2>1. q \in Nat /\ q * P <= gindex /\ gindex < (q + 1) * P
    BY <1>1, <1>2
  <2> HIDE DEF q
  <2>2. \A x, y, z \in Nat : x <= y => x * z <= y * z
    OBVIOUS
  <2>3. ~ (g < q)
    <3> SUFFICES ASSUME g + 1 <= q PROVE FALSE
      BY <1>1, <2>1
    <3>1. (g + 1) * P <= q * P
      BY <2>2, <1>1, <1>2, <2>1
    <3>. QED BY <3>1, <1>1, <1>2, <1>3, <2>1
  <2>4. ~ (q < g)
    <3> SUFFICES ASSUME q + 1 <= g PROVE FALSE
      BY <1>1, <2>1
    <3>1. (q + 1) * P <= g * P
      BY <2>2, <1>1, <1>2, <2>1
    <3>. QED BY <3>1, <1>1, <1>2, <1>3, <2>1
  <2>5. g = q
    BY <2>1, <2>3, <2>4, <1>1
  <2>. QED BY <2>5 DEF q
<1>5. g = 1 => Depth(gindex) = i
  <2> SUFFICES ASSUME g = 1 PROVE Depth(gindex) = i
    OBVIOUS
  <2>1. P <= gindex /\ gindex < 2 * P
    <3>1. 1 * P = P /\ (1 + 1) * P = 2 * P
      BY <1>2
    <3>. QED BY <3>1, <1>3
  <2>. QED BY <2>1, <1>1, <1>2, DepthIs DEF P
<1>6. g > 1 => i < Depth(gindex)
  <2> SUFFICES ASSUME g >= 2 PROVE i + 1 <= Depth(gindex)
    BY <1>1, DepthSpec
  <2>1. \A x, y, z \in Nat : x <= y => x * z <= y * z
    OBVIOUS
  <2>2. 2 * P <= g * P
    BY <2>1, <1>1, <1>2
  <2>3. pow2[i + 1] <= gindex
    BY <2>2, <1>1, <1>2, <1>3
  <2>. QED BY <2>3, <1>1, DepthAtLeast
<1>. QED BY <1>1, <1>4, <1>5, <1>6 DEF P

(* One turn of the loop keeps the position ...                             *)
LEMMA ClimbPosition ==
  ASSUME TypeOK, Position, Climb, g > 1, gindex' = gindex
  PROVE  Position'
<1> DEFINE P == pow2[i]
           f == g \div 2
<1>1. gindex \in Nat /\ g \in Nat \ {0} /\ i \in Nat
  BY PositionFacts
<1>2. P \in Nat /\ pow2[i + 1] = 2 * P
  BY <1>1, PowersOfTwo
<1>3. g * P <= gindex /\ gindex < (g + 1) * P
  BY DEF Position
<1>4. f \in Nat /\ 2 * f <= g /\ g + 1 <= 2 * (f + 1)
  BY <1>1
<1>5. g' = f /\ i' = i + 1
  BY DEF Climb
<1> HIDE DEF P, f
<1>6. \A x, y, z \in Nat : x <= y => x * z <= y * z
  OBVIOUS
<1>7. (2 * f) * P <= g * P /\ (g + 1) * P <= (2 * (f + 1)) * P
  BY <1>1, <1>2, <1>4, <1>6
<1>8. (2 * f) * P = f * (2 * P) /\ (2 * (f + 1)) * P = (f + 1) * (2 * P)
  <2>1. \A x, z \in Nat : (2 * x) * z = x * (2 * z)
    OBVIOUS
  <2>. QED BY <2>1, <1>2, <1>4
<1>9. f * (2 * P) \in Nat /\ (f + 1) * (2 * P) \in Nat /\ g * P \in Nat /\ (g + 1) * P \in Nat
  BY <1>1, <1>2, <1>4
<1>10. f * (2 * P) <= gindex /\ gindex < (f + 1) * (2 * P)
  BY <1>1, <1>3, <1>7, <1>8, <1>9
<1>. QED BY <1>2, <1>5, <1>10 DEF Position

(* ... and reaches the tree's node exactly from the tree's node with the   *)
(* tree's sibling.                                                         *)
LEMMA ClimbExact ==
  ASSUME TypeOK, Climb, g > 1
  PROVE  node' = Tree[g'] <=> node = Tree[g] /\ branch[i + 1] = Tree[Sibling(g)]
<1>0. g \in Gindices
  BY TreeSizeAssumption DEF TypeOK, Gindices
<1> DEFINE p == g \div 2
<1>1. Tree[p] = HashConcat(Tree[2 * p], Tree[2 * p + 1]) /\ g' = p
  BY <1>0, ParentNode, TreeAssumption DEF Climb
<1>2. CASE g % 2 = 1
  <2>1. 2 * p + 1 = g /\ 2 * p = Sibling(g)
    BY <1>0, <1>2, ParentNode, TreeSizeAssumption DEF Sibling, Gindices
  <2>2. node' = HashConcat(branch[i + 1], node) /\ Tree[g'] = HashConcat(Tree[Sibling(g)], Tree[g])
    BY <1>1, <1>2, <2>1 DEF Climb
  <2>. QED BY <2>2, HashInjective
<1>3. CASE g % 2 # 1
  <2>1. 2 * p = g /\ 2 * p + 1 = Sibling(g)
    BY <1>0, <1>3, ParentNode, TreeSizeAssumption DEF Sibling, Gindices
  <2>2. node' = HashConcat(node, branch[i + 1]) /\ Tree[g'] = HashConcat(Tree[g], Tree[Sibling(g)])
    BY <1>1, <1>3, <2>1 DEF Climb
  <2>. QED BY <2>2, HashInjective
<1>. QED BY <1>2, <1>3

(* The genuine branch, element by element.                                 *)
LEMMA GenuineElements ==
  ASSUME TypeOK, Depth(gindex) \in Nat, Depth(gindex) <= Len(branch)
  PROVE  SubSeq(branch, 1, Depth(gindex)) = GenuineBranch(gindex)
           <=> \A k \in 1 .. Depth(gindex) : branch[k] = SiblingAt(k)
<1> DEFINE D == Depth(gindex)
           s == SubSeq(branch, 1, D)
           b == GenuineBranch(gindex)
<1>1. D \in Nat /\ D <= Len(branch) /\ branch \in Seq(Digests) /\ Len(branch) \in Nat
  BY DEF TypeOK
<1>2. b = [k \in 1 .. D |-> SiblingAt(k)]
  BY Zenon DEF GenuineBranch, SiblingAt
<1> HIDE DEF D, b
<1>3. s = [k \in 1 .. D |-> branch[k]]
  BY <1>1
<1>4. s = b <=> \A k \in 1 .. D : branch[k] = SiblingAt(k)
  <2> HIDE DEF s
  <2>1. ASSUME s = b, NEW k \in 1 .. D PROVE branch[k] = SiblingAt(k)
    <3>1. s[k] = branch[k] /\ b[k] = SiblingAt(k)
      BY <1>2, <1>3, Zenon
    <3>. QED BY <2>1, <3>1, Zenon
  <2>2. ASSUME \A k \in 1 .. D : branch[k] = SiblingAt(k) PROVE s = b
    BY <2>2, <1>2, <1>3, Zenon
  <2>. QED BY <2>1, <2>2, Zenon
<1>. QED BY <1>4 DEF D, b

(* At the root, being genuine as far as the climb went is what the         *)
(* property BranchExact says of the whole proof.                           *)
LEMMA GenuineAtRoot ==
  ASSUME TypeOK, Position, g = 1
  PROVE  GenuineUpTo(i) <=>
           /\ leaf = Tree[gindex]
           /\ Len(branch) >= Depth(gindex)
           /\ SubSeq(branch, 1, Depth(gindex)) = GenuineBranch(gindex)
<1>1. Depth(gindex) = i /\ i \in Nat /\ i <= Len(branch) /\ Len(branch) \in Nat
  BY PositionFacts DEF TypeOK
<1>2. SubSeq(branch, 1, Depth(gindex)) = GenuineBranch(gindex)
        <=> \A k \in 1 .. Depth(gindex) : branch[k] = SiblingAt(k)
  BY <1>1, GenuineElements
<1>. QED BY <1>1, <1>2 DEF GenuineUpTo

(* ExactInv is inductive relative to the type invariant.                   *)
LEMMA ExactInductive ==
  /\ Init => ExactInv
  /\ ExactInv /\ TypeOK' /\ [Next]_vars => ExactInv'
<1>1. ASSUME Init PROVE ExactInv
  <2>1. TypeOK
    BY <1>1, InputsAssumption DEF Init, TypeOK, StartAt, Gindices
  <2>2. g = gindex /\ i = 0 /\ node = leaf /\ gindex \in Nat
    BY <1>1, TreeSizeAssumption DEF Init, StartAt, Gindices
  <2>3. Position
    <3>1. gindex * 1 <= gindex /\ gindex < (gindex + 1) * 1
      BY <2>2
    <3>. QED BY <2>2, <3>1, PowersOfTwo DEF Position
  <2>4. Exact
    BY <2>2 DEF Exact, GenuineUpTo
  <2>5. Verdict
    BY <1>1 DEF Init, Verdict
  <2>. QED BY <2>1, <2>3, <2>4, <2>5 DEF ExactInv
<1>2. ASSUME ExactInv, TypeOK', [Next]_vars PROVE ExactInv'
  <2>0. TypeOK /\ Position /\ Exact /\ Verdict
    BY <1>2 DEF ExactInv
  <2> SUFFICES Position' /\ Exact' /\ Verdict'
    BY <1>2 DEF ExactInv
  <2>1. CASE VerifyShort
    <3>1. UNCHANGED <<args, locals>> /\ pc' = "done" /\ result' = "false" /\ g > 1 /\ i >= Len(branch)
      BY <2>1 DEF VerifyShort
    <3>2. Len(branch) < Depth(gindex)
      BY <2>0, <3>1, PositionFacts, DepthSpec DEF TypeOK
    <3>3. ~ (Len(branch) >= Depth(gindex)) 
      BY <2>0, <3>2, PositionFacts, DepthSpec DEF TypeOK
    <3>4. UNCHANGED <<leaf, branch, gindex, root, g, i>>
      BY <3>1 DEF args, locals
    <3>5. Position' /\ Exact'
      BY <2>0, <3>1, <3>4 DEF Position, Exact
    <3>6. BranchExact'
      BY <3>1, <3>3, <3>4 DEF BranchExact
    <3>. QED BY <3>1, <3>5, <3>6 DEF Verdict
  <2>2. CASE VerifyClimb
    <3>1. Climb /\ g > 1 /\ i < Len(branch) /\ UNCHANGED args /\ UNCHANGED <<pc, result>> /\ pc = "verify"
      BY <2>2 DEF VerifyClimb
    <3>2. UNCHANGED <<leaf, branch, gindex, root>>
      BY <3>1 DEF args
    <3>3. Position'
      BY <2>0, <3>1, <3>2, ClimbPosition
    <3>4. branch[i + 1] = Tree[Sibling(g)] <=> branch[i + 1] = SiblingAt(i + 1)
      <4>1. g = gindex \div pow2[i] /\ (i + 1) - 1 = i
        BY <2>0, PositionFacts
      <4>. QED BY <4>1, Zenon DEF SiblingAt
    <3>5. GenuineUpTo(i + 1) <=> GenuineUpTo(i) /\ branch[i + 1] = SiblingAt(i + 1)
      <4>1. i \in Nat
        BY <2>0, PositionFacts
      <4>. QED BY <4>1 DEF GenuineUpTo
    <3>6. node' = Tree[g'] <=> GenuineUpTo(i + 1)
      BY <2>0, <3>1, <3>4, <3>5, ClimbExact DEF Exact
    <3>7. Exact'
      BY <3>1, <3>2, <3>6 DEF Exact, GenuineUpTo, SiblingAt, Climb
    <3>8. Verdict'
      BY <2>0, <3>1 DEF Verdict
    <3>. QED BY <3>3, <3>7, <3>8
  <2>3. CASE VerifyReturn
    <3>1. /\ UNCHANGED <<args, locals>> /\ pc' = "done" /\ g = 1 /\ pc = "verify"
          /\ result' = IF node = root THEN "true" ELSE "false"
      BY <2>0, <2>3, PositionFacts DEF VerifyReturn
    <3>2. UNCHANGED <<leaf, branch, gindex, root, g, i>>
      BY <3>1 DEF args, locals
    <3>3. Position' /\ Exact'
      BY <2>0, <3>1, <3>2 DEF Position, Exact
    <3>4. node = Tree[1] <=> GenuineUpTo(i)
      BY <2>0, <3>1 DEF Exact
    <3>5. root = Tree[1] => (result' = "true" <=> GenuineUpTo(i))
      BY <3>1, <3>4
    <3>6. BranchExact'
      BY <2>0, <3>1, <3>2, <3>5, GenuineAtRoot DEF BranchExact
    <3>. QED BY <3>1, <3>3, <3>6 DEF Verdict
  <2>4. CASE BuildClimb
    <3>1. Climb /\ g > 1 /\ UNCHANGED args /\ UNCHANGED <<pc, result>> /\ pc = "build"
      BY <2>4 DEF BuildClimb
    <3>2. Position'
      BY <2>0, <3>1, ClimbPosition DEF args
    <3>. QED BY <2>0, <3>1, <3>2 DEF Exact, Verdict
  <2>5. CASE BuildRaise
    BY <2>0, <2>5 DEF BuildRaise, args, locals, Position, Exact, Verdict
  <2>6. CASE BuildReturn
    <3>1. g' = gindex /\ gindex' = gindex /\ i' = 0 /\ node' = leaf /\ leaf' = leaf /\ result' = "built"
      BY <2>6 DEF BuildReturn
    <3>2. Position'
      <4>1. gindex * 1 <= gindex /\ gindex < (gindex + 1) * 1
        BY <2>0, PositionFacts
      <4>. QED BY <3>1, <4>1, PowersOfTwo DEF Position
    <3>3. Exact'
      BY <3>1 DEF Exact, GenuineUpTo
    <3>. QED BY <3>1, <3>2, <3>3 DEF Verdict
  <2>7. CASE UNCHANGED vars
    <3>1. UNCHANGED <<pc, leaf, branch, gindex, root, node, g, i, result>>
      BY <2>7 DEF vars
    <3>2. GenuineUpTo(i)' <=> GenuineUpTo(i)
      BY <3>1 DEF GenuineUpTo, SiblingAt
    <3>. QED BY <2>0, <3>1, <3>2 DEF Position, Exact, Verdict, BranchExact
  <2>. QED BY <1>2, <2>1, <2>2, <2>3, <2>4, <2>5, <2>6, <2>7 DEF Next
<1>. QED BY <1>1, <1>2

(* verify_merkle_branch is exact: against the root of a tree it returns    *)
(* True for the tree's leaf with the siblings of its own path, deepest     *)
(* first, and for no other proof.                                          *)
THEOREM BranchExactness == Spec => []BranchExact
<1>1. ExactInv => BranchExact
  BY DEF ExactInv, Verdict, BranchExact
<1>. QED BY <1>1, ExactInductive, TypeCorrect, PTL DEF Spec

---------------------------------------------------------------------------
(* build_merkle_branch and verify_merkle_branch walk the same path.  The   *)
(* invariant keeps the climb that the builder made, as a function from     *)
(* heights to nodes: the verifier is always somewhere on it.               *)

(* A climb of n turns from the leaf along the branch that is not past the  *)
(* root before its end.                                                    *)
Step(at, sibling) ==
  [node |-> IF at.g % 2 = 1 THEN HashConcat(sibling, at.node) ELSE HashConcat(at.node, sibling),
   g    |-> at.g \div 2]

IsClimb(t, n) ==
  /\ t[0] = [node |-> leaf, g |-> gindex]
  /\ \A k \in 0 .. n - 1 : t[k].g > 1 /\ t[k + 1] = Step(t[k], branch[k + 1])

Here == [node |-> node, g |-> g]
Fresh    == pc = "build" => result = "none"
Building == pc = "build" => \E t : IsClimb(t, i) /\ t[i] = Here
Built ==
  result = "built" /\ pc = "verify" =>
    \E t : /\ IsClimb(t, Len(branch))
           /\ t[Len(branch)].node = root /\ t[Len(branch)].g <= 1
           /\ t[i] = Here

(* A climb that is extended by a turn of the loop.                         *)
LEMMA ClimbExtends ==
  ASSUME NEW t, NEW n \in Nat, IsClimb(t, n), t[n] = Here, Climb, g > 1, i = n
  PROVE  \E u : IsClimb(u, n + 1) /\ u[n + 1] = Here'
<1> DEFINE u == [k \in 0 .. n + 1 |-> IF k <= n THEN t[k] ELSE Step(t[n], branch[n + 1])]
<1>1. \A k \in 0 .. n : u[k] = t[k]
  OBVIOUS
<1>2. u[n + 1] = Step(t[n], branch[n + 1])
  OBVIOUS
<1> HIDE DEF u
<1>3. t[n].g = g /\ t[n].node = node
  BY DEF Here
<1>4. ASSUME NEW k \in 0 .. (n + 1) - 1 PROVE u[k].g > 1 /\ u[k + 1] = Step(u[k], branch[k + 1])
  <2>1. CASE k = n
    BY <2>1, <1>1, <1>2, <1>3
  <2>2. CASE k # n
    <3>1. k \in 0 .. n - 1 /\ k \in 0 .. n /\ k + 1 \in 0 .. n
      BY <2>2
    <3>2. t[k].g > 1 /\ t[k + 1] = Step(t[k], branch[k + 1])
      BY <3>1 DEF IsClimb
    <3>. QED BY <3>1, <3>2, <1>1
  <2>. QED BY <2>1, <2>2
<1>5. IsClimb(u, n + 1)
  BY <1>1, <1>4 DEF IsClimb
<1>6. Here' = Step(t[n], branch[n + 1])
  BY <1>3 DEF Here, Step, Climb
<1>. QED BY <1>2, <1>5, <1>6

(* The builder's phase starts from nothing, and built means handed over.   *)
RoundTripInv == TypeOK /\ Fresh /\ (result = "built" => pc = "verify") /\ Building /\ Built

(* RoundTripInv is inductive relative to the type invariant, and its steps *)
(* obey RoundTrip.                                                         *)
LEMMA RoundTripInductive ==
  /\ Init => RoundTripInv
  /\ RoundTripInv /\ TypeOK' /\ [Next]_vars => RoundTripInv' /\ [result = "built" /\ pc' = "done" => result' = "true"]_vars
<1>1. ASSUME Init PROVE RoundTripInv
  <2>1. TypeOK
    BY <1>1, InputsAssumption DEF Init, TypeOK, StartAt, Gindices
  <2>2. i = 0 /\ Here = [node |-> leaf, g |-> gindex] /\ result = "none"
    BY <1>1 DEF Init, StartAt, Here
  <2> DEFINE t == [k \in 0 .. 0 |-> Here]
  <2>3. t[0] = Here
    OBVIOUS
  <2> HIDE DEF t
  <2>4. IsClimb(t, i) /\ t[i] = Here
    BY <2>2, <2>3 DEF IsClimb
  <2>5. Building
    BY <2>4 DEF Building
  <2>. QED BY <2>1, <2>2, <2>5 DEF RoundTripInv, Fresh, Built
<1>2. ASSUME RoundTripInv, TypeOK', [Next]_vars
      PROVE  RoundTripInv' /\ [result = "built" /\ pc' = "done" => result' = "true"]_vars
  <2>0. TypeOK /\ Fresh /\ (result = "built" => pc = "verify") /\ Building /\ Built /\ Len(branch) \in Nat /\ i \in Nat /\ i <= Len(branch)
        /\ g \in Nat /\ branch \in Seq(Digests)
    BY <1>2, TreeSizeAssumption DEF RoundTripInv, TypeOK, Gindices
  <2>f. Fresh' /\ (result = "built" => pc = "verify")'
    BY <1>2, <2>0 DEF Next, Fresh, VerifyShort, VerifyClimb, VerifyReturn, BuildClimb, BuildRaise,
                      BuildReturn, vars
  <2> SUFFICES Building' /\ Built' /\ ([result = "built" /\ pc' = "done" => result' = "true"]_vars)
    BY <1>2, <2>f DEF RoundTripInv
  <2>1. CASE VerifyShort
    <3>1. pc = "verify" /\ pc' = "done" /\ g > 1 /\ i = Len(branch)
      BY <2>0, <2>1 DEF VerifyShort
    <3>2. result # "built"
      BY <2>0, <3>1 DEF Built, Here
    <3>. QED BY <3>1, <3>2 DEF Building, Built
  <2>2. CASE VerifyClimb
    <3>1. Climb /\ g > 1 /\ i < Len(branch) /\ UNCHANGED <<leaf, branch, gindex, root, pc, result>> /\ pc = "verify"
      BY <2>2 DEF VerifyClimb, args
    <3>2. Built'
      <4> SUFFICES ASSUME result = "built" PROVE Built'
        BY <3>1 DEF Built
      <4>1. PICK t : /\ IsClimb(t, Len(branch)) /\ t[i] = Here
                     /\ t[Len(branch)].node = root /\ t[Len(branch)].g <= 1
        BY <2>0, <3>1 DEF Built
      <4>2. t[i + 1] = Step(t[i], branch[i + 1])
        BY <2>0, <3>1, <4>1 DEF IsClimb
      <4>3. t[i + 1] = Here'
        BY <3>1, <4>1, <4>2 DEF Step, Here, Climb
      <4>4. IsClimb(t, Len(branch))'
        BY <3>1, <4>1 DEF IsClimb
      <4>5. i' = i + 1
        BY <3>1 DEF Climb
      <4>. QED BY <3>1, <4>1, <4>3, <4>4, <4>5 DEF Built
    <3>. QED BY <3>1, <3>2 DEF Building
  <2>3. CASE VerifyReturn
    <3>1. pc = "verify" /\ pc' = "done" /\ g <= 1 /\ result' = IF node = root THEN "true" ELSE "false"
      BY <2>3 DEF VerifyReturn
    <3>2. ASSUME result = "built" PROVE result' = "true"
      <4>1. PICK t : /\ IsClimb(t, Len(branch)) /\ t[i] = Here
                     /\ t[Len(branch)].node = root /\ t[Len(branch)].g <= 1
        BY <2>0, <3>1, <3>2 DEF Built
      <4>2. t[i].g = g /\ t[i].node = node
        BY <4>1 DEF Here
      <4>3. ~ (i < Len(branch))
        BY <2>0, <3>1, <4>1, <4>2 DEF IsClimb
      <4>4. i = Len(branch)
        BY <2>0, <4>3
      <4>. QED BY <3>1, <4>1, <4>2, <4>4
    <3>. QED BY <3>1, <3>2 DEF Building, Built
  <2>4. CASE BuildClimb
    <3>1. Climb /\ g > 1 /\ UNCHANGED <<leaf, branch, gindex, root, pc, result>> /\ pc = "build"
      BY <2>4 DEF BuildClimb, args
    <3>2. PICK t : IsClimb(t, i) /\ t[i] = Here
      BY <2>0, <3>1 DEF Building
    <3>3. PICK u : IsClimb(u, i + 1) /\ u[i + 1] = Here'
      BY <2>0, <3>1, <3>2, ClimbExtends
    <3>4. i' = i + 1
      BY <3>1 DEF Climb
    <3>5. IsClimb(u, i)'
      BY <3>1, <3>3, <3>4 DEF IsClimb
    <3>6. u[i'] = Here'
      BY <3>3, <3>4
    <3>7. Building'
      BY <3>5, <3>6 DEF Building
    <3>. QED BY <3>1, <3>7 DEF Built
  <2>5. CASE BuildRaise
    <3>1. pc' = "done" /\ pc = "build" /\ result' = "IndexError"
      BY <2>5 DEF BuildRaise
    <3>2. result # "built"
      BY <2>0, <3>1 DEF Fresh
    <3>. QED BY <3>1, <3>2 DEF Building, Built
  <2>6. CASE BuildReturn
    <3>1. /\ pc = "build" /\ pc' = "verify" /\ g <= 1 /\ branch' = SubSeq(branch, 1, i) /\ root' = node
          /\ node' = leaf /\ g' = gindex /\ i' = 0 /\ UNCHANGED <<leaf, gindex>>
      BY <2>6 DEF BuildReturn
    <3>2. PICK t : IsClimb(t, i) /\ t[i] = Here
      BY <2>0, <3>1 DEF Building
    <3>3. Len(branch') = i /\ \A k \in 0 .. i - 1 : branch'[k + 1] = branch[k + 1]
      <4>1. branch' = [k \in 1 .. i |-> branch[k]]
        BY <2>0, <3>1
      <4>. QED BY <2>0, <4>1
    <3>4. IsClimb(t, Len(branch))'
      BY <3>1, <3>2, <3>3 DEF IsClimb
    <3>5. t[i].node = root' /\ t[i].g <= 1 /\ t[0] = Here'
      BY <3>1, <3>2 DEF Here, IsClimb
    <3>6. Built'
      BY <3>1, <3>3, <3>4, <3>5 DEF Built
    <3>. QED BY <3>1, <3>6 DEF Building
  <2>7. CASE UNCHANGED vars
    <3>1. UNCHANGED <<pc, leaf, branch, gindex, root, node, g, i, result>>
      BY <2>7 DEF vars
    <3>2. Building' /\ Built'
      BY <2>0, <3>1 DEF Building, Built, IsClimb, Here
    <3>. QED BY <2>7, <3>2
  <2>. QED BY <1>2, <2>1, <2>2, <2>3, <2>4, <2>5, <2>6, <2>7 DEF Next
<1>. QED BY <1>1, <1>2

(* What build_merkle_branch returns is accepted by verify_merkle_branch.   *)
THEOREM RoundTripCorrect == Spec => RoundTrip
BY RoundTripInductive, TypeCorrect, PTL DEF Spec, RoundTrip
===========================================================================
