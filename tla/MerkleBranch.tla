--------------------------- MODULE MerkleBranch ---------------------------
(***************************************************************************)
(* The two loops of src/reference/are_ssz.py that climb a Merkle tree      *)
(* along the bits of a generalized index: build_merkle_branch, which the   *)
(* packager runs, and verify_merkle_branch, which the verifier runs.       *)
(*                                                                         *)
(* SHA-256 of a concatenation is the free constructor HashConcat: two      *)
(* digests are equal exactly when they were computed from equal inputs.    *)
(* Tree is a committed binary tree in heap order: node 1 is its root and   *)
(* node g has the children 2g and 2g+1, so that g is a generalized index.  *)
(* A call may be given any leaf, branch, gindex and root; what the caller  *)
(* cares about is the root of Tree.                                        *)
(***************************************************************************)
EXTENDS Powers, Sequences

CONSTANTS
  Digests,    \* the digests a caller can name
  TreeSize,   \* number of nodes of the committed tree
  Tree,       \* the digest of every node
  Branches,   \* the branches (sequences of digests) a caller may pass
  Leaves,     \* the leaves a caller may pass
  Roots       \* the roots a caller may pass

HashConcat(a, b) == [left |-> a, right |-> b]

Gindices == 1 .. TreeSize

ASSUME TreeSizeAssumption == TreeSize \in Nat /\ TreeSize % 2 = 1
ASSUME TreeAssumption ==
  /\ DOMAIN Tree = Gindices
  /\ \A g \in Gindices :
       2 * g + 1 \in Gindices => Tree[g] = HashConcat(Tree[2 * g], Tree[2 * g + 1])
ASSUME InputsAssumption ==
  /\ Leaves \subseteq Digests
  /\ Roots \subseteq Digests
  /\ Branches \subseteq Seq(Digests)

VARIABLES
  pc,       \* "build", "verify" or "done"
  leaf, branch, gindex, root,   \* the arguments of the call
  node, g, i,                   \* the locals of the loop
  result                        \* what verify_merkle_branch returned

args   == <<leaf, branch, gindex, root>>
locals == <<node, g, i>>
vars   == <<pc, leaf, branch, gindex, root, node, g, i, result>>

Sibling(h) == IF h % 2 = 1 THEN h - 1 ELSE h + 1

(* Mutant of Climb: the sibling is always hashed on the right.             *)
ClimbOneSided ==
  /\ node' = HashConcat(node, branch[i + 1])
  /\ g' = g \div 2
  /\ i' = i + 1

(* One turn of either loop: hash the node with its sibling, on the side    *)
(* that the lowest bit of g says, and move to the parent.                  *)
Climb ==
  /\ node' = IF g % 2 = 1 THEN HashConcat(branch[i + 1], node)
                          ELSE HashConcat(node, branch[i + 1])
  /\ g' = g \div 2
  /\ i' = i + 1

StartAt(l, h) == node = l /\ g = h /\ i = 0

Init ==
  /\ leaf \in Leaves
  /\ branch \in Branches
  /\ gindex \in Gindices
  /\ root \in Roots
  /\ StartAt(leaf, gindex)
  /\ pc \in {"build", "verify"}
  /\ result = "none"

---------------------------------------------------------------------------
(* verify_merkle_branch *)

(* Mutants of VerifyShort: a branch that is used up ends the climb and is  *)
(* compared where it stands; a branch that is exactly used up is missed.   *)
VerifyShortCompares ==
  /\ pc = "verify" /\ g > 1 /\ i >= Len(branch)
  /\ result' = IF node = root THEN "true" ELSE "false"
  /\ pc' = "done"
  /\ UNCHANGED <<args, locals>>

VerifyShortLate ==
  /\ pc = "verify" /\ g > 1 /\ i > Len(branch)
  /\ result' = "false"
  /\ pc' = "done"
  /\ UNCHANGED <<args, locals>>

VerifyShort ==
  /\ pc = "verify" /\ g > 1 /\ i >= Len(branch)
  /\ result' = "false"
  /\ pc' = "done"
  /\ UNCHANGED <<args, locals>>

(* Mutant of VerifyClimb: the loop does not stop at the root.              *)
VerifyClimbPastRoot ==
  /\ pc = "verify" /\ g >= 1 /\ i < Len(branch)
  /\ Climb
  /\ UNCHANGED <<pc, args, result>>

VerifyClimb ==
  /\ pc = "verify" /\ g > 1 /\ i < Len(branch)
  /\ Climb
  /\ UNCHANGED <<pc, args, result>>

VerifyReturn ==
  /\ pc = "verify" /\ g <= 1
  /\ result' = IF node = root THEN "true" ELSE "false"
  /\ pc' = "done"
  /\ UNCHANGED <<args, locals>>

---------------------------------------------------------------------------
(* build_merkle_branch: branch holds the siblings to use.  siblings[i]     *)
(* raises an IndexError when there are too few of them.                    *)

BuildClimb ==
  /\ pc = "build" /\ g > 1 /\ i < Len(branch)
  /\ Climb
  /\ UNCHANGED <<pc, args, result>>

BuildRaise ==
  /\ pc = "build" /\ g > 1 /\ i >= Len(branch)
  /\ result' = "IndexError"
  /\ pc' = "done"
  /\ UNCHANGED <<args, locals>>

(* Mutant of BuildReturn: the branch returned lacks its last element.      *)
BuildReturnCut ==
  /\ pc = "build" /\ g <= 1
  /\ branch' = SubSeq(branch, 1, i - 1)
  /\ root' = node
  /\ node' = leaf /\ g' = gindex /\ i' = 0
  /\ pc' = "verify"
  /\ result' = "built"
  /\ UNCHANGED <<leaf, gindex>>

(* The branch it returns is cut to the siblings it used.  The packager     *)
(* ships branch and root; the verifier is then called with both.           *)
BuildReturn ==
  /\ pc = "build" /\ g <= 1
  /\ branch' = SubSeq(branch, 1, i)
  /\ root' = node
  /\ node' = leaf /\ g' = gindex /\ i' = 0
  /\ pc' = "verify"
  /\ result' = "built"
  /\ UNCHANGED <<leaf, gindex>>

Next ==
  \/ VerifyShort \/ VerifyClimb \/ VerifyReturn
  \/ BuildClimb \/ BuildRaise \/ BuildReturn

Spec     == Init /\ [][Next]_vars
FairSpec == Spec /\ WF_vars(Next)

---------------------------------------------------------------------------
(* Properties *)

(* The locals stay in range: the loop climbs from gindex towards the root  *)
(* and never reads a sibling past the end of the branch.                   *)
TypeOK ==
  /\ pc \in {"build", "verify", "done"}
  /\ branch \in Seq(Digests)
  /\ gindex \in Gindices
  /\ g \in 1 .. gindex
  /\ i \in 0 .. Len(branch)
  /\ result \in {"none", "built", "true", "false", "IndexError"}

(* A branch that verifies against the root of the tree proves that the     *)
(* leaf is the tree's node at the generalized index, whatever siblings the *)
(* caller supplied (verify_merkle_branch returning True).                  *)
BranchSound == result = "true" /\ root = Tree[1] => leaf = Tree[gindex]

(* The siblings of a node's path, deepest first. *)
GenuineBranch(h) == [k \in 1 .. Depth(h) |-> Tree[Sibling(h \div pow2[k - 1])]]

(* Against the root of the tree the loop answers True for exactly one      *)
(* proof: the right leaf with the siblings of its own path, deepest first, *)
(* possibly followed by elements the loop never reads.                     *)
BranchExact ==
  (result \in {"true", "false"} /\ root = Tree[1]) =>
    (result = "true" <=>
       /\ leaf = Tree[gindex]
       /\ Len(branch) >= Depth(gindex)
       /\ SubSeq(branch, 1, Depth(gindex)) = GenuineBranch(gindex))

(* What build_merkle_branch returns is accepted by verify_merkle_branch:   *)
(* generator and verifier walk the same path in the same order.            *)
RoundTrip == [][result = "built" /\ pc' = "done" => result' = "true"]_vars

(* Every call returns: each turn of the loop halves g.                     *)
Terminates == <>(pc = "done")

(* The specification's rule "A verifier MUST reject a branch whose         *)
(* length/index is inconsistent with the gindex" (Appendix B).             *)
LengthConsistent == result = "true" /\ gindex > 1 => Len(branch) = Depth(gindex)
===========================================================================
