-------------------------- MODULE MCMerkleBranch --------------------------
(* A complete tree of depth 2 over four distinct leaves; every branch of   *)
(* at most MaxBranch digests, with a digest x that is not in the tree.     *)
EXTENDS MerkleBranch, FiniteSets

CONSTANTS t4, t5, t6, t7, x, MaxBranch

MCTreeSize == 7
MCTree ==
  LET leaves == <<t4, t5, t6, t7>>
      T[h \in 1 .. 7] == IF h >= 4 THEN leaves[h - 3]
                                   ELSE HashConcat(T[2 * h], T[2 * h + 1])
  IN  T

MCDigests  == {MCTree[h] : h \in 1 .. 7} \union {x}
MCLeaves   == MCDigests
MCRoots    == {MCTree[1], MCTree[2]}
MCBranches == UNION {[1 .. k -> MCDigests \ {MCTree[1]}] : k \in 0 .. MaxBranch}
===========================================================================
