SPECIFICATION Spec
CONSTANTS
  t4 = t4
  t5 = t5
  t6 = t6
  t7 = t7
  x = x
  MaxBranch = 3
  TreeSize <- MCTreeSize
  Tree <- MCTree
  Digests <- MCDigests
  Leaves <- MCLeaves
  Roots <- MCRoots
  Branches <- MCBranches
INVARIANTS
  LengthConsistent
CHECK_DEADLOCK FALSE
