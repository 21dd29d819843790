SPECIFICATION FairSpec
CONSTANTS
  v1 = v1
  v2 = v2
  v3 = v3
  junk = junk
  EmptyRoot = EmptyRoot
  NoNode = NoNode
  ABSENT = ABSENT
  NoValue = NoValue
  KeyLen = 3
  EMPTY_TRIE_ROOT = EmptyRoot
  Undecodable = {junk}
  Nibble <- MCNibble
  Node <- MCNode
  Trie <- MCTrie
  Content <- MCContent
  Keys <- MCKeys
  Builds <- MCBuilds
  Proofs <- MCProofs
  Roots <- MCRoots
INVARIANTS
  TypeOK
  WalkSound
  AnswerSound
  WalkExact
  GeneratedProofServes
PROPERTIES
  Terminates
\* A call ends: the last state has no successor.
CHECK_DEADLOCK FALSE
