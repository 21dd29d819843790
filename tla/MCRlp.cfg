\* Every decoding ends: the state in which it has is final.
SPECIFICATION Spec
CONSTANTS
  NONE = NONE
  MAX_BITS = 30
  MAX_NESTING = 8
  Items <- MCItems
  Shapes <- MCShapes
  Datas <- MCDatas
  Tails <- MCTails
  Numbers <- MCNumbers
  Paths <- MCPaths
  Hashes <- MCHashes
INVARIANTS
  ItemRoundTrip
  NodeRoundTrip
  AccountRoundTrip
  StorageRoundTrip
  NothingLost
PROPERTIES
  Ends
CHECK_DEADLOCK FALSE
