\* Every call ends: the state in which it has is final.
SPECIFICATION RootSpec
CONSTANTS
  NONE = NONE
  VALUE_ERROR = VALUE_ERROR
  BYTES_PER_CHUNK = 32
  MAX_DEPTH = 8
  NUMBER_BYTES = 3
  Bytes32 <- MCBytes32
  Node <- MCNode
  ChunkLists <- MCChunkLists
  Datas <- MCDatas
  Limits = {0, 1, 2, 3, 4, 5, 8, 32, 33, 64, 65, 97}
  Objects <- MCObjects
INVARIANTS
  TypeOK
  RootExact
  LevelExact
  BytesBound
  RootIdentifies
  BitsRoundTrip
PROPERTIES
  Terminates
CHECK_DEADLOCK FALSE
