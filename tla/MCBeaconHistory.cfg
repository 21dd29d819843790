\* Windows of four slots; the chain grows over three of them.
SPECIFICATION Spec
CONSTANTS
  NONE = NONE
  SLOTS_PER_EPOCH = 2
  EPOCHS_PER_SYNC_COMMITTEE_PERIOD = 2
  MINIMAL_COMMITTEE_SIZE = 4
  MAINNET_COMMITTEE_SIZE = 8
  BLOCK_ROOTS_VECTOR_DEPTH = 2
  HISTORICAL_SUMMARIES_LIST_DEPTH = 2
  FORK_SCHEDULE <- MCForkSchedule
  MAX_SLOT = 11
INVARIANTS
  TypeOK
  AncestorsReachable
CHECK_DEADLOCK FALSE
