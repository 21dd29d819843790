\* Real sizes, but for the history list: 11 levels hold the summary index
\* 1037 of the deep ancestor and keep gindices below 2^31.
SPECIFICATION Spec
CONSTANTS
  NONE = NONE
  ABSENT = ABSENT
  TRUNCATED = TRUNCATED
  EMPTY_TRIE_ROOT = EMPTY_TRIE_ROOT
  SLOTS_PER_EPOCH = 32
  EPOCHS_PER_SYNC_COMMITTEE_PERIOD = 256
  MINIMAL_COMMITTEE_SIZE = 32
  MAINNET_COMMITTEE_SIZE = 512
  BLOCK_ROOTS_VECTOR_DEPTH = 13
  HISTORICAL_SUMMARIES_LIST_DEPTH = 11
  FORK_SCHEDULE <- MCForkSchedule
  MAX_KILLS = 1
INVARIANTS
  GeneratorsAgree
  RunnerAgrees
  RerunRestores
PROPERTIES
  ExitStatus
