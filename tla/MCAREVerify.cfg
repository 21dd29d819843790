SPECIFICATION FairSpec
CONSTANTS
  p1 = p1
  p2 = p2
  mainnet = mainnet
  testnet = testnet
  torn = torn
  NONE = NONE
  ABSENT = ABSENT
  TRUNCATED = TRUNCATED
  EMPTY_TRIE_ROOT = EMPTY_TRIE_ROOT
  SLOTS_PER_EPOCH = 2
  EPOCHS_PER_SYNC_COMMITTEE_PERIOD = 2
  MINIMAL_COMMITTEE_SIZE = 4
  MAINNET_COMMITTEE_SIZE = 8
  BLOCK_ROOTS_VECTOR_DEPTH = 1
  HISTORICAL_SUMMARIES_LIST_DEPTH = 2
  FORK_SCHEDULE <- MCForkSchedule
  PRESET = "MAINNET"
  ChainId = mainnet
  GenesisValidatorsRoot = mainnet
  Committees <- MCCommittees
  MaxStalenessSlots = 3
  DisputeMode = FALSE
  ProviderKeys <- MCProviderKeys
  Heads = {5, 8}
  LeafAt <- MCLeafAt
  TrieAt <- MCTrieAt
  Signed <- MCSigned
  Chain <- MCChain
  HonestInputs <- MCHonestInputs
  Inputs <- MCInputs
  MAX_READS = 2
  LongValues <- MCLongValues
  LongProofs <- MCLongProofs
  LongHints <- MCLongHints
  LongExtraData <- MCLongExtraData
  ZeroHeader <- MCZero
  Undecodable = {torn}
INVARIANTS
  TypeOK
  AcceptSound
  FinalizedSound
  FloorOnChain
  HonestServed
PROPERTIES
  CallsReturn
  ImplementsOracle
