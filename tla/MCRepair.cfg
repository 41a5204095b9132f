SPECIFICATION FairSpec
CONSTANTS
  a1 = a1
  a2 = a2
  NoAddress = NoAddress
  NoAccount = NoAccount
  Unsaved = Unsaved
  Rejected = Rejected
  Address <- MCAddress
  Hash <- MCHash
  Extra <- MCHash
  MAX_U64 = 3
  MAX_U128 = 12
  MAX_TXS = 2
  Block <- RepairBlocks
  Genesis <- MCGenesis
  GenesisAccounts <- MCGenesisAccounts
  hash_header <- MCHashHeader
  QueueCap = 2
  MaxCopies = 2
  MaxMessages = 5
PROPERTIES
  AnswersAdvance
  ValidChildCommits
  ShutdownHonoured
  HonestChainCommits
