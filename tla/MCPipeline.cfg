SPECIFICATION PipelineSpec
CONSTANTS
  a1 = a1
  a2 = a2
  a3 = a3
  NoAddress = NoAddress
  NoAccount = NoAccount
  Unsaved = Unsaved
  Rejected = Rejected
  Address <- MCAddress
  Hash <- MCHash
  Extra = {0, 1}
  MAX_U64 = 3
  MAX_U128 = 12
  MAX_TXS = 2
  Block <- MCBlock
  Genesis <- MCGenesis
  GenesisAccounts <- MCGenesisAccounts
  hash_header <- MCHashHeader
INVARIANTS
  PipelineTypeOK
  NoUnderflow
  RejectionsJustified
  Conservation
PROPERTIES
  CommitsWholeBlocks
  ImplementsLedger
