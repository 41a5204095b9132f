SPECIFICATION Spec
CONSTANTS
  a1 = a1
  a2 = a2
  c1 = c1
  c2 = c2
  c3 = c3
  NoAddress = NoAddress
  NoAccount = NoAccount
  Rejected = Rejected
  Address <- MCAddress
  Key <- MCKey
  Hash <- MCHash
  Extra = {"genesis", "built"}
  MAX_U64 = 20
  MAX_U128 = 100
  Block <- MCBlock
  Genesis <- MCGenesis
  GenesisAccounts <- MCAccounts
  hash_header <- MCHashHeader
  GAS_PRICE = 1
  Interval = 2
  Value = 1
  GasLimit = 1
  Client <- ThreeRuns
  Stranger <- LastRun
  MaxPings = 1
  block_count = 2
  transactions_per_block <- MCTransactionsPerBlock
INVARIANTS
  BuilderTracksChain
  HeadKeepsUp
PROPERTIES
  RunsComplete
