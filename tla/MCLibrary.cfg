SPECIFICATION MCSpec
CONSTANTS
  Subjects = {"signing", "trie", "cache", "bytes"}
  alice = alice
  invalid = invalid
  a1 = a1
  a2 = a2
  Address = {a1, a2}
  NoAddress = NoAddress
  Hash <- MCHash
  Extra = {0, 1}
  MAX_U64 = 3
  MAX_U128 = 12
  Genesis <- MCGenesis
  Block <- MCBlock
  hash_header <- MCHashHeader
  Slot = {1}
  Receipts <- MCReceipts
  capacity = 1
  NoAccount = NoAccount
  Unsaved = Unsaved
  Key <- MCKey
  InvalidKey = {invalid}
  Stranger = stranger
  Tx <- MCTx
  ChainId = {0, 1, 13, 14, 20, 32, 63}
  U64Max = 63
INVARIANTS
  ArraysExact
  SenderIsSigner
  SignerRecovered
  HashIdentifies
  OrderIndependent
  RootBindsContents
  Transparent
CHECK_DEADLOCK FALSE
