SPECIFICATION MCSpec
CONSTANTS
  MAX_FRAME_SIZE = 3000
  Payload <- MCPayload
  MaxSend = 2
  CanDie = TRUE
  Subjects = {"stream", "value", "item", "input"}
  Kinds = {"u64", "u128", "bool", "vec", "bloom", "address", "b256", "to", "AccessListItem", "Transaction", "Header", "SignedTransaction", "Block", "BlockAnnouncement", "Message"}
  MaxChanges = 2
  MaxDepth = 2
  MaxInput = 4
  InputByte = {0, 1, 2, 127, 128, 129, 130, 183, 184, 185, 191, 192, 193, 194, 247, 248, 249}
INVARIANTS
  StreamExact
  RlpExact
  ValueRoundTrip
  DecodersAgree
PROPERTIES
  ImplementsQueue
CHECK_DEADLOCK FALSE
