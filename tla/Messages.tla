------------------------------ MODULE Messages ------------------------------
(***************************************************************************)
(* The network messages: their RLP items (message.rs) and their frames on  *)
(* the wire (codec.rs).  Both sides decode by hand, so each has a table of *)
(* its own.  A message is a record with its variant's name and fields.     *)
(***************************************************************************)
EXTENDS RlpTypes

CONSTANT MAX_FRAME_SIZE

tags ==
  [Ping |-> 0, Pong |-> 1, Status |-> 2, Transactions |-> 3, GetBlockHeaders |-> 4,
   NewBlock |-> 7, NewBlockHashes |-> 8, BlockHeaders |-> 9, Disconnect |-> 10,
   GetAccountState |-> 11, AccountState |-> 12, GetChainHead |-> 13, ChainHead |-> 14]

message_encoded ==
  [Ping |-> << >>,
   Pong |-> << >>,
   Status |-> << <<"chain_id", "u64">>, <<"head_hash", "b256">>, <<"total_difficulty", "u128">> >>,
   Transactions |-> << <<"txs", "txs">> >>,
   GetBlockHeaders |-> << <<"start_hash", "b256">>, <<"count", "u64">> >>,
   NewBlock |-> << <<"block", "Block">>, <<"td", "u128">> >>,
   NewBlockHashes |-> << <<"new_blocks", "new_blocks">> >>,
   BlockHeaders |-> << <<"headers", "headers">> >>,
   Disconnect |-> << <<"reason", "string">> >>,
   GetAccountState |-> << <<"address", "address">> >>,
   AccountState |-> << <<"address", "address">>, <<"nonce", "u64">>, <<"balance", "u128">> >>,
   GetChainHead |-> << >>,
   ChainHead |-> << <<"number", "u64">>, <<"hash", "b256">>, <<"total_difficulty", "u128">> >>]

\* from_rlp_item: place 0 holds the tag.
message_decoded ==
  [Ping |-> << >>,
   Pong |-> << >>,
   Status |-> << <<"chain_id", "u64", 1>>, <<"head_hash", "b256", 2>>,
                 <<"total_difficulty", "u128", 3>> >>,
   Transactions |-> << <<"txs", "txs", 1>> >>,
   GetBlockHeaders |-> << <<"start_hash", "b256", 1>>, <<"count", "u64", 2>> >>,
   NewBlock |-> << <<"block", "Block", 1>>, <<"td", "u128", 2>> >>,
   NewBlockHashes |-> << <<"new_blocks", "new_blocks", 1>> >>,
   BlockHeaders |-> << <<"headers", "headers", 1>> >>,
   Disconnect |-> << <<"reason", "string", 1>> >>,
   GetAccountState |-> << <<"address", "address", 1>> >>,
   AccountState |-> << <<"address", "address", 1>>, <<"nonce", "u64", 2>>,
                       <<"balance", "u128", 3>> >>,
   GetChainHead |-> << >>,
   ChainHead |-> << <<"number", "u64", 1>>, <<"hash", "b256", 2>>,
                    <<"total_difficulty", "u128", 3>> >>]

\* The codec's match on the tag: the fields without the tag.
frame_decoded ==
  [Ping |-> << >>,
   Pong |-> << >>,
   Status |-> << <<"chain_id", "u64", 0>>, <<"head_hash", "b256", 1>>,
                 <<"total_difficulty", "u128", 2>> >>,
   Transactions |-> << <<"txs", "txs", 0>> >>,
   GetBlockHeaders |-> << <<"start_hash", "b256", 0>>, <<"count", "u64", 1>> >>,
   NewBlock |-> << <<"block", "Block", 0>>, <<"td", "u128", 1>> >>,
   NewBlockHashes |-> << <<"new_blocks", "new_blocks", 0>> >>,
   BlockHeaders |-> << <<"headers", "headers", 0>> >>,
   Disconnect |-> << <<"reason", "string", 0>> >>,
   GetAccountState |-> << <<"address", "address", 0>> >>,
   AccountState |-> << <<"address", "address", 0>>, <<"nonce", "u64", 1>>,
                       <<"balance", "u128", 2>> >>,
   GetChainHead |-> << >>,
   ChainHead |-> << <<"number", "u64", 0>>, <<"hash", "b256", 1>>,
                    <<"total_difficulty", "u128", 2>> >>]

-----------------------------------------------------------------------------
(* Items *)

\* Well-formed UTF-8, up to the few second bytes that its lead byte forbids.
Utf8Lead(n) == CASE n = 2 -> 194..223 [] n = 3 -> 224..239 [] n = 4 -> 240..244

RECURSIVE from_utf8(_)
from_utf8(b) ==
  \/ b = << >>
  \/ b # << >> /\ b[1] < 128 /\ from_utf8(Tail(b))
  \/ \E n \in 2..4 :
       /\ Len(b) >= n /\ b[1] \in Utf8Lead(n)
       /\ \A i \in 2..n : b[i] \in 128..191
       /\ from_utf8(From(b, n + 1))

field_item(kind, value) == IF kind = "string" THEN Bytes(value) ELSE to_rlp_item(kind, value)

string_from(item) ==
  IF IsList(item) THEN Err("UnexpectedType")
  ELSE IF ~from_utf8(item.bytes) THEN Err("InvalidString")
  ELSE Ok(item.bytes)

field_from(kind, item) == IF kind = "string" THEN string_from(item) ELSE from_rlp_item(kind, item)

message_to_rlp_item(message) ==
  List(<<u64_item(Uint64(tags[message.type]))>>
       \o Write(field_item, message_encoded[message.type], message))

as_u8(n) == n[8]
TypeOf(tag) == {t \in DOMAIN tags : tags[t] = tag}

WithType(type, fields) ==
  IF Failed(fields) THEN fields
  ELSE Ok([n \in DOMAIN fields.ok \cup {"type"} |-> IF n = "type" THEN type ELSE fields.ok[n]])

message_from_rlp_item(item) ==
  LET tag == u64_from(item.list[1])
      type == CHOOSE t \in TypeOf(as_u8(tag.ok)) : TRUE
  IN  IF ~IsList(item) THEN Err("UnexpectedType")
      ELSE IF item.list = << >> THEN Err("InvalidLength")
      ELSE IF Failed(tag) THEN tag
      ELSE IF TypeOf(as_u8(tag.ok)) = {} THEN Err("UnexpectedType")
      ELSE IF Len(item.list) # 1 + Len(message_decoded[type]) THEN Err("InvalidLength")
      ELSE WithType(type, Read(field_from, message_decoded[type], item.list))

-----------------------------------------------------------------------------
(* Frames: four bytes of length, one byte of tag, the list of the fields   *)

put_u32(n) == <<0, n \div 65536, (n \div 256) % 256, n % 256>>

Frame(tag, payload_bytes) == put_u32(1 + Len(payload_bytes)) \o <<tag>> \o payload_bytes

encode_frame(message) ==
  LET x == message_to_rlp_item(message).list
      payload_bytes == encode(List(Tail(x)))
  IN  IF 1 + Len(payload_bytes) > MAX_FRAME_SIZE THEN Err("FrameTooLarge")
      ELSE Ok(Frame(as_u8(u64_from(x[1]).ok), payload_bytes))

\* Plausible bug: more fields than a variant has are accepted.
arity_ok_lenient(type, fields) == Len(fields) >= Len(frame_decoded[type])

arity_ok(type, fields) == Len(fields) = Len(frame_decoded[type])

\* The message of one complete frame; an empty frame has no tag to look at.
decode_payload(frame) ==
  LET decoded_payload == decode(Tail(frame))
      fields == decoded_payload.item
      type == CHOOSE t \in TypeOf(frame[1]) : TRUE
  IN  IF frame = << >> THEN [panic |-> "index out of bounds"]
      ELSE IF Failed(decoded_payload) THEN decoded_payload
      ELSE IF ~IsList(fields) \/ TypeOf(frame[1]) = {} THEN Err("UnexpectedType")
      ELSE IF ~arity_ok(type, fields.list) THEN Err("InvalidLength")
      ELSE WithType(type, Read(field_from, frame_decoded[type], fields.list))

\* The next message in the buffer and what is left, or None (no `result').
decode_frame(src) ==
  LET frame_length == usize(SubSeq(src, 1, 4)) IN
  IF Len(src) < 4 \/ Len(src) < 4 + frame_length THEN [src |-> src]
  ELSE [result |-> decode_payload(SubSeq(src, 5, 4 + frame_length)),
        src    |-> From(src, 5 + frame_length)]

=============================================================================
