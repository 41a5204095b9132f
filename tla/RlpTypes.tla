------------------------------ MODULE RlpTypes ------------------------------
(***************************************************************************)
(* The RLP items of the domain types.  An integer is its big-endian byte   *)
(* array of full width (8 bytes for u64, 16 for u128), an address, hash or *)
(* bloom filter its byte array, an optional address the empty sequence     *)
(* for None.  A decoder returns [ok |-> value] or the error it stops at.   *)
(***************************************************************************)
EXTENDS Rlp

Ok(value) == [ok |-> value]
Zeros(n) == [i \in 1..n |-> 0]

-----------------------------------------------------------------------------
(* Scalars *)

u64_item(value) ==
  IF value = Zeros(8) THEN Bytes(<< >>)
  ELSE Bytes(From(value, SelectInSeq(value, LAMBDA b : b # 0)))

u128_item(value) ==
  IF value = Zeros(16) THEN Bytes(<< >>)
  ELSE Bytes(From(value, SelectInSeq(value, LAMBDA b : b # 0)))

u64_from(item) ==
  IF IsList(item) THEN Err("UnexpectedType")
  ELSE IF Len(item.bytes) > 8 THEN Err("InvalidLength")
  ELSE Ok(Zeros(8 - Len(item.bytes)) \o item.bytes)

u128_from(item) ==
  IF IsList(item) THEN Err("UnexpectedType")
  ELSE IF Len(item.bytes) > 16 THEN Err("InvalidLength")
  ELSE Ok(Zeros(16 - Len(item.bytes)) \o item.bytes)

bool_item(value) == Bytes(IF value THEN <<1>> ELSE <<0>>)

bool_from(item) ==
  IF IsList(item) THEN Err("UnexpectedType")
  ELSE IF Len(item.bytes) # 1 THEN Err("InvalidLength")
  ELSE IF item.bytes[1] > 1 THEN Err("UnexpectedType")
  ELSE Ok(item.bytes[1] = 1)

vec_item(value) == Bytes(value)
vec_from(item) == IF IsList(item) THEN Err("UnexpectedType") ELSE Ok(item.bytes)

try_from(n, item) ==
  IF IsList(item) THEN Err("UnexpectedType")
  ELSE IF Len(item.bytes) # n THEN Err("InvalidLength")
  ELSE Ok(item.bytes)

bloom_item(value) == Bytes(value)
bloom_from(item) == try_from(256, item)
address_item(value) == Bytes(value)
address_from(item) == try_from(20, item)
b256_item(value) == Bytes(value)
b256_from(item) == try_from(32, item)

to_item(value) == IF value = << >> THEN Bytes(<< >>) ELSE address_item(value)

decode_to(item) ==
  IF IsList(item) THEN Err("UnexpectedType")
  ELSE IF item.bytes = << >> THEN Ok(<< >>)
  ELSE address_from(item)

-----------------------------------------------------------------------------
(* Lists and records.  A record is written as the sequence of its fields,  *)
(* <<name, kind>>, and read field by field, <<name, kind, place>>.         *)

RECURSIVE from_rlp_item(_, _)

FieldsOk(results) ==
  LET bad == SelectInSeq(results, Failed) IN
  IF bad = 0 THEN Ok([i \in DOMAIN results |-> results[i].ok]) ELSE results[bad]

decode_list_of(kind, item) ==
  IF ~IsList(item) THEN Err("UnexpectedType")
  ELSE FieldsOk(Map(LAMBDA i : from_rlp_item(kind, i), item.list))

Name(field) == field[1]
Kind(field) == field[2]
Place(field) == field[3]
Names(fields) == {Name(fields[i]) : i \in DOMAIN fields}

\* The fields as a record, or the first error (places count from zero).
Read(decoder(_, _), fields, items) ==
  LET results == [i \in DOMAIN fields |->
                    decoder(Kind(fields[i]), items[Place(fields[i]) + 1])]
      values == FieldsOk(results)
  IN  IF Failed(values) THEN values
      ELSE Ok([n \in Names(fields) |->
                 values.ok[CHOOSE i \in DOMAIN fields : Name(fields[i]) = n]])

ReadAll(decoder(_, _), fields, item) ==
  IF ~IsList(item) THEN Err("UnexpectedType")
  ELSE IF Len(item.list) # Len(fields) THEN Err("InvalidLength")
  ELSE Read(decoder, fields, item.list)

Write(encoder(_, _), fields, value) ==
  [i \in DOMAIN fields |-> encoder(Kind(fields[i]), value[Name(fields[i])])]

ListKind(kind) == kind \in {"storage_keys", "access_list", "blob_hashes", "txs", "transactions",
                            "headers", "new_blocks"}
ElementKind ==
  [storage_keys |-> "b256", access_list |-> "AccessListItem", blob_hashes |-> "b256",
   txs |-> "Transaction", transactions |-> "SignedTransaction", headers |-> "Header",
   new_blocks |-> "BlockAnnouncement"]

access_list_item_encoded == << <<"address", "address">>, <<"storage_keys", "storage_keys">> >>
access_list_item_decoded ==
  << <<"address", "address", 0>>, <<"storage_keys", "storage_keys", 1>> >>

common_encoded ==
  << <<"nonce", "u64">>, <<"gas_limit", "u64">>, <<"to", "to">>, <<"value", "u128">>,
     <<"data", "vec">> >>
dynamic_fee_encoded ==
  common_encoded \o << <<"max_fee_per_gas", "u128">>, <<"max_priority_fee_per_gas", "u128">>,
                       <<"access_list", "access_list">> >>
transaction_encoded ==
  [Legacy  |-> common_encoded \o << <<"gas_price", "u128">> >>,
   Eip1559 |-> dynamic_fee_encoded,
   Eip4844 |-> dynamic_fee_encoded \o << <<"max_fee_per_blob_gas", "u128">>,
                                         <<"blob_versioned_hashes", "blob_hashes">> >>]
transaction_tag == [Legacy |-> 0, Eip1559 |-> 2, Eip4844 |-> 3]

common_decoded ==
  << <<"nonce", "u64", 1>>, <<"gas_limit", "u64", 2>>, <<"to", "to", 3>>,
     <<"value", "u128", 4>>, <<"data", "vec", 5>> >>
dynamic_fee_decoded ==
  common_decoded \o << <<"max_fee_per_gas", "u128", 6>>,
                       <<"max_priority_fee_per_gas", "u128", 7>>,
                       <<"access_list", "access_list", 8>> >>

\* Plausible bug: the two fees of an EIP-1559 transaction are read from each
\* other's place.
transaction_decoded_swapped ==
  [Legacy  |-> common_decoded \o << <<"gas_price", "u128", 6>> >>,
   Eip1559 |-> common_decoded \o << <<"max_fee_per_gas", "u128", 7>>,
                                    <<"max_priority_fee_per_gas", "u128", 6>>,
                                    <<"access_list", "access_list", 8>> >>,
   Eip4844 |-> dynamic_fee_decoded \o << <<"max_fee_per_blob_gas", "u128", 9>>,
                                         <<"blob_versioned_hashes", "blob_hashes", 10>> >>]

transaction_decoded ==
  [Legacy  |-> common_decoded \o << <<"gas_price", "u128", 6>> >>,
   Eip1559 |-> dynamic_fee_decoded,
   Eip4844 |-> dynamic_fee_decoded \o << <<"max_fee_per_blob_gas", "u128", 9>>,
                                         <<"blob_versioned_hashes", "blob_hashes", 10>> >>]

header_encoded ==
  << <<"parent_hash", "b256">>, <<"beneficiary", "address">>, <<"state_root", "b256">>,
     <<"transactions_root", "b256">>, <<"gas_limit", "u64">>, <<"gas_used", "u64">>,
     <<"timestamp", "u64">>, <<"number", "u64">> >>
header_decoded ==
  << <<"parent_hash", "b256", 0>>, <<"beneficiary", "address", 1>>, <<"state_root", "b256", 2>>,
     <<"transactions_root", "b256", 3>>, <<"gas_limit", "u64", 4>>, <<"gas_used", "u64", 5>>,
     <<"timestamp", "u64", 6>>, <<"number", "u64", 7>> >>

signed_transaction_encoded ==
  << <<"transaction", "Transaction">>, <<"v", "u64">>, <<"r", "b256">>, <<"s", "b256">> >>
signed_transaction_decoded ==
  << <<"transaction", "Transaction", 0>>, <<"v", "u64", 1>>, <<"r", "b256", 2>>,
     <<"s", "b256", 3>> >>

block_encoded == << <<"header", "Header">>, <<"transactions", "transactions">> >>
block_decoded == << <<"header", "Header", 0>>, <<"transactions", "transactions", 1>> >>

account_encoded == << <<"balance", "u128">>, <<"nonce", "u64">>, <<"code_hash", "b256">> >>
\* All three fields are read from the first item.
account_decoded ==
  << <<"balance", "u128", 0>>, <<"nonce", "u64", 0>>, <<"code_hash", "b256", 0>> >>

block_announcement_encoded == << <<"hash", "b256">>, <<"number", "u64">> >>
block_announcement_decoded == << <<"hash", "b256", 0>>, <<"number", "u64", 1>> >>

-----------------------------------------------------------------------------
(* to_rlp_item and from_rlp_item of every kind                             *)

Uint64(n) == Zeros(7) \o <<n>>

RECURSIVE to_rlp_item(_, _)
to_rlp_item(kind, value) ==
  LET Record(fields) == List(Write(to_rlp_item, fields, value)) IN
  CASE ListKind(kind) ->
         List(Map(LAMBDA v : to_rlp_item(ElementKind[kind], v), value))
    [] kind = "u64" -> u64_item(value)
    [] kind = "u128" -> u128_item(value)
    [] kind = "bool" -> bool_item(value)
    [] kind = "vec" -> vec_item(value)
    [] kind = "bloom" -> bloom_item(value)
    [] kind = "address" -> address_item(value)
    [] kind = "b256" -> b256_item(value)
    [] kind = "to" -> to_item(value)
    [] kind = "AccessListItem" -> Record(access_list_item_encoded)
    [] kind = "Header" -> Record(header_encoded)
    [] kind = "SignedTransaction" -> Record(signed_transaction_encoded)
    [] kind = "Block" -> Record(block_encoded)
    [] kind = "Account" -> Record(account_encoded)
    [] kind = "BlockAnnouncement" -> Record(block_announcement_encoded)
    [] kind = "Transaction" ->
         List(<<u64_item(Uint64(transaction_tag[value.tx_type]))>>
              \o Write(to_rlp_item, transaction_encoded[value.tx_type], value))

Variant(tag, tags) == {v \in DOMAIN tags : tag = Uint64(tags[v])}

TransactionFrom(item) ==
  LET tag == u64_from(item.list[1])
      tx_type == CHOOSE v \in DOMAIN transaction_tag : v \in Variant(tag.ok, transaction_tag)
      fields == Read(from_rlp_item, transaction_decoded[tx_type], item.list)
  IN  IF ~IsList(item) THEN Err("UnexpectedType")
      ELSE IF item.list = << >> THEN Err("InvalidLength")
      ELSE IF Failed(tag) THEN tag
      ELSE IF Variant(tag.ok, transaction_tag) = {} THEN Err("UnexpectedType")
      ELSE IF Len(item.list) # 1 + Len(transaction_decoded[tx_type]) THEN Err("InvalidLength")
      ELSE IF Failed(fields) THEN fields
      ELSE Ok([n \in DOMAIN fields.ok \cup {"tx_type"} |->
                 IF n = "tx_type" THEN tx_type ELSE fields.ok[n]])

from_rlp_item(kind, item) ==
  CASE ListKind(kind) -> decode_list_of(ElementKind[kind], item)
    [] kind = "u64" -> u64_from(item)
    [] kind = "u128" -> u128_from(item)
    [] kind = "bool" -> bool_from(item)
    [] kind = "vec" -> vec_from(item)
    [] kind = "bloom" -> bloom_from(item)
    [] kind = "address" -> address_from(item)
    [] kind = "b256" -> b256_from(item)
    [] kind = "to" -> decode_to(item)
    [] kind = "AccessListItem" -> ReadAll(from_rlp_item, access_list_item_decoded, item)
    [] kind = "Header" -> ReadAll(from_rlp_item, header_decoded, item)
    [] kind = "SignedTransaction" -> ReadAll(from_rlp_item, signed_transaction_decoded, item)
    [] kind = "Block" -> ReadAll(from_rlp_item, block_decoded, item)
    [] kind = "Account" -> ReadAll(from_rlp_item, account_decoded, item)
    [] kind = "BlockAnnouncement" -> ReadAll(from_rlp_item, block_announcement_decoded, item)
    [] kind = "Transaction" -> TransactionFrom(item)

=============================================================================
