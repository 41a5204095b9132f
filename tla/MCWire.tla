------------------------------- MODULE MCWire -------------------------------
(***************************************************************************)
(* The wire format in one instance.  A behaviour has one subject: a stream *)
(* between two peers (Framing), a value of some type with its RLP item, or *)
(* bytes that are decoded.                                                 *)
(*                                                                         *)
(* Values are samples of every type that has a codec.  The items of        *)
(* messages are also changed: fields are dropped, repeated, exchanged,     *)
(* nested or padded with zeros.  Bare items are built from byte strings at *)
(* the boundaries of RLP, and inputs from the bytes at which the decoder   *)
(* takes another branch.                                                   *)
(***************************************************************************)
EXTENDS Framing

CONSTANTS Subjects,    \* which subjects are looked at
          Kinds,       \* types of the sample values
          MaxChanges,  \* bound: changes of a message's item
          MaxDepth,    \* bound: lists around a bare item
          MaxInput,    \* bound: bytes of an input
          InputByte

VARIABLES subject, kind, value, item, input, changes

sampleVars == <<subject, kind, value, item, input, changes>>

Fill(b, n) == [i \in 1..n |-> b]
Uints(w) == {Zeros(w), Zeros(w - 1) \o <<127>>, Zeros(w - 1) \o <<128>>,
             Zeros(w - 2) \o <<1, 0>>, Fill(255, w)}

\* All records that differ from the first one of each field in one field.
RECURSIVE Sample(_), First(_)
First(k) == CHOOSE v \in Sample(k) : TRUE

OneOff(fields) ==
  LET base == [n \in Names(fields) |->
                 First(Kind(fields[CHOOSE i \in DOMAIN fields : Name(fields[i]) = n]))]
  IN  {base} \cup
      UNION {{[base EXCEPT ![Name(fields[i])] = v] : v \in Sample(Kind(fields[i]))} :
               i \in DOMAIN fields}

Tagged(name, tag, r) == [n \in DOMAIN r \cup {name} |-> IF n = name THEN tag ELSE r[n]]

Sample(k) ==
  CASE ListKind(k) -> LET e == First(ElementKind[k])
                      IN  {<< >>, <<e>>} \cup {<<v, e>> : v \in Sample(ElementKind[k])}
    [] k = "u64" -> Uints(8)
    [] k = "u128" -> Uints(16)
    [] k = "bool" -> BOOLEAN
    [] k = "vec" -> {<< >>, <<0>>, <<128>>, Fill(7, 56)}
    [] k = "string" -> {<< >>, <<111, 107>>, <<195, 169>>}
    [] k = "bloom" -> {Fill(0, 256), Fill(255, 256)}
    [] k = "address" -> {Fill(0, 20), Fill(17, 20)}
    [] k = "b256" -> {Fill(0, 32), Fill(171, 32)}
    [] k = "to" -> {<< >>, Fill(17, 20)}
    [] k = "AccessListItem" -> OneOff(access_list_item_encoded)
    [] k = "Header" -> OneOff(header_encoded)
    [] k = "SignedTransaction" -> OneOff(signed_transaction_encoded)
    [] k = "Block" -> OneOff(block_encoded)
    [] k = "Account" -> OneOff(account_encoded)
    [] k = "BlockAnnouncement" -> OneOff(block_announcement_encoded)
    [] k = "Transaction" ->
         UNION {{Tagged("tx_type", t, r) : r \in OneOff(transaction_encoded[t])} :
                  t \in DOMAIN transaction_tag}
    [] k = "Message" ->
         UNION {{Tagged("type", t, r) : r \in OneOff(message_encoded[t])} : t \in DOMAIN tags}

ItemOf(k, v) == IF k = "Message" THEN message_to_rlp_item(v) ELSE to_rlp_item(k, v)
ValueOf(k, i) == IF k = "Message" THEN message_from_rlp_item(i) ELSE from_rlp_item(k, i)

-----------------------------------------------------------------------------
(* Streams *)

\* A few messages of different length; the last one exceeds MAX_FRAME_SIZE.
MCPayload ==
  {[type |-> "Ping"],
   [type |-> "Status", chain_id |-> Uint64(200), head_hash |-> [i \in 1..32 |-> i],
    total_difficulty |-> Zeros(16)],
   [type |-> "Disconnect", reason |-> <<98, 121, 101>>],
   [type |-> "Disconnect", reason |-> Fill(98, MAX_FRAME_SIZE)]}

Stream == Next /\ UNCHANGED sampleVars

-----------------------------------------------------------------------------
(* Values, items and inputs *)

Leaf == {Bytes(Fill(b, n)) : b \in {0, 127, 128}, n \in {0, 1, 2, 53, 54, 55, 56, 255, 256}}
Suffix == {<< >>, <<0>>, <<128>>, <<192, 255>>}
NoItem == Bytes(<< >>)

MCInit ==
  /\ Init
  /\ subject \in Subjects
  /\ kind \in IF subject = "value" THEN Kinds ELSE {"none"}
  /\ value \in IF subject = "value" THEN Sample(kind) ELSE {0}
  /\ item \in CASE subject = "value" -> {ItemOf(kind, value)}
                [] subject = "item"  -> Leaf
                [] OTHER             -> {NoItem}
  /\ input = << >>
  /\ changes = 0

Pad(i) == IF IsList(i) THEN List(<<Bytes(<< >>)>> \o i.list) ELSE Bytes(<<0>> \o i.bytes)

Damaged(s) ==
  {Append(s, Bytes(<< >>))}
  \cup {RemoveAt(s, i) : i \in DOMAIN s}
  \cup {InsertAt(s, i, s[i]) : i \in DOMAIN s}
  \cup {ReplaceAt(s, i, List(<<s[i]>>)) : i \in DOMAIN s}
  \cup {ReplaceAt(s, i, Pad(s[i])) : i \in DOMAIN s}
  \cup {ReplaceAt(s, i, Bytes(<<255>>)) : i \in DOMAIN s}
  \cup {[s EXCEPT ![i] = s[i + 1], ![i + 1] = s[i]] : i \in 1..(Len(s) - 1)}

\* The tag of a message stays: the frame carries it in one byte.
Change ==
  /\ subject = "value" /\ kind = "Message" /\ changes < MaxChanges
  /\ item' \in {List(<<item.list[1]>> \o s) : s \in Damaged(Tail(item.list))}
  /\ changes' = changes + 1
  /\ UNCHANGED <<vars, subject, kind, value, input>>

Nest ==
  /\ subject = "item" /\ changes < MaxDepth
  /\ \E l \in Leaf : item' \in {List(<< >>), List(<<item>>), List(<<item, l>>), List(<<l, item>>)}
  /\ changes' = changes + 1
  /\ UNCHANGED <<vars, subject, kind, value, input>>

Extend ==
  /\ subject = "input" /\ Len(input) < MaxInput
  /\ \E b \in InputByte : input' = Append(input, b)
  /\ UNCHANGED <<vars, subject, kind, value, item, changes>>

MCNext == (subject = "stream" /\ Stream) \/ Change \/ Nest \/ Extend

MCSpec == MCInit /\ [][MCNext]_<<vars, sampleVars>>

-----------------------------------------------------------------------------
\* Rlp: every item is written in exactly the bytes that its length announces
\* and reads back, whatever follows it; of an arbitrary input, acceptance
\* depends on the consumed bytes only and a truncated item is never taken for
\* another one.
RlpExact ==
  /\ subject = "item" =>
       LengthExact(item) /\ \A suffix \in Suffix : DecodesBack(item, suffix)
  /\ subject = "input" => DecodeExact(input)

\* What traits.rs and message.rs encode, they decode to the same value, from
\* the item and from its bytes; codec.rs reads a message back from its frame,
\* also with the beginning of another frame behind it.
ValueRoundTrip ==
  subject = "value" /\ changes = 0 =>
    /\ ValueOf(kind, item) = Ok(value)
    /\ ValueOf(kind, decode(encode(item)).item) = Ok(value)
    /\ kind = "Message" =>
         decode_frame(encode_frame(value).ok \o <<0, 0>>)
           = [result |-> Ok(value), src |-> <<0, 0>>]

\* The two hand-written decoders of a message, in message.rs and in codec.rs,
\* give the same message or the same error for every list of fields.
DecodersAgree ==
  kind = "Message" =>
    decode_payload(<<as_u8(u64_from(item.list[1]).ok)>> \o encode(List(Tail(item.list))))
      = message_from_rlp_item(item)

=============================================================================
