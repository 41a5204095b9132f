-------------------------------- MODULE Rlp --------------------------------
(***************************************************************************)
(* RLP items and their byte encoding.  Bytes are numbers below 256 and the *)
(* boundaries of the format are the real ones.  A length that needs more   *)
(* than three bytes is MaxUsize: it is larger than any input here.         *)
(***************************************************************************)
EXTENDS Integers, SequencesExt

MaxUsize == 2^24

Bytes(data) == [bytes |-> data]
List(items) == [list |-> items]
IsList(item) == "list" \in DOMAIN item

Err(kind) == [error |-> kind]
Failed(result) == "error" \in DOMAIN result

Map(op(_), s) == [i \in DOMAIN s |-> op(s[i])]
From(s, i) == SubSeq(s, i, Len(s))

-----------------------------------------------------------------------------
(* Encoder *)

\* Plausible bug: only the leading byte of a longer length is written.
encode_length_short(value) == IF value <= 255 THEN <<value>> ELSE <<value \div 256>>

RECURSIVE encode_length(_)
encode_length(value) ==
  (IF value <= 255 THEN << >> ELSE encode_length(value \div 256)) \o <<value % 256>>

encoded_length_len(value) ==
  CHOOSE n \in 0..8 : value < 256^n /\ (n = 0 \/ value >= 256^(n - 1))

length_prefix_len(payload_len) ==
  IF payload_len <= 55 THEN 1 ELSE 1 + encoded_length_len(payload_len)

OwnPrefix(data) == Len(data) = 1 /\ data[1] < 128

RECURSIVE encoded_len(_)
encoded_len(item) ==
  IF IsList(item)
  THEN LET payload_len == FoldLeft(+, 0, Map(encoded_len, item.list))
       IN  length_prefix_len(payload_len) + payload_len
  ELSE IF OwnPrefix(item.bytes) THEN 1
       ELSE length_prefix_len(Len(item.bytes)) + Len(item.bytes)

Prefix(short, long, len) ==
  IF len <= 55 THEN <<short + len>>
  ELSE LET length_bytes == encode_length(len)
       IN  <<long + Len(length_bytes)>> \o length_bytes

add_rlp_list_prefix(encoded_items_len) == Prefix(192, 247, encoded_items_len)

RECURSIVE encode(_)
encode(item) ==
  IF IsList(item)
  THEN LET encoded_items == FlattenSeq(Map(encode, item.list))
       IN  add_rlp_list_prefix(Len(encoded_items)) \o encoded_items
  ELSE IF OwnPrefix(item.bytes) THEN item.bytes
       ELSE Prefix(128, 183, Len(item.bytes)) \o item.bytes

-----------------------------------------------------------------------------
(* Decoder: an item with the rest of the input, or an error.               *)

usize(bytes) ==
  LET n == Len(bytes)
      Digit(i) == IF i < n THEN bytes[n - i] * 256^i ELSE 0
  IN  IF \E i \in 1..(n - 3) : bytes[i] # 0 THEN MaxUsize
      ELSE Digit(0) + Digit(1) + Digit(2)

decode_length(slice, len_of_len) ==
  IF len_of_len = 0 THEN Err("InvalidLength")
  ELSE IF len_of_len > Len(slice) THEN Err("InputTooShort")
  ELSE [len |-> usize(SubSeq(slice, 1, len_of_len))]

\* The payload of an item whose prefix is input[1]: short lengths are counted
\* from `short', longer ones stand in input[1] - long further bytes.
payload(input, short, long) ==
  LET len_of_len == IF input[1] > long THEN input[1] - long ELSE 0
      length == IF len_of_len = 0 THEN [len |-> input[1] - short]
                ELSE decode_length(Tail(input), len_of_len)
      after == From(input, 2 + len_of_len)
  IN  IF Failed(length) THEN length
      ELSE IF length.len > Len(after) THEN Err("InputTooShort")
      ELSE [payload |-> SubSeq(after, 1, length.len), rest |-> From(after, length.len + 1)]

RECURSIVE decode(_), decode_items(_)
decode(input) ==
  IF input = << >> THEN Err("InputTooShort")
  ELSE IF input[1] < 128 THEN [item |-> Bytes(<<input[1]>>), rest |-> Tail(input)]
  ELSE IF input[1] < 192
  THEN LET p == payload(input, 128, 183)
       IN  IF Failed(p) THEN p ELSE [item |-> Bytes(p.payload), rest |-> p.rest]
  ELSE LET p == payload(input, 192, 247)
           items == decode_items(p.payload)
       IN  IF Failed(p) THEN p
           ELSE IF Failed(items) THEN items
           ELSE [item |-> List(items.list), rest |-> p.rest]

decode_items(payload_slice) ==
  IF payload_slice = << >> THEN List(<< >>)
  ELSE LET first == decode(payload_slice)
           others == decode_items(first.rest)
       IN  IF Failed(first) THEN first
           ELSE IF Failed(others) THEN others
           ELSE List(<<first.item>> \o others.list)

-----------------------------------------------------------------------------
(* Properties of an item and of an input                                   *)

\* Decoding the encoding of an item gives the item back and leaves exactly
\* the bytes that follow it, whatever they are (encoder.rs and decoder.rs
\* agree on every prefix form, also at 55, 56, 255 and 256 bytes).
DecodesBack(item, suffix) == decode(encode(item) \o suffix) = [item |-> item, rest |-> suffix]

\* encoded_len, from which encode sizes its buffer before it writes a list,
\* is the length that encode writes.
LengthExact(item) == encoded_len(item) = Len(encode(item))

\* What decode accepts is settled by the bytes it consumes: they decode alone
\* to the same item, no shorter prefix decodes at all, and the item's own
\* encoding is never longer and decodes to it again.
DecodeExact(input) ==
  LET result == decode(input)
      used == SubSeq(input, 1, Len(input) - Len(result.rest))
  IN  \/ Failed(result)
      \/ /\ decode(used) = [item |-> result.item, rest |-> << >>]
         /\ input = used \o result.rest
         /\ \A n \in 0..(Len(used) - 1) : Failed(decode(SubSeq(used, 1, n)))
         /\ Len(encode(result.item)) <= Len(used)
         /\ DecodesBack(result.item, << >>)

=============================================================================
