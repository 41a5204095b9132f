---------------------------- MODULE BlockBuilder ----------------------------
(***************************************************************************)
(* The block builder (block-builder/src/block_builder.rs): it signs        *)
(* transactions from account snapshots and keeps the envelope of the next  *)
(* block.  Its state is a record that the test client owns; an operation   *)
(* that returns an error leaves it alone.                                  *)
(*                                                                         *)
(* Account i belongs to the i-th signing key; that signing and recovery    *)
(* lead back to that account is the subject of Signing.                    *)
(***************************************************************************)
EXTENDS Types

CONSTANTS
  Key,         \* the addresses of the signing keys, a sequence
  GAS_PRICE,
  Interval     \* seconds between two blocks, 12

\* BlockBuilder::new
NewBuilder ==
  [current_number |-> 0, current_hash |-> hash_header(Genesis.header),
   genesis_timestamp |-> Genesis.header.timestamp,
   current_timestamp |-> Genesis.header.timestamp]

\* checked_mul and checked_add of the timestamp.
timestamp(builder, number) == builder.genesis_timestamp + number * Interval
TimestampFits(builder, number) == timestamp(builder, number) <= MAX_U64

\* Plausible bug: the builder keeps its own head.
set_current_head_ignored(builder, number, hash) == builder

set_current_head(builder, number, hash) ==
  [builder EXCEPT !.current_number = number, !.current_hash = hash,
                  !.current_timestamp = timestamp(builder, number)]

-----------------------------------------------------------------------------
\* build_signed_transaction: `spec' names a sender by the index of its key.
transaction(spec, snapshots) ==
  [kind |-> "Legacy", nonce |-> snapshots[Key[spec.sender_index]].nonce,
   fee_cap |-> GAS_PRICE, priority |-> 0, gas_limit |-> spec.gas_limit,
   to |-> spec.recipient, value |-> spec.value,
   sender |-> Key[spec.sender_index]]

build_error(spec, snapshots) ==
  IF spec.sender_index \notin DOMAIN Key THEN "UnknownSenderIndex"
  ELSE IF Key[spec.sender_index] \notin DOMAIN snapshots
       THEN "MissingAccountSnapshot"
  ELSE IF max_cost(transaction(spec, snapshots)) > MAX_U128 THEN "Overflow"
  ELSE IF max_cost(transaction(spec, snapshots))
            > snapshots[Key[spec.sender_index]].balance
       THEN "InsufficientBalance"
  ELSE "Ok"

gas_used(specs) ==
  LET gas[i \in 0..Len(specs)] ==
        IF i = 0 THEN 0 ELSE gas[i - 1] + specs[i].gas_limit
  IN gas[Len(specs)]

\* generate_block: the error it returns, or "Ok" ...
generate_error(builder, specs, snapshots) ==
  LET Error(i) == IF gas_used(SubSeq(specs, 1, i)) > MAX_U64 THEN "Overflow"
                  ELSE build_error(specs[i], snapshots)
      failing  == {i \in DOMAIN specs : Error(i) # "Ok"}
  IN IF failing # {}
  THEN Error(CHOOSE i \in failing : \A j \in failing : i <= j)
  ELSE IF ~TimestampFits(builder, builder.current_number + 1) THEN "Overflow"
  ELSE "Ok"

\* Plausible bug: the timestamp of the parent is used again.
next_header_same_time(builder, specs) ==
  [parent_hash |-> builder.current_hash,
   number |-> builder.current_number + 1,
   timestamp |-> builder.current_timestamp,
   gas_limit |-> Genesis.header.gas_limit,
   gas_used |-> gas_used(specs), extra |-> "built"]

\* The header of the next block; its roots are placeholders.
next_header(builder, specs) ==
  [parent_hash |-> builder.current_hash,
   number |-> builder.current_number + 1,
   timestamp |-> timestamp(builder, builder.current_number + 1),
   gas_limit |-> Genesis.header.gas_limit,
   gas_used |-> gas_used(specs), extra |-> "built"]

\* ... the block it returns ...
generate_block(builder, specs, snapshots) ==
  [header |-> next_header(builder, specs),
   transactions |-> [i \in DOMAIN specs |-> transaction(specs[i], snapshots)]]

\* ... and the builder after it: its head is the new block, whatever the
\* node will make of that block.
generated(builder, specs) ==
  LET header == next_header(builder, specs)
  IN [builder EXCEPT !.current_number = header.number,
                     !.current_hash = hash_header(header),
                     !.current_timestamp = header.timestamp]

=============================================================================
