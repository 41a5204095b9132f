------------------------------- MODULE Types -------------------------------
(***************************************************************************)
(* The domain types of core/types that the execution engine works on, and  *)
(* the two fee computations of a transaction.                              *)
(*                                                                         *)
(* Data is kept to what the code branches on.  A signed transaction        *)
(* carries what recover_sender returns for it under the node's chain id    *)
(* (`sender', NoAddress when recovery fails).  A header keeps the fields   *)
(* that are compared; `extra' stands for beneficiary, state_root and       *)
(* transactions_root, which only influence the hash.                       *)
(***************************************************************************)
EXTENDS Integers, Sequences

CONSTANTS
  Address,        \* account addresses
  NoAddress,      \* `to: None', and a sender that cannot be recovered
  Hash,           \* values of B256 used as block hashes
  Extra,          \* the header fields that only influence the hash
  MAX_U64,        \* u64::MAX, small in a model
  MAX_U128,       \* u128::MAX, small in a model
  Block,          \* the blocks that peers may send, the genesis block included
  Genesis,        \* the genesis block
  hash_header(_)  \* keccak of the RLP of a header

\* Block numbers are u64 in the code and naturals here: a number next to
\* u64::MAX needs 2^64 committed blocks.
Header == [parent_hash : Hash, number : Nat, timestamp : Nat,
           gas_limit : 0..MAX_U64, gas_used : 0..MAX_U64, extra : Extra]

\* fee_cap is gas_price of a Legacy transaction, max_fee_per_gas otherwise.
Transaction == [kind : {"Legacy", "Eip1559", "Eip4844"}, nonce : 0..MAX_U64,
                fee_cap : 0..MAX_U128, priority : 0..MAX_U128,
                gas_limit : 0..MAX_U64, to : Address \cup {NoAddress},
                value : 0..MAX_U128, sender : Address \cup {NoAddress}]

BlockType == [header : Header, transactions : Seq(Transaction)]

\* code_hash is never written by the executor and is left out.
Account == [balance : 0..MAX_U128, nonce : 0..MAX_U64]

DefaultAccount == [balance |-> 0, nonce |-> 0]

ASSUME BoundsAssumption ==
  /\ MAX_U64 \in Nat \ {0}
  /\ MAX_U128 \in Nat
  /\ MAX_U64 <= MAX_U128
  /\ NoAddress \notin Address

ASSUME BlockAssumption ==
  \A b \in Block : b \in BlockType

\* node/src/main.rs builds block 0 without transactions.
ASSUME GenesisAssumption ==
  /\ Genesis \in Block
  /\ Genesis.header.number = 0
  /\ Genesis.transactions = << >>

\* Keccak is taken to be collision free on the headers in play.
ASSUME HashAssumption ==
  /\ \A b \in Block : hash_header(b.header) \in Hash
  /\ \A b, c \in Block :
       hash_header(b.header) = hash_header(c.header) => b.header = c.header

-----------------------------------------------------------------------------
\* What Transaction::max_cost computes.  The caller sees Err(Overflow) when
\* the result does not fit u128; the product never exceeds the sum, so the
\* two checked operations fail exactly when the sum is too large.
max_cost(tx) == tx.fee_cap * tx.gas_limit + tx.value

\* Transaction::effective_gas_price: the error it returns, or "Ok" ...
effective_gas_price_error(tx, base_fee) ==
  IF tx.kind = "Legacy" THEN "Ok"
  ELSE IF base_fee > tx.fee_cap THEN "InsufficientMaxFee"
  ELSE IF base_fee + tx.priority > MAX_U128 THEN "Overflow"
  ELSE "Ok"

\* ... and the price when it returns one.
effective_gas_price(tx, base_fee) ==
  IF tx.kind = "Legacy" \/ tx.fee_cap < base_fee + tx.priority
  THEN tx.fee_cap
  ELSE base_fee + tx.priority

=============================================================================
