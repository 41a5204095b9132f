------------------------------ MODULE Signing ------------------------------
(***************************************************************************)
(* Signing of transactions and recovery of the sender.  RLP lists are      *)
(* sequences of field values (module Rlp checks that their encoding is     *)
(* injective), keccak256 has no collisions and the signature scheme is     *)
(* ideal: a signature belongs to one key, digest and recovery id, and with *)
(* any other digest or recovery id recovery finds no key or a strange one. *)
(***************************************************************************)
EXTENDS Integers, Sequences

CONSTANTS Key,        \* private keys
          InvalidKey, \* those that are no scalar of the curve
          Stranger,   \* the address of a key that nobody holds
          Tx,         \* transactions
          ChainId,    \* chain ids, as u64
          U64Max      \* the largest u64, scaled down

VARIABLES request,    \* the arguments of the last call of sign
          outcome     \* its result

signingVars == <<request, outcome>>

ASSUME SigningAssumption ==
  /\ U64Max \in Nat /\ ChainId \subseteq 0..U64Max
  /\ InvalidKey \subseteq Key /\ Stranger \notin Key

Err(kind) == [error |-> kind]
Ok(value) == [ok |-> value]
IsOk(result) == "ok" \in DOMAIN result

Fields(names, tx) == [i \in DOMAIN names |-> tx[names[i]]]

-----------------------------------------------------------------------------
(* External: digest and signature scheme *)

keccak256(data) == [digest |-> data]

sign_prehash_recoverable(key, digest, recovery_id) ==
  [key |-> key, digest |-> digest, recovery_id |-> recovery_id]

recover_from_prehash(digest, signature, recovery_id) ==
  IF digest = signature.digest /\ recovery_id = signature.recovery_id
  THEN {Ok(signature.key)}
  ELSE {Ok(Stranger), Err("RecoveryFailed")}

-----------------------------------------------------------------------------
(* What is signed and what is hashed.  The type byte of a typed             *)
(* transaction goes before the list; a legacy one has none.                 *)

tx_type == [Legacy |-> 0, Eip1559 |-> 2, Eip4844 |-> 3]

legacy_fields == <<"nonce", "gas_price", "gas_limit", "to", "value", "data">>

eip1559_fields ==
  <<"nonce", "max_priority_fee_per_gas", "max_fee_per_gas", "gas_limit", "to", "value", "data",
    "access_list">>
eip4844_fields == eip1559_fields \o <<"max_fee_per_blob_gas", "blob_versioned_hashes">>

typed_fields(tx) == IF tx.type = "Eip1559" THEN eip1559_fields ELSE eip4844_fields

FieldsOf(tx) == IF tx.type = "Legacy" THEN legacy_fields ELSE typed_fields(tx)

\* A transaction has the fields of its variant of enum Transaction.
ASSUME TransactionAssumption ==
  \A tx \in Tx :
    /\ tx.type \in DOMAIN tx_type
    /\ tx = [n \in {"type"} \cup {FieldsOf(tx)[i] : i \in DOMAIN FieldsOf(tx)} |-> tx[n]]

legacy_to_encoded_bytes(tx, chain_id) ==
  [list |-> Fields(legacy_fields, tx) \o <<chain_id, 0, 0>>]

\* Plausible bug: typed transactions are signed without the chain id.
typed_without_chain(tx, chain_id) ==
  [prefix |-> tx_type[tx.type], list |-> Fields(typed_fields(tx), tx)]

typed_to_encoded_bytes(tx, chain_id) ==
  [prefix |-> tx_type[tx.type], list |-> <<chain_id>> \o Fields(typed_fields(tx), tx)]

signing_payload(tx, chain_id) ==
  IF tx.type = "Legacy" THEN legacy_to_encoded_bytes(tx, chain_id)
  ELSE typed_to_encoded_bytes(tx, chain_id)

legacy_to_wire(signed) ==
  [list |-> Fields(legacy_fields, signed.transaction), v |-> signed.v, rs |-> signed.rs]

\* Plausible bug: the signature is left out of the wire form.
typed_to_wire_unsigned(signed) ==
  [prefix |-> tx_type[signed.transaction.type],
   list |-> Fields(typed_fields(signed.transaction), signed.transaction)]

typed_to_wire(signed) ==
  [prefix |-> tx_type[signed.transaction.type],
   list |-> Fields(typed_fields(signed.transaction), signed.transaction),
   v |-> signed.v, rs |-> signed.rs]

signed_transaction_hash(signed) ==
  keccak256(IF signed.transaction.type = "Legacy" THEN legacy_to_wire(signed)
            ELSE typed_to_wire(signed))

-----------------------------------------------------------------------------
(* sign.  Only the product is checked for overflow: the additions panic in  *)
(* a build with overflow checks and wrap in one without.                    *)

v_outcomes(tx, chain_id, recovery_id) ==
  LET sum == recovery_id + 2 * chain_id + 35 IN
  IF tx.type # "Legacy" THEN {Ok(recovery_id)}
  ELSE IF 2 * chain_id > U64Max THEN {Err("InvalidSignature")}
  ELSE IF sum > U64Max THEN {[panic |-> "overflow"], Ok(sum % (U64Max + 1))}
  ELSE {Ok(sum)}

sign(tx, key, chain_id, recovery_id) ==
  LET digest == keccak256(signing_payload(tx, chain_id)) IN
  IF key \in InvalidKey THEN {Err("InvalidPrivateKey")}
  ELSE {IF ~IsOk(v) THEN v
        ELSE Ok([transaction |-> tx, v |-> v.ok,
                 rs |-> sign_prehash_recoverable(key, digest, recovery_id)]) :
          v \in v_outcomes(tx, chain_id, recovery_id)}

\* Plausible bug: v is read as before EIP-155.
recovery_id_byte_homestead(signed, chain_id) ==
  IF signed.transaction.type # "Legacy" THEN Ok(signed.v)
  ELSE IF signed.v >= 27 THEN Ok(signed.v - 27)
  ELSE Err("InvalidSignature")

recovery_id_byte(signed, chain_id) ==
  IF signed.transaction.type # "Legacy" THEN Ok(signed.v)
  ELSE IF 2 * chain_id > U64Max \/ signed.v < 2 * chain_id + 35 THEN Err("InvalidSignature")
  ELSE Ok(signed.v - 2 * chain_id - 35)

\* The possible results: an address, here the key it belongs to, or an error.
recover_sender(signed, chain_id) ==
  LET digest == keccak256(signing_payload(signed.transaction, chain_id))
      recovery_id == recovery_id_byte(signed, chain_id)
  IN  IF ~IsOk(recovery_id) THEN {recovery_id}
      ELSE IF recovery_id.ok > 1 THEN {Err("InvalidSignature")}
      ELSE recover_from_prehash(digest, signed.rs, recovery_id.ok)

-----------------------------------------------------------------------------
(* Specification: any transaction is signed by any key for any chain       *)

SigningInit == request = << >> /\ outcome = Err("none")

Sign(tx, key, chain_id) ==
  /\ request = << >>
  /\ request' = <<tx, key, chain_id>>
  /\ \E recovery_id \in {0, 1} : outcome' \in sign(tx, key, chain_id, recovery_id)

SigningNext ==
  \E tx \in Tx, key \in Key, chain_id \in ChainId : Sign(tx, key, chain_id)

SigningSpec == SigningInit /\ [][SigningNext]_signingVars

-----------------------------------------------------------------------------
(* Properties *)

\* The signature just made around the body tx with the value v.
Around(tx, v) == [transaction |-> tx, v |-> v, rs |-> outcome.ok.rs]

\* A sender is recovered only for what that sender signed: the body with all
\* of its fields, its type and the chain id are committed to, so a signature
\* around another body or read on another chain yields no key holder.
SenderIsSigner ==
  IsOk(outcome) =>
    \A tx \in Tx, v \in 0..U64Max, chain_id \in ChainId, key \in Key :
      Ok(key) \in recover_sender(Around(tx, v), chain_id) => request = <<tx, key, chain_id>>

\* Whatever sign returns for a chain id below the edge of u64 recovers to the
\* key that signed, and to nothing else.
SignerRecovered ==
  IsOk(outcome) /\ 2 * request[3] + 36 <= U64Max =>
    recover_sender(outcome.ok, request[3]) = {Ok(request[2])}

\* signed_transaction_hash, the key of the transaction index, differs for
\* signed transactions that differ in any part.
HashIdentifies ==
  IsOk(outcome) =>
    \A tx \in Tx, v \in 0..U64Max :
      signed_transaction_hash(Around(tx, v)) = signed_transaction_hash(outcome.ok)
        => Around(tx, v) = outcome.ok

=============================================================================
