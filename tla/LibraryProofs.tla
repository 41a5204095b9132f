---------------------------- MODULE LibraryProofs ----------------------------
(***************************************************************************)
(* The components that work alone.                                         *)
(*                                                                         *)
(* For all keys, transactions, chain ids and integer widths: what sign     *)
(* returns recovers to the signer, a key holder is recovered only for what *)
(* that key holder signed, and the hash of a transaction identifies it.    *)
(* For all blocks, accounts and capacities: a read through the caches      *)
(* answers what the wrapped provider would.                                *)
(***************************************************************************)
EXTENDS Signing, CachedProvider, TLAPS

(* Signing *)

\* The last call of sign and one of its possible outcomes.
SignedInv ==
  IsOk(outcome) =>
    \E tx \in Tx, key \in Key \ InvalidKey, chain_id \in ChainId, rid \in {0, 1} :
      /\ request = <<tx, key, chain_id>>
      /\ outcome \in sign(tx, key, chain_id, rid)

\* A signature is returned with the v that v_outcomes allows.
LEMMA SignResult ==
  ASSUME NEW tx, NEW key, NEW chain_id, NEW rid, NEW o \in sign(tx, key, chain_id, rid),
         IsOk(o)
  PROVE  /\ key \notin InvalidKey
         /\ \E v \in v_outcomes(tx, chain_id, rid) :
              /\ IsOk(v)
              /\ o = Ok([transaction |-> tx, v |-> v.ok,
                         rs |-> sign_prehash_recoverable(key,
                                  keccak256(signing_payload(tx, chain_id)), rid)])
<1>1. \A kind : ~IsOk(Err(kind))
  BY DEF IsOk, Err
<1>2. key \notin InvalidKey
  BY <1>1 DEF sign
<1> QED BY <1>1, <1>2 DEF sign

\* The invariant holds: only Sign produces an outcome.
LEMMA SignedInvariant == SigningSpec => []SignedInv
<1>1. SigningInit => SignedInv
  BY DEF SigningInit, SignedInv, IsOk, Err
<1>2. SignedInv /\ [SigningNext]_signingVars => SignedInv'
  <2> SUFFICES ASSUME SignedInv, [SigningNext]_signingVars, IsOk(outcome')
               PROVE  \E tx \in Tx, key \in Key \ InvalidKey, chain_id \in ChainId,
                         rid \in {0, 1} :
                        /\ request' = <<tx, key, chain_id>>
                        /\ outcome' \in sign(tx, key, chain_id, rid)
    BY DEF SignedInv
  <2>1. CASE UNCHANGED signingVars
    BY <2>1 DEF signingVars, SignedInv
  <2>2. CASE SigningNext
    <3>1. PICK tx \in Tx, key \in Key, chain_id \in ChainId, rid \in {0, 1} :
            /\ request' = <<tx, key, chain_id>>
            /\ outcome' \in sign(tx, key, chain_id, rid)
      BY <2>2 DEF SigningNext, Sign
    <3>2. key \notin InvalidKey
      BY <3>1, SignResult
    <3> QED BY <3>1, <3>2
  <2> QED BY <2>1, <2>2
<1> QED BY <1>1, <1>2, PTL DEF SigningSpec

\* v carries the recovery id: recovery_id_byte undoes v_outcomes as long as the
\* additions of sign stay within u64.
LEMMA RecoveryIdReadsBack ==
  ASSUME NEW tx, NEW chain_id \in ChainId, NEW rid \in {0, 1},
         2 * chain_id + 36 <= U64Max,
         NEW v \in v_outcomes(tx, chain_id, rid), NEW signed,
         signed.transaction = tx, signed.v = v.ok
  PROVE  recovery_id_byte(signed, chain_id) = Ok(rid)
<1>1. U64Max \in Nat /\ chain_id \in Nat /\ rid \in Nat /\ rid <= 1
  BY SigningAssumption
<1>2. CASE tx.type # "Legacy"
  <2>1. v = Ok(rid)
    BY <1>2 DEF v_outcomes
  <2> QED BY <1>2, <2>1 DEF recovery_id_byte, Ok
<1>3. CASE tx.type = "Legacy"
  <2>1. v = Ok(rid + 2 * chain_id + 35)
    BY <1>1, <1>3 DEF v_outcomes
  <2>2. signed.v = rid + 2 * chain_id + 35
    BY <2>1 DEF Ok
  <2>3. signed.v - 2 * chain_id - 35 = rid
    BY <1>1, <2>2
  <2> QED BY <1>1, <1>3, <2>2, <2>3 DEF recovery_id_byte
<1> QED BY <1>2, <1>3

\* Whatever sign returns for a chain id whose v fits into u64 recovers to the
\* key that signed it, for every type of transaction.
THEOREM SignaturesRecover == SigningSpec => []SignerRecovered
<1>1. SignedInv => SignerRecovered
  <2> SUFFICES ASSUME SignedInv, IsOk(outcome), 2 * request[3] + 36 <= U64Max
               PROVE  recover_sender(outcome.ok, request[3]) = {Ok(request[2])}
    BY DEF SignerRecovered
  <2>1. PICK tx \in Tx, key \in Key, chain_id \in ChainId, rid \in {0, 1} :
          /\ request = <<tx, key, chain_id>>
          /\ outcome \in sign(tx, key, chain_id, rid)
    BY DEF SignedInv
  <2>2. request[2] = key /\ request[3] = chain_id
    BY <2>1
  <2> DEFINE digest == keccak256(signing_payload(tx, chain_id))
             signed == outcome.ok
  <2>3. PICK v \in v_outcomes(tx, chain_id, rid) :
          outcome = Ok([transaction |-> tx, v |-> v.ok,
                        rs |-> sign_prehash_recoverable(key, digest, rid)])
    BY <2>1, SignResult
  <2>4. /\ signed.transaction = tx /\ signed.v = v.ok
        /\ signed.rs = sign_prehash_recoverable(key, digest, rid)
    BY <2>3 DEF Ok
  <2>5. recovery_id_byte(signed, chain_id) = Ok(rid)
    <3> HIDE DEF signed
    <3> QED BY <2>2, <2>4, RecoveryIdReadsBack
  <2>6. IsOk(Ok(rid)) /\ Ok(rid).ok = rid /\ ~(rid > 1)
    BY DEF IsOk, Ok
  <2> HIDE DEF digest, signed
  <2>7. recover_from_prehash(digest, signed.rs, rid) = {Ok(key)}
    BY <2>4 DEF recover_from_prehash, sign_prehash_recoverable
  <2>8. recover_sender(signed, chain_id) = {Ok(key)}
    BY <2>4, <2>5, <2>6, <2>7 DEF recover_sender, digest
  <2> QED BY <2>2, <2>8 DEF signed
<1> QED BY <1>1, SignedInvariant, PTL

-----------------------------------------------------------------------------
\* A chain id before or behind a list can be told from it.
LEMMA FirstTold ==
  ASSUME NEW S, NEW F \in Seq(S), NEW G \in Seq(S), NEW c \in S, NEW d \in S,
         <<c>> \o F = <<d>> \o G
  PROVE  c = d /\ F = G
<1> DEFINE A == <<c>> \o F
           B == <<d>> \o G
<1>1. /\ Len(A) = Len(F) + 1 /\ A[1] = c /\ \A i \in 1..Len(F) : A[i + 1] = F[i]
      /\ Len(B) = Len(G) + 1 /\ B[1] = d /\ \A i \in 1..Len(G) : B[i + 1] = G[i]
  OBVIOUS
<1>2. Len(F) = Len(G) /\ \A i \in 1..Len(F) : F[i] = G[i]
  BY <1>1
<1>3. F = G
  BY <1>2
<1> QED BY <1>1, <1>3, ZenonT(60)

\* The three last items of a legacy payload are the chain id and two zeros.
LEMMA LastTold ==
  ASSUME NEW S, NEW F \in Seq(S), NEW G \in Seq(S), NEW c \in S, NEW d \in S, 0 \in S,
         Len(F) = Len(G), F \o <<c, 0, 0>> = G \o <<d, 0, 0>>
  PROVE  c = d /\ F = G
<1> DEFINE A == F \o <<c, 0, 0>>
           B == G \o <<d, 0, 0>>
<1>1. /\ A[Len(F) + 1] = c /\ \A i \in 1..Len(F) : A[i] = F[i]
      /\ B[Len(G) + 1] = d /\ \A i \in 1..Len(G) : B[i] = G[i]
  OBVIOUS
<1>2. \A i \in 1..Len(F) : F[i] = G[i]
  BY <1>1
<1>3. F = G
  BY <1>2
<1> QED BY <1>1, <1>3, Zenon

\* Concatenation adds lengths.
LEMMA ConcatLength ==
  ASSUME NEW S, NEW F \in Seq(S), NEW G \in Seq(S)
  PROVE  F \o G \in Seq(S) /\ Len(F \o G) = Len(F) + Len(G)
OBVIOUS

\* The lengths of the field lists of the three types.
LEMMA FieldLists ==
  /\ DOMAIN legacy_fields = 1..6
  /\ DOMAIN eip1559_fields = 1..8
  /\ DOMAIN eip4844_fields = 1..10
<1> DEFINE S == {eip1559_fields[i] : i \in 1..8}
                  \cup {"max_fee_per_blob_gas", "blob_versioned_hashes"}
<1>1. DOMAIN eip1559_fields = 1..8 /\ eip1559_fields \in Seq(S) /\ Len(eip1559_fields) = 8
  BY DEF eip1559_fields
<1> DEFINE blob == <<"max_fee_per_blob_gas", "blob_versioned_hashes">>
<1>2. blob \in Seq(S) /\ Len(blob) = 2
  OBVIOUS
<1>3. Len(eip4844_fields) = 10 /\ eip4844_fields \in Seq(S)
  <2> DEFINE head == eip1559_fields
  <2>1. eip4844_fields = head \o blob
    BY DEF eip4844_fields
  <2>2. head \in Seq(S) /\ Len(head) = 8
    BY <1>1
  <2> HIDE DEF S, blob, head
  <2>3. head \o blob \in Seq(S) /\ Len(head \o blob) = Len(head) + Len(blob)
    BY <1>2, <2>2, ConcatLength, ZenonT(60)
  <2> QED BY <1>2, <2>1, <2>2, <2>3
<1>4. DOMAIN eip4844_fields = 1..10
  <2> HIDE DEF S
  <2> QED BY <1>3
<1> QED BY <1>1, <1>4 DEF legacy_fields

\* The values of the fields form a list as long as the list of their names,
\* and they determine the transaction.
LEMMA FieldsDetermine ==
  ASSUME NEW tx \in Tx, NEW ux \in Tx, tx.type = ux.type,
         Fields(FieldsOf(tx), tx) = Fields(FieldsOf(ux), ux)
  PROVE  tx = ux
<1> DEFINE names == FieldsOf(tx)
           N == {"type"} \cup {names[i] : i \in DOMAIN names}
<1>1. FieldsOf(ux) = names
  BY DEF FieldsOf, typed_fields
<1>2. tx = [n \in N |-> tx[n]] /\ ux = [n \in N |-> ux[n]]
  <2>1. tx = [n \in N |-> tx[n]]
    BY TransactionAssumption, ZenonT(60)
  <2>2. ux = [n \in {"type"} \cup {FieldsOf(ux)[i] : i \in DOMAIN FieldsOf(ux)} |-> ux[n]]
    BY TransactionAssumption, ZenonT(60)
  <2>3. ux = [n \in N |-> ux[n]]
    BY <1>1, <2>2, Zenon
  <2> QED BY <2>1, <2>3
<1>3. \A i \in DOMAIN names : tx[names[i]] = ux[names[i]]
  <2>1. \A i \in DOMAIN names : Fields(names, tx)[i] = tx[names[i]]
                                /\ Fields(names, ux)[i] = ux[names[i]]
    BY DEF Fields
  <2> QED BY <1>1, <2>1
<1>4. \A n \in N : tx[n] = ux[n]
  <2>1. tx["type"] = ux["type"]
    OBVIOUS
  <2> QED BY <1>3, <2>1
<1> HIDE DEF N
<1> QED BY <1>2, <1>4

\* The payload that is signed determines transaction and chain id.
LEMMA PayloadDetermines ==
  ASSUME NEW tx \in Tx, NEW ux \in Tx, NEW c \in ChainId, NEW d \in ChainId,
         signing_payload(tx, c) = signing_payload(ux, d)
  PROVE  tx = ux /\ c = d
<1> DEFINE F == Fields(FieldsOf(tx), tx)
           G == Fields(FieldsOf(ux), ux)
           S == {F[i] : i \in DOMAIN F} \cup {G[i] : i \in DOMAIN G} \cup Nat
<1>0. c \in S /\ d \in S /\ 0 \in S
  BY SigningAssumption
<1>1. /\ tx.type \in {"Legacy", "Eip1559", "Eip4844"}
      /\ ux.type \in {"Legacy", "Eip1559", "Eip4844"}
  BY TransactionAssumption, ZenonT(60) DEF tx_type
<1>2. ASSUME NEW k \in Nat, NEW vx, DOMAIN FieldsOf(vx) = 1..k
      PROVE  LET V == Fields(FieldsOf(vx), vx)
             IN  DOMAIN V = 1..k /\ V = [i \in 1..k |-> V[i]]
  BY <1>2 DEF Fields
<1>3. /\ tx.type = "Legacy" => DOMAIN FieldsOf(tx) = 1..6
      /\ ux.type = "Legacy" => DOMAIN FieldsOf(ux) = 1..6
      /\ \E k \in Nat : DOMAIN FieldsOf(tx) = 1..k
      /\ \E k \in Nat : DOMAIN FieldsOf(ux) = 1..k
  BY <1>1, FieldLists, ZenonT(60) DEF FieldsOf, typed_fields
<1>4. /\ F \in Seq(S) /\ G \in Seq(S)
      /\ tx.type = "Legacy" => Len(F) = 6
      /\ ux.type = "Legacy" => Len(G) = 6
  <2>1. PICK k \in Nat : DOMAIN F = 1..k /\ F = [i \in 1..k |-> F[i]]
                         /\ (tx.type = "Legacy" => k = 6)
    <3>1. CASE tx.type = "Legacy"
      <4>1. DOMAIN FieldsOf(tx) = 1..6
        BY <1>3, <3>1
      <4>2. DOMAIN F = 1..6 /\ F = [i \in 1..6 |-> F[i]]
        BY <4>1 DEF Fields
      <4> HIDE DEF F
      <4> QED BY <4>2, Zenon
    <3>2. CASE tx.type # "Legacy"
      BY <1>2, <1>3, <3>2
    <3> QED BY <3>1, <3>2
  <2>2. PICK l \in Nat : DOMAIN G = 1..l /\ G = [i \in 1..l |-> G[i]]
                         /\ (ux.type = "Legacy" => l = 6)
    <3>1. CASE ux.type = "Legacy"
      <4>1. DOMAIN FieldsOf(ux) = 1..6
        BY <1>3, <3>1
      <4>2. DOMAIN G = 1..6 /\ G = [i \in 1..6 |-> G[i]]
        BY <4>1 DEF Fields
      <4> HIDE DEF G
      <4> QED BY <4>2, Zenon
    <3>2. CASE ux.type # "Legacy"
      BY <1>2, <1>3, <3>2
    <3> QED BY <3>1, <3>2
  <2>3. \A i \in 1..k : F[i] \in S
    BY <2>1
  <2>4. \A i \in 1..l : G[i] \in S
    BY <2>2
  <2> HIDE DEF F, G, S
  <2>5. F \in Seq(S) /\ Len(F) = k
    BY <2>1, <2>3
  <2>6. G \in Seq(S) /\ Len(G) = l
    BY <2>2, <2>4
  <2> QED BY <2>1, <2>2, <2>5, <2>6
<1>5. tx.type = ux.type /\ F = G /\ c = d
  <2>1. CASE tx.type = "Legacy"
    <3>1. signing_payload(tx, c) = [list |-> F \o <<c, 0, 0>>]
      BY <2>1 DEF signing_payload, legacy_to_encoded_bytes, FieldsOf
    <3>2. ux.type = "Legacy"
      <4>1. DOMAIN signing_payload(tx, c) = {"list"}
        BY <3>1
      <4>2. ux.type # "Legacy" => "prefix" \in DOMAIN signing_payload(ux, d)
        BY DEF signing_payload, typed_to_encoded_bytes
      <4> QED BY <4>1, <4>2
    <3>3. signing_payload(ux, d) = [list |-> G \o <<d, 0, 0>>]
      BY <3>2 DEF signing_payload, legacy_to_encoded_bytes, FieldsOf
    <3>4. F \o <<c, 0, 0>> = G \o <<d, 0, 0>>
      <4>1. signing_payload(tx, c).list = F \o <<c, 0, 0>>
        BY <3>1
      <4>2. signing_payload(ux, d).list = G \o <<d, 0, 0>>
        BY <3>3
      <4> QED BY <4>1, <4>2, Zenon
    <3> HIDE DEF F, G, S
    <3> QED BY <1>0, <1>4, <2>1, <3>2, <3>4, LastTold, ZenonT(60)
  <2>2. CASE tx.type # "Legacy"
    <3>1. signing_payload(tx, c) = [prefix |-> tx_type[tx.type], list |-> <<c>> \o F]
      BY <2>2 DEF signing_payload, typed_to_encoded_bytes, FieldsOf
    <3>2. ux.type # "Legacy"
      <4>1. "prefix" \in DOMAIN signing_payload(tx, c)
        BY <3>1
      <4>2. ux.type = "Legacy" => "prefix" \notin DOMAIN signing_payload(ux, d)
        BY Zenon DEF signing_payload, legacy_to_encoded_bytes
      <4> QED BY <4>1, <4>2, Zenon
    <3>3. signing_payload(ux, d) = [prefix |-> tx_type[ux.type], list |-> <<d>> \o G]
      BY <3>2, Zenon DEF signing_payload, typed_to_encoded_bytes, FieldsOf
    <3>4. /\ signing_payload(tx, c).list = <<c>> \o F
          /\ signing_payload(tx, c).prefix = tx_type[tx.type]
      BY <3>1
    <3>5. /\ signing_payload(ux, d).list = <<d>> \o G
          /\ signing_payload(ux, d).prefix = tx_type[ux.type]
      BY <3>3
    <3>6. <<c>> \o F = <<d>> \o G /\ tx_type[tx.type] = tx_type[ux.type]
      BY <3>4, <3>5, Zenon
    <3>7. tx.type = ux.type
      BY <1>1, <2>2, <3>2, <3>6 DEF tx_type
    <3> HIDE DEF F, G, S
    <3> QED BY <1>0, <1>4, <3>6, <3>7, FirstTold
  <2> QED BY <2>1, <2>2
<1> QED BY <1>5, FieldsDetermine

\* A result that names a key holder was made with the signed digest.
LEMMA RecoveredFromDigest ==
  ASSUME NEW digest, NEW signature, NEW rid, NEW who \in Key,
         Ok(who) \in recover_from_prehash(digest, signature, rid)
  PROVE  digest = signature.digest /\ who = signature.key
<1>1. \A x, y : Ok(x) = Ok(y) => x = y
  <2>1. \A x : Ok(x).ok = x
    BY DEF Ok
  <2> QED BY <2>1
<1>2. Ok(who) # Err("RecoveryFailed")
  <2>1. "ok" \in DOMAIN Ok(who) /\ "ok" \notin DOMAIN Err("RecoveryFailed")
    BY DEF Ok, Err
  <2> QED BY <2>1
<1>3. Ok(who) # Ok(Stranger)
  BY <1>1, SigningAssumption, Zenon
<1> QED BY <1>1, <1>2, <1>3 DEF recover_from_prehash

\* A key holder is recovered only for the very transaction and chain id that
\* this key holder signed, whatever body and v the signature is put around.
THEOREM OnlySignersRecovered == SigningSpec => []SenderIsSigner
<1>1. SignedInv => SenderIsSigner
  <2> SUFFICES ASSUME SignedInv, IsOk(outcome), NEW ux \in Tx, NEW w \in 0..U64Max,
                      NEW chain_id \in ChainId, NEW who \in Key,
                      Ok(who) \in recover_sender(Around(ux, w), chain_id)
               PROVE  request = <<ux, who, chain_id>>
    BY DEF SenderIsSigner
  <2> DEFINE signed == Around(ux, w)
  <2>1. PICK tx \in Tx, key \in Key, c \in ChainId, rid \in {0, 1} :
          /\ request = <<tx, key, c>>
          /\ outcome \in sign(tx, key, c, rid)
    BY Zenon DEF SignedInv
  <2> DEFINE rs == sign_prehash_recoverable(key, keccak256(signing_payload(tx, c)), rid)
  <2>2. PICK v : outcome = Ok([transaction |-> tx, v |-> v.ok, rs |-> rs])
    BY <2>1, SignResult
  <2>3. signed.transaction = ux /\ signed.rs = rs
    <3> HIDE DEF rs
    <3>1. outcome.ok = [transaction |-> tx, v |-> v.ok, rs |-> rs]
      BY <2>2 DEF Ok
    <3> QED BY <3>1 DEF Around
  <2> HIDE DEF signed
  <2>4. Ok(who) \in recover_sender(signed, chain_id)
    BY Zenon DEF signed
  <2>5. Ok(who) \in recover_from_prehash(keccak256(signing_payload(ux, chain_id)), rs,
                                         recovery_id_byte(signed, chain_id).ok)
    <3>1. IsOk(Ok(who)) /\ \A kind : ~IsOk(Err(kind))
      BY DEF IsOk, Ok, Err
    <3> HIDE DEF rs
    <3> QED BY <2>3, <2>4, <3>1, Zenon DEF recover_sender
  <2>6. keccak256(signing_payload(ux, chain_id)) = rs.digest /\ who = rs.key
    <3> HIDE DEF rs
    <3> QED BY <2>5, RecoveredFromDigest, Zenon
  <2>7. rs.digest = keccak256(signing_payload(tx, c)) /\ rs.key = key
    BY Zenon DEF sign_prehash_recoverable
  <2>8. signing_payload(ux, chain_id) = signing_payload(tx, c)
    <3>1. \A x : keccak256(x).digest = x
      BY DEF keccak256
    <3> HIDE DEF rs
    <3> QED BY <2>6, <2>7, <3>1
  <2>9. ux = tx /\ chain_id = c
    BY <2>8, PayloadDetermines
  <2> QED BY <2>1, <2>3, <2>6, <2>7, <2>9
<1> QED BY <1>1, SignedInvariant, PTL

-----------------------------------------------------------------------------
\* The wire form determines the signed transaction: the type by its prefix,
\* the body by the list of its fields, and the signature.
LEMMA WireDetermines ==
  ASSUME NEW tx \in Tx, NEW ux \in Tx, NEW v, NEW w, NEW rs, NEW sr,
         NEW one, one = [transaction |-> tx, v |-> v, rs |-> rs],
         NEW other, other = [transaction |-> ux, v |-> w, rs |-> sr],
         signed_transaction_hash(one) = signed_transaction_hash(other)
  PROVE  one = other
<1> DEFINE Wire(signed) == IF signed.transaction.type = "Legacy"
                           THEN legacy_to_wire(signed) ELSE typed_to_wire(signed)
           W == Wire(one)
           X == Wire(other)
           F == Fields(FieldsOf(tx), tx)
           G == Fields(FieldsOf(ux), ux)
<1>1. /\ tx.type \in {"Legacy", "Eip1559", "Eip4844"}
      /\ ux.type \in {"Legacy", "Eip1559", "Eip4844"}
  BY TransactionAssumption, ZenonT(60) DEF tx_type
<1>2. W = X
  <2>1. keccak256(W) = keccak256(X)
    BY Zenon DEF signed_transaction_hash
  <2>2. \A x : keccak256(x).digest = x
    BY Zenon DEF keccak256
  <2> HIDE DEF W, X
  <2> QED BY <2>1, <2>2
<1>3. /\ W.list = F /\ W.v = v /\ W.rs = rs
      /\ IF tx.type = "Legacy" THEN "prefix" \notin DOMAIN W
         ELSE "prefix" \in DOMAIN W /\ W.prefix = tx_type[tx.type]
  BY Zenon DEF legacy_to_wire, typed_to_wire, FieldsOf
<1>4. /\ X.list = G /\ X.v = w /\ X.rs = sr
      /\ IF ux.type = "Legacy" THEN "prefix" \notin DOMAIN X
         ELSE "prefix" \in DOMAIN X /\ X.prefix = tx_type[ux.type]
  BY Zenon DEF legacy_to_wire, typed_to_wire, FieldsOf
<1> HIDE DEF W, X, F, G
<1>5. tx.type = ux.type
  BY <1>1, <1>2, <1>3, <1>4 DEF tx_type
<1>6. F = G /\ v = w /\ rs = sr
  BY <1>2, <1>3, <1>4, Zenon
<1>7. tx = ux
  BY <1>5, <1>6, FieldsDetermine, Zenon DEF F, G
<1> QED BY <1>6, <1>7

\* The key of the transaction index identifies what was signed: a signed
\* transaction with the hash of this one is this one, in body, v and signature.
THEOREM HashesIdentify == SigningSpec => []HashIdentifies
<1>1. SignedInv => HashIdentifies
  <2> SUFFICES ASSUME SignedInv, IsOk(outcome), NEW ux \in Tx, NEW w \in 0..U64Max,
                      signed_transaction_hash(Around(ux, w))
                        = signed_transaction_hash(outcome.ok)
               PROVE  Around(ux, w) = outcome.ok
    BY DEF HashIdentifies
  <2>1. PICK tx \in Tx, key \in Key, c \in ChainId, rid \in {0, 1} :
          outcome \in sign(tx, key, c, rid)
    BY Zenon DEF SignedInv
  <2> DEFINE rs == sign_prehash_recoverable(key, keccak256(signing_payload(tx, c)), rid)
  <2>2. PICK v : outcome = Ok([transaction |-> tx, v |-> v.ok, rs |-> rs])
    BY <2>1, SignResult
  <2> HIDE DEF rs
  <2>3. outcome.ok = [transaction |-> tx, v |-> v.ok, rs |-> rs]
    BY <2>2, Zenon DEF Ok
  <2>4. Around(ux, w) = [transaction |-> ux, v |-> w, rs |-> rs]
    BY <2>3 DEF Around
  <2> QED BY <2>3, <2>4, WireDetermines
<1> QED BY <1>1, SignedInvariant, PTL

-----------------------------------------------------------------------------
(* The cached provider *)

\* The hash of a stored block leads to the number under which it is stored.
IndexInv ==
  \A n \in DOMAIN blocks :
    /\ blocks[n] \in Block /\ blocks[n].header.number = n
    /\ known(hash_header(blocks[n].header))
    /\ blocks_by_hash[hash_header(blocks[n].header)] = n

\* Nothing is looked up before the provider is wrapped.
Fresh ==
  /\ block_cache = Empty /\ header_cache = Empty /\ account_cache = Empty
  /\ DOMAIN answer.query = {"nothing"}

\* Every entry of a cache is what the inner provider answers for its key.
Exact ==
  /\ \A n \in DOMAIN block_cache : block_cache[n] = inner_block_by_number(n)
  /\ \A h \in DOMAIN header_cache : header_cache[h] = inner_header_by_hash(h)
  /\ \A a \in DOMAIN account_cache : account_cache[a] = inner_account(a)

CacheInv == IndexInv /\ (~wrapped => Fresh) /\ Exact /\ Transparent

\* A cache after a lookup holds what it held, less what was evicted, and what
\* was fetched.
LEMMA AfterHolds ==
  ASSUME NEW cache, NEW key, NEW fetched, NEW c \in After(cache, key, fetched)
  PROVE  \A k \in DOMAIN c : \/ k \in DOMAIN cache /\ c[k] = cache[k]
                             \/ k = key /\ c[k] = fetched
<1>1. CASE c = cache
  BY <1>1
<1>2. CASE c \in Insert(cache, key, fetched)
  <2>1. CASE c = Put(cache, key, fetched)
    BY <2>1 DEF Put
  <2>2. ASSUME NEW e \in DOMAIN cache,
               c = Put([k \in DOMAIN cache \ {e} |-> cache[k]], key, fetched)
        PROVE  \A k \in DOMAIN c : \/ k \in DOMAIN cache /\ c[k] = cache[k]
                                   \/ k = key /\ c[k] = fetched
    BY <2>2, Zenon DEF Put
  <2> QED BY <1>2, <2>1, <2>2, Zenon DEF Insert
<1> QED BY <1>1, <1>2, Zenon DEF After

\* What the inner provider answers is a value or an error.
LEMMA InnerAnswers ==
  /\ \A n : IF n \in DOMAIN blocks
            THEN /\ ~Failed(inner_block_by_number(n))
                 /\ inner_block_by_number(n).block = blocks[n]
                 /\ ~Failed(inner_header_by_number(n))
                 /\ inner_header_by_number(n).header = blocks[n].header
            ELSE Failed(inner_block_by_number(n)) /\ Failed(inner_header_by_number(n))
  /\ \A h : ~Failed(inner_block_by_hash(h)) =>
       /\ known(h) /\ blocks_by_hash[h] \in DOMAIN blocks
       /\ inner_block_by_hash(h) = inner_block_by_number(blocks_by_hash[h])
BY Zenon DEF inner_block_by_number, inner_header_by_number, inner_block_by_hash, Failed,
       NotFound

\* A block that replaces another one of its number leaves the index as it
\* must be: two blocks of one hash have one number.
LEMMA IndexKept ==
  ASSUME IndexInv, NEW b \in Block, insert_block(b)
  PROVE  IndexInv'
<1> DEFINE m == b.header.number
           h == hash_header(b.header)
<1>1. blocks' = Put(blocks, m, b) /\ blocks_by_hash' = Put(blocks_by_hash, h, m)
  BY Zenon DEF insert_block
<1>2. ASSUME NEW n \in DOMAIN blocks'
      PROVE  /\ blocks'[n] \in Block /\ blocks'[n].header.number = n
             /\ hash_header(blocks'[n].header) \in DOMAIN blocks_by_hash'
             /\ blocks_by_hash'[hash_header(blocks'[n].header)] = n
  <2>1. CASE n = m
    BY <1>1, <2>1, Zenon DEF Put
  <2>2. CASE n # m
    <3>1. n \in DOMAIN blocks /\ blocks'[n] = blocks[n]
      BY <1>1, <2>2, Zenon DEF Put
    <3>2. /\ blocks[n] \in Block /\ blocks[n].header.number = n
          /\ hash_header(blocks[n].header) \in DOMAIN blocks_by_hash
          /\ blocks_by_hash[hash_header(blocks[n].header)] = n
      BY <3>1, Zenon DEF IndexInv, known
    <3>3. hash_header(blocks[n].header) # h
      BY <2>2, <3>2, HashAssumption
    <3> QED BY <1>1, <3>1, <3>2, <3>3, Zenon DEF Put
  <2> QED BY <2>1, <2>2, Zenon
<1> QED BY <1>2, Zenon DEF IndexInv, known

\* Each lookup answers as the inner provider and stores nothing else.
LEMMA LookupExact ==
  ASSUME CacheInv, Lookup
  PROVE  CacheInv'
<1>1. /\ UNCHANGED <<blocks, blocks_by_hash, state, wrapped>> /\ wrapped
      /\ IndexInv /\ Exact
  BY DEF CacheInv, Lookup, storeVars, stateVars
<1>2. /\ \A n : inner_block_by_number(n)' = inner_block_by_number(n)
      /\ \A n : inner_header_by_number(n)' = inner_header_by_number(n)
      /\ \A h : inner_block_by_hash(h)' = inner_block_by_hash(h)
      /\ \A h : inner_header_by_hash(h)' = inner_header_by_hash(h)
      /\ \A a : inner_account(a)' = inner_account(a)
  BY <1>1, Zenon
     DEF inner_block_by_number, inner_header_by_number, inner_block_by_hash,
         inner_header_by_hash, inner_account, known
\* The result, from what a lookup leaves in the caches and what it answers.
<1> DEFINE BlocksExact == \A n \in DOMAIN block_cache' :
                            block_cache'[n] = inner_block_by_number(n)
           HeadersExact == \A h \in DOMAIN header_cache' :
                             header_cache'[h] = inner_header_by_hash(h)
           AccountsExact == \A a \in DOMAIN account_cache' :
                              account_cache'[a] = inner_account(a)
<1>3. ASSUME BlocksExact, HeadersExact, AccountsExact, Transparent'
      PROVE  CacheInv'
  <2>1. Exact'
    BY <1>2, <1>3, Zenon DEF Exact
  <2>2. IndexInv'
    BY <1>1, Zenon DEF IndexInv, known
  <2> QED BY <1>1, <1>3, <2>1, <2>2 DEF CacheInv
<1>4. /\ block_cache' = block_cache => BlocksExact
      /\ header_cache' = header_cache => HeadersExact
      /\ account_cache' = account_cache => AccountsExact
  BY <1>1, Zenon DEF Exact
<1>5. ASSUME NEW n, block_cache' \in After(block_cache, n, inner_block_by_number(n))
      PROVE  BlocksExact
  <2>1. \A k \in DOMAIN block_cache' :
          \/ k \in DOMAIN block_cache /\ block_cache'[k] = block_cache[k]
          \/ k = n /\ block_cache'[k] = inner_block_by_number(n)
    BY <1>5, AfterHolds
  <2> QED BY <1>1, <2>1, Zenon DEF Exact
<1>6. ASSUME NEW h, header_cache' \in After(header_cache, h, inner_header_by_hash(h))
      PROVE  HeadersExact
  <2>1. \A k \in DOMAIN header_cache' :
          \/ k \in DOMAIN header_cache /\ header_cache'[k] = header_cache[k]
          \/ k = h /\ header_cache'[k] = inner_header_by_hash(h)
    BY <1>6, AfterHolds
  <2> QED BY <1>1, <2>1 DEF Exact
<1> HIDE DEF BlocksExact, HeadersExact, AccountsExact
<1>7. ASSUME NEW n, get_block_by_number(n)
      PROVE  CacheInv'
  <2>1. Found(block_cache, n, inner_block_by_number(n)) = inner_block_by_number(n)
    BY <1>1 DEF Found, Exact
  <2>2. answer' = [query |-> [block_number |-> n], result |-> inner_block_by_number(n)]
    BY <1>7, <2>1, Zenon DEF get_block_by_number, Answer
  <2>3. Transparent'
    BY <1>2, <2>2 DEF Transparent, Asked
  <2>4. BlocksExact /\ HeadersExact /\ AccountsExact
    BY <1>4, <1>5, <1>7, Zenon DEF get_block_by_number
  <2> QED BY <1>3, <2>3, <2>4
<1>8. ASSUME NEW h, get_block_by_hash_cached(h)
      PROVE  CacheInv'
  <2> DEFINE fetched == inner_block_by_hash(h)
             number == fetched.block.header.number
  <2>1. /\ answer' = [query |-> [block_hash |-> h], result |-> fetched]
        /\ BlocksExact
    <3>1. CASE Failed(fetched)
      BY <1>4, <1>8, <3>1, Zenon DEF get_block_by_hash_cached, Answer
    <3>2. CASE ~Failed(fetched)
      <4>1. number \in DOMAIN blocks /\ fetched = inner_block_by_number(number)
        BY <1>1, <3>2, InnerAnswers DEF IndexInv
      <4>2. Found(block_cache, number, fetched) = fetched
        BY <1>1, <4>1 DEF Found, Exact
      <4>3. /\ answer' = [query |-> [block_hash |-> h],
                          result |-> Found(block_cache, number, fetched)]
            /\ block_cache' \in After(block_cache, number, fetched)
        BY <1>8, <3>2, Zenon DEF get_block_by_hash_cached, Answer
      <4> HIDE DEF fetched, number
      <4> QED BY <1>5, <4>1, <4>2, <4>3, Zenon
    <3> QED BY <3>1, <3>2
  <2>2. Transparent'
    BY <1>2, <2>1 DEF Transparent, Asked
  <2>3. HeadersExact /\ AccountsExact
    BY <1>4, <1>8, Zenon DEF get_block_by_hash_cached
  <2> QED BY <1>3, <2>1, <2>2, <2>3, Zenon
<1>9. ASSUME NEW h, get_header_by_hash(h)
      PROVE  CacheInv'
  <2>1. Found(header_cache, h, inner_header_by_hash(h)) = inner_header_by_hash(h)
    BY <1>1 DEF Found, Exact
  <2>2. answer' = [query |-> [header_hash |-> h], result |-> inner_header_by_hash(h)]
    BY <1>9, <2>1, Zenon DEF get_header_by_hash, Answer
  <2>3. Transparent'
    BY <1>2, <2>2 DEF Transparent, Asked
  <2>4. BlocksExact /\ HeadersExact /\ AccountsExact
    BY <1>4, <1>6, <1>9, Zenon DEF get_header_by_hash
  <2> QED BY <1>3, <2>3, <2>4
<1>10. ASSUME NEW n, get_header_by_number(n)
       PROVE  CacheInv'
  <2> DEFINE fetched == inner_header_by_number(n)
             hash == KeyOf(fetched.header)
  <2>1. /\ answer' = [query |-> [header_number |-> n], result |-> fetched]
        /\ HeadersExact
    <3>1. CASE Failed(fetched)
      BY <1>4, <1>10, <3>1, Zenon DEF get_header_by_number, Answer
    <3>2. CASE ~Failed(fetched)
      <4>1. known(hash) /\ blocks_by_hash[hash] = n
        BY <1>1, <3>2, InnerAnswers DEF IndexInv, KeyOf
      <4>2. fetched = inner_header_by_hash(hash)
        BY <4>1, Zenon DEF inner_header_by_hash
      <4>3. Found(header_cache, hash, fetched) = fetched
        BY <1>1, <4>2 DEF Found, Exact
      <4>4. /\ answer' = [query |-> [header_number |-> n],
                          result |-> Found(header_cache, hash, fetched)]
            /\ header_cache' \in After(header_cache, hash, fetched)
        BY <1>10, <3>2, Zenon DEF get_header_by_number, Answer
      <4> HIDE DEF fetched, hash
      <4> QED BY <1>6, <4>2, <4>3, <4>4, Zenon
    <3> QED BY <3>1, <3>2
  <2>2. Transparent'
    BY <1>2, <2>1 DEF Transparent, Asked
  <2>3. BlocksExact /\ AccountsExact
    BY <1>4, <1>10, Zenon DEF get_header_by_number
  <2> QED BY <1>3, <2>1, <2>2, <2>3, Zenon
<1>11. ASSUME NEW a, get_account(a)
       PROVE  CacheInv'
  <2>1. Found(account_cache, a, inner_account(a)) = inner_account(a)
    BY <1>1 DEF Found, Exact
  <2>2. answer' = [query |-> [address |-> a], result |-> inner_account(a)]
    BY <1>11, <2>1, Zenon DEF get_account, Answer
  <2>3. Transparent'
    BY <1>2, <2>2 DEF Transparent, Asked
  <2>4. account_cache' \in After(account_cache, a, inner_account(a))
    BY <1>11, Zenon DEF get_account
  <2>5. AccountsExact
    <3>1. \A k \in DOMAIN account_cache' :
            \/ k \in DOMAIN account_cache /\ account_cache'[k] = account_cache[k]
            \/ k = a /\ account_cache'[k] = inner_account(a)
      BY <2>4, AfterHolds
    <3> QED BY <1>1, <3>1, Zenon DEF Exact, AccountsExact
  <2>6. BlocksExact /\ HeadersExact
    BY <1>4, <1>11, Zenon DEF get_account
  <2> QED BY <1>3, <2>3, <2>5, <2>6, Zenon
<1>12. ASSUME NEW query, NEW result, PassThrough(query, result),
              DOMAIN query \cap {"block_number", "block_hash", "header_number",
                                 "header_hash", "address"} = {}
       PROVE  CacheInv'
  <2>1. answer' = [query |-> query, result |-> result]
        /\ UNCHANGED <<block_cache, header_cache, account_cache>>
    BY <1>12, Zenon DEF PassThrough, Answer, cacheVars
  <2>2. Transparent'
    BY <1>12, <2>1 DEF Transparent, Asked
  <2> QED BY <1>3, <1>4, <2>1, <2>2
<1>13. \/ \E n : get_block_by_number(n) \/ get_header_by_number(n)
       \/ \E h : get_block_by_hash_cached(h) \/ get_header_by_hash(h)
       \/ \E a : get_account(a)
       \/ \E query, result :
            /\ PassThrough(query, result)
            /\ DOMAIN query \cap {"block_number", "block_hash", "header_number",
                                  "header_hash", "address"} = {}
  <2>1. \A a, s, t, n, r :
          \A q \in {[owner |-> a, slot |-> s], [transaction |-> t], [body_of |-> n],
                    [receipt_of |-> r]} :
            DOMAIN q \cap {"block_number", "block_hash", "header_number",
                           "header_hash", "address"} = {}
    OBVIOUS
  <2> QED BY <2>1, Zenon DEF Lookup
<1> QED BY <1>7, <1>8, <1>9, <1>10, <1>11, <1>12, <1>13, Zenon

\* A lookup through CachedProvider answers what the inner provider answers,
\* for any blocks and accounts it was filled with, any capacity and any lookups
\* before: a block that replaced another one of its number, and two hashes
\* that lead to one number, included.
THEOREM CacheTransparent == Spec => []Transparent
<1>1. Init => CacheInv
  <2> SUFFICES ASSUME Init PROVE CacheInv
    OBVIOUS
  <2>1. /\ blocks = [n \in {0} |-> Genesis]
        /\ blocks_by_hash = [h \in {hash_header(Genesis.header)} |-> 0]
    BY Zenon DEF Init, ProviderInit
  <2>2. IndexInv
    BY <2>1, GenesisAssumption, Zenon DEF IndexInv, known
  <2>3. Fresh
    BY DEF Init, Fresh
  <2> QED BY <2>2, <2>3 DEF CacheInv, Fresh, Exact, Empty, Transparent, Asked
<1>2. CacheInv /\ [Next]_vars => CacheInv'
  <2> SUFFICES ASSUME CacheInv, [Next]_vars
               PROVE  CacheInv'
    OBVIOUS
  \* The caches are empty and nobody has asked yet.
  <2>1. ASSUME Fresh', IndexInv'
        PROVE  CacheInv'
    BY <2>1 DEF CacheInv, Fresh, Exact, Empty, Transparent, Asked
  <2>2. CASE Fill
    <3>1. Fresh'
      BY <2>2, Zenon DEF CacheInv, Fill, Fresh, cacheVars
    <3>2. IndexInv'
      <4>1. CASE \E b \in Block : insert_block(b)
        BY <4>1, IndexKept DEF CacheInv
      <4>2. CASE UNCHANGED <<blocks, blocks_by_hash>>
        BY <4>2, Zenon DEF CacheInv, IndexInv, known
      <4> QED BY <2>2, <4>1, <4>2, Zenon DEF Fill, storeVars
    <3> QED BY <2>1, <3>1, <3>2, Zenon
  <2>3. CASE Wrap
    <3>1. Fresh' /\ UNCHANGED <<blocks, blocks_by_hash>>
      BY <2>3, Zenon DEF CacheInv, Wrap, Fresh, cacheVars, storeVars
    <3>2. IndexInv'
      BY <3>1, Zenon DEF CacheInv, IndexInv, known
    <3> QED BY <2>1, <3>1, <3>2, Zenon
  <2>4. CASE Lookup
    BY <2>4, LookupExact
  <2>5. CASE UNCHANGED vars
    <3>1. UNCHANGED <<blocks, blocks_by_hash, state, wrapped, block_cache,
                      header_cache, account_cache, answer>>
      BY <2>5 DEF vars
    <3> QED BY <3>1, Zenon
               DEF CacheInv, IndexInv, Fresh, Exact, Transparent, Asked, known,
                   inner_block_by_number, inner_header_by_number,
                   inner_block_by_hash, inner_header_by_hash, inner_account
  <2> QED BY <2>2, <2>3, <2>4, <2>5 DEF Next
<1>3. CacheInv => Transparent
  BY DEF CacheInv
<1> QED BY <1>1, <1>2, <1>3, PTL DEF Spec

=============================================================================
