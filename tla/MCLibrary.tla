----------------------------- MODULE MCLibrary -----------------------------
(***************************************************************************)
(* Components that work alone, in one instance: signing, the state trie,   *)
(* the cached provider and the byte arrays.  A behaviour uses one of them  *)
(* and leaves the others as they are.                                      *)
(***************************************************************************)
EXTENDS Signing, CachedProvider

CONSTANTS Subjects,                    \* which components are used
          alice, invalid,              \* private keys
          a1, a2                       \* addresses

VARIABLES subject,
          root, contents,                                       \* Trie
          bloom, rhs, bits, rhs_bits, text                      \* ByteArrays

trieVars == <<root, contents>>
arrayVars == <<bloom, rhs, bits, rhs_bits, text>>

-----------------------------------------------------------------------------
(* Signing: for each type of transaction one sample, and one more for each *)
(* field that differs from it in this field.  u64 has six bits.            *)

MCKey == {alice, invalid}

OneOff(type, names) ==
  LET all == {names[i] : i \in DOMAIN names} \cup {"type"}
      base == [n \in all |-> IF n = "type" THEN type ELSE 1]
  IN  {base} \cup {[base EXCEPT ![n] = 2] : n \in all \ {"type"}}

AllFields ==
  <<"nonce", "gas_price", "gas_limit", "to", "value", "data", "max_priority_fee_per_gas",
    "max_fee_per_gas", "access_list", "max_fee_per_blob_gas", "blob_versioned_hashes">>
Without(names) == SelectSeq(AllFields, LAMBDA n : n \notin names)
Blob == {"max_fee_per_blob_gas", "blob_versioned_hashes"}

MCTx ==
  OneOff("Legacy", SubSeq(AllFields, 1, 6))
  \cup OneOff("Eip1559", Without({"gas_price"} \cup Blob))
  \cup OneOff("Eip4844", Without({"gas_price"}))

-----------------------------------------------------------------------------
(* The trie: keys of one length that share prefixes of every length, a     *)
(* value that keeps its node inline and one that does not.                 *)

Tr == INSTANCE Trie
        WITH Key <- {<<17, 17>>, <<17, 18>>, <<17, 19>>, <<18, 17>>, <<33, 17>>},
             Value <- {<<1>>, [i \in 1..36 |-> i]}

-----------------------------------------------------------------------------
(* The cached provider: two blocks that compete for number 1, one of them  *)
(* with a transaction, and two accounts.                                   *)

MCHashHeader(h) == <<h.number, h.extra>>
UnknownHash == <<9, 0>>

MCHeader(parent, number, extra) ==
  [parent_hash |-> parent, number |-> number, timestamp |-> number,
   gas_limit |-> 0, gas_used |-> 0, extra |-> extra]

MCSigned ==
  [kind |-> "Legacy", nonce |-> 0, fee_cap |-> 0, priority |-> 0, gas_limit |-> 1,
   to |-> a2, value |-> 1, sender |-> a1]

MCGenesis == [header |-> MCHeader(UnknownHash, 0, 0), transactions |-> << >>]

MCBlock ==
  {MCGenesis,
   [header |-> MCHeader(<<0, 0>>, 1, 0), transactions |-> <<MCSigned>>],
   [header |-> MCHeader(<<0, 0>>, 1, 1), transactions |-> << >>]}

MCHash == {UnknownHash, <<0, 0>>, <<1, 0>>, <<1, 1>>}
MCReceipts == {[transaction_hash |-> MCSigned, status |-> TRUE]}

-----------------------------------------------------------------------------
(* Byte arrays of two bytes.  The bits make up digits of every kind and    *)
(* lie at both sides of the end of a byte and of the value; the characters *)
(* are digits of each kind, both forms of the prefix and one that is none. *)

By == INSTANCE ByteArrays
        WITH Size <- 2, Bits <- {1, 3, 7, 8, 15, 16}, MaxText <- 6,
             Char <- {48, 70, 97, 88, 103, 120}

-----------------------------------------------------------------------------
MCInit == SigningInit /\ Tr!Init /\ Init /\ By!Init /\ subject \in Subjects

MCNext ==
  /\ \/ subject = "signing" /\ SigningNext /\ UNCHANGED <<trieVars, vars, arrayVars>>
     \/ subject = "trie" /\ Tr!Next /\ UNCHANGED <<signingVars, vars, arrayVars>>
     \/ subject = "cache" /\ Next /\ UNCHANGED <<signingVars, trieVars, arrayVars>>
     \/ subject = "bytes" /\ By!Next /\ UNCHANGED <<signingVars, trieVars, vars>>
  /\ UNCHANGED subject

MCSpec == MCInit /\ [][MCNext]_<<signingVars, trieVars, vars, arrayVars, subject>>

-----------------------------------------------------------------------------
\* The state root does not depend on the order of insertion
\* (Trie!OrderIndependent).
OrderIndependent == Tr!OrderIndependent

\* The state root identifies the contents (Trie!RootBindsContents).
RootBindsContents == subject = "trie" => Tr!RootBindsContents

\* A byte array gives back the bits that were set in it and is read back from
\* each of its texts, and a refused text has the fault that is reported
\* (ByteArrays!ArraysExact).
ArraysExact == By!ArraysExact

=============================================================================
