--------------------------- MODULE CachedProvider ---------------------------
(***************************************************************************)
(* CachedProvider (core/execution/src/cached.rs) over an InMemoryProvider: *)
(* three bounded caches that are filled by reads.  The provider is filled  *)
(* first, also with the parts that the node does not use (receipts,        *)
(* storage, transactions on their own), and moves into the cache; from     *)
(* then on it can only be read.                                            *)
(***************************************************************************)
EXTENDS Provider, FiniteSets

CONSTANTS Slot,      \* storage slots
          Receipts,  \* receipts: [transaction_hash, status]
          capacity

VARIABLES receipts, storage, wrapped, block_cache, header_cache, account_cache, answer

extraVars == <<receipts, storage>>
cacheVars == <<block_cache, header_cache, account_cache>>
vars == <<blocks, blocks_by_hash, transactions, state, journal, receipts, storage, wrapped,
          block_cache, header_cache, account_cache, answer>>

Empty == [k \in {} |-> 0]
Numbers == {b.header.number : b \in Block}
Signed == UNION {{b.transactions[i] : i \in DOMAIN b.transactions} : b \in Block}
NotFound(kind) == [error |-> kind]
Failed(result) == "error" \in DOMAIN result

-----------------------------------------------------------------------------
(* The inner provider: insertions and lookups *)

\* The transaction is filed under its own hash, for which it stands.
insert_transaction(transaction, block_number) ==
  transactions' = Put(transactions, transaction, block_number)

insert_receipt(receipt) == receipts' = Put(receipts, receipt.transaction_hash, receipt)

set_storage(address, slot, value) == storage' = Put(storage, <<address, slot>>, value)

inner_block_by_number(number) ==
  IF number \in DOMAIN blocks THEN [block |-> blocks[number]] ELSE NotFound("BlockNotFound")

inner_block_by_hash(hash) ==
  IF known(hash) THEN inner_block_by_number(blocks_by_hash[hash]) ELSE NotFound("HeaderNotFound")

inner_header_by_number(number) ==
  IF number \in DOMAIN blocks THEN [header |-> blocks[number].header] ELSE NotFound("BlockNotFound")

inner_header_by_hash(hash) ==
  IF known(hash) THEN inner_header_by_number(blocks_by_hash[hash]) ELSE NotFound("HeaderNotFound")

inner_account(address) ==
  IF state[address] = NoAccount THEN NotFound("AccountNotFound") ELSE [account |-> state[address]]

inner_storage(address, slot) ==
  [value |-> IF <<address, slot>> \in DOMAIN storage THEN storage[<<address, slot>>] ELSE 0]

inner_transaction(transaction) ==
  IF transaction \in DOMAIN transactions THEN [transaction |-> transaction]
  ELSE NotFound("TransactionNotFound")

inner_block_transactions(number) ==
  IF number \in DOMAIN blocks THEN [list |-> blocks[number].transactions]
  ELSE NotFound("BlockNotFound")

inner_receipt(hash) ==
  IF hash \in DOMAIN receipts THEN [receipt |-> receipts[hash]] ELSE NotFound("ReceiptNotFound")

-----------------------------------------------------------------------------
(* Filling the provider *)

Fill ==
  /\ ~wrapped
  /\ \/ \E b \in Block : insert_block(b) /\ UNCHANGED <<state, journal, receipts, storage>>
     \/ \E a \in Address, info \in {DefaultAccount} :
          set_account(a, info) /\ UNCHANGED storeVars /\ UNCHANGED extraVars
     \/ \E t \in Signed, n \in Numbers :
          insert_transaction(t, n) /\ UNCHANGED <<blocks, blocks_by_hash, state, journal>>
          /\ UNCHANGED extraVars
     \/ \E r \in Receipts :
          insert_receipt(r) /\ UNCHANGED storeVars /\ UNCHANGED stateVars /\ UNCHANGED storage
     \/ \E a \in Address, s \in Slot :
          set_storage(a, s, 1) /\ UNCHANGED storeVars /\ UNCHANGED stateVars /\ UNCHANGED receipts
  /\ UNCHANGED <<wrapped, answer>> /\ UNCHANGED cacheVars

Wrap ==
  /\ ~wrapped
  /\ wrapped' = TRUE
  /\ UNCHANGED storeVars /\ UNCHANGED stateVars /\ UNCHANGED extraVars
  /\ UNCHANGED cacheVars /\ UNCHANGED answer

-----------------------------------------------------------------------------
(* Lookups through the cache *)

\* What a cache may hold after an insertion.  At capacity one entry, whichever
\* HashMap::keys yields first, makes room.
Insert(cache, key, value) ==
  IF Cardinality(DOMAIN cache) < capacity \/ cache = Empty THEN {Put(cache, key, value)}
  ELSE {Put([k \in DOMAIN cache \ {evicted} |-> cache[k]], key, value) :
          evicted \in DOMAIN cache}

\* A hit answers with the entry; a miss asks the inner provider, whose error
\* is returned and whose value is stored.
After(cache, key, fetched) ==
  IF key \in DOMAIN cache \/ Failed(fetched) THEN {cache} ELSE Insert(cache, key, fetched)

Found(cache, key, fetched) == IF key \in DOMAIN cache THEN cache[key] ELSE fetched

Answer(query, result) == answer' = [query |-> query, result |-> result]

get_block_by_number(number) ==
  /\ Answer([block_number |-> number], Found(block_cache, number, inner_block_by_number(number)))
  /\ block_cache' \in After(block_cache, number, inner_block_by_number(number))
  /\ UNCHANGED <<header_cache, account_cache>>

\* The inner provider is asked first: the cache is keyed by number.
get_block_by_hash_cached(hash) ==
  LET fetched == inner_block_by_hash(hash)
  IN /\ IF Failed(fetched)
        THEN Answer([block_hash |-> hash], fetched) /\ UNCHANGED block_cache
        ELSE LET number == fetched.block.header.number
             IN /\ Answer([block_hash |-> hash], Found(block_cache, number, fetched))
                /\ block_cache' \in After(block_cache, number, fetched)
     /\ UNCHANGED <<header_cache, account_cache>>

get_header_by_hash(hash) ==
  /\ Answer([header_hash |-> hash], Found(header_cache, hash, inner_header_by_hash(hash)))
  /\ header_cache' \in After(header_cache, hash, inner_header_by_hash(hash))
  /\ UNCHANGED <<block_cache, account_cache>>

\* Plausible bug: the header is filed under the hash of its parent.
KeyOfParent(header) == header.parent_hash

KeyOf(header) == hash_header(header)

get_header_by_number(number) ==
  LET fetched == inner_header_by_number(number)
  IN /\ IF Failed(fetched)
        THEN Answer([header_number |-> number], fetched) /\ UNCHANGED header_cache
        ELSE LET hash == KeyOf(fetched.header)
             IN /\ Answer([header_number |-> number], Found(header_cache, hash, fetched))
                /\ header_cache' \in After(header_cache, hash, fetched)
     /\ UNCHANGED <<block_cache, account_cache>>

get_account(address) ==
  /\ Answer([address |-> address], Found(account_cache, address, inner_account(address)))
  /\ account_cache' \in After(account_cache, address, inner_account(address))
  /\ UNCHANGED <<block_cache, header_cache>>

PassThrough(query, result) == Answer(query, result) /\ UNCHANGED cacheVars

Lookup ==
  /\ wrapped
  /\ \/ \E n \in Numbers : get_block_by_number(n) \/ get_header_by_number(n)
     \/ \E h \in Hash : get_block_by_hash_cached(h) \/ get_header_by_hash(h)
     \/ \E a \in Address : get_account(a)
     \/ \E a \in Address, s \in Slot : PassThrough([owner |-> a, slot |-> s], inner_storage(a, s))
     \/ \E t \in Signed : PassThrough([transaction |-> t], inner_transaction(t))
     \/ \E n \in Numbers : PassThrough([body_of |-> n], inner_block_transactions(n))
     \/ \E r \in Receipts : PassThrough([receipt_of |-> r.transaction_hash],
                                        inner_receipt(r.transaction_hash))
  /\ UNCHANGED wrapped /\ UNCHANGED storeVars /\ UNCHANGED stateVars /\ UNCHANGED extraVars

Init ==
  /\ ProviderInit([a \in Address |-> NoAccount])
  /\ receipts = Empty /\ storage = Empty
  /\ wrapped = FALSE
  /\ block_cache = Empty /\ header_cache = Empty /\ account_cache = Empty
  /\ answer = [query |-> [nothing |-> TRUE], result |-> [nothing |-> TRUE]]

Next == Fill \/ Wrap \/ Lookup

Spec == Init /\ [][Next]_vars

-----------------------------------------------------------------------------
Asked(field) == field \in DOMAIN answer.query

\* cached.rs: whatever was looked up, stored and evicted before, a lookup
\* answers what the inner provider answers, errors included, also when blocks
\* of the inner provider replaced each other and two hashes lead to one number.
Transparent ==
  /\ Asked("block_number") =>
       answer.result = inner_block_by_number(answer.query.block_number)
  /\ Asked("block_hash") => answer.result = inner_block_by_hash(answer.query.block_hash)
  /\ Asked("header_number") =>
       answer.result = inner_header_by_number(answer.query.header_number)
  /\ Asked("header_hash") => answer.result = inner_header_by_hash(answer.query.header_hash)
  /\ Asked("address") => answer.result = inner_account(answer.query.address)

=============================================================================
