------------------------------ MODULE Provider ------------------------------
(***************************************************************************)
(* InMemoryProvider (core/execution/src/in_memory.rs): the block store,    *)
(* the account state and the undo journal of the block being executed.     *)
(*                                                                         *)
(* Every map is a function: a HashMap from block numbers or hashes is a    *)
(* function on the keys it holds, the account state is total on Address    *)
(* with NoAccount for a missing key.  `receipts' and `storage' are never   *)
(* written by the node and are left out.                                   *)
(***************************************************************************)
EXTENDS Types

CONSTANTS
  NoAccount,   \* no entry for an address in `state'; None in the journal
  Unsaved      \* no entry for an address in the journal

ASSUME SentinelAssumption ==
  /\ NoAccount \notin Account
  /\ Unsaved \notin Account \cup {NoAccount}

VARIABLES
  blocks,           \* block number -> block
  blocks_by_hash,   \* header hash -> block number
  transactions,     \* signed transaction -> number of the block it is in
  state,            \* address -> account
  journal           \* Option<StateJournal>

storeVars == <<blocks, blocks_by_hash, transactions>>
stateVars == <<state, journal>>

NoJournal == [open |-> FALSE, accounts |-> [a \in Address |-> Unsaved]]

\* HashMap::insert.
Put(map, key, value) ==
  [k \in DOMAIN map \cup {key} |-> IF k = key THEN value ELSE map[k]]

-----------------------------------------------------------------------------
known(hash) == hash \in DOMAIN blocks_by_hash

get_block_by_hash(hash) == blocks[blocks_by_hash[hash]]

\* The signed transaction stands for its own hash in `transactions'.
insert_block(b) ==
  LET number == b.header.number
      body   == {b.transactions[i] : i \in DOMAIN b.transactions}
  IN /\ blocks_by_hash' = Put(blocks_by_hash, hash_header(b.header), number)
     /\ transactions' = [t \in DOMAIN transactions \cup body |->
                           IF t \in body THEN number ELSE transactions[t]]
     /\ blocks' = Put(blocks, number, b)

\* The first write to an address while the journal is open saves what the
\* address held before.
set_account(address, info) ==
  /\ journal' = IF journal.open /\ journal.accounts[address] = Unsaved
                THEN [journal EXCEPT !.accounts[address] = state[address]]
                ELSE journal
  /\ state' = [state EXCEPT ![address] = info]

begin_journal ==
  /\ ~journal.open
  /\ journal' = [NoJournal EXCEPT !.open = TRUE]
  /\ UNCHANGED state

commit_journal ==
  /\ journal' = NoJournal
  /\ UNCHANGED state

\* Plausible bugs of rollback_journal: an account the block created is kept,
\* a saved account is removed instead of restored, the journal stays open.
rollback_keeps_created ==
  /\ state' = [a \in Address |->
                 IF journal.open /\ journal.accounts[a] \in Account
                 THEN journal.accounts[a]
                 ELSE state[a]]
  /\ journal' = NoJournal

rollback_removes ==
  /\ state' = [a \in Address |->
                 IF journal.open /\ journal.accounts[a] # Unsaved
                 THEN NoAccount
                 ELSE state[a]]
  /\ journal' = NoJournal

rollback_leaves_journal ==
  /\ state' = [a \in Address |->
                 IF journal.open /\ journal.accounts[a] # Unsaved
                 THEN journal.accounts[a]
                 ELSE state[a]]
  /\ UNCHANGED journal

rollback_journal ==
  /\ state' = [a \in Address |->
                 IF journal.open /\ journal.accounts[a] # Unsaved
                 THEN journal.accounts[a]
                 ELSE state[a]]
  /\ journal' = NoJournal

\* A provider that holds the genesis block and the genesis accounts, as
\* BlockProcessor::new builds it.
ProviderInit(genesis_accounts) ==
  /\ blocks = [n \in {0} |-> Genesis]
  /\ blocks_by_hash = [h \in {hash_header(Genesis.header)} |-> 0]
  /\ transactions = [t \in {} |-> 0]
  /\ state = genesis_accounts
  /\ journal = NoJournal

\* The account state as it was when the journal was opened: what a rollback
\* at this moment would restore.
PreState ==
  [a \in Address |->
     IF journal.open /\ journal.accounts[a] # Unsaved
     THEN journal.accounts[a]
     ELSE state[a]]

=============================================================================
