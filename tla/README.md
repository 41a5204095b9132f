# Verification of the Mini ETH Node

TLA+ models of the Rust node in `src/` (its own description is
`src/README.md`), model-checked with TLC on small instances and, for the
properties that matter most, proved with TLAPS for every value of the
constants. File names below are relative to `src/` unless they end in `.tla`
or `.cfg`.

## 1. The system

| Part | Code | State | Operations that change it |
|---|---|---|---|
| Domain types | `core/types/src` | none | fee computations of a transaction |
| In-memory provider | `core/execution/src/in_memory.rs` | blocks, hash index, transaction index, accounts, journal | `insert_block`, `set_account`, `begin/commit/rollback_journal` |
| Executor | `core/execution/src/executor.rs` | receipts and gas of the running block | charge a sender, pay a recipient, fail, panic |
| Pipeline, validator | `core/execution/src/pipeline.rs`, `validator.rs` | none of its own | `execute`: validate, journal, run, roll back or commit |
| Block processor | `processor/src/block_processor.rs` | head, buffer of pending blocks, metrics | receive, buffer, drain, commit, publish, stop |
| Node wiring | `node/src/main.rs` | channels, shared head | adapter loop, shutdown sequence |
| Peer manager | `core/networking/src/manager.rs` | peer map | connect, disconnect, route, ping, shut down |
| Connection | `core/networking/src/connection.rs` | handshake state | handshake, read, write, end |
| Listener | `core/networking/src/server.rs` | set of connection tasks | accept, stop, join |
| Frame codec | `core/networking/src/codec.rs` | read buffer | encode, decode |
| Block builder | `block-builder/src/block_builder.rs` | local head, keys | build a block, set the head |
| Test client | `node/src/bin/test-client.rs` | one connection | query, send, poll |
| RLP, trie, signing | `core/rlp-codec/src` | none (trie: nodes) | encode, decode, insert, root |
| Cached provider | `core/execution/src/cached.rs` | bounded caches | read through, write through (not used by the node) |

Blocks travel: connection -> manager -> adapter (in `main`) -> processor
channel -> processor -> pipeline -> executor -> provider. Answers go back
through a oneshot channel or the shared head, the adapter and the manager.

What makes it hard: blocks come in any order, twice, or in several versions
under one number; a block may fail after it has written accounts; the task
awaits a lock between moving its head and publishing it; manager, adapter and
connections wait for room in each other's channels; clients come, go and break
the protocol between any two steps; reads split frames at any byte; numbers
have a width. Every hazard is listed in `PROJECT.json` with the line where it
bites.

## 2. Modules

| Module | Models |
|---|---|
| `Types` | headers, transactions, blocks, accounts; `max_cost`, `effective_gas_price` |
| `ByteArrays` | hex texts of addresses, hashes and blooms; the bits of a bloom |
| `Provider` | `InMemoryProvider`: maps as functions, the undo journal |
| `CachedProvider` | the caches over a provider, and the provider's operations that the node does not call |
| `Executor` | the transaction loop of `ValueTransferExecutor::execute` |
| `Pipeline` | `Pipeline::execute` with `StrictValidator`; a specification of its own |
| `BlockProcessor` | the processor task, its channel, the shared head and metrics; extends `Pipeline` |
| `Connection` | one connection task with its client and its channels |
| `PeerManager` | the manager task; extends `Connection` |
| `Node` | listener, adapter, main and shutdown, with the processor seen from outside; extends `PeerManager` |
| `NodeProperties` | what clients of the node rely on, and the fairness of its tasks; extends `Node` |
| `Rlp`, `RlpTypes` | RLP items and bytes; the codecs of the record types |
| `Messages` | the two decoders of network messages, and frames; extends `RlpTypes` |
| `Framing` | a byte stream between an encoder and a decoder; extends `Messages` |
| `Trie` | the Merkle Patricia trie and the state root; extends `RlpTypes` |
| `Signing` | what is signed and hashed, `v`, recovery of the sender |
| `BlockBuilder`, `TestClient` | building blocks from snapshots; runs of the test client against a node |
| `Ledger` | abstract: accounts that change by whole blocks only |
| `Chain` | abstract: one growing chain and a published head at most one block behind |
| `MessageQueue` | abstract: messages arrive once, whole and in order |
| `MC*` | instances for TLC |
| `PipelineLedger`, `ProcessorLedger` | the pipeline and the processor beside `Ledger`: the mapping, money, replay |
| `PipelineProofs` | types, widths and atomicity of the pipeline |
| `LedgerProofs` | the pipeline implements `Ledger`; money; replays of stored blocks |
| `ProcessorProofs` | the processor's invariant, and that each of its parts is kept: control, metrics, nonces and replies; store, chain and drain |
| `BlockProcessorProofs` | the invariant is inductive, and the processor's theorems |
| `NodeProofs` | the invariant of the node's tasks and what follows from it; the handshake first |
| `RelayProofs` | relayed transactions arrive at most once; counting in sequences |
| `LibraryProofs` | the components that work alone: signing and recovery, the caches |
| `TestClientProofs` | runs of the test client never get ahead of the node |

### How state and actions correspond to the code

Variables keep the names of the Rust fields and locals. A step of the
processor is what the task does up to its next await, or up to its next write
to a variable of another component:

- `Send`, `Close`: the other tasks. The channel blocks when it is full.
- `RecvStaleBlock`, `RecvNewBlock`, `RecvGetAccountState`, `RecvShutdown`,
  `RecvNone`: the arms of `run`, with `handle_new_block`.
- `RejectInvalid`, `RejectUnsigned`, `RejectRefused`, `Execute`: one iteration
  of `try_drain`, by how far `process_block` gets.
- `ExecuteStep` (`Debit`, `DebitFails`, `Credit`, `CreditFails`,
  `CreditPanics`): one write of the executor, or an early return.
- `RejectFailed`: rollback and the rejected metric. `CommitBlock`: journal
  commit, `insert_block` and the new head, which no await separates.
- `PublishHead`: the write lock of `shared_head` is granted; metrics follow.
- `DrainDone`: `try_drain` returns, and `run` clears the buffer and ends after
  the last drain.

Network and node (`Connection`, `PeerManager`, `Node`). A step is what a task
does up to its next await. `conn[p].at` is where the task of connection `p`
is: at its `select!`, at a socket write, at a send to the manager, at its last
announcement (`leave`), or done; `held` is what it is about to send. A send
to a bounded channel is a step of its own that waits for room, so a task that
waits takes nothing. The manager's loops over peers are a set `todo` of sends
still to do, in any order, since a hash map is walked. `main` goes through the
awaits of `main()`: signal, listener, manager, send of `Shutdown`, processor.
The processor is `BlockProcessor` from outside: it takes messages in order,
may panic, and answers carry the number of blocks per peer they reflect.

Pure code (`Rlp`, `RlpTypes`, `Messages`, `Trie`, `Signing`, `ByteArrays`) is
given by operators with the names of the Rust functions. Record codecs are
tables of field names and kinds, one for the encoder and one for the decoder,
since the code writes both by hand. A decoder returns a value or the error it
stops at. The byte values and boundaries of RLP are the real ones.

Test client. A run is a record per client: where it is, what it has asked for,
its builder and its counters. The node answers each connection in order;
`Ping` and `Timeout` may come at any time. A node that commits whatever is
valid is justified by `BlockProcessor` (`ValidChildCommits`).

Abstractions. In the processor's modules a transaction carries the address
`recover_sender` returns for it, or `NoAddress`; `Signing` is about how it is
found. A header keeps the fields the code compares and one field
for those that only enter the hash. The hash is a constant operator that is
injective on the headers in play (`HashAssumption`). The header does not bind
the body in this node (placeholder roots), so two blocks may share a header
and differ in transactions; the instances contain such a pair. `code_hash`,
peer ids, log output and the logged state root are left out. The computation of
that root is taken to succeed. `dropped` and `sent` are history variables.
In `Trie` and `Signing` keccak256 has no collisions, and in `Signing` a
signature is recovered to its key from the signed digest and recovery id only;
from any other pair recovery fails or finds a key that nobody holds.

Widths. Balances, values and prices are bounded by `MAX_U128`, nonces and gas
by `MAX_U64`; every checked operation of the code appears as a comparison with
its maximum, and the wrapping `fetch_add` of the gas metric as a remainder.
Block numbers and the other counters are naturals: reaching their limits takes
2^64 blocks. `total_difficulty` is a natural too; it is a u128 that grows by a
u64 per block.

## 3. What TLC checks

| Run | Module, configuration | States | Question |
|---|---|---|---|
| `pipeline` | `MCPipeline`, `MCPipeline.cfg` | 20,387 | Is executing a block atomic, exact and conservative? |
| `processor` | `MCBlockProcessor`, `MCBlockProcessor.cfg` | 59,158 | Do fourteen competing blocks in any order leave one chain, and does it implement `Chain`? |
| `repair` | `MCBlockProcessor`, `MCRepair.cfg` | 143,794 | After replaced, rejected and rolled back blocks: does the right block still commit, is a correct chain committed in every order, does a drain end, do answers never go back, does the task stop when told? |
| `contract_creation` | `MCBlockProcessor`, `MCPanic.cfg` | violation | Does the task survive every block, as `src/README.md:217` asks? |
| `node` | `MCNode`, `MCNode.cfg` | 806,000 | Do answers come back in order, does the peer map follow the connections when clients misbehave and leave, and is the processor stopped last? |
| `shutdown` | `MCNode`, `MCShutdown.cfg` | 70,000 | Does Ctrl-C end the node when clients leave and channels have room, is every query answered, every client that left forgotten? |
| `client_stays` | `MCNode`, `MCStays.cfg` | violation | Does Ctrl-C end the node while a client stays connected? |
| `adapter_full` | `MCNode`, `MCFullAdapter.cfg` | violation | ... while manager and adapter both wait for room? |
| `client` | `MCTestClient`, `MCTestClient.cfg` | 179,000 | Do runs in a row each add their blocks, and what do confirmations mean when runs overlap and share accounts? |
| `wire` | `MCWire`, `MCWire.cfg` | 171,000 | Do encoders, decoders and computed lengths agree, and does a stream read in pieces and cut anywhere implement a queue? |
| `account_codec` | `MCWire`, `MCAccount.cfg` | violation | Does an account survive its codec? |
| `library` | `MCLibrary`, `MCLibrary.cfg` | 149,000 | Is the recovered sender the signer of exactly this? Does the root depend on the contents, and on them only? Are the caches invisible? Do texts and bits read back? |

Three instances put several cases into one run: an initial choice decides which
of them a behaviour is about, and the others stay as they are. In `MCNode` it
is the scenario (what the clients send, pings, the signal), in `MCWire` and
`MCLibrary` the `subject`. In `TestClient` `orderly` says whether runs overlap
and answers may be late.

**pipeline.** `PipelineTypeOK`: types and widths, and the journal is open exactly
while a block runs. `NoUnderflow`: the charge uses another price than the
check before it, yet never exceeds the balance. `RejectionsJustified`: a block
is rolled back only if `Ledger` rejects it. `Conservation`: wealth and burned
fees add up at every point of the loop, self transfers included.
`CommitsWholeBlocks` and `ImplementsLedger`: the accounts, seen through the
journal, change by whole blocks with the effect `Ledger` gives them.

**processor.** `ChainLinked` (one linked chain and an exact hash index),
`NoReplay` (no transaction in two blocks), `BufferedAboveGap` (nothing
drainable is left behind), `MetricsBalance` (every received block is accounted
for), `StateIsReplay` (accounts equal a replay of the stored blocks from
genesis), `ImplementsChain` (the chain only grows, and what others see of it
during the await of the shared head is at most one block behind).

**repair.** `AnswersAdvance`, `ValidChildCommits`, `HonestChainCommits`, and
`ShutdownHonoured`, which needs every drain to end. `HonestChainCommits` asks that no faulty
block came before the chain was complete: a rejected block makes the drain go on
with the next number, which uses up buffered successors, so these have to be
sent again.

**contract_creation.** A transaction with `to: None` reaches `todo!()`
(`core/execution/src/executor.rs:150`) after its sender was charged. The task
unwinds, so the node commits nothing from then on. The design rule asks for
a `Result`. All other runs keep the panic as a possible step, and
their properties hold in its presence.

**node.** `AnswersInOrder`: while the processor lives, the answers
written to a client are those to its questions, in order, and an account answer
has the state after the blocks it sent before. `NoLeakedPeer`: an entry of the
peer map whose task has ended is matched by a `Disconnected` still queued.
`HandshakeFirst`: nothing overtakes the handshake's outcome. `RelayedOnce`: no
echo and no second copy of a transaction. `ShutdownLast`: when the processor
is told to stop, no connection and no manager is left.

**shutdown** and its two violations. `ShutdownCompletes` holds when clients
close in the end and no channel fills up. It fails when a client stays: the
listener joins its task, which keeps a sender of its own channel
(`client_stays`). It also fails when two tasks wait for room in each other's
channel: manager and adapter (`adapter_full`, where only these two channels
are small). With a small `PeerCap` the same happens between the manager
(`manager.rs:146`) and a connection task (`connection.rs:105`). The capacities
in the code make these cycles rare, not impossible: each is closed by a client
that sends faster than it is served. `QueriesAnswered`, `PeersForgotten`.

**client.** `BuilderTracksChain`, `RunsComplete` and `HeadKeepsUp` say in which
sense a nonce that advanced confirms a block: in orderly runs it is the run's own
block; when runs overlap it is some block, so the chain has still grown and
no block is sent above the next number. Orderly runs have no pings because a
ping between question and answer ends a run (`test-client.rs:115`,
`OnUnexpected`).

**wire.** `RlpExact`: items read back from exactly the bytes their length
announces, and no input is accepted for more or less than the bytes consumed.
`ValueRoundTrip` of every record type but `Account`, whose decoder reads one
item three times (`account_codec`), and of every framed message.
`DecodersAgree` on well-formed and on damaged lists of fields.
`ImplementsQueue` refines `MessageQueue`; `StreamExact` says when the receiver
may fail or wait.

**library.** `OrderIndependent` and `RootBindsContents` hold
for keys of one length, which is what `compute_state_root` inserts. With a key
that is a prefix of another, `OrderIndependent` fails: the split of a leaf
(`trie.rs:184`) loses the shared nibbles. `SenderIsSigner`, `SignerRecovered`,
`HashIdentifies`; signing is exact for chain ids whose `v` fits. The product in
`v` is checked and the sum is not, so it still overflows at the chain id that
the comment at `signing.rs:610` calls the largest safe one, when the recovery
id is 1. `Transparent`: reads through the caches return what the provider holds.
`ArraysExact`: bits and texts of byte arrays read back, and a refused text has
the fault that is reported.

Deadlock is checked except where the system may really stop: clients that say no
more, a full cycle of channels (a finding of its own), a stream that has
ended, inputs that are used up. A processor task that ended, a node whose main
returned and finished client runs stutter explicitly (`Ended`, `Unwound`,
`Finished`).

### Bounds and why they are enough

- `MAX_U64 = 3`, `MAX_U128 = 12`: three nonces and gas units, so that each
  checked operation is met on both sides of its limit.
- Two or three addresses: sender, recipient, and one without an account.
- Blocks of up to two transactions (three to exceed `MAX_TXS`): a failure in
  the second one has the first to undo. `MCTransactions` has a transaction for
  each outcome of the executor except `Underflow`, which no state reaches.
- Chains of three blocks, with alternatives that fail each check or compete
  for a number: gaps, drains over several blocks, and a rejected block below
  buffered ones all occur.
- `QueueCap = 2` for 256: a full channel only delays a sender.
- `MaxMessages` (3 or 5) and `MaxCopies` (1 or 2) bound what is sent; three
  messages suffice to buffer, replace and drain, five for the three blocks of
  a chain and two duplicates or corrections. Each pass of TLC is exhaustive
  within them, and the proofs do not depend on their values.

- `MCNode`: two peers, so that one is relayed to, leaves or waits while the
  other works. Channels of one place make every send wait at some point; the
  liveness run uses capacities above the number of messages in flight
  (`EventCap = 12`, `NetCap = ProcCap = 6`, `PeerCap = 3`), so that no cycle
  can close. `Script` bounds what a client sends, `MaxTicks` the ping rounds.
- `MCTestClient`: two keys, two blocks per run, up to two transactions per
  block, two runs and a third one of another chain, `MaxPings` pings.
- `MCWire`: strings at 0, 1, 2, 53 to 56, 255 and 256 bytes and numbers at the
  edges of their byte length; records differ from a base in one field at a
  time; `MaxChanges` damages to a list of fields; up to two messages on the stream, out of four,
  one longer than the scaled `MAX_FRAME_SIZE`, read in pieces of every size.
- `MCLibrary`: five trie keys of two bytes that branch at each nibble, with a
  value that is inlined and one that is hashed; for each type of transaction a
  sample and one that differs in each field; u64 has six bits, so that the edge of
  `v` is among the chain ids; caches of one entry; byte arrays of two bytes.

No symmetry is used: clients differ in script, accounts in balance and blocks
in content.

### Fairness

The processor's `FairSpec` adds `WF_vars(ProcessorStep)` only: the runtime
polls a task that can run, and tokio's write-preferring lock of `shared_head`
is granted since readers hold it for the time of one clone. Senders get no
fairness. The liveness properties start from a message that was sent or
received, or from a channel that was closed.

The node's `TaskFairness` is weak fairness of each task, for the same reason.
`MCReaders` adds clients that read what they are sent, without which a socket
stays full; `MCLeavers` adds, where the node is to stop, clients that close some
time. That both are needed for shutdown is the finding `client_stays`. No
fairness is assumed for sending, connecting or pressing Ctrl-C. `TestClient`
has weak fairness of the node's service and of the client's steps, none of
pings and timeouts.

## 4. What is proved

All proofs are checked by TLAPS with Z3, Zenon and LS4, from the named
assumptions in the modules: positive widths with `MAX_U64 <= MAX_U128`, well-formed
blocks, an empty genesis block with number 0, a collision-free hash
(`HashAssumption`), sentinels outside their types (`Rejected` is no ledger), natural bounds,
finitely many addresses (`LedgerAssumption`; there are 2^160, and sums over
them are counted), and clients that send messages of the protocol or bytes that are
none, each transaction under its own origin (`ScriptAssumption`). They
hold for every set of addresses and blocks, and for every width, capacity and
number of messages.

**Pipeline** (`PipelineProofs`, `LedgerProofs`).

| Theorem | Property |
|---|---|
| `PipelineTypeCorrect` | `PipelineTypeOK` |
| `ChargeNeverUnderflows` | `NoUnderflow` |
| `ExecutionAtomic` | `CommitsWholeBlocks` |
| `RollbacksJustified` | `RejectionsJustified` |
| `PipelineImplementsLedger` | `ImplementsLedger` |
| `CurrencyConserved` | `Conservation` |

The type invariant alone is not
inductive: `LoopOK` adds that while the loop runs there is a transaction left,
its sender was recovered, and the number of receipts is the loop index. The
step to `NoUnderflow` is that the effective price never exceeds the fee cap,
so the charge never exceeds `max_cost`, which was compared with the balance.

The refinement of `Ledger` rests on `LedgerInv`: between two transactions the
accounts are the reference ledger after as many transactions as there are
receipts (`Before`), after a debit they are that ledger with the sender
charged, and the gas counter is the gas of those transactions. It is needed
because `ImplementsLedger` compares only whole blocks, while a step of the
executor writes one account. `FailureJustified` turns each early return into a
reason for which the reference rejects, and `RejectionStays` carries that
reason to the end of the block.

The ledgers and the gas after each transaction are recursive functions on
`0..n`. What they compute is proved without an induction
rule that takes an operator: the naturals are well founded, so a set that
holds 0 and is closed under successor holds them all (`LeastNatural`,
`SetInduction`); from that, a function given by iterating a step exists and keeps
its type (`IterationExists`, `IterationType`), and `LedgersOfSteps` and `GasOfSteps`
state what the provers need.

For `Conservation`, wealth is the number of elements of a set of pairs, an
address with a number up to its balance. A write of one account changes it by the
difference of the balances (`WealthSplit`, `WealthWrite`), and a receipt adds
its fee to those paid so far (`FeesAppend`). A transfer to oneself is a write over the
first write, not two independent ones, so the case is separate.

**Processor**. `ProcessorInvariant` (`BlockProcessorProofs`) establishes
`ProcessorInv` (defined in `ProcessorProofs`), and the theorems below follow
from it:

- `ControlOK` ties the task's location to the executor's phase.
- `StoreOK` is `ChainLinked` and `PublishedHead`, with the block in execution a
  child of the head (`ChildOK`): it was checked against the head, which cannot
  move before the commit. The parent is looked up by hash among all blocks;
  lemma `ChecksFindTheHead` shows that the number checks leave only the head.
- `DrainOK`: where `next_block_number` stands at each location, and that every
  buffered block is at or above it during a drain.
- `NonceOK`: every charged transaction has a nonce below its sender's nonce,
  both in the stored blocks and in the block being executed, seen through the
  journal. This is why a transaction never commits twice (`NoReplay`).
- `ReplyOK`: an account that was reported has not gone back since.
- `CountOK`: the balance of the metrics at every location until the task ends,
  the block in flight included, not just between messages.

| Theorem | Property |
|---|---|
| `TypeCorrect` | `TypeOK` |
| `OneChain` | `ChainLinked` |
| `CommittedOnce` | `NoReplay` |
| `NothingDrainable` | `BufferedAboveGap` |
| `HeadPublished` | `PublishedHead` |
| `BlocksAccounted` | `MetricsBalance` |
| `ChainAppendOnly` | `AppendOnly` |
| `AnswersInOrder` | `AnswersAdvance` |
| `ProcessorImplementsChain` | `ImplementsChain` |
| `AccountsAreReplay` | `StateIsReplay` |

`AccountsAreReplay` needs the pipeline's argument again, now for the block that
runs on top of the head: `ReplayInv` says that the accounts before that block
are where the stored blocks lead from genesis (`Reaches`, a history of
ledgers none of which rejects its block), and `LedgerInv` follows the
executor inside the block. A commit adds one ledger to the
history; `HistoryIsReplay` says that a replay returns its last one.

**Node** (`NodeProofs`). `NodeInvariant` establishes `NodeInv` for any set of
peers, any capacities and any scripts; `PeersNotLeaked` and
`ProcessorStopsLast` follow.

- `Shapes`: the channels are sequences and the tasks' records have their fields.
- `OrderInv`: `main` has passed the join of the listener only when all
  connection tasks are gone, and that of the manager only when it has
  stopped; and no task but `main` holds or queues a `Shutdown`, along the
  whole path manager, network channel, adapter, processor channel.
- `PeerInv`: a queued `Connected` of a task that has ended is followed by its
  `Disconnected`. `NoLeakedPeer` alone is not inductive: the manager could
  enter a peer from a late `Connected` with nothing behind it.

What each task does to the others is stated once as its effect
(`ConnectionEffect`, `ManagerEffect`, `AdapterEffect`, `ProcessorEffect`), and
the invariants are shown to be kept by effects.

**Handshake** (`NodeProofs`). `HandshakesFirst` states
`HandshakeFirst`. It is not inductive: the socket gets its messages from the
connection's channel, that one from the manager, and the manager's from connections
and adapter, so a stray `Status` or an early answer could come from any of them.
`HandshakeInv` follows a message along that path:

- `TaskInv`: where a connection task stands in its handshake, and that nothing is
  written before the client's first message decides what is written first.
- `WrittenInv`: a `Status` stands only at the head of what was written, and a
  welcomed client has sent a `Status` of the right chain first.
- `OutboundInv`, `RouterInv`: what the manager and the adapter hold or queue is
  neither a `Status` nor addressed to a client that was not welcomed.

It needs `ScriptAssumption`, since a message a client sends may be passed on, and
`Shapes` of `NodeInv`. `HandshakeInvariant` establishes it.

**Relay** (`RelayProofs`). `RelayedAtMostOnce` states `RelayedOnce`. The property
sees three of the places a transaction passes through: the socket, the task
that writes it and the peer's channel. A second copy could still come from the three before them:
the manager's loop over the peers, the event channel, and the task that decoded
the transaction. `RelayInv` counts it in all six:

- `Bound`: for two different peers, the copies of one's transactions in these six places are
  together at most the transactions decoded from it so far (`Came`). A step moves a copy
  from one place to the next, or loses it when a task or a channel ends. The manager's
  turn through the loop is where one copy becomes many, one for each peer of the list; the
  bound is per peer, so it holds because a peer that was sent to leaves the list.
- `TaskClean`, `RouterClean`: what is on its way to a peer, or still to be sent to it, is no
  transaction of its own (`Foreign`), what is reported to the manager as a transaction
  comes from the peer it names (`Honest`), and no answer of the adapter is a transaction.

What a step of each connection does is reduced to five effects (`Receives`, `Takes`, `Writes`,
`Announces`, `MovesOn`), what the manager and the adapter do to `PassedOn`. A count is
the cardinality of a set of places; what appending, taking and
concatenating do to it (`CountAppend`, `CountTail`, `CountConcat`) follows from
facts about finite sets (`FiniteSetFacts`), which `SetFacts` proves.
The channels are sequences by `NodeInv` and `HandshakeInv`.

**Signing** (`LibraryProofs`). `SignaturesRecover` (`SignerRecovered`): `v`
carries the recovery id through the addition and back while it fits into u64.
`OnlySignersRecovered` (`SenderIsSigner`): the payload determines transaction and
chain id. Legacy and typed payloads differ by the type byte, typed ones among
each other by its value; the chain id stands at a known place; and a
transaction is its type with its fields (`TransactionAssumption`).
`HashesIdentify` (`HashIdentifies`): of the signed transactions with one signature,
no two have the same hash, since `v` stands at a known place behind the fields.

**Caches** (`LibraryProofs`). `CacheTransparent` states `Transparent`: a read
through the wrapped provider answers what the provider would. It is not
inductive, since a hit answers from an entry of an earlier read. `CacheInv` adds
that every entry is what the provider holds for its key, that the
two indexes of the provider agree (a block found by number is filed under its
own hash, so the second cache that a read fills is right too), and that the
caches are empty until the provider is wrapped, after which it no longer
changes.

**Test client** (`TestClientProofs`). `HeadNeverBehind` states `HeadKeepsUp` for
any number of runs with the same or different keys. The client is told only
nonces, so the argument has to lead from a nonce to the length of the chain. `RunInv`
relates one run to the messages on both ways and to the node:

- at most one question about an account is open, and it is the one the run
  waits for (`OneQuestion`), so an answer is never taken for another;
- until the chain grows beyond `start + confirmed`, all answers on their way and all
  snapshots are the node's accounts (`ToldOK`). An answer with a nonce above the
  snapshot therefore shows that the chain has grown, whoever's block it was;
- the builder's head is at `start + confirmed`, one higher while the block is
  waited for, so the blocks on their way are at most one above the node's head
  (`BlocksOK`).

That nonces are numbers at all, so that one above the snapshot differs
from it, is an induction over the transactions of the applied blocks
(`BlockNonces`). The assumption beyond those above is `ClientAssumption`: at least
one transaction per block, and keys of accounts that exist since genesis.

**Only model-checked.**

- Liveness is out of the prover's reach: `ValidChildCommits`, `ShutdownHonoured`,
  `HonestChainCommits`, `ShutdownCompletes`, `QueriesAnswered`,
  `PeersForgotten`, `RunsComplete`.
- `RlpExact`, `ValueRoundTrip`, `DecodersAgree`, `StreamExact`, `ImplementsQueue`,
  `OrderIndependent`, `RootBindsContents` and `ArraysExact` are about code that is
  recursive over its data, and their modules declare `RECURSIVE` operators or
  compare texts.
- `AnswersInOrder` of the node (in the processor's module a theorem has the same name) filters
  five channels in a row by peer, and compares the results in order: what a filter does to
  an appended or shortened sequence is an induction over data.
- `BuilderTracksChain` of the test client says that the node accepts what an
  orderly run builds. That depends on the configuration: balances that cover all
  transfers, sums that fit u128, and timestamps that fit u64.

`AppendOnly` and `PublishedHead` are proved only: in the runs
`ImplementsChain` stands for them.

## 5. Not modelled, and why

- Elliptic curve arithmetic and keccak: external, represented by what callers
  rely on.
- Command line, tracing and the construction of the genesis state in
  `node/src/main.rs` and the test client: straight-line set-up before any task
  runs. The instances have genesis states of their own.
- Demo binary of the networking crate (`main.rs`, `client.rs`, `chain.rs`):
  the node does not use it.
- `BasicValidator`, `summarise_transactions`, the opcode table: nothing in the
  node calls them. The `optimism` feature is off.
- Derived code (serde, `Debug`, error texts) and benches.
- TCP below the socket buffer, and the memory that pending blocks and frames
  take: the code states no bound.

## 6. Next

- A proof of the node's `AnswersInOrder`, with positions in the channels in the place of
  filtered sequences.
- `Node` with `BlockProcessor` itself in the place of its outside view, once the
  product of the two can be kept small.
