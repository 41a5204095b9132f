--------------------------- MODULE BlockProcessor ---------------------------
(***************************************************************************)
(* BlockProcessor (processor/src/block_processor.rs): the task that owns   *)
(* the canonical chain.  It takes messages from a bounded channel, buffers *)
(* blocks by number, drains the buffer from the head upwards, and after    *)
(* every commit publishes the new head to the other tasks of the node.     *)
(*                                                                         *)
(* Other tasks run between any two steps: they send messages, drop the     *)
(* last sender, and read `shared_head' and `reply'.  A step is what the    *)
(* task does up to the next await, or up to the next write that belongs to *)
(* another component.  The id of the peer a block came from is only logged *)
(* and is left out.                                                        *)
(***************************************************************************)
EXTENDS Pipeline, Functions, FiniteSets

CONSTANTS
  QueueCap,      \* capacity of the processor channel, 256 in node/src/main.rs
  MaxCopies,     \* bound: how often the same message is sent
  MaxMessages    \* bound: how many messages are sent

ASSUME ProcessorAssumption ==
  /\ QueueCap \in Nat \ {0}
  /\ MaxCopies \in Nat
  /\ MaxMessages \in Nat

VARIABLES
  queue,               \* the mpsc channel
  closed,              \* every sender of the channel is gone
  sent,                \* how often each message was sent (bounds the model)
  pc,                  \* where the task is
  stopping,            \* the drain in progress is the last one
  chain_head,
  shared_head,
  pending_map,         \* block number -> buffered block
  next_block_number,   \* local of try_drain
  output,              \* local of process_block: the executor's output
  metrics,
  dropped,             \* history: received blocks that no metric accounts for
  reply                \* the last account sent through a oneshot channel

channelVars == <<queue, closed, sent>>
headVars    == <<chain_head, shared_head>>
drainVars   == <<stopping, pending_map, next_block_number, output, dropped>>
vars == <<pipelineVars, channelVars, headVars, drainVars, pc, metrics, reply>>

NewBlock(b)        == [type |-> "NewBlock", block |-> b]
GetAccountState(a) == [type |-> "GetAccountState", address |-> a]
Shutdown           == [type |-> "Shutdown"]

ProcessorMessage ==
  {NewBlock(b) : b \in Block} \cup {GetAccountState(a) : a \in Address}
    \cup {Shutdown}

PC == {"recv", "drain", "execute", "publish", "stopped", "panicked"}

\* The receiver exists.
alive == pc \notin {"stopped", "panicked"}

NoOutput == [tx_count |-> 0, gas_used |-> 0]

-----------------------------------------------------------------------------
\* new() after main() wrote the genesis head to the shared head.
Init ==
  /\ PipelineInit
  /\ queue = << >>
  /\ closed = FALSE
  /\ sent = [m \in ProcessorMessage |-> 0]
  /\ pc = "recv"
  /\ stopping = FALSE
  /\ chain_head = [number |-> 0, hash |-> hash_header(Genesis.header),
                   total_difficulty |-> 0]
  /\ shared_head = chain_head
  /\ pending_map = [n \in {} |-> Genesis]
  /\ next_block_number = 1
  /\ output = NoOutput
  /\ metrics = [blocks_received |-> 0, blocks_committed |-> 0,
                blocks_rejected_validation |-> 0,
                blocks_rejected_execution |-> 0,
                transactions_committed |-> 0, total_gas_committed |-> 0]
  /\ dropped = 0
  /\ reply = [address |-> NoAddress, account |-> NoAccount]

\* Another task sends a message; a full channel makes it wait.
Send(m) ==
  /\ alive /\ ~closed
  /\ Len(queue) < QueueCap
  /\ sent[m] < MaxCopies
  /\ SumFunction(sent) < MaxMessages
  /\ queue' = Append(queue, m)
  /\ sent' = [sent EXCEPT ![m] = @ + 1]
  /\ UNCHANGED <<closed, pipelineVars, headVars, drainVars, pc, metrics, reply>>

\* The last sender is dropped.
Close ==
  /\ alive /\ ~closed
  /\ closed' = TRUE
  /\ UNCHANGED <<queue, sent, pipelineVars, headVars, drainVars, pc, metrics,
                 reply>>

-----------------------------------------------------------------------------
\* rx.recv() yields a message of the given type.
recv(type) ==
  /\ pc = "recv"
  /\ queue # << >>
  /\ Head(queue).type = type
  /\ queue' = Tail(queue)
  /\ UNCHANGED <<closed, sent>>

Count(metric) == metrics' = [metrics EXCEPT ![metric] = @ + 1]

\* Plausible bug: a stale block is received but not counted as rejected.
RecvStaleUncounted ==
  /\ recv("NewBlock")
  /\ Head(queue).block.header.number <= chain_head.number
  /\ Count("blocks_received")
  /\ UNCHANGED <<pipelineVars, headVars, drainVars, pc, reply>>

\* handle_new_block, early return.
RecvStaleBlock ==
  /\ recv("NewBlock")
  /\ Head(queue).block.header.number <= chain_head.number
  /\ metrics' = [metrics EXCEPT !.blocks_received = @ + 1,
                                !.blocks_rejected_validation = @ + 1]
  /\ UNCHANGED <<pipelineVars, headVars, drainVars, pc, reply>>

\* Plausible bug: the drain starts at the head.
StartDrainAtHead ==
  /\ next_block_number' = chain_head.number
  /\ pc' = "drain"

\* try_drain starts above the head.
StartDrain ==
  /\ next_block_number' = chain_head.number + 1
  /\ pc' = "drain"

\* Plausible bug: a block is filed under the number the head waits for.
RecvFilesUnderNext ==
  /\ recv("NewBlock")
  /\ Head(queue).block.header.number > chain_head.number
  /\ pending_map' = Put(pending_map, chain_head.number + 1, Head(queue).block)
  /\ Count("blocks_received")
  /\ StartDrain
  /\ UNCHANGED <<pipelineVars, headVars, stopping, output, dropped, reply>>

\* handle_new_block.  insert() replaces a block buffered under that number.
RecvNewBlock ==
  /\ recv("NewBlock")
  /\ LET b == Head(queue).block
     IN /\ b.header.number > chain_head.number
        /\ pending_map' = Put(pending_map, b.header.number, b)
        /\ dropped' = IF b.header.number \in DOMAIN pending_map
                      THEN dropped + 1 ELSE dropped
  /\ Count("blocks_received")
  /\ StartDrain
  /\ UNCHANGED <<pipelineVars, headVars, stopping, output, reply>>

RecvGetAccountState ==
  /\ recv("GetAccountState")
  /\ reply' = [address |-> Head(queue).address,
               account |-> state[Head(queue).address]]
  /\ UNCHANGED <<pipelineVars, headVars, drainVars, pc, metrics>>

StartLastDrain ==
  /\ StartDrain
  /\ stopping' = TRUE
  /\ UNCHANGED <<pipelineVars, headVars, pending_map, output, dropped, metrics,
                 reply>>

RecvShutdown == recv("Shutdown") /\ StartLastDrain

\* recv() yields None: nothing is queued and no sender is left.
RecvNone ==
  /\ pc = "recv"
  /\ queue = << >> /\ closed
  /\ StartLastDrain
  /\ UNCHANGED channelVars

-----------------------------------------------------------------------------
\* Plausible bug: the timestamps are not compared.
process_block_ignores_time(b) ==
  IF ~known(b.header.parent_hash) THEN "ParentNotFound"
  ELSE IF get_block_by_hash(b.header.parent_hash).header.number + 1
            # b.header.number THEN "InvalidBlockNumber"
  ELSE "Ok"

\* process_block up to the call of build_block_with_senders: the first check
\* that fails.
process_block_error(b) ==
  IF ~known(b.header.parent_hash) THEN "ParentNotFound"
  ELSE LET parent == get_block_by_hash(b.header.parent_hash).header
       IN IF parent.number + 1 # b.header.number THEN "InvalidBlockNumber"
          ELSE IF parent.timestamp >= b.header.timestamp THEN "ValidationFailed"
          ELSE IF chain_head.number + 1 # b.header.number
               THEN "InvalidBlockNumber"
          ELSE "Ok"

\* The head of the loop in try_drain: pending_map.remove(next_block_number).
TakePending ==
  /\ pc = "drain"
  /\ next_block_number \in DOMAIN pending_map
  /\ pending_map' = Restrict(pending_map,
                             DOMAIN pending_map \ {next_block_number})

taken == pending_map[next_block_number]

\* Plausible bug: next_block_number stays behind.
AdvanceNot ==
  /\ UNCHANGED next_block_number
  /\ pc' = "drain"

\* The tail of the loop: process_block returned, with or without an error.
Advance ==
  /\ next_block_number' = next_block_number + 1
  /\ pc' = "drain"

RejectInvalid ==
  /\ TakePending
  /\ process_block_error(taken) # "Ok"
  /\ Count("blocks_rejected_validation")
  /\ Advance
  /\ UNCHANGED <<pipelineVars, channelVars, headVars, stopping, output, dropped,
                 reply>>

\* recover_sender fails: `?' returns without touching a metric.
RejectUnsigned ==
  /\ TakePending
  /\ process_block_error(taken) = "Ok"
  /\ ~senders_recovered(taken)
  /\ dropped' = dropped + 1
  /\ Advance
  /\ UNCHANGED <<pipelineVars, channelVars, headVars, stopping, output, metrics,
                 reply>>

\* Pipeline::execute returns before the executor runs.
RejectRefused ==
  /\ TakePending
  /\ process_block_error(taken) = "Ok"
  /\ senders_recovered(taken)
  /\ RefuseExecute(taken)
  /\ Count("blocks_rejected_execution")
  /\ Advance
  /\ UNCHANGED <<storeVars, channelVars, headVars, stopping, output, dropped,
                 reply>>

Execute ==
  /\ TakePending
  /\ process_block_error(taken) = "Ok"
  /\ senders_recovered(taken)
  /\ StartExecute(taken)
  /\ pc' = "execute"
  /\ UNCHANGED <<storeVars, channelVars, headVars, stopping, next_block_number,
                 output, dropped, metrics, reply>>

\* One step of the executor; a panic ends the task.
ExecuteStep ==
  /\ pc = "execute"
  /\ ExecutorStep
  /\ pc' = IF phase' = "panicked" THEN "panicked" ELSE pc
  /\ UNCHANGED <<storeVars, channelVars, headVars, drainVars, metrics, reply>>

RejectFailed ==
  /\ pc = "execute"
  /\ AbortExecute
  /\ Count("blocks_rejected_execution")
  /\ Advance
  /\ UNCHANGED <<storeVars, channelVars, headVars, stopping, pending_map, output,
                 dropped, reply>>

\* The pipeline commits, the block is stored and the head moves: no await
\* between these.
CommitBlock ==
  /\ pc = "execute"
  /\ FinishExecute
  /\ output' = [tx_count |-> Len(receipts), gas_used |-> cumulative_gas_used]
  /\ insert_block(block)
  /\ chain_head' = [number |-> block.header.number,
                    hash |-> hash_header(block.header),
                    total_difficulty |->
                      chain_head.total_difficulty + block.header.gas_used]
  /\ pc' = "publish"
  /\ UNCHANGED <<channelVars, shared_head, stopping, pending_map,
                 next_block_number, dropped, metrics, reply>>

\* write_to_shared_head got the lock.  fetch_add wraps around.
PublishHead ==
  /\ pc = "publish"
  /\ shared_head' = chain_head
  /\ metrics' = [metrics EXCEPT
       !.blocks_committed = @ + 1,
       !.transactions_committed = @ + output.tx_count,
       !.total_gas_committed = (@ + output.gas_used) % (MAX_U64 + 1)]
  /\ output' = NoOutput
  /\ Advance
  /\ UNCHANGED <<pipelineVars, channelVars, chain_head, stopping, pending_map,
                 dropped, reply>>

\* Plausible bug: the loop of run() is not left after the last drain.
DrainDoneForgetsStop ==
  /\ pc = "drain"
  /\ next_block_number \notin DOMAIN pending_map
  /\ pc' = "recv"
  /\ UNCHANGED <<pipelineVars, channelVars, headVars, drainVars, metrics, reply>>

\* try_drain returns; after the last one run() drops what is still buffered.
DrainDone ==
  /\ pc = "drain"
  /\ next_block_number \notin DOMAIN pending_map
  /\ IF stopping
     THEN pc' = "stopped" /\ pending_map' = [n \in {} |-> Genesis]
     ELSE pc' = "recv" /\ UNCHANGED pending_map
  /\ UNCHANGED <<pipelineVars, channelVars, headVars, stopping,
                 next_block_number, output, dropped, metrics, reply>>

\* The task is gone and its receiver with it.
Ended == ~alive /\ UNCHANGED vars

ProcessorStep ==
  \/ RecvStaleBlock \/ RecvNewBlock \/ RecvGetAccountState
  \/ RecvShutdown \/ RecvNone
  \/ RejectInvalid \/ RejectUnsigned \/ RejectRefused \/ Execute
  \/ ExecuteStep \/ RejectFailed \/ CommitBlock \/ PublishHead
  \/ DrainDone

Next ==
  \/ \E m \in ProcessorMessage : Send(m)
  \/ Close
  \/ ProcessorStep
  \/ Ended

Spec == Init /\ [][Next]_vars

\* The runtime keeps polling a task that can run, and the fair write lock of
\* shared_head is granted: readers hold it for one clone.
FairSpec == Spec /\ WF_vars(ProcessorStep)

-----------------------------------------------------------------------------
ChainHead == [number : Nat, hash : Hash, total_difficulty : Nat]

\* Types of the processor's state; a buffered block is filed under its own
\* number.
TypeOK ==
  /\ PipelineTypeOK
  /\ queue \in Seq(ProcessorMessage)
  /\ closed \in BOOLEAN
  /\ pc \in PC
  /\ stopping \in BOOLEAN
  /\ chain_head \in ChainHead
  /\ shared_head \in ChainHead
  /\ DOMAIN pending_map \subseteq Nat
  /\ \A n \in DOMAIN pending_map :
       pending_map[n] \in Block /\ pending_map[n].header.number = n
  /\ next_block_number \in Nat
  /\ output \in [tx_count : Nat, gas_used : 0..MAX_U64]
  /\ metrics \in [blocks_received : Nat, blocks_committed : Nat,
                  blocks_rejected_validation : Nat,
                  blocks_rejected_execution : Nat,
                  transactions_committed : Nat,
                  total_gas_committed : 0..MAX_U64]
  /\ dropped \in Nat
  /\ reply \in [address : Address \cup {NoAddress},
                account : Account \cup {NoAccount}]

\* The block store holds one chain: the numbers 0 to the head without a gap,
\* each block the child of the one below it by hash, with a later timestamp,
\* and the hash index leads back to exactly these blocks.  insert_block and
\* chain_head are written without comparing them; the order of drain,
\* validation and commit has to make them agree.
ChainLinked ==
  /\ DOMAIN blocks = 0..chain_head.number
  /\ chain_head.hash = hash_header(blocks[chain_head.number].header)
  /\ \A n \in DOMAIN blocks : blocks[n].header.number = n
  /\ \A n \in DOMAIN blocks \ {0} :
       /\ blocks[n].header.parent_hash = hash_header(blocks[n-1].header)
       /\ blocks[n].header.timestamp > blocks[n-1].header.timestamp
  /\ \A n \in DOMAIN blocks : known(hash_header(blocks[n].header))
  /\ \A h \in DOMAIN blocks_by_hash :
       /\ blocks_by_hash[h] \in DOMAIN blocks
       /\ hash_header(blocks[blocks_by_hash[h]].header) = h

\* A transaction is committed at most once: the index of insert_block sends
\* every transaction of the chain to the one block that holds it.
NoReplay ==
  \A n \in DOMAIN blocks : \A i \in DOMAIN blocks[n].transactions :
    /\ blocks[n].transactions[i] \in DOMAIN transactions
    /\ transactions[blocks[n].transactions[i]] = n

\* When the task waits for a message nothing it could drain is left: every
\* buffered block is above a gap.
BufferedAboveGap ==
  pc = "recv" => \A n \in DOMAIN pending_map : n > chain_head.number + 1

\* What other tasks see in shared_head is the head itself, or the block
\* below it during the await of write_to_shared_head.
PublishedHead ==
  IF pc = "publish"
  THEN /\ shared_head.number + 1 = chain_head.number
       /\ shared_head.hash = blocks[chain_head.number].header.parent_hash
       /\ shared_head.total_difficulty <= chain_head.total_difficulty
  ELSE shared_head = chain_head

\* Every received block is accounted for: committed, rejected, buffered, or
\* one of the two silent losses, a buffered block that was replaced and a
\* block whose senders cannot be recovered.
MetricsBalance ==
  pc = "recv" =>
    metrics.blocks_received =
      metrics.blocks_committed + metrics.blocks_rejected_validation
        + metrics.blocks_rejected_execution
        + Cardinality(DOMAIN pending_map) + dropped

\* A committed block is never replaced and its hash never forgotten.
AppendOnly ==
  [][/\ \A n \in DOMAIN blocks : n \in DOMAIN blocks' /\ blocks'[n] = blocks[n]
     /\ \A h \in DOMAIN blocks_by_hash :
          /\ h \in DOMAIN blocks_by_hash'
          /\ blocks_by_hash'[h] = blocks_by_hash[h]]_vars

\* Two answers to queries for the same account never go back in nonce, and
\* an account that was once reported does not vanish: what the test client
\* relies on when it polls for its nonce.
AnswersAdvance ==
  [][reply.address = reply'.address /\ reply.account # NoAccount =>
       /\ reply'.account # NoAccount
       /\ reply'.account.nonce >= reply.account.nonce]_vars

\* The processor implements the abstract chain.
Abstract ==
  INSTANCE Chain WITH
    chain     <- [i \in 1..(chain_head.number + 1) |-> blocks[i - 1]],
    published <- shared_head.number

ImplementsChain == Abstract!ChainSpec

\* A queued Shutdown, or a channel without senders, ends the task.
ShutdownHonoured ==
  (closed \/ sent[Shutdown] > 0) ~> pc \in {"stopped", "panicked"}

=============================================================================
