-------------------------- MODULE ProcessorProofs ---------------------------
(***************************************************************************)
(* The inductive invariant of the block processor, in named parts.  A step *)
(* keeps the types and the pipeline's own invariant, accounts for every    *)
(* block it receives, uses every nonce at most once, through rollbacks and *)
(* repeated blocks, and never answers with an older account.  It keeps one *)
(* linked chain with an exact hash index, the block in execution a child   *)
(* of its head, the published head, and no transaction on the chain twice. *)
(* It only adds to the store, and is a step of the abstract chain or none. *)
(***************************************************************************)
EXTENDS BlockProcessor, PipelineProofs

\* The task is inside Pipeline::execute exactly while it executes.
ControlOK ==
  /\ pc = "execute" => phase \in {"debit", "credit", "done", "failed"}
  /\ pc = "panicked" <=> phase = "panicked"
  /\ pc \in {"recv", "drain", "publish", "stopped"} => phase = "idle"

\* The block that is executed is a child of the head.
ChildOK ==
  pc = "execute" => Abstract!Extends(block, blocks[chain_head.number])

StoreOK ==
  /\ \A n \in DOMAIN blocks : blocks[n] \in Block
  /\ ChainLinked
  /\ ChildOK
  /\ PublishedHead

\* What is buffered lies above what the drain has passed.
DrainOK ==
  /\ pc \in {"recv", "drain", "execute", "publish"} =>
       IsFiniteSet(DOMAIN pending_map)
  /\ pc = "recv" => \A n \in DOMAIN pending_map : n > chain_head.number + 1
  /\ pc = "drain" => /\ next_block_number > chain_head.number
                     /\ \A n \in DOMAIN pending_map : n >= next_block_number
  /\ pc = "execute" => next_block_number = chain_head.number + 1
  /\ pc = "publish" => next_block_number = chain_head.number
  /\ pc \in {"execute", "publish"} =>
       \A n \in DOMAIN pending_map : n > next_block_number

\* An answer is never ahead of the state.
ReplyOK ==
  reply.account # NoAccount =>
    /\ reply.address \in Address
    /\ PreState[reply.address] # NoAccount
    /\ reply.account.nonce <= PreState[reply.address].nonce

\* Blocks that are counted as received and not yet as anything else.
InFlight == IF pc \in {"execute", "publish"} THEN 1 ELSE 0

CountOK ==
  /\ pc \notin {"stopped", "panicked"} =>
       metrics.blocks_received =
         metrics.blocks_committed + metrics.blocks_rejected_validation
           + metrics.blocks_rejected_execution
           + Cardinality(DOMAIN pending_map) + dropped + InFlight
  /\ metrics.blocks_committed = shared_head.number

\* The inductive invariant of the processor.
ProcessorInv ==
  /\ TypeOK /\ LoopOK /\ NoUnderflow
  /\ ControlOK
  /\ StoreOK
  /\ DrainOK
  /\ NonceOK
  /\ NoReplay
  /\ ReplyOK
  /\ CountOK

-----------------------------------------------------------------------------
\* What the proofs use about finite sets.  The library states these facts; the
\* lemmas assume them, and BlockProcessorProofs takes them from the library.
FiniteSetFacts ==
  /\ IsFiniteSet({}) /\ Cardinality({}) = 0
  /\ \A S : IsFiniteSet(S) => Cardinality(S) \in Nat
  /\ \A S, x : IsFiniteSet(S) => IsFiniteSet(S \cup {x})
  /\ \A S, x : IsFiniteSet(S) =>
       Cardinality(S \cup {x}) =
         IF x \in S THEN Cardinality(S) ELSE Cardinality(S) + 1
  /\ \A S, x : IsFiniteSet(S) => IsFiniteSet(S \ {x})
  /\ \A S, x : IsFiniteSet(S) =>
       Cardinality(S \ {x}) =
         IF x \in S THEN Cardinality(S) - 1 ELSE Cardinality(S)

\* A block more or less in the buffer leaves it finite.
LEMMA FiniteChange ==
  ASSUME FiniteSetFacts, NEW S, IsFiniteSet(S), NEW x
  PROVE  IsFiniteSet(S \cup {x}) /\ IsFiniteSet(S \ {x})
BY ZenonT(30) DEF FiniteSetFacts

\* The first message of the channel.
LEMMA Received ==
  ASSUME queue \in Seq(ProcessorMessage), NEW type, recv(type)
  PROVE  /\ queue' \in Seq(ProcessorMessage)
         /\ type = "NewBlock" => Head(queue).block \in Block
         /\ type = "GetAccountState" => Head(queue).address \in Address
<1>1. queue # << >> /\ Head(queue).type = type /\ queue' = Tail(queue)
  BY DEF recv
<1>2. Head(queue) \in ProcessorMessage /\ queue' \in Seq(ProcessorMessage)
  BY <1>1
<1>3. \/ \E b \in Block : Head(queue) = NewBlock(b)
      \/ \E a \in Address : Head(queue) = GetAccountState(a)
      \/ Head(queue) = Shutdown
  BY <1>2 DEF ProcessorMessage
<1> QED BY <1>1, <1>2, <1>3 DEF NewBlock, GetAccountState, Shutdown

\* The block the drain takes out of the buffer.
LEMMA Taken ==
  ASSUME TypeOK, TakePending
  PROVE  /\ taken \in Block /\ taken.header.number = next_block_number
         /\ next_block_number \in Nat
         /\ DOMAIN pending_map' = DOMAIN pending_map \ {next_block_number}
         /\ \A n \in DOMAIN pending_map' : pending_map'[n] = pending_map[n]
BY Zenon DEF TypeOK, TakePending, taken, Restrict

\* The account side of a step: the invariant of the pipeline, where the task
\* is in it, and when the committed accounts change.
LEMMA PipelineSide ==
  ASSUME ProcessorInv, [Next]_vars
  PROVE  /\ PipelineInv' /\ ControlOK'
         /\ PreState' = PreState \/ (CommitBlock /\ PreState' = state)
<1> DEFINE Goal == /\ PipelineInv' /\ ControlOK'
                   /\ PreState' = PreState \/ (CommitBlock /\ PreState' = state)
<1>1. PipelineInv /\ ControlOK /\ TypeOK /\ pc \in PC /\ phase \in Phase
  BY Zenon DEF ProcessorInv, PipelineInv, TypeOK, PipelineTypeOK
<1>2. ASSUME UNCHANGED pipelineVars,
             \/ pc' = pc
             \/ /\ pc \in {"recv", "drain", "publish"}
                /\ pc' \in {"recv", "drain", "publish", "stopped"}
      PROVE  Goal
  <2>1. UNCHANGED <<state, journal, phase, block, receipts, cumulative_gas_used,
                    result>>
    BY <1>2 DEF pipelineVars, stateVars, execVars
  <2>2. PreState' = PreState
    BY <2>1 DEF PreState
  <2>3. PipelineInv'
    BY <1>1, <2>1 DEF PipelineInv, PipelineTypeOK, LoopOK, NoUnderflow,
       senders_recovered
  <2>4. ControlOK'
    BY <1>1, <1>2, <2>1 DEF ControlOK
  <2> QED BY <2>2, <2>3, <2>4
<1>3. CASE \/ \E m \in ProcessorMessage : Send(m)
           \/ Close \/ RecvStaleBlock \/ RecvGetAccountState
  BY <1>2, <1>3 DEF Send, Close, RecvStaleBlock, RecvGetAccountState
<1>4. CASE RecvNewBlock \/ RecvShutdown \/ RecvNone
  BY <1>2, <1>4 DEF RecvNewBlock, RecvShutdown, RecvNone, StartLastDrain,
     StartDrain, recv
<1>5. CASE RejectInvalid \/ RejectUnsigned \/ PublishHead
  BY <1>2, <1>5
     DEF RejectInvalid, RejectUnsigned, PublishHead, TakePending,
     Advance
<1>6. CASE DrainDone
  BY <1>2, <1>6 DEF DrainDone
<1>7. CASE Ended \/ UNCHANGED vars
  BY <1>2, <1>7 DEF Ended, vars
<1>8. CASE RejectRefused
  <2>1. PipelineInv' /\ PreState' = PreState
    BY <1>1, <1>8, Taken, RefuseExecuteOK DEF RejectRefused
  <2>2. pc = "drain" /\ pc' = "drain" /\ phase' = phase
    BY <1>8 DEF RejectRefused, TakePending, Advance, RefuseExecute
  <2> QED BY <1>1, <2>1, <2>2 DEF ControlOK
<1>9. CASE Execute
  <2>1. PipelineInv' /\ PreState' = PreState
    BY <1>1, <1>9, Taken, StartExecuteOK DEF Execute
  <2>2. pc' = "execute" /\ phase' \in {"done", "debit"}
    BY <1>9 DEF Execute, StartExecute
  <2> QED BY <2>1, <2>2 DEF ControlOK
<1>10. CASE ExecuteStep
  <2>1. PipelineInv' /\ PreState' = PreState
    BY <1>1, <1>10, ExecutorStepOK DEF ExecuteStep
  <2>2. /\ pc = "execute" /\ pc' = IF phase' = "panicked" THEN "panicked" ELSE pc
        /\ ExecutorStep
    BY <1>10 DEF ExecuteStep
  <2>3. phase' \in {"debit", "credit", "done", "failed", "panicked"}
    BY <2>2 DEF ExecutorStep, DebitFails, Debit, CreditPanics, CreditFails,
       Credit, Fail
  <2> QED BY <2>1, <2>2, <2>3 DEF ControlOK
<1>11. CASE RejectFailed
  <2>1. PipelineInv' /\ PreState' = PreState
    BY <1>1, <1>11, AbortExecuteOK DEF RejectFailed
  <2>2. pc' = "drain" /\ phase' = "idle"
    BY <1>11 DEF RejectFailed, Advance, AbortExecute, Return
  <2> QED BY <2>1, <2>2 DEF ControlOK
<1>12. CASE CommitBlock
  <2>1. PipelineInv' /\ PreState' = state
    BY <1>1, <1>12, FinishExecuteOK DEF CommitBlock
  <2>2. pc' = "publish" /\ phase' = "idle"
    BY <1>12 DEF CommitBlock, FinishExecute, Return
  <2> QED BY <1>12, <2>1, <2>2, Zenon DEF ControlOK
<1> QED BY <1>3, <1>4, <1>5, <1>6, <1>7, <1>8, <1>9, <1>10, <1>11, <1>12,
           SMTT(60)
        DEF Next, ProcessorStep

\* The types of the processor's own variables.
LEMMA TypeSide ==
  ASSUME ProcessorInv, [Next]_vars
  PROVE  TypeOK'
<1> DEFINE MetricsType == [blocks_received : Nat, blocks_committed : Nat,
                           blocks_rejected_validation : Nat,
                           blocks_rejected_execution : Nat,
                           transactions_committed : Nat,
                           total_gas_committed : 0..MAX_U64]
           PendingOK == /\ DOMAIN pending_map \subseteq Nat
                        /\ \A n \in DOMAIN pending_map :
                             /\ pending_map[n] \in Block
                             /\ pending_map[n].header.number = n
           OwnOK == /\ queue \in Seq(ProcessorMessage) /\ closed \in BOOLEAN
                    /\ pc \in PC /\ stopping \in BOOLEAN
                    /\ chain_head \in ChainHead /\ shared_head \in ChainHead
                    /\ PendingOK
                    /\ next_block_number \in Nat
                    /\ output \in [tx_count : Nat, gas_used : 0..MAX_U64]
                    /\ metrics \in MetricsType
                    /\ dropped \in Nat
                    /\ reply \in [address : Address \cup {NoAddress},
                                  account : Account \cup {NoAccount}]
<1>1. TypeOK /\ PipelineTypeOK /\ OwnOK
  BY Zenon DEF ProcessorInv, TypeOK
<1>2. SUFFICES OwnOK'
  BY PipelineSide DEF TypeOK, PipelineInv
<1>m. metrics \in MetricsType
  BY <1>1
<1>n. chain_head \in ChainHead /\ next_block_number \in Nat
  BY <1>1
<1>3. ASSUME NEW metric \in {"blocks_received", "blocks_rejected_validation",
                             "blocks_rejected_execution"},
             Count(metric)
      PROVE  metrics' \in MetricsType
  BY <1>m, <1>3 DEF Count
<1>4. chain_head.number \in Nat /\ chain_head.number + 1 \in Nat
      /\ next_block_number + 1 \in Nat
  BY <1>n DEF ChainHead
<1>5. ASSUME TakePending PROVE PendingOK'
  BY <1>1, <1>5, Taken, Zenon
<1>6. UNCHANGED pending_map => PendingOK'
  BY <1>1
<1> HIDE DEF PendingOK, MetricsType
<1>7. ASSUME NEW m \in ProcessorMessage, Send(m) PROVE OwnOK'
  BY <1>1, <1>6, <1>7 DEF Send, headVars, drainVars
<1>8. CASE Close
  BY <1>1, <1>6, <1>8, Zenon DEF Close, headVars, drainVars
<1>9. CASE RecvStaleBlock
  <2>1. metrics' \in MetricsType
    <3> DEFINE m1 == [metrics EXCEPT !.blocks_received = @ + 1]
    <3>1. m1 \in MetricsType
      BY <1>m DEF MetricsType
    <3>2. metrics' = [m1 EXCEPT !.blocks_rejected_validation = @ + 1]
      BY <1>9, Zenon DEF RecvStaleBlock
    <3> HIDE DEF m1
    <3> QED BY <3>1, <3>2 DEF MetricsType
  <2> QED BY <1>1, <1>6, <1>9, <2>1, Received, Zenon
          DEF RecvStaleBlock, recv, headVars, drainVars
<1>10. CASE RecvNewBlock
  <2>1. Head(queue).block \in Block /\ queue' \in Seq(ProcessorMessage)
    BY <1>1, <1>10, Received, Zenon DEF RecvNewBlock
  <2>2. Head(queue).block.header.number \in Nat
    BY <2>1, BlockFields, Zenon
  <2>3. pending_map' = Put(pending_map, Head(queue).block.header.number,
                           Head(queue).block)
    BY <1>10, Zenon DEF RecvNewBlock
  <2>4. PendingOK'
    BY <1>1, <2>1, <2>2, <2>3, ZenonT(60) DEF Put, PendingOK
  <2>5. metrics' \in MetricsType
    BY <1>3, <1>10, Zenon DEF RecvNewBlock
  <2>6. dropped' \in Nat
    BY <1>1, <1>10 DEF RecvNewBlock
  <2> QED BY <1>1, <1>4, <1>10, <2>1, <2>4, <2>5, <2>6, Zenon
          DEF RecvNewBlock, StartDrain, recv, headVars, PC
<1>11. CASE RecvGetAccountState
  <2>1. Head(queue).address \in Address /\ queue' \in Seq(ProcessorMessage)
    BY <1>1, <1>11, Received, Zenon DEF RecvGetAccountState
  <2>2. state[Head(queue).address] \in Account \cup {NoAccount}
    BY <1>1, <2>1, Zenon DEF PipelineTypeOK
  <2> QED BY <1>1, <1>6, <1>11, <2>1, <2>2, Zenon
          DEF RecvGetAccountState, recv, headVars, drainVars
<1>12. CASE RecvShutdown
  BY <1>1, <1>4, <1>6, <1>12, Received, Zenon
     DEF RecvShutdown, StartLastDrain, StartDrain, recv, headVars, PC
<1>13. CASE RecvNone
  BY <1>1, <1>4, <1>6, <1>13, Zenon
     DEF RecvNone, StartLastDrain, StartDrain, channelVars, headVars, PC
<1>14. CASE RejectInvalid
  <2>1. metrics' \in MetricsType
    BY <1>3, <1>14, Zenon DEF RejectInvalid
  <2> QED BY <1>1, <1>4, <1>5, <1>14, <2>1, Zenon
          DEF RejectInvalid, Advance, channelVars, headVars, PC
<1>15. CASE RejectUnsigned
  BY <1>1, <1>4, <1>5, <1>15
     DEF RejectUnsigned, Advance, channelVars, headVars, PC
<1>16. CASE RejectRefused
  <2>1. metrics' \in MetricsType
    BY <1>3, <1>16, Zenon DEF RejectRefused
  <2> QED BY <1>1, <1>4, <1>5, <1>16, <2>1, Zenon
          DEF RejectRefused, Advance, channelVars, headVars, PC
<1>17. CASE Execute
  BY <1>1, <1>5, <1>17, Zenon DEF Execute, channelVars, headVars, PC
<1>18. CASE ExecuteStep
  BY <1>1, <1>6, <1>18, Zenon
     DEF ExecuteStep, channelVars, headVars, drainVars, PC
<1>19. CASE RejectFailed
  <2>1. metrics' \in MetricsType
    BY <1>3, <1>19, Zenon DEF RejectFailed
  <2> QED BY <1>1, <1>4, <1>6, <1>19, <2>1, Zenon
          DEF RejectFailed, Advance, channelVars, headVars, PC
<1>20. CASE CommitBlock
  <2>1. block \in Block /\ receipts \in Seq(Receipt)
        /\ cumulative_gas_used \in 0..MAX_U64
    BY <1>1, Zenon DEF PipelineTypeOK
  <2>2. /\ block.header.number \in Nat /\ block.header.gas_used \in Nat
        /\ hash_header(block.header) \in Hash
    <3>1. block.header.number \in Nat /\ block.header.gas_used \in 0..MAX_U64
      BY <2>1, BlockFields, ZenonT(30)
    <3>2. hash_header(block.header) \in Hash
      BY <2>1, HashAssumption, ZenonT(30)
    <3> QED BY <3>1, <3>2, BoundsAssumption
  <2>3. chain_head' \in ChainHead
    <3>1. chain_head' = [number |-> block.header.number,
                         hash |-> hash_header(block.header),
                         total_difficulty |->
                           chain_head.total_difficulty + block.header.gas_used]
      BY <1>20, ZenonT(30) DEF CommitBlock
    <3>2. chain_head.total_difficulty \in Nat
      BY <1>1, Zenon DEF ChainHead
    <3> QED BY <2>2, <3>1, <3>2 DEF ChainHead
  <2>4. output' \in [tx_count : Nat, gas_used : 0..MAX_U64]
    BY <1>20, <2>1 DEF CommitBlock
  <2> QED BY <1>1, <1>6, <1>20, <2>3, <2>4, Zenon
             DEF CommitBlock, channelVars, PC
<1>21. CASE PublishHead
  <2>1. output.tx_count \in Nat /\ output.gas_used \in Nat
    BY <1>1, BoundsAssumption
  <2>2. (metrics.total_gas_committed + output.gas_used) % (MAX_U64 + 1)
          \in 0..MAX_U64
    BY <1>1, <2>1, BoundsAssumption DEF MetricsType
  <2>3. metrics' \in MetricsType
    <3> DEFINE m1 == [metrics EXCEPT !.blocks_committed = @ + 1]
               m2 == [m1 EXCEPT !.transactions_committed = @ + output.tx_count]
    <3>1. m1 \in MetricsType /\ m1.total_gas_committed = metrics.total_gas_committed
      BY <1>m DEF MetricsType
    <3>2. m2 \in MetricsType /\ m2.total_gas_committed = m1.total_gas_committed
      <4> HIDE DEF m1
      <4> QED BY <2>1, <3>1 DEF MetricsType
    <3>3. metrics' = [m2 EXCEPT !.total_gas_committed =
                        (@ + output.gas_used) % (MAX_U64 + 1)]
      BY <1>21 DEF PublishHead
    <3> HIDE DEF m1, m2
    <3> QED BY <2>2, <3>1, <3>2, <3>3 DEF MetricsType
  <2>4. output' \in [tx_count : Nat, gas_used : 0..MAX_U64]
    BY <1>21, BoundsAssumption DEF PublishHead, NoOutput
  <2> QED BY <1>1, <1>4, <1>6, <1>21, <2>3, <2>4
          DEF PublishHead, Advance, channelVars, PC
<1>22. CASE DrainDone
  <2>1. PendingOK'
    BY <1>1, <1>6, <1>22 DEF DrainDone, PendingOK
  <2> QED BY <1>1, <1>22, <2>1, Zenon
             DEF DrainDone, channelVars, headVars, PC
<1>23. CASE Ended \/ UNCHANGED vars
  BY <1>1, <1>6, <1>23 DEF Ended, vars, channelVars, headVars, drainVars
<1> QED BY <1>7, <1>8, <1>9, <1>10, <1>11, <1>12, <1>13, <1>14, <1>15, <1>16,
           <1>17, <1>18, <1>19, <1>20, <1>21, <1>22, <1>23, ZenonT(30)
        DEF Next, ProcessorStep

\* The account of received blocks.
LEMMA CountSide ==
  ASSUME FiniteSetFacts, ProcessorInv, [Next]_vars
  PROVE  CountOK'
<1> DEFINE P == DOMAIN pending_map
           c == Cardinality(P)
           m == metrics
           rcv == m.blocks_received
           com == m.blocks_committed
           val == m.blocks_rejected_validation
           exe == m.blocks_rejected_execution
<1>1. TypeOK /\ CountOK /\ DrainOK /\ pc \in PC
  BY ZenonT(30) DEF ProcessorInv, TypeOK
<1>2. /\ m \in [blocks_received : Nat, blocks_committed : Nat,
                 blocks_rejected_validation : Nat,
                 blocks_rejected_execution : Nat,
                 transactions_committed : Nat,
                 total_gas_committed : 0..MAX_U64]
      /\ dropped \in Nat /\ output.tx_count \in Nat
      /\ shared_head.number \in Nat
  BY <1>1, Zenon DEF TypeOK, ChainHead
<1>3. rcv \in Nat /\ com \in Nat /\ val \in Nat /\ exe \in Nat
  BY <1>2, Zenon
<1>4. com = shared_head.number
  BY <1>1, Zenon DEF CountOK
<1>5. ASSUME pc \in {"recv", "drain", "execute", "publish"}
      PROVE  /\ IsFiniteSet(P) /\ c \in Nat
             /\ rcv = com + val + exe + c + dropped + InFlight
  <2>1. IsFiniteSet(P)
    BY <1>1, <1>5, Zenon DEF DrainOK
  <2> QED BY <1>1, <1>5, <2>1, Zenon DEF FiniteSetFacts, CountOK
<1>6. CASE UNCHANGED <<pc, pending_map, metrics, dropped, shared_head>>
  BY <1>1, <1>6 DEF CountOK, InFlight
<1>7. CASE RecvStaleBlock
  <2>1. /\ pc = "recv" /\ UNCHANGED <<pc, pending_map, dropped, shared_head>>
        /\ metrics' = [m EXCEPT !.blocks_received = @ + 1,
                                !.blocks_rejected_validation = @ + 1]
    BY <1>7, Zenon DEF RecvStaleBlock, recv, drainVars, headVars
  <2>2. /\ metrics'.blocks_received = rcv + 1 /\ metrics'.blocks_committed = com
        /\ metrics'.blocks_rejected_validation = val + 1
        /\ metrics'.blocks_rejected_execution = exe
    BY <1>2, <2>1, Zenon
  <2> QED BY <1>2, <1>3, <1>4, <1>5, <2>1, <2>2 DEF CountOK, InFlight
<1>8. CASE RecvNewBlock
  <2> DEFINE k == Head(queue).block.header.number
  <2>1. /\ pc = "recv" /\ pc' = "drain" /\ UNCHANGED shared_head
        /\ DOMAIN pending_map' = P \cup {k}
        /\ dropped' = IF k \in P THEN dropped + 1 ELSE dropped
        /\ metrics' = [m EXCEPT !.blocks_received = @ + 1]
    BY <1>8, ZenonT(30) DEF RecvNewBlock, StartDrain, recv, headVars, Put, Count
  <2>2. /\ metrics'.blocks_received = rcv + 1 /\ metrics'.blocks_committed = com
        /\ metrics'.blocks_rejected_validation = val
        /\ metrics'.blocks_rejected_execution = exe
    BY <1>2, <2>1, Zenon
  <2>3. Cardinality(P \cup {k}) = IF k \in P THEN c ELSE c + 1
    BY <1>5, <2>1 DEF FiniteSetFacts
  <2> HIDE DEF P, k
  <2> QED BY <1>2, <1>3, <1>4, <1>5, <2>1, <2>2, <2>3 DEF CountOK, InFlight
<1>9. CASE RecvShutdown \/ RecvNone
  <2>1. /\ pc = "recv" /\ pc' = "drain"
        /\ UNCHANGED <<pending_map, metrics, dropped, shared_head>>
    BY <1>9, Zenon
       DEF RecvShutdown, RecvNone, StartLastDrain, StartDrain, recv, headVars
  <2> QED BY <1>1, <2>1, Zenon DEF CountOK, InFlight
<1>10. ASSUME TakePending
       PROVE  /\ pc = "drain"
              /\ Cardinality(DOMAIN pending_map') = c - 1
              /\ rcv = com + val + exe + c + dropped
              /\ c \in Nat /\ c - 1 \in Int
  <2>1. /\ pc = "drain" /\ next_block_number \in P
        /\ DOMAIN pending_map' = P \ {next_block_number}
    BY <1>1, <1>10, Taken, Zenon DEF TakePending
  <2>2. Cardinality(P \ {next_block_number}) = c - 1
    BY <1>5, <2>1 DEF FiniteSetFacts
  <2> QED BY <1>2, <1>3, <1>5, <2>1, <2>2 DEF InFlight
<1>11. CASE RejectInvalid
  <2>1. /\ TakePending /\ pc' = "drain" /\ UNCHANGED <<dropped, shared_head>>
        /\ metrics' = [m EXCEPT !.blocks_rejected_validation = @ + 1]
    BY <1>11, ZenonT(30) DEF RejectInvalid, Advance, headVars, Count
  <2>2. /\ metrics'.blocks_received = rcv /\ metrics'.blocks_committed = com
        /\ metrics'.blocks_rejected_validation = val + 1
        /\ metrics'.blocks_rejected_execution = exe
    BY <1>2, <2>1, Zenon
  <2> QED BY <1>2, <1>3, <1>4, <1>10, <2>1, <2>2 DEF CountOK, InFlight
<1>12. CASE RejectUnsigned
  <2>1. /\ TakePending /\ pc' = "drain" /\ UNCHANGED <<metrics, shared_head>>
        /\ dropped' = dropped + 1
    BY <1>12, Zenon DEF RejectUnsigned, Advance, headVars
  <2> QED BY <1>2, <1>3, <1>4, <1>10, <2>1 DEF CountOK, InFlight
<1>13. CASE RejectRefused
  <2>1. /\ TakePending /\ pc' = "drain" /\ UNCHANGED <<dropped, shared_head>>
        /\ metrics' = [m EXCEPT !.blocks_rejected_execution = @ + 1]
    BY <1>13, ZenonT(30) DEF RejectRefused, Advance, headVars, Count
  <2>2. /\ metrics'.blocks_received = rcv /\ metrics'.blocks_committed = com
        /\ metrics'.blocks_rejected_validation = val
        /\ metrics'.blocks_rejected_execution = exe + 1
    BY <1>2, <2>1, Zenon
  <2> QED BY <1>2, <1>3, <1>4, <1>10, <2>1, <2>2 DEF CountOK, InFlight
<1>14. CASE Execute
  <2>1. /\ TakePending /\ pc' = "execute"
        /\ UNCHANGED <<metrics, dropped, shared_head>>
    BY <1>14, Zenon DEF Execute, headVars
  <2> QED BY <1>2, <1>3, <1>4, <1>10, <2>1 DEF CountOK, InFlight
<1>15. CASE ExecuteStep
  <2>1. /\ pc = "execute" /\ pc' \in {"execute", "panicked"}
        /\ UNCHANGED <<pending_map, metrics, dropped, shared_head>>
    BY <1>15, Zenon DEF ExecuteStep, headVars, drainVars
  <2> QED BY <1>1, <2>1, Zenon DEF CountOK, InFlight
<1>16. CASE RejectFailed
  <2>1. /\ pc = "execute" /\ pc' = "drain"
        /\ UNCHANGED <<pending_map, dropped, shared_head>>
        /\ metrics' = [m EXCEPT !.blocks_rejected_execution = @ + 1]
    BY <1>16, ZenonT(30) DEF RejectFailed, Advance, headVars, Count
  <2>2. /\ metrics'.blocks_received = rcv /\ metrics'.blocks_committed = com
        /\ metrics'.blocks_rejected_validation = val
        /\ metrics'.blocks_rejected_execution = exe + 1
    BY <1>2, <2>1, Zenon
  <2> QED BY <1>2, <1>3, <1>4, <1>5, <2>1, <2>2 DEF CountOK, InFlight
<1>17. CASE CommitBlock
  <2>1. /\ pc = "execute" /\ pc' = "publish"
        /\ UNCHANGED <<pending_map, metrics, dropped, shared_head>>
    BY <1>17 DEF CommitBlock
  <2> QED BY <1>1, <2>1, Zenon DEF CountOK, InFlight
<1>18. CASE PublishHead
  <2>1. /\ pc = "publish" /\ pc' = "drain"
        /\ UNCHANGED <<pending_map, dropped>>
        /\ metrics' = [m EXCEPT
             !.blocks_committed = @ + 1,
             !.transactions_committed = @ + output.tx_count,
             !.total_gas_committed = (@ + output.gas_used) % (MAX_U64 + 1)]
        /\ shared_head' = chain_head
    BY <1>18, Zenon DEF PublishHead, Advance
  <2>2. /\ metrics'.blocks_received = rcv
        /\ metrics'.blocks_committed = com + 1
        /\ metrics'.blocks_rejected_validation = val
        /\ metrics'.blocks_rejected_execution = exe
    BY <1>2, <2>1, Zenon
  <2>3. shared_head'.number = shared_head.number + 1
    BY <2>1, Zenon DEF ProcessorInv, StoreOK, PublishedHead
  <2> QED BY <1>2, <1>3, <1>4, <1>5, <2>1, <2>2, <2>3
             DEF CountOK, InFlight
<1>19. CASE DrainDone
  <2>1. /\ pc = "drain" /\ UNCHANGED <<metrics, dropped, shared_head>>
        /\ pc' = "stopped" \/ (pc' = "recv" /\ UNCHANGED pending_map)
    BY <1>19, Zenon DEF DrainDone, headVars
  <2> QED BY <1>1, <2>1, Zenon DEF CountOK, InFlight
<1>20. CASE \/ \E msg \in ProcessorMessage : Send(msg)
            \/ Close \/ RecvGetAccountState \/ Ended \/ UNCHANGED vars
  BY <1>6, <1>20, Zenon
     DEF Send, Close, RecvGetAccountState, Ended, vars, headVars,
     drainVars
<1> QED BY <1>7, <1>8, <1>9, <1>11, <1>12, <1>13, <1>14, <1>15, <1>16, <1>17,
           <1>18, <1>19, <1>20, ZenonT(60) DEF Next, ProcessorStep

\* The steps of the processor contain those of the pipeline.
LEMMA PipelineInside ==
  ASSUME [Next]_vars, TypeOK
  PROVE  PipelineAct
<1>1. CASE UNCHANGED <<stateVars, execVars>>
  BY <1>1 DEF PipelineAct
<1>2. CASE RejectRefused \/ Execute
  <2>1. taken \in Block
    <3>1. TakePending
      BY <1>2, ZenonT(30) DEF RejectRefused, Execute
    <3> QED BY <3>1, Taken, ZenonT(30)
  <2> QED BY <1>2, <2>1 DEF RejectRefused, Execute, PipelineAct
<1>3. CASE ExecuteStep \/ RejectFailed \/ CommitBlock
  BY <1>3 DEF ExecuteStep, RejectFailed, CommitBlock, PipelineAct
<1>4. CASE \/ \E m \in ProcessorMessage : Send(m)
           \/ Close \/ RecvStaleBlock \/ RecvNewBlock \/ RecvGetAccountState
           \/ RecvShutdown \/ RecvNone
  BY <1>1, <1>4 DEF Send, Close, RecvStaleBlock, RecvNewBlock,
     RecvGetAccountState, RecvShutdown, RecvNone, StartLastDrain, pipelineVars
<1>5. CASE \/ RejectInvalid \/ RejectUnsigned \/ PublishHead \/ DrainDone
           \/ Ended \/ UNCHANGED vars
  BY <1>1, <1>5 DEF RejectInvalid, RejectUnsigned, PublishHead, DrainDone,
     Ended, vars, pipelineVars
<1> QED BY <1>2, <1>3, <1>4, <1>5 DEF Next, ProcessorStep

\* At a commit, nothing of the block is on the chain yet, and every nonce of
\* the chain and of the block is used in the accounts that are committed.
LEMMA CommitNonces ==
  ASSUME ProcessorInv, CommitBlock
  PROVE  /\ \A i \in DOMAIN block.transactions :
              /\ block.transactions[i] \notin DOMAIN transactions
              /\ block.transactions[i].nonce \in Nat
              /\ block.transactions[i].sender \in Address
              /\ Used(state[block.transactions[i].sender],
                      block.transactions[i].nonce)
         /\ \A t \in DOMAIN transactions : Used(state[t.sender], t.nonce)
<1>1. PipelineInv /\ NonceOK /\ phase = "done"
  BY DEF ProcessorInv, PipelineInv, TypeOK, CommitBlock, FinishExecute
<1>2. Charged = DOMAIN block.transactions
  BY <1>1, ChargedTxs, Zenon
<1>3. state \in Accounts /\ PreState \in Accounts
  BY <1>1, PreStateType, Zenon DEF PipelineInv, PipelineTypeOK, Accounts
<1>4. ASSUME NEW i \in DOMAIN block.transactions
      PROVE  /\ block.transactions[i] \notin DOMAIN transactions
             /\ block.transactions[i].nonce \in Nat
             /\ block.transactions[i].sender \in Address
             /\ Used(state[block.transactions[i].sender],
                     block.transactions[i].nonce)
  <2> DEFINE t == block.transactions[i]
  <2>1. Used(state[t.sender], t.nonce) /\ ~Used(PreState[t.sender], t.nonce)
    BY <1>1, <1>2, Zenon DEF NonceOK
  <2>2. t \notin DOMAIN transactions
    BY <1>1, <2>1, Zenon DEF NonceOK
  <2> QED BY <1>1, <2>1, <2>2, BodyTx, Zenon
<1>5. ASSUME NEW t \in DOMAIN transactions
      PROVE  Used(state[t.sender], t.nonce)
  <2>1. /\ t.nonce \in Nat /\ t.sender \in Address
        /\ Used(PreState[t.sender], t.nonce)
        /\ PreState[t.sender] # NoAccount =>
             /\ state[t.sender] # NoAccount
             /\ PreState[t.sender].nonce <= state[t.sender].nonce
    BY <1>1, Zenon DEF NonceOK
  <2>2. /\ PreState[t.sender] # NoAccount => PreState[t.sender].nonce \in Nat
        /\ state[t.sender] # NoAccount => state[t.sender].nonce \in Nat
    BY <1>3, <2>1, BoundsAssumption DEF Accounts, Account
  <2> QED BY <2>1, <2>2 DEF Used
<1> QED BY <1>4, <1>5, Zenon

\* The nonces of the chain and of the running block.
LEMMA NonceSide ==
  ASSUME ProcessorInv, [Next]_vars
  PROVE  NonceOK'
<1>1. PipelineInv /\ NonceOK /\ ControlOK
  BY DEF ProcessorInv, PipelineInv, TypeOK
<1>2. PreState' = PreState \/ (CommitBlock /\ PreState' = state)
  BY PipelineSide
<1>3. CASE ExecuteStep
  BY <1>1, <1>3, NonceExecutor, Zenon DEF ExecuteStep, storeVars
<1>4. CASE CommitBlock
  <2>1. /\ state' = state /\ phase' = "idle" /\ PreState' = state
        /\ DOMAIN transactions' = DOMAIN transactions \cup
             {block.transactions[i] : i \in DOMAIN block.transactions}
    <3>1. /\ state' = state /\ phase' = "idle" /\ journal' = NoJournal
          /\ insert_block(block)
      BY <1>4, ZenonT(60)
         DEF CommitBlock, FinishExecute, Return, commit_journal
    <3>2. PreState' = state
      BY <1>1, <1>4, FinishExecuteOK DEF CommitBlock
    <3> QED BY <3>1, <3>2, Zenon DEF insert_block
  <2>2. Charged' = {}
    BY <2>1, Zenon DEF Charged
  <2>3. \A t \in DOMAIN transactions' :
          /\ t.nonce \in Nat /\ t.sender \in Address
          /\ Used(PreState'[t.sender], t.nonce)
    BY <1>1, <1>4, <2>1, CommitNonces, Zenon DEF NonceOK
  <2>4. \A a \in Address : state[a] # NoAccount => state[a].nonce \in Nat
    BY <1>1, BoundsAssumption
       DEF PipelineInv, PipelineTypeOK, Account
  <2> QED BY <2>1, <2>2, <2>3, <2>4 DEF NonceOK
<1>5. CASE RejectFailed
  <2>1. /\ state' = PreState /\ phase' = "idle" /\ UNCHANGED transactions
    BY <1>5 DEF RejectFailed, AbortExecute, Return, rollback_journal, PreState,
       storeVars
  <2>2. PreState' = PreState
    BY <1>2, <1>5, <1>1, AbortExecuteOK DEF RejectFailed
  <2>3. Charged' = {}
    BY <2>1, Zenon DEF Charged
  <2>4. \A a \in Address : PreState[a] # NoAccount => PreState[a].nonce \in Nat
    BY <1>1, PreStateType, BoundsAssumption
       DEF PipelineInv, Accounts, Account
  <2> QED BY <1>1, <2>1, <2>2, <2>3, <2>4 DEF NonceOK
<1>6. CASE Execute
  <2>1. /\ state' = state /\ phase' \in {"debit", "done"} /\ receipts' = << >>
        /\ UNCHANGED transactions
    BY <1>6, Zenon DEF Execute, StartExecute, begin_journal, storeVars
  <2>2. PreState' = PreState
    BY <1>1, <1>6, Taken, StartExecuteOK, Zenon DEF ProcessorInv, Execute
  <2>3. Charged' = {}
    BY <2>1 DEF Charged
  <2> QED BY <1>1, <2>1, <2>2, <2>3, Zenon DEF NonceOK
<1>7. ASSUME UNCHANGED <<state, journal, phase, block, receipts, transactions>>
      PROVE  NonceOK'
  <2>1. PreState' = PreState /\ Charged' = Charged
    BY <1>7, Zenon DEF PreState, Charged
  <2> QED BY <1>1, <1>7, <2>1 DEF NonceOK
<1>8. CASE RejectRefused
  BY <1>7, <1>8, Zenon
     DEF RejectRefused, RefuseExecute, storeVars, stateVars
<1>9. CASE UNCHANGED pipelineVars
  BY <1>7, <1>9, Zenon DEF pipelineVars, storeVars, stateVars, execVars
<1>10. CASE \/ \E m \in ProcessorMessage : Send(m)
            \/ Close \/ RecvStaleBlock \/ RecvNewBlock \/ RecvGetAccountState
            \/ RecvShutdown \/ RecvNone
  BY <1>9, <1>10 DEF Send, Close, RecvStaleBlock, RecvNewBlock,
     RecvGetAccountState, RecvShutdown, RecvNone, StartLastDrain
<1>11. CASE \/ RejectInvalid \/ RejectUnsigned \/ PublishHead \/ DrainDone
            \/ Ended \/ UNCHANGED vars
  BY <1>9, <1>11 DEF RejectInvalid, RejectUnsigned, PublishHead, DrainDone, Ended,
     vars
<1> QED BY <1>3, <1>4, <1>5, <1>6, <1>8, <1>10, <1>11, Zenon
           DEF Next, ProcessorStep

\* While no block is executed the accounts are the committed ones.
LEMMA IdleState ==
  ASSUME ProcessorInv, pc = "recv"
  PROVE  PreState = state
<1>1. ~journal.open /\ state \in Accounts
  BY Zenon DEF ProcessorInv, ControlOK, TypeOK, PipelineTypeOK, Accounts
<1> QED BY <1>1, Zenon DEF PreState, Accounts

\* The last answer: a new one is a committed account, an old one is never
\* ahead of the accounts committed since.
LEMMA ReplySide ==
  ASSUME ProcessorInv, [Next]_vars
  PROVE  /\ ReplyOK'
         /\ \/ reply' = reply
            \/ /\ reply'.address \in Address
               /\ reply'.account = PreState[reply'.address]
<1>1. /\ ReplyOK /\ NonceOK /\ TypeOK /\ PipelineTypeOK
      /\ PreState' = PreState \/ (CommitBlock /\ PreState' = state)
  BY PipelineSide, Zenon DEF ProcessorInv, TypeOK
<1>2. PreState \in Accounts /\ state \in Accounts
  BY <1>1, PreStateType, Zenon DEF PipelineTypeOK, Accounts
<1>3. CASE RecvGetAccountState
  <2>1. /\ Head(queue).address \in Address
        /\ reply' = [address |-> Head(queue).address,
                     account |-> state[Head(queue).address]]
        /\ pc = "recv"
    BY <1>1, <1>3, Received, Zenon DEF RecvGetAccountState, TypeOK, recv
  <2>2. PreState = state
    BY <2>1, IdleState, Zenon
  <2>3. PreState' = PreState
    BY <1>1, <2>1, Zenon DEF CommitBlock
  <2>4. state[Head(queue).address] # NoAccount =>
          state[Head(queue).address].nonce \in Nat
    BY <1>2, <2>1, BoundsAssumption DEF Accounts, Account
  <2> QED BY <2>1, <2>2, <2>3, <2>4 DEF ReplyOK
<1>4. ASSUME reply' = reply
      PROVE  ReplyOK'
  <2> SUFFICES ASSUME reply.account # NoAccount
               PROVE  /\ reply.address \in Address
                      /\ PreState'[reply.address] # NoAccount
                      /\ reply.account.nonce <= PreState'[reply.address].nonce
    BY <1>4, Zenon DEF ReplyOK
  <2>1. /\ reply.address \in Address
        /\ PreState[reply.address] # NoAccount
        /\ reply.account.nonce <= PreState[reply.address].nonce
    BY <1>1, Zenon DEF ReplyOK
  <2>2. /\ state[reply.address] # NoAccount
        /\ PreState[reply.address].nonce <= state[reply.address].nonce
    BY <1>1, <2>1, Zenon DEF NonceOK
  <2>3. reply.account \in Account
    BY <1>1, Zenon DEF TypeOK
  <2>4. /\ reply.account.nonce \in Nat
        /\ PreState[reply.address].nonce \in Nat
        /\ state[reply.address].nonce \in Nat
    BY <1>2, <2>1, <2>2, <2>3, BoundsAssumption DEF Accounts, Account
  <2> QED BY <1>1, <2>1, <2>2, <2>4
<1>5. CASE \/ \E m \in ProcessorMessage : Send(m)
           \/ Close \/ RecvStaleBlock \/ RecvNewBlock \/ RecvShutdown
           \/ RecvNone
  BY <1>4, <1>5, Zenon DEF Send, Close, RecvStaleBlock, RecvNewBlock, RecvShutdown,
     RecvNone, StartLastDrain
<1>6. CASE \/ RejectInvalid \/ RejectUnsigned \/ RejectRefused \/ Execute
           \/ ExecuteStep \/ RejectFailed
  BY <1>4, <1>6, Zenon
     DEF RejectInvalid, RejectUnsigned, RejectRefused, Execute,
     ExecuteStep, RejectFailed
<1>7. CASE CommitBlock \/ PublishHead \/ DrainDone \/ Ended \/ UNCHANGED vars
  BY <1>4, <1>7 DEF CommitBlock, PublishHead, DrainDone, Ended, vars
<1> QED BY <1>3, <1>5, <1>6, <1>7, Zenon DEF Next, ProcessorStep

\* Where the received blocks are, between two messages.
LEMMA BlocksAddUp ==
  ASSUME FiniteSetFacts, ProcessorInv
  PROVE  MetricsBalance
<1> SUFFICES ASSUME pc = "recv"
             PROVE  metrics.blocks_received =
                      metrics.blocks_committed
                        + metrics.blocks_rejected_validation
                        + metrics.blocks_rejected_execution
                        + Cardinality(DOMAIN pending_map) + dropped
  BY Zenon DEF MetricsBalance
<1>1. IsFiniteSet(DOMAIN pending_map)
  BY DEF ProcessorInv, DrainOK
<1>2. Cardinality(DOMAIN pending_map) \in Nat
  BY <1>1, Zenon DEF FiniteSetFacts
<1>3. /\ metrics.blocks_received \in Nat /\ metrics.blocks_committed \in Nat
      /\ metrics.blocks_rejected_validation \in Nat
      /\ metrics.blocks_rejected_execution \in Nat /\ dropped \in Nat
  BY DEF ProcessorInv, TypeOK
<1> QED BY <1>2, <1>3 DEF ProcessorInv, CountOK, InFlight

\* What a step may do to the last answer.
AnswerAhead ==
  reply.address = reply'.address /\ reply.account # NoAccount =>
    /\ reply'.account # NoAccount
    /\ reply'.account.nonce >= reply.account.nonce

\* An answer is not older than the one before.
LEMMA AnswerStep ==
  ASSUME ProcessorInv, [Next]_vars
  PROVE  AnswerAhead
<1> SUFFICES ASSUME reply.address = reply'.address, reply.account # NoAccount
             PROVE  /\ reply'.account # NoAccount
                    /\ reply'.account.nonce >= reply.account.nonce
  BY DEF AnswerAhead
<1>1. /\ PreState[reply.address] # NoAccount
      /\ reply.account.nonce <= PreState[reply.address].nonce
      /\ reply.address \in Address
  BY Zenon DEF ProcessorInv, ReplyOK
<1>2. /\ reply.account.nonce \in Nat
      /\ PreState[reply.address].nonce \in Nat
  <2>1. reply.account \in Account
    BY Zenon DEF ProcessorInv, TypeOK
  <2>2. PreState[reply.address] \in Account
    BY <1>1, PreStateType DEF ProcessorInv, TypeOK, Accounts
  <2> QED BY <2>1, <2>2, BoundsAssumption DEF Account
<1>3. reply' = reply \/ reply'.account = PreState[reply'.address]
  BY ReplySide, Zenon
<1> QED BY <1>1, <1>2, <1>3

-----------------------------------------------------------------------------
\* The steps that commit or publish are the only ones that touch the chain.
LEMMA ChainFrame ==
  ASSUME [Next]_vars
  PROVE  \/ CommitBlock
         \/ PublishHead
         \/ /\ UNCHANGED <<storeVars, headVars>>
            /\ pc' = "publish" <=> pc = "publish"
            /\ pc' = "execute" => Execute \/ (pc = "execute" /\ block' = block)
<1>1. CASE \/ \E m \in ProcessorMessage : Send(m)
           \/ Close \/ RecvStaleBlock \/ RecvGetAccountState
  BY <1>1, Zenon
     DEF Send, Close, RecvStaleBlock, RecvGetAccountState, pipelineVars,
     execVars
<1>2. CASE RecvNewBlock \/ RecvShutdown \/ RecvNone
  BY <1>2 DEF RecvNewBlock, RecvShutdown, RecvNone, StartLastDrain, StartDrain,
     recv, pipelineVars
<1>3. CASE RejectInvalid \/ RejectUnsigned \/ RejectRefused \/ RejectFailed
  BY <1>3 DEF RejectInvalid, RejectUnsigned, RejectRefused, RejectFailed,
     TakePending, Advance, pipelineVars
<1>4. CASE Execute
  BY <1>4 DEF Execute, TakePending
<1>5. CASE ExecuteStep
  <2>1. block' = block
    BY <1>5 DEF ExecuteStep, ExecutorStep, DebitFails, Debit, CreditPanics,
       CreditFails, Credit, Fail
  <2> QED BY <1>5, <2>1, Zenon DEF ExecuteStep
<1>6. CASE DrainDone
  BY <1>6 DEF DrainDone, pipelineVars
<1>7. CASE Ended \/ UNCHANGED vars
  BY <1>7 DEF Ended, vars, pipelineVars, execVars
<1> QED BY <1>1, <1>2, <1>3, <1>4, <1>5, <1>6, <1>7, Zenon
           DEF Next, ProcessorStep

\* A block that passes the checks of process_block and execute is a child of
\* the head: the parent it names by hash is the block at the head.
LEMMA ChecksFindTheHead ==
  ASSUME TypeOK, StoreOK, NEW b \in Block, process_block_error(b) = "Ok",
         execute_error(b) = "Ok"
  PROVE  Abstract!Extends(b, blocks[chain_head.number])
<1> DEFINE k == blocks_by_hash[b.header.parent_hash]
           parent == blocks[k].header
<1>1. b.header.parent_hash \in DOMAIN blocks_by_hash
  BY Zenon DEF process_block_error, known
<1>2. /\ parent.timestamp < b.header.timestamp
      /\ parent.number + 1 = b.header.number
      /\ chain_head.number + 1 = b.header.number
  <2>1. /\ ~(parent.number + 1 # b.header.number)
        /\ ~(parent.timestamp >= b.header.timestamp)
        /\ ~(chain_head.number + 1 # b.header.number)
    BY DEF process_block_error, get_block_by_hash
  <2>2. blocks[k] \in Block
    BY <1>1, Zenon DEF StoreOK, ChainLinked
  <2>3. parent.timestamp \in Nat /\ b.header.timestamp \in Nat
    BY <2>2, BlockFields, Zenon
  <2> QED BY <2>1, <2>3
<1>3. /\ k \in DOMAIN blocks /\ hash_header(parent) = b.header.parent_hash
      /\ parent.number = k /\ k \in Nat /\ chain_head.number \in Nat
  <2>1. chain_head.number \in Nat
    BY DEF TypeOK, ChainHead
  <2>2. /\ k \in DOMAIN blocks /\ hash_header(parent) = b.header.parent_hash
        /\ parent.number = k /\ DOMAIN blocks = 0..chain_head.number
    BY <1>1, ZenonT(30) DEF StoreOK, ChainLinked
  <2> QED BY <2>1, <2>2
<1>4. k = chain_head.number
  BY <1>2, <1>3
<1>5. b.header.gas_used <= b.header.gas_limit
  <2>1. validate_header(b.header, parent) = "Ok"
    BY <1>1 DEF execute_error, known, get_block_by_hash
  <2>2. ~(b.header.gas_used > b.header.gas_limit)
    BY <2>1, Zenon DEF validate_header
  <2> QED BY <2>2, BlockFields, BoundsAssumption
<1> HIDE DEF k
<1> QED BY <1>2, <1>3, <1>4, <1>5, Zenon DEF Abstract!Extends

\* The blocks, their hash index and the head after a commit.
LEMMA Committed ==
  ASSUME ProcessorInv, CommitBlock
  PROVE  /\ block \in Block
         /\ Abstract!Extends(block, blocks[chain_head.number])
         /\ chain_head.number \in DOMAIN blocks /\ chain_head.number \in Nat
         /\ DOMAIN blocks = 0..chain_head.number
         /\ blocks[chain_head.number].header.number = chain_head.number
         /\ chain_head'.number = chain_head.number + 1
         /\ chain_head'.hash = hash_header(block.header)
         /\ block.header.number = chain_head.number + 1
         /\ blocks' = [n \in 0..(chain_head.number + 1) |->
                         IF n = chain_head.number + 1 THEN block ELSE blocks[n]]
         /\ DOMAIN blocks_by_hash' =
              DOMAIN blocks_by_hash \cup {hash_header(block.header)}
         /\ blocks_by_hash'[hash_header(block.header)] = chain_head.number + 1
         /\ \A h \in DOMAIN blocks_by_hash :
              /\ h # hash_header(block.header)
              /\ blocks_by_hash'[h] = blocks_by_hash[h]
<1>1. /\ block \in Block
      /\ Abstract!Extends(block, blocks[chain_head.number])
      /\ chain_head.number \in Nat
      /\ DOMAIN blocks = 0..chain_head.number
      /\ blocks[chain_head.number].header.number = chain_head.number
  <2>1. TypeOK /\ StoreOK /\ pc = "execute"
    BY DEF ProcessorInv, CommitBlock
  <2>2. block \in Block /\ chain_head \in ChainHead
    BY <2>1 DEF TypeOK, PipelineTypeOK
  <2>3. chain_head.number \in Nat
    BY <2>2, Zenon DEF ChainHead
  <2>4. /\ DOMAIN blocks = 0..chain_head.number
        /\ \A n \in DOMAIN blocks : blocks[n].header.number = n
    BY <2>1 DEF StoreOK, ChainLinked
  <2>5. Abstract!Extends(block, blocks[chain_head.number])
    BY <2>1 DEF StoreOK, ChildOK
  <2> QED BY <2>2, <2>3, <2>4, <2>5
<1>2. block.header.number = chain_head.number + 1
  BY <1>1, Zenon DEF Abstract!Extends
<1>3. /\ blocks' = Put(blocks, chain_head.number + 1, block)
      /\ blocks_by_hash' = Put(blocks_by_hash, hash_header(block.header),
                               chain_head.number + 1)
      /\ chain_head'.number = chain_head.number + 1
      /\ chain_head'.hash = hash_header(block.header)
  BY <1>2 DEF CommitBlock, insert_block
<1>4. (0..chain_head.number) \cup {chain_head.number + 1}
        = 0..(chain_head.number + 1)
  BY <1>1
<1>5. blocks' = [n \in 0..(chain_head.number + 1) |->
                   IF n = chain_head.number + 1 THEN block ELSE blocks[n]]
  BY <1>1, <1>3, <1>4, Zenon DEF Put
<1>6. ASSUME NEW h \in DOMAIN blocks_by_hash
      PROVE  h # hash_header(block.header)
  <2>1. /\ blocks_by_hash[h] \in DOMAIN blocks
        /\ hash_header(blocks[blocks_by_hash[h]].header) = h
        /\ blocks[blocks_by_hash[h]] \in Block
        /\ blocks[blocks_by_hash[h]].header.number = blocks_by_hash[h]
    BY <1>6, Zenon DEF ProcessorInv, StoreOK, ChainLinked
  <2>2. blocks_by_hash[h] <= chain_head.number
    BY <1>1, <2>1
  <2>3. blocks[blocks_by_hash[h]].header # block.header
    BY <1>1, <1>2, <2>1, <2>2
  <2> QED BY <1>1, <2>1, <2>3, HashAssumption, Zenon
<1> QED BY <1>1, <1>2, <1>3, <1>5, <1>6 DEF Put

\* The chain, its index, the child being executed and the published head.
LEMMA StoreSide ==
  ASSUME ProcessorInv, [Next]_vars
  PROVE  StoreOK'
<1>1. TypeOK /\ StoreOK /\ ControlOK
  BY DEF ProcessorInv
<1>2. CASE CommitBlock
  <2>1. /\ block \in Block
        /\ Abstract!Extends(block, blocks[chain_head.number])
        /\ chain_head.number \in DOMAIN blocks /\ chain_head.number \in Nat
        /\ chain_head'.number = chain_head.number + 1
        /\ chain_head'.hash = hash_header(block.header)
        /\ block.header.number = chain_head.number + 1
    BY <1>2, Committed, Zenon
  <2>2. blocks' = [n \in 0..(chain_head.number + 1) |->
                     IF n = chain_head.number + 1 THEN block ELSE blocks[n]]
    BY <1>2, Committed, Zenon
  <2>3. /\ DOMAIN blocks_by_hash' =
             DOMAIN blocks_by_hash \cup {hash_header(block.header)}
        /\ blocks_by_hash'[hash_header(block.header)] = chain_head.number + 1
        /\ \A h \in DOMAIN blocks_by_hash :
             blocks_by_hash'[h] = blocks_by_hash[h]
    BY <1>2, Committed, Zenon
  <2>4. DOMAIN blocks = 0..chain_head.number
    BY <1>1, Zenon DEF StoreOK, ChainLinked
  <2>5. /\ DOMAIN blocks' = 0..(chain_head.number + 1)
        /\ blocks'[chain_head.number + 1] = block
        /\ \A n \in DOMAIN blocks :
             n \in DOMAIN blocks' /\ blocks'[n] = blocks[n] /\ n # chain_head.number + 1
        /\ \A n \in DOMAIN blocks' : n \in DOMAIN blocks \/ n = chain_head.number + 1
    BY <2>1, <2>2, <2>4
  <2>6. \A n \in DOMAIN blocks' :
          blocks'[n] \in Block /\ blocks'[n].header.number = n
    BY <1>1, <2>1, <2>5 DEF StoreOK, ChainLinked
  <2>7. \A n \in DOMAIN blocks' \ {0} :
          /\ blocks'[n].header.parent_hash = hash_header(blocks'[n-1].header)
          /\ blocks'[n].header.timestamp > blocks'[n-1].header.timestamp
    <3> SUFFICES ASSUME NEW n \in DOMAIN blocks' \ {0}
                 PROVE  /\ blocks'[n].header.parent_hash
                              = hash_header(blocks'[n-1].header)
                        /\ blocks'[n].header.timestamp
                              > blocks'[n-1].header.timestamp
      OBVIOUS
    <3>1. CASE n = chain_head.number + 1
      <4>1. n - 1 = chain_head.number
        BY <2>1, <3>1
      <4>2. blocks'[n-1] = blocks[chain_head.number] /\ blocks'[n] = block
        BY <2>1, <2>5, <3>1, <4>1, Zenon
      <4> QED BY <2>1, <4>2, Zenon DEF Abstract!Extends
    <3>2. CASE n \in DOMAIN blocks
      <4>1. n - 1 \in DOMAIN blocks
        BY <2>1, <2>4, <3>2
      <4>2. blocks'[n-1] = blocks[n-1] /\ blocks'[n] = blocks[n]
        BY <2>5, <3>2, <4>1, Zenon
      <4> QED BY <1>1, <3>2, <4>2, Zenon DEF StoreOK, ChainLinked
    <3> QED BY <2>5, <3>1, <3>2, Zenon
  <2>8. /\ \A n \in DOMAIN blocks' :
             hash_header(blocks'[n].header) \in DOMAIN blocks_by_hash'
        /\ \A h \in DOMAIN blocks_by_hash' :
             /\ blocks_by_hash'[h] \in DOMAIN blocks'
             /\ hash_header(blocks'[blocks_by_hash'[h]].header) = h
    <3>1. \A n \in DOMAIN blocks :
            hash_header(blocks[n].header) \in DOMAIN blocks_by_hash
      BY <1>1, Zenon DEF StoreOK, ChainLinked, known
    <3>2. \A h \in DOMAIN blocks_by_hash :
            /\ blocks_by_hash[h] \in DOMAIN blocks
            /\ hash_header(blocks[blocks_by_hash[h]].header) = h
      BY <1>1, Zenon DEF StoreOK, ChainLinked
    <3>3. chain_head.number + 1 \in DOMAIN blocks'
      BY <2>1, <2>5
    <3> QED BY <2>3, <2>5, <3>1, <3>2, <3>3
  <2>9. ChainLinked'
    <3>1. /\ DOMAIN blocks' = 0..chain_head'.number
          /\ chain_head'.hash = hash_header(blocks'[chain_head'.number].header)
      BY <2>1, <2>5, Zenon
    <3> QED BY <2>6, <2>7, <2>8, <3>1, ZenonT(30) DEF ChainLinked, known
  <2>10. PublishedHead'
    <3>1. /\ shared_head = chain_head /\ shared_head' = shared_head
          /\ pc' = "publish"
          /\ chain_head'.total_difficulty =
               chain_head.total_difficulty + block.header.gas_used
      BY <1>1, <1>2, ZenonT(30) DEF StoreOK, PublishedHead, CommitBlock
    <3>2. block.header.gas_used \in Nat /\ chain_head.total_difficulty \in Nat
      <4>1. block.header.gas_used \in 0..MAX_U64
        BY <2>1, BlockFields, Zenon
      <4>2. chain_head \in ChainHead
        BY <1>1, Zenon DEF TypeOK
      <4> QED BY <4>1, <4>2, SMTT(30) DEF ChainHead
    <3>3. chain_head.hash = block.header.parent_hash
      BY <1>1, <2>1, Zenon DEF StoreOK, ChainLinked, Abstract!Extends
    <3>4. blocks'[chain_head'.number] = block
      BY <2>1, <2>5, Zenon
    <3> QED BY <2>1, <3>1, <3>2, <3>3, <3>4 DEF PublishedHead
  <2>11. ChildOK'
    BY <1>2, Zenon DEF ChildOK, CommitBlock
  <2> QED BY <2>6, <2>9, <2>10, <2>11, Zenon DEF StoreOK
<1>3. CASE PublishHead
  <2>1. /\ UNCHANGED <<blocks, blocks_by_hash, chain_head>>
        /\ shared_head' = chain_head' /\ pc' = "drain"
    BY <1>3, Zenon DEF PublishHead, Advance, pipelineVars, storeVars
  <2> QED BY <1>1, <2>1 DEF StoreOK, ChainLinked, known, ChildOK, PublishedHead
<1>4. CASE /\ UNCHANGED <<storeVars, headVars>>
           /\ pc' = "publish" <=> pc = "publish"
           /\ pc' = "execute" => Execute \/ (pc = "execute" /\ block' = block)
  <2>1. UNCHANGED <<blocks, blocks_by_hash, chain_head, shared_head>>
    BY <1>4, Zenon DEF storeVars, headVars
  <2>2. ChildOK'
    <3> SUFFICES ASSUME pc' = "execute"
                 PROVE  Abstract!Extends(block', blocks[chain_head.number])
      BY <2>1, Zenon DEF ChildOK, Abstract!Extends
    <3>1. CASE Execute
      <4>1. /\ block' = taken
            /\ process_block_error(taken) = "Ok"
            /\ execute_error(taken) = "Ok"
        BY <3>1, Zenon DEF Execute, StartExecute
      <4>2. taken \in Block
        BY <1>1, <3>1, Taken, Zenon DEF Execute
      <4> QED BY <1>1, <4>1, <4>2, ChecksFindTheHead, Zenon
    <3>2. CASE pc = "execute" /\ block' = block
      BY <1>1, <3>2, Zenon DEF StoreOK, ChildOK
    <3> QED BY <1>4, <3>1, <3>2, Zenon
  <2>3. PublishedHead'
    BY <1>1, <1>4, <2>1 DEF StoreOK, PublishedHead
  <2> QED BY <1>1, <2>1, <2>2, <2>3, ZenonT(30) DEF StoreOK, ChainLinked, known
<1> QED BY <1>2, <1>3, <1>4, ChainFrame

\* The buffer: what the drain has passed is not in it any more.
LEMMA DrainSide ==
  ASSUME FiniteSetFacts, ProcessorInv, [Next]_vars
  PROVE  DrainOK'
<1> DEFINE P == DOMAIN pending_map
<1>1. TypeOK /\ DrainOK /\ StoreOK /\ pc \in PC
  BY DEF ProcessorInv, TypeOK
<1>2. /\ chain_head.number \in Nat /\ next_block_number \in Nat
      /\ P \subseteq Nat
  BY <1>1, Zenon DEF TypeOK, ChainHead
<1>3. CASE UNCHANGED <<pc, chain_head, pending_map, next_block_number>>
  BY <1>1, <1>3, Zenon DEF DrainOK
<1>4. CASE RecvNewBlock
  <2> DEFINE b == Head(queue).block
  <2>1. b \in Block /\ b.header.number \in Nat
    <3>1. b \in Block
      BY <1>1, <1>4, Received, Zenon DEF RecvNewBlock, TypeOK
    <3> QED BY <3>1, BlockFields, Zenon
  <2>2. /\ pc = "recv" /\ pc' = "drain"
        /\ next_block_number' = chain_head.number + 1
        /\ chain_head' = chain_head
        /\ b.header.number > chain_head.number
        /\ DOMAIN pending_map' = P \cup {b.header.number}
    BY <1>4, Zenon DEF RecvNewBlock, StartDrain, recv, headVars, Put
  <2>3. IsFiniteSet(P) /\ \A n \in P : n > chain_head.number + 1
    BY <1>1, <2>2, Zenon DEF DrainOK
  <2>4. IsFiniteSet(DOMAIN pending_map')
    BY <2>2, <2>3, FiniteChange, ZenonT(30)
  <2>5. \A n \in DOMAIN pending_map' : n >= chain_head.number + 1
    BY <1>2, <2>1, <2>2, <2>3
  <2>6. chain_head.number + 1 > chain_head.number
    BY <1>2
  <2> QED BY <2>2, <2>4, <2>5, <2>6, Zenon DEF DrainOK
<1>5. CASE RecvShutdown \/ RecvNone
  <2>1. /\ pc = "recv" /\ pc' = "drain"
        /\ next_block_number' = chain_head.number + 1
        /\ chain_head' = chain_head /\ pending_map' = pending_map
    BY <1>5, Zenon
       DEF RecvShutdown, RecvNone, StartLastDrain, StartDrain, recv, headVars
  <2> QED BY <1>1, <1>2, <2>1 DEF DrainOK
<1>6. ASSUME TakePending, chain_head' = chain_head,
             \/ pc' = "drain" /\ next_block_number' = next_block_number + 1
             \/ /\ pc' = "execute" /\ next_block_number' = next_block_number
                /\ next_block_number = chain_head.number + 1
      PROVE  DrainOK'
  <2>1. /\ pc = "drain"
        /\ DOMAIN pending_map' = P \ {next_block_number}
    BY <1>1, <1>6, Taken, Zenon DEF TakePending
  <2>2. /\ IsFiniteSet(P) /\ next_block_number > chain_head.number
        /\ \A n \in P : n >= next_block_number
    BY <1>1, <2>1 DEF DrainOK
  <2>3. IsFiniteSet(DOMAIN pending_map')
    BY <2>1, <2>2, FiniteChange, ZenonT(30)
  <2>4. \A n \in DOMAIN pending_map' : n > next_block_number
    BY <1>2, <2>1, <2>2
  <2>5. next_block_number + 1 > chain_head.number
        /\ \A n \in DOMAIN pending_map' : n >= next_block_number + 1
    BY <1>2, <2>1, <2>2, <2>4
  <2> QED BY <1>6, <2>3, <2>4, <2>5, Zenon DEF DrainOK
<1>7. CASE RejectInvalid \/ RejectUnsigned \/ RejectRefused
  BY <1>6, <1>7, Zenon
     DEF RejectInvalid, RejectUnsigned, RejectRefused, Advance,
     headVars
<1>8. CASE Execute
  <2>1. /\ TakePending /\ chain_head' = chain_head /\ pc' = "execute"
        /\ next_block_number' = next_block_number
        /\ process_block_error(taken) = "Ok"
    BY <1>8, Zenon DEF Execute, headVars
  <2>2. chain_head.number + 1 = taken.header.number
    BY <2>1, Zenon DEF process_block_error
  <2>3. taken.header.number = next_block_number
    BY <1>1, <2>1, Taken, Zenon
  <2> QED BY <1>6, <2>1, <2>2, <2>3, Zenon
<1>9. CASE ExecuteStep
  <2>1. /\ pc = "execute" /\ pc' \in {"execute", "panicked"}
        /\ UNCHANGED <<chain_head, pending_map, next_block_number>>
    BY <1>9, Zenon DEF ExecuteStep, headVars, drainVars
  <2> QED BY <1>1, <2>1, Zenon DEF DrainOK
<1>10. CASE RejectFailed
  <2>1. /\ pc = "execute" /\ pc' = "drain"
        /\ next_block_number' = next_block_number + 1
        /\ UNCHANGED <<chain_head, pending_map>>
    BY <1>10, Zenon DEF RejectFailed, Advance, headVars
  <2>2. \A n \in P : n >= next_block_number + 1
    BY <1>1, <1>2, <2>1 DEF DrainOK
  <2> QED BY <1>1, <1>2, <2>1, <2>2 DEF DrainOK
<1>11. CASE CommitBlock
  <2>1. /\ pc = "execute" /\ pc' = "publish"
        /\ UNCHANGED <<pending_map, next_block_number>>
    BY <1>11, Zenon DEF CommitBlock
  <2>2. chain_head'.number = chain_head.number + 1
    BY <1>11, Committed, Zenon
  <2> QED BY <1>1, <2>1, <2>2, Zenon DEF DrainOK
<1>12. CASE PublishHead
  <2>1. /\ pc = "publish" /\ pc' = "drain"
        /\ next_block_number' = next_block_number + 1
        /\ UNCHANGED <<chain_head, pending_map>>
    BY <1>12, Zenon DEF PublishHead, Advance
  <2>2. \A n \in P : n >= next_block_number + 1
    BY <1>1, <1>2, <2>1 DEF DrainOK
  <2> QED BY <1>1, <1>2, <2>1, <2>2 DEF DrainOK
<1>13. CASE DrainDone
  <2>1. CASE stopping
    BY <1>13, <2>1, Zenon DEF DrainDone, DrainOK
  <2>2. CASE ~stopping
    <3>1. /\ pc = "drain" /\ pc' = "recv" /\ next_block_number \notin P
          /\ UNCHANGED <<chain_head, pending_map>>
      BY <1>13, <2>2, Zenon DEF DrainDone, headVars
    <3>2. \A n \in P : n > chain_head.number + 1
      BY <1>1, <1>2, <3>1 DEF DrainOK
    <3> QED BY <1>1, <3>1, <3>2, Zenon DEF DrainOK
  <2> QED BY <2>1, <2>2, Zenon
<1>14. CASE \/ \E m \in ProcessorMessage : Send(m)
            \/ Close \/ RecvStaleBlock \/ RecvGetAccountState
            \/ Ended \/ UNCHANGED vars
  BY <1>3, <1>14, Zenon
     DEF Send, Close, RecvStaleBlock, RecvGetAccountState, Ended,
     vars, headVars, drainVars
<1> QED BY <1>4, <1>5, <1>7, <1>8, <1>9, <1>10, <1>11, <1>12, <1>13, <1>14, Zenon
        DEF Next, ProcessorStep

\* The processor starts in the invariant.
LEMMA InitOK ==
  ASSUME FiniteSetFacts, Init
  PROVE  ProcessorInv
<1>1. PipelineInv /\ PipelineTypeOK
  BY PipelineInitOK, Zenon DEF Init, PipelineInv
<1>2. Genesis \in Block /\ Genesis.transactions = << >>
      /\ Genesis.header.number = 0 /\ hash_header(Genesis.header) \in Hash
  BY GenesisAssumption, HashAssumption, Zenon
<1>3. /\ blocks = [n \in {0} |-> Genesis]
      /\ blocks_by_hash = [h \in {hash_header(Genesis.header)} |-> 0]
      /\ transactions = [t \in {} |-> 0]
      /\ phase = "idle" /\ journal = NoJournal
  BY Zenon DEF Init, PipelineInit, ProviderInit
<1>4. TypeOK
  <2>1. /\ queue = << >> /\ closed = FALSE /\ pc = "recv" /\ stopping = FALSE
        /\ next_block_number = 1 /\ dropped = 0
    BY Zenon DEF Init
  <2>2. chain_head \in ChainHead /\ shared_head \in ChainHead
    BY <1>2, Zenon DEF Init, ChainHead
  <2>3. DOMAIN pending_map = {}
    BY Zenon DEF Init
  <2>4. output \in [tx_count : Nat, gas_used : 0..MAX_U64]
    BY BoundsAssumption DEF Init, NoOutput
  <2>5. metrics \in [blocks_received : Nat, blocks_committed : Nat,
                     blocks_rejected_validation : Nat,
                     blocks_rejected_execution : Nat,
                     transactions_committed : Nat,
                     total_gas_committed : 0..MAX_U64]
    BY BoundsAssumption, SMTT(60) DEF Init
  <2>6. reply \in [address : Address \cup {NoAddress},
                   account : Account \cup {NoAccount}]
    BY DEF Init
  <2>7. queue \in Seq(ProcessorMessage)
    BY <2>1
  <2>8. pc \in PC /\ next_block_number \in Nat /\ dropped \in Nat
    BY <2>1 DEF PC
  <2>9. closed \in BOOLEAN /\ stopping \in BOOLEAN
    BY <2>1, ZenonT(30)
  <2> QED BY <1>1, <2>2, <2>3, <2>4, <2>5, <2>6, <2>7, <2>8, <2>9, Zenon DEF TypeOK
<1>5. ControlOK
  <2>1. pc = "recv"
    BY DEF Init
  <2> QED BY <1>3, <2>1, Zenon DEF ControlOK
<1>6. StoreOK
  <2>1. ChainLinked
    <3>1. DOMAIN blocks = 0..chain_head.number /\ chain_head.number = 0
      BY <1>3, SMTT(60) DEF Init
    <3>2. chain_head.hash = hash_header(Genesis.header)
      BY Zenon DEF Init
    <3>3. /\ \A n \in DOMAIN blocks : n = 0 /\ blocks[n] = Genesis
          /\ \A h \in DOMAIN blocks_by_hash :
               h = hash_header(Genesis.header) /\ blocks_by_hash[h] = 0
          /\ 0 \in DOMAIN blocks
          /\ hash_header(Genesis.header) \in DOMAIN blocks_by_hash
      BY <1>3, Zenon
    <3> QED BY <1>2, <3>1, <3>2, <3>3, Zenon DEF ChainLinked, known
  <2> QED BY <1>2, <1>3, <2>1, Zenon
             DEF Init, StoreOK, ChildOK, PublishedHead
<1>7. DrainOK
  <2>1. DOMAIN pending_map = {} /\ pc = "recv"
    BY Zenon DEF Init
  <2> QED BY <2>1, Zenon DEF FiniteSetFacts, DrainOK
<1>8. NonceOK
  <2>1. ~journal.open /\ state \in Accounts
    BY <1>1, <1>3, Zenon DEF NoJournal, PipelineTypeOK, Accounts
  <2>2. PreState = state
    BY <2>1, Zenon DEF PreState, Accounts
  <2>3. \A a \in Address : state[a] # NoAccount => state[a].nonce \in Nat
    BY <2>1, BoundsAssumption DEF Accounts, Account
  <2>4. Charged = {}
    BY <1>3, Zenon DEF Charged
  <2> QED BY <1>3, <2>2, <2>3, <2>4, SMTT(90) DEF NonceOK
<1>9. NoReplay
  <2>1. \A n \in DOMAIN blocks : DOMAIN blocks[n].transactions = {}
    BY <1>2, <1>3
  <2> QED BY <2>1, ZenonT(30) DEF NoReplay
<1>10. ReplyOK
  <2>1. reply.account = NoAccount
    BY Zenon DEF Init
  <2> QED BY <2>1, ZenonT(30) DEF ReplyOK
<1>11. CountOK
  <2>1. Cardinality(DOMAIN pending_map) = 0
    BY Zenon DEF FiniteSetFacts, Init
  <2> QED BY <2>1, SMTT(60) DEF Init, CountOK, InFlight
<1> QED BY <1>1, <1>4, <1>5, <1>6, <1>7, <1>8, <1>9, <1>10, <1>11, Zenon
        DEF ProcessorInv, PipelineInv

\* The transaction index.
LEMMA ReplaySide ==
  ASSUME ProcessorInv, [Next]_vars
  PROVE  NoReplay'
<1>1. NoReplay
  BY Zenon DEF ProcessorInv
<1>2. CASE CommitBlock
  <2> DEFINE body == {block.transactions[i] : i \in DOMAIN block.transactions}
  <2>1. /\ block.header.number = chain_head.number + 1
        /\ blocks' = [n \in 0..(chain_head.number + 1) |->
                        IF n = chain_head.number + 1 THEN block ELSE blocks[n]]
        /\ DOMAIN blocks = 0..chain_head.number /\ chain_head.number \in Nat
    BY <1>2, Committed, ZenonT(30)
  <2>2. transactions' = [t \in DOMAIN transactions \cup body |->
          IF t \in body THEN block.header.number ELSE transactions[t]]
    BY <1>2, Zenon DEF CommitBlock, insert_block
  <2>3. \A t \in DOMAIN transactions : t \notin body
    BY <1>2, CommitNonces, Zenon
  <2> SUFFICES ASSUME NEW n \in DOMAIN blocks',
                      NEW i \in DOMAIN blocks'[n].transactions
               PROVE  /\ blocks'[n].transactions[i] \in DOMAIN transactions'
                      /\ transactions'[blocks'[n].transactions[i]] = n
    BY Zenon DEF NoReplay
  <2>4. CASE n = chain_head.number + 1
    <3>1. blocks'[n] = block
      BY <2>1, <2>4, Zenon
    <3>2. block.transactions[i] \in body
      BY <3>1, Zenon
    <3> QED BY <2>1, <2>2, <2>4, <3>1, <3>2, ZenonT(30)
  <2>5. CASE n # chain_head.number + 1
    <3>1. n \in DOMAIN blocks /\ blocks'[n] = blocks[n]
      BY <2>1, <2>5
    <3>2. /\ blocks[n].transactions[i] \in DOMAIN transactions
          /\ transactions[blocks[n].transactions[i]] = n
      BY <1>1, <3>1, Zenon DEF NoReplay
    <3> QED BY <2>2, <2>3, <3>1, <3>2, Zenon
  <2> QED BY <2>4, <2>5, Zenon
<1>3. CASE UNCHANGED storeVars
  BY <1>1, <1>3 DEF NoReplay, storeVars
<1> QED BY <1>2, <1>3, ChainFrame DEF PublishHead, pipelineVars

\* What a step may do to the stored blocks and their hashes.
StoreGrows ==
  /\ \A n \in DOMAIN blocks : n \in DOMAIN blocks' /\ blocks'[n] = blocks[n]
  /\ \A h \in DOMAIN blocks_by_hash :
       /\ h \in DOMAIN blocks_by_hash'
       /\ blocks_by_hash'[h] = blocks_by_hash[h]

\* A step adds to the store or leaves it.
LEMMA StoreStep ==
  ASSUME ProcessorInv, [Next]_vars
  PROVE  StoreGrows
<1>1. CASE CommitBlock
  <2>1. /\ chain_head.number \in Nat
        /\ blocks' = [n \in 0..(chain_head.number + 1) |->
                        IF n = chain_head.number + 1 THEN block ELSE blocks[n]]
        /\ DOMAIN blocks = 0..chain_head.number
    BY <1>1, Committed, ZenonT(30)
  <2>2. \A h \in DOMAIN blocks_by_hash :
          /\ h \in DOMAIN blocks_by_hash'
          /\ blocks_by_hash'[h] = blocks_by_hash[h]
    BY <1>1, Committed, Zenon
  <2>3. \A n \in DOMAIN blocks : n \in DOMAIN blocks' /\ blocks'[n] = blocks[n]
    BY <2>1
  <2> QED BY <2>2, <2>3, ZenonT(30) DEF StoreGrows
<1>2. CASE UNCHANGED storeVars
  BY <1>2 DEF storeVars, StoreGrows
<1>3. CASE PublishHead
  BY <1>2, <1>3, ZenonT(30) DEF PublishHead, pipelineVars
<1> QED BY <1>1, <1>2, <1>3, ChainFrame, ZenonT(30)

-----------------------------------------------------------------------------
\* The chain of blocks that the processor's store stands for.
ChainOf == [i \in 1..(chain_head.number + 1) |-> blocks[i - 1]]

\* That chain is a sequence of blocks that ends at the head.
LEMMA ChainOfStore ==
  ASSUME ProcessorInv
  PROVE  /\ ChainOf \in Seq(Block) /\ Len(ChainOf) = chain_head.number + 1
         /\ ChainOf[Len(ChainOf)] = blocks[chain_head.number]
         /\ chain_head.number \in Nat /\ shared_head.number \in Nat
         /\ DOMAIN blocks = 0..chain_head.number
<1>1. /\ chain_head.number \in Nat /\ shared_head.number \in Nat
      /\ DOMAIN blocks = 0..chain_head.number
      /\ \A n \in DOMAIN blocks : blocks[n] \in Block
  BY Zenon DEF ProcessorInv, TypeOK, ChainHead, StoreOK, ChainLinked
<1>2. \A i \in 1..(chain_head.number + 1) : blocks[i - 1] \in Block
  BY <1>1
<1>3. ChainOf \in Seq(Block) /\ Len(ChainOf) = chain_head.number + 1
  BY <1>1, <1>2 DEF ChainOf
<1>4. ChainOf[chain_head.number + 1] = blocks[chain_head.number]
  BY <1>1 DEF ChainOf
<1> QED BY <1>1, <1>3, <1>4, Zenon

\* The processor starts as the abstract chain does, with genesis alone.
LEMMA ChainStart ==
  ASSUME Init
  PROVE  Abstract!ChainInit
<1>1. /\ chain_head.number = 0 /\ shared_head.number = 0
      /\ blocks = [n \in {0} |-> Genesis]
  BY Zenon DEF Init, PipelineInit, ProviderInit
<1>2. ChainOf = <<Genesis>>
  <2>1. ChainOf = [i \in 1..1 |-> blocks[i - 1]]
    BY <1>1 DEF ChainOf
  <2>2. \A i \in 1..1 : blocks[i - 1] = Genesis
    BY <1>1
  <2> QED BY <2>1, <2>2
<1> QED BY <1>1, <1>2, Zenon DEF Abstract!ChainInit, ChainOf

\* A step of the processor is a step of the abstract chain or none.
LEMMA ChainStep ==
  ASSUME ProcessorInv, [Next]_vars
  PROVE  [Abstract!ChainNext]_(Abstract!chainVars)
<1> DEFINE head == chain_head.number
<1>1. /\ ChainOf \in Seq(Block) /\ Len(ChainOf) = head + 1
      /\ ChainOf[Len(ChainOf)] = blocks[head]
      /\ head \in Nat /\ shared_head.number \in Nat
      /\ DOMAIN blocks = 0..head
  BY ChainOfStore, Zenon
<1>2. CASE CommitBlock
  <2>1. /\ block \in Block /\ Abstract!Extends(block, blocks[head])
        /\ chain_head'.number = head + 1
        /\ blocks' = [n \in 0..(head + 1) |->
                        IF n = head + 1 THEN block ELSE blocks[n]]
    BY <1>2, Committed, ZenonT(30)
  <2>2. shared_head.number = head /\ shared_head' = shared_head
    <3>1. pc = "execute" /\ shared_head' = shared_head
      BY <1>2, ZenonT(30) DEF CommitBlock
    <3>2. shared_head = chain_head
      BY <3>1, ZenonT(30) DEF ProcessorInv, StoreOK, PublishedHead
    <3> QED BY <3>1, <3>2, ZenonT(30)
  <2>3. ChainOf' = Append(ChainOf, block)
    <3>1. ChainOf' = [i \in 1..(head + 2) |->
                        IF i = head + 2 THEN block ELSE blocks[i - 1]]
      <4>1. ChainOf' = [i \in 1..(head + 1 + 1) |-> blocks'[i - 1]]
        BY <2>1, Zenon DEF ChainOf
      <4>2. \A i \in 1..(head + 2) :
              blocks'[i - 1] = IF i = head + 2 THEN block ELSE blocks[i - 1]
        BY <1>1, <2>1
      <4>3. head + 1 + 1 = head + 2
        BY <1>1
      <4> QED BY <4>1, <4>2, <4>3, Zenon
    <3> DEFINE longer == Append(ChainOf, block)
    <3>2. /\ longer \in Seq(Block)
          /\ Len(longer) = head + 2
          /\ longer[head + 2] = block
          /\ \A i \in 1..(head + 1) : longer[i] = ChainOf[i]
      BY <1>1, <2>1
    <3>3. \A i \in 1..(head + 1) : ChainOf[i] = blocks[i - 1]
      BY Zenon DEF ChainOf
    <3> HIDE DEF longer, head
    <3>4. longer \in [1..(head + 2) -> Block]
      BY <3>2
    <3>5. \A i \in 1..(head + 2) :
            longer[i] = IF i = head + 2 THEN block ELSE blocks[i - 1]
      <4>1. \A i \in 1..(head + 2) : i = head + 2 \/ i \in 1..(head + 1)
        BY <1>1
      <4>2. head + 2 \notin 1..(head + 1)
        BY <1>1
      <4> QED BY <3>2, <3>3, <4>1, <4>2, Zenon
    <3>6. ChainOf' = longer
      BY <3>1, <3>4, <3>5, Zenon
    <3> QED BY <3>6, Zenon DEF longer
  <2>4. shared_head.number = Len(ChainOf) - 1
    BY <1>1, <2>2
  <2>5. \E b \in Block : /\ Abstract!Extends(b, ChainOf[Len(ChainOf)])
                         /\ ChainOf' = Append(ChainOf, b)
    BY <1>1, <2>1, <2>3
  <2>6. Abstract!Extend
    BY <2>2, <2>4, <2>5, ZenonT(30) DEF Abstract!Extend, Abstract!Tip, ChainOf
  <2> QED BY <2>6 DEF Abstract!ChainNext
<1>3. CASE PublishHead
  <2>1. /\ UNCHANGED <<blocks, chain_head>> /\ shared_head' = chain_head
        /\ shared_head.number + 1 = head
    BY <1>3, Zenon
       DEF PublishHead, pipelineVars, storeVars, ProcessorInv, StoreOK,
       PublishedHead
  <2>2. ChainOf' = ChainOf
    BY <2>1, Zenon DEF ChainOf
  <2>3. Abstract!Publish
    BY <1>1, <2>1, <2>2 DEF Abstract!Publish, ChainOf
  <2> QED BY <2>3, Zenon DEF Abstract!ChainNext
<1>4. CASE UNCHANGED <<storeVars, headVars>>
  BY <1>4, Zenon DEF storeVars, headVars, Abstract!chainVars
<1> QED BY <1>2, <1>3, <1>4, ChainFrame, Zenon

=============================================================================
