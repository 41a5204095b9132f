------------------------ MODULE BlockProcessorProofs ------------------------
(***************************************************************************)
(* With the modules before, the invariant of the block processor is        *)
(* inductive.  What it says about the processor: its properties for all    *)
(* blocks, addresses, bounds and message orders, that it implements the    *)
(* abstract chain, and that its accounts are the replay of its blocks.     *)
(***************************************************************************)
EXTENDS ProcessorLedger, ProcessorProofs, LedgerProofs

\* The facts about finite sets that the proofs of the steps assume.
LEMMA SetFacts == FiniteSetFacts
<1>1. IsFiniteSet({}) /\ Cardinality({}) = 0
  BY FS_EmptySet
<1>2. \A S : IsFiniteSet(S) => Cardinality(S) \in Nat
  BY FS_CardinalityType
<1>3. /\ \A S, x : IsFiniteSet(S) => IsFiniteSet(S \cup {x})
      /\ \A S, x : IsFiniteSet(S) =>
           Cardinality(S \cup {x}) =
             IF x \in S THEN Cardinality(S) ELSE Cardinality(S) + 1
  BY FS_AddElement
<1>4. /\ \A S, x : IsFiniteSet(S) => IsFiniteSet(S \ {x})
      /\ \A S, x : IsFiniteSet(S) =>
           Cardinality(S \ {x}) =
             IF x \in S THEN Cardinality(S) - 1 ELSE Cardinality(S)
  BY FS_RemoveElement
<1> QED BY <1>1, <1>2, <1>3, <1>4, ZenonT(60) DEF FiniteSetFacts

\* Every step keeps the invariant.
LEMMA StepOK ==
  ASSUME ProcessorInv, [Next]_vars
  PROVE  ProcessorInv'
BY SetFacts, PipelineSide, TypeSide, StoreSide, DrainSide, NonceSide,
   ReplaySide, ReplySide, CountSide
   DEF ProcessorInv, PipelineInv

\* The invariant of the block processor.
THEOREM ProcessorInvariant == Spec => []ProcessorInv
<1>1. Init => ProcessorInv
  BY SetFacts, InitOK
<1>2. ProcessorInv /\ [Next]_vars => ProcessorInv'
  BY StepOK
<1> QED BY <1>1, <1>2, PTL DEF Spec

-----------------------------------------------------------------------------
\* The processor's state keeps its types; a buffered block is filed under its
\* own number.
THEOREM TypeCorrect == Spec => []TypeOK
BY ProcessorInvariant, PTL DEF ProcessorInv

\* The store holds one linked chain without gaps, and the hash index leads
\* back to it.
THEOREM OneChain == Spec => []ChainLinked
<1>1. ProcessorInv => ChainLinked
  BY DEF ProcessorInv, StoreOK
<1> QED BY <1>1, ProcessorInvariant, PTL

\* No transaction is committed by two blocks, however blocks are repeated,
\* reordered or corrected.
THEOREM CommittedOnce == Spec => []NoReplay
BY ProcessorInvariant, PTL DEF ProcessorInv

\* A drain leaves nothing behind that it could have taken.
THEOREM NothingDrainable == Spec => []BufferedAboveGap
<1>1. ProcessorInv => BufferedAboveGap
  BY DEF ProcessorInv, DrainOK, BufferedAboveGap
<1> QED BY <1>1, ProcessorInvariant, PTL

\* The other tasks see the head, or the block below it while the write of the
\* shared head is pending.
THEOREM HeadPublished == Spec => []PublishedHead
<1>1. ProcessorInv => PublishedHead
  BY DEF ProcessorInv, StoreOK
<1> QED BY <1>1, ProcessorInvariant, PTL

\* Each received block is committed, rejected, buffered or one of the known
\* silent losses.
THEOREM BlocksAccounted == Spec => []MetricsBalance
<1>1. ProcessorInv => MetricsBalance
  BY SetFacts, BlocksAddUp
<1> QED BY <1>1, ProcessorInvariant, PTL

\* Committed blocks and their hashes stay.
THEOREM ChainAppendOnly == Spec => AppendOnly
<1>1. ProcessorInv /\ [Next]_vars => [StoreGrows]_vars
  BY StoreStep
<1> QED BY <1>1, ProcessorInvariant, PTL DEF Spec, AppendOnly, StoreGrows

\* Answers about one account never go back in nonce.
THEOREM AnswersInOrder == Spec => AnswersAdvance
<1>1. ProcessorInv /\ [Next]_vars => [AnswerAhead]_vars
  BY AnswerStep
<1> QED BY <1>1, ProcessorInvariant, PTL DEF Spec, AnswersAdvance, AnswerAhead

-----------------------------------------------------------------------------
\* The block processor implements the abstract chain: whatever is sent, in
\* whatever order, the chain grows by one child of the head at a time and the
\* published head follows before the next commit.
THEOREM ProcessorImplementsChain == Spec => ImplementsChain
<1>1. Init => Abstract!ChainInit
  BY ChainStart, ZenonT(30)
<1>2. ProcessorInv /\ [Next]_vars => [Abstract!ChainNext]_(Abstract!chainVars)
  BY ChainStep
<1> QED BY <1>1, <1>2, ProcessorInvariant, PTL
        DEF Spec, ImplementsChain, Abstract!ChainSpec

-----------------------------------------------------------------------------
\* The accounts before the running block are where the stored blocks lead.
ReplayInv == Reaches(blocks, chain_head.number, PreState)

\* A commit adds the effect of its block; no other step changes the stored
\* blocks or what they lead to.
LEMMA ReplayStep ==
  ASSUME ProcessorInv, ReplayInv, [Next]_vars,
         FinishExecute => /\ PreState' = Reference!ApplyBlock(PreState, block)
                          /\ PreState' \in Accounts
  PROVE  ReplayInv'
<1> DEFINE head == chain_head.number
<1>1. CASE CommitBlock
  <2>1. /\ PreState' = Reference!ApplyBlock(PreState, block)
        /\ PreState' \in Accounts
    BY <1>1, ZenonT(30) DEF CommitBlock
  <2>2. /\ chain_head'.number = head + 1 /\ head \in Nat
        /\ blocks' = [n \in 0..(head + 1) |->
                        IF n = head + 1 THEN block ELSE blocks[n]]
    BY <1>1, Committed, ZenonT(30)
  <2>3. /\ blocks'[head + 1] = block
        /\ \A n \in 0..head : blocks'[n] = blocks[n]
    BY <2>2
  <2> QED BY <2>1, <2>2, <2>3, HistoryGrows, ZenonT(60) DEF ReplayInv
<1>2. CASE ~CommitBlock
  <2>1. PreState' = PreState
    BY <1>2, PipelineSide, ZenonT(30)
  <2>2. blocks' = blocks /\ chain_head' = chain_head
    BY <1>2, ChainFrame, ZenonT(30)
       DEF PublishHead, pipelineVars, storeVars, headVars
  <2> QED BY <2>1, <2>2, ZenonT(30) DEF ReplayInv
<1> QED BY <1>1, <1>2, ZenonT(30)

\* The accounts the processor answers from are what the reference ledger
\* computes from the stored blocks: rejected, replaced and rolled back blocks
\* leave no trace, and no committed block is lost.
THEOREM AccountsAreReplay == Spec => []StateIsReplay
<1>1. Init => LedgerInv /\ ReplayInv
  <2> SUFFICES ASSUME Init PROVE LedgerInv /\ ReplayInv
    OBVIOUS
  <2>1. phase = "idle" /\ PreState = GenesisAccounts /\ chain_head.number = 0
    BY PipelineAssumption
       DEF Init, PipelineInit, ProviderInit, NoJournal, PreState, Accounts
  <2> QED BY <2>1, HistoryStarts, ZenonT(30)
             DEF LedgerInv, RejectionsJustified, ReplayInv
<1>2. ProcessorInv /\ LedgerInv /\ ReplayInv /\ [Next]_vars
        => LedgerInv' /\ ReplayInv'
  <2> SUFFICES ASSUME ProcessorInv, LedgerInv, ReplayInv, [Next]_vars
               PROVE  LedgerInv' /\ ReplayInv'
    OBVIOUS
  <2>1. PipelineInv /\ TypeOK
    BY DEF ProcessorInv, PipelineInv, TypeOK
  <2>2. LedgerInv'
    BY <2>1, PipelineInside, LedgerStep, ZenonT(30)
  <2>3. FinishExecute => /\ PreState' = Reference!ApplyBlock(PreState, block)
                         /\ PreState' \in Accounts
    BY <2>1, FinishFollowsLedger, ZenonT(30)
  <2> QED BY <2>2, <2>3, ReplayStep, ZenonT(30)
<1>3. ProcessorInv /\ ReplayInv => StateIsReplay
  <2>1. ProcessorInv => chain_head.number \in Nat
    BY DEF ProcessorInv, TypeOK, ChainHead
  <2> QED BY <2>1, HistoryIsReplay, ZenonT(30) DEF StateIsReplay, ReplayInv
<1> QED BY <1>1, <1>2, <1>3, ProcessorInvariant, PTL DEF Spec

=============================================================================
