-------------------------- MODULE MCBlockProcessor --------------------------
(***************************************************************************)
(* Small instances of BlockProcessor.  A block is named by the tag that    *)
(* stands for its hash; the tags are listed where the blocks are built.    *)
(***************************************************************************)
EXTENDS ProcessorLedger, SequencesExt

CONSTANTS a1, a2

MCAddress == {a1, a2}

MCGenesisAccounts ==
  (a1 :> [balance |-> 9, nonce |-> 0]) @@ (a2 :> NoAccount)

MCHashHeader(h) == h.extra

MCHash == {"none", "g", "b1", "b1fork", "b1gas", "b1lost", "b1tx", "b2",
           "b2skip", "b2late", "b2again", "b3"}

MCBlockOf(tag, parent, number, time, used, txs) ==
  [header |-> [parent_hash |-> parent, number |-> number, timestamp |-> time,
               gas_limit |-> 2, gas_used |-> used, extra |-> tag],
   transactions |-> txs]

\* a1 pays a2.
Pay(nonce, to, from) ==
  [kind |-> "Eip1559", nonce |-> nonce, fee_cap |-> 1, priority |-> 0,
   gas_limit |-> 1, to |-> to, value |-> 1, sender |-> from]

MCGenesis == MCBlockOf("g", "none", 0, 0, 0, << >>)

B1 == MCBlockOf("b1", "g", 1, 1, 1, <<Pay(0, a2, a1)>>)
B2 == MCBlockOf("b2", "b1", 2, 2, 2, <<Pay(1, a2, a1), Pay(0, a1, a2)>>)
B3 == MCBlockOf("b3", "b2", 3, 3, 0, << >>)

\* A chain of three blocks, as the test client builds it.
HonestBlocks == {MCGenesis, B1, B2, B3}

\* Blocks that each fail, or compete, in their own way: the body is not bound
\* by the header hash, so B1 has a twin without transactions.
OddBlocks ==
  {[B1 EXCEPT !.transactions = << >>],
   MCBlockOf("b1fork", "g", 1, 2, 0, << >>),
   MCBlockOf("b1gas", "g", 1, 1, 3, << >>),
   MCBlockOf("b1lost", "none", 1, 1, 0, << >>),
   MCBlockOf("b1tx", "g", 1, 1, 0, <<Pay(0, a2, a1), Pay(0, a2, a1)>>),
   MCBlockOf("b1tx", "g", 1, 1, 0, <<Pay(0, a2, NoAddress)>>),
   MCBlockOf("b1tx", "g", 1, 1, 0, <<Pay(0, NoAddress, a1)>>),
   MCBlockOf("b2skip", "g", 2, 2, 0, << >>),
   MCBlockOf("b2late", "b1", 2, 1, 0, << >>),
   MCBlockOf("b2again", "b1", 2, 2, 0, <<Pay(0, a2, a1)>>)}

MixedBlocks == HonestBlocks \cup OddBlocks

\* Enough to replace, reject and correct a block below a buffered one.
RepairBlocks ==
  {MCGenesis, B1, B2, B3,
   MCBlockOf("b1tx", "g", 1, 1, 0, <<Pay(0, a2, a1), Pay(0, a2, a1)>>)}

-----------------------------------------------------------------------------
\* A chain whose blocks were all sent before a shutdown is committed to its
\* last block, whatever the order and the duplicates, unless a faulty block
\* came before them.
HonestChainCommits ==
  (/\ \A b \in Block \ {Genesis} : sent[NewBlock(b)] > 0 <=> b \in HonestBlocks
   /\ sent[Shutdown] = 0 /\ ~closed)
    ~> chain_head = [number |-> 3, hash |-> "b3", total_difficulty |-> 3]

\* A block that extends the head and that the reference ledger accepts is
\* committed once it is received, whatever was buffered, replaced, rejected
\* or rolled back before.
ValidChildCommits ==
  \A b \in Block :
    (/\ pc = "recv" /\ queue # << >> /\ Head(queue) = NewBlock(b)
     /\ Abstract!Extends(b, blocks[chain_head.number])
     /\ Reference!ApplyBlock(state, b) # Rejected)
      ~> (b.header.number \in DOMAIN blocks /\ blocks[b.header.number] = b)

\* "Implementation code should return `Result` and avoid `unwrap`": whatever
\* block arrives, the task survives it.
ProcessorSurvives == pc # "panicked"

=============================================================================
