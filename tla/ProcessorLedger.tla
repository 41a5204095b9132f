--------------------------- MODULE ProcessorLedger --------------------------
(***************************************************************************)
(* The block processor beside the ledger: its accounts and the replay of   *)
(* the blocks it has stored.                                               *)
(***************************************************************************)
EXTENDS BlockProcessor, PipelineLedger

\* The account state, seen through the journal, is what the reference ledger
\* computes by replaying the stored blocks from genesis: no rejected block,
\* no replaced one and no panic leaves a trace in what queries return.
StateIsReplay == PreState = Replay(blocks, chain_head.number)[chain_head.number]

=============================================================================
