-------------------------------- MODULE Chain --------------------------------
(***************************************************************************)
(* What the block processor promises to the rest of the node: one chain    *)
(* that starts at the genesis block and only grows, each block a child of  *)
(* the last one, and a published head that is never more than one block    *)
(* behind.  Nothing is said of buffers, validation order or execution.     *)
(***************************************************************************)
EXTENDS Types

VARIABLES
  chain,       \* the committed blocks, block 0 first
  published    \* the number of the block the other tasks see as head

chainVars == <<chain, published>>

Tip == chain[Len(chain)]

\* A block that may follow the block `parent'.
Extends(b, parent) ==
  /\ b.header.parent_hash = hash_header(parent.header)
  /\ b.header.number = parent.header.number + 1
  /\ b.header.timestamp > parent.header.timestamp
  /\ b.header.gas_used <= b.header.gas_limit

ChainInit ==
  /\ chain = <<Genesis>>
  /\ published = 0

\* The next block is committed once the last one has been published.
Extend ==
  /\ published = Len(chain) - 1
  /\ \E b \in Block : Extends(b, Tip) /\ chain' = Append(chain, b)
  /\ UNCHANGED published

Publish ==
  /\ published = Len(chain) - 2
  /\ published' = Len(chain) - 1
  /\ UNCHANGED chain

ChainNext == Extend \/ Publish

ChainSpec == ChainInit /\ [][ChainNext]_chainVars

=============================================================================
