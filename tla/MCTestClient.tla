---------------------------- MODULE MCTestClient ----------------------------
(***************************************************************************)
(* Small instances of TestClient.  A hash is its header, so that equal     *)
(* headers with different transactions have equal hashes, as in the code.  *)
(***************************************************************************)
EXTENDS TestClient, TLC

CONSTANTS a1, a2, c1, c2, c3

MCKey == <<a1, a2>>
MCAddress == {a1, a2}
Zero == [zero |-> TRUE]
MCHashHeader(h) == [header |-> h]

MCGenesis ==
  [header |-> [parent_hash |-> Zero, number |-> 0, timestamp |-> 0,
               gas_limit |-> 2, gas_used |-> 0, extra |-> "genesis"],
   transactions |-> << >>]
MCBlock == {MCGenesis}
MCHash == {Zero, MCHashHeader(MCGenesis.header)}

MCAccounts == [a \in MCAddress |-> [balance |-> 20, nonce |-> 0]]

ThreeRuns == {c1, c2, c3}
LastRun == {c3}

\* The number of transactions of a block in each run.
MCTransactionsPerBlock == (c1 :> 2) @@ (c2 :> 1) @@ (c3 :> 1)

=============================================================================
