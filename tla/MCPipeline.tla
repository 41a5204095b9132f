----------------------------- MODULE MCPipeline -----------------------------
(***************************************************************************)
(* A small instance of Pipeline: three addresses, the third without an     *)
(* account, and every block of at most two transactions drawn from a set   *)
(* that meets each check of the executor.                                  *)
(***************************************************************************)
EXTENDS PipelineLedger, SequencesExt

CONSTANTS a1, a2, a3

MCAddress == {a1, a2, a3}

MCGenesisAccounts ==
  (a1 :> [balance |-> 10, nonce |-> 0]) @@ (a2 :> [balance |-> 9, nonce |-> 1])
     @@ (a3 :> NoAccount)

\* The headers below differ in what their hash keeps.
MCHashHeader(h) == <<h.number, h.extra, h.gas_limit, h.gas_used>>

GenesisHash == <<0, 0, 0, 0>>
UnknownHash == <<9, 0, 0, 0>>

MCHash == {UnknownHash} \cup (0..2) \X (0..1) \X (0..3) \X (0..3)

MCHeader(parent, number, limit, used, extra) ==
  [parent_hash |-> parent, number |-> number, timestamp |-> number,
   gas_limit |-> limit, gas_used |-> used, extra |-> extra]

Legacy(from, nonce, to, value, price, gas) ==
  [kind |-> "Legacy", nonce |-> nonce, fee_cap |-> price, priority |-> 0,
   gas_limit |-> gas, to |-> to, value |-> value, sender |-> from]

Dynamic(from, nonce, to, value, cap, priority) ==
  [kind |-> "Eip1559", nonce |-> nonce, fee_cap |-> cap,
   priority |-> priority, gas_limit |-> 2, to |-> to, value |-> value,
   sender |-> from]

\* Nonces, costs and recipients around their limits (MAX_U64 is 3, MAX_U128
\* is 12): a self transfer, a new account, a creation, a recipient that
\* overflows, a cost beyond u128, a base fee above the cap, a tip that
\* overflows, a last nonce.
MCTransactions ==
     {Legacy(a1, 0, a2, 3, 1, 1), Legacy(a1, 0, a1, 2, 0, 2)}
  \cup {Legacy(a2, n, a1, 3, 1, 1) : n \in 1..3}
  \cup {Legacy(a3, 0, a2, 1, 0, 1), Legacy(a1, 1, NoAddress, 1, 1, 1),
        Legacy(a2, 1, a3, 4, 6, 2)}
  \cup {Dynamic(a2, 1, a3, 1, 2, 0), Dynamic(a1, 1, a2, 1, 0, 1),
        Dynamic(a2, 2, a1, 1, 2, 12)}

MCGenesis == [header |-> MCHeader(UnknownHash, 0, 0, 0, 0), transactions |-> << >>]

MCBlock ==
     {MCGenesis}
  \cup {[header |-> MCHeader(GenesisHash, 1, 2, 0, 0), transactions |-> txs] :
          txs \in BoundedSeq(MCTransactions, 2)}
  \cup {[header |-> MCHeader(GenesisHash, 1, 0, 0, 1),
         transactions |-> <<t>>] : t \in MCTransactions}
  \cup {[header |-> h, transactions |-> << >>] :
          h \in {MCHeader(UnknownHash, 1, 1, 0, 1),
                 MCHeader(GenesisHash, 2, 1, 1, 1),
                 MCHeader(GenesisHash, 1, 1, 2, 1)}}
  \cup {[header |-> MCHeader(GenesisHash, 1, 3, 0, 1),
         transactions |-> <<t, t, t>>] : t \in MCTransactions}

=============================================================================
