--------------------------- MODULE PipelineLedger ---------------------------
(***************************************************************************)
(* The pipeline beside the ledger it implements: what execution does to    *)
(* the accounts, compared with the reference effect of whole blocks, and   *)
(* where the currency goes.                                                *)
(***************************************************************************)
EXTENDS Pipeline, FiniteSets

CONSTANT Rejected    \* the reference outcome of a block that cannot be applied

ASSUME LedgerAssumption ==
  /\ IsFiniteSet(Address)    \* an address is 20 bytes
  /\ Rejected \notin [Address -> Account \cup {NoAccount}]

Reference == INSTANCE Ledger WITH ledger <- PreState

\* The reference ledger after each block of a store, block 0 being genesis.
Replay(store, top) ==
  LET ledgers[n \in 0..top] ==
        IF n = 0 THEN GenesisAccounts
        ELSE Reference!ApplyBlock(ledgers[n - 1], store[n])
  IN ledgers

\* The pipeline implements the atomic ledger: seen through the journal, the
\* accounts change only by the reference effect of a whole block.
ImplementsLedger == Reference!LedgerSpec

\* pipeline.rs rolls back only blocks that the reference rejects: a failed
\* execution is never spurious, whichever transaction it stops at.
RejectionsJustified ==
  phase = "failed" => Reference!ApplyBlock(PreState, block) = Rejected

\* The units of currency on all accounts, counted one by one.
Coins(accounts) ==
  {unit \in Address \X (1..MAX_U128) :
     /\ accounts[unit[1]] # NoAccount
     /\ unit[2] <= accounts[unit[1]].balance}

Wealth(accounts) == Cardinality(Coins(accounts))

\* The fees on the first receipts of a list, by their number.
Fees(list) ==
  LET fees[i \in 0..Len(list)] ==
        IF i = 0 THEN 0
        ELSE fees[i - 1] + list[i].effective_gas_price * list[i].gas_used
  IN fees

Burned == Fees(receipts)[Len(receipts)]

\* Between two transactions the wealth of all accounts and the fees on the
\* receipts add up to the wealth at the start of the block; after a debit
\* the charge of the running transaction is on its way.
Conservation ==
  /\ phase \in {"debit", "done"} => Wealth(state) + Burned = Wealth(PreState)
  /\ phase = "credit" => Wealth(state) + Burned
                           + charge(signed_tx, base_fee_per_gas) = Wealth(PreState)

=============================================================================
