------------------------------- MODULE Ledger -------------------------------
(***************************************************************************)
(* What block execution promises: an account ledger that only changes by   *)
(* whole blocks.  The effect of a transaction is written down as the       *)
(* transfer it is, without journal, phases or order of checks, and serves  *)
(* as the reference for the executor.                                      *)
(***************************************************************************)
EXTENDS Types

CONSTANTS
  NoAccount,
  GenesisAccounts,
  Rejected          \* the outcome of a block that cannot be applied

VARIABLE ledger

Price(tx, base_fee) ==
  IF tx.kind = "Legacy" \/ tx.fee_cap <= base_fee + tx.priority
  THEN tx.fee_cap
  ELSE base_fee + tx.priority

Fits(n) == n <= MAX_U128

\* The sender exists, signed its next nonce, covers the worst case cost and
\* accepts the base fee; no number leaves its width.
Applicable(l, tx, base_fee) ==
  /\ l[tx.sender] # NoAccount
  /\ l[tx.sender].nonce = tx.nonce
  /\ tx.nonce < MAX_U64
  /\ tx.fee_cap * tx.gas_limit + tx.value <= l[tx.sender].balance
  /\ tx.kind # "Legacy" => /\ base_fee <= tx.fee_cap
                           /\ Fits(base_fee + tx.priority)

\* The sender has paid the fee and the value.
Charged(l, tx, base_fee) ==
  [l EXCEPT ![tx.sender] =
     [balance |-> @.balance - Price(tx, base_fee) * tx.gas_limit - tx.value,
      nonce   |-> @.nonce + 1]]

\* The recipient has received the value; an account is made where none was.
Paid(l, tx) ==
  [l EXCEPT ![tx.to] = IF @ = NoAccount
                       THEN [balance |-> tx.value, nonce |-> 0]
                       ELSE [balance |-> @.balance + tx.value, nonce |-> @.nonce]]

Transfer(l, tx, base_fee) == Paid(Charged(l, tx, base_fee), tx)

ApplyTx(l, tx, base_fee) ==
  IF l = Rejected \/ tx.to = NoAddress THEN Rejected
  ELSE IF ~Applicable(l, tx, base_fee) THEN Rejected
  ELSE IF ~Fits(Transfer(l, tx, base_fee)[tx.to].balance) THEN Rejected
  ELSE Transfer(l, tx, base_fee)

\* The gas of the first transactions of a block, by their number.
GasOf(b) ==
  LET gas[i \in 0..Len(b.transactions)] ==
        IF i = 0 THEN 0 ELSE gas[i - 1] + b.transactions[i].gas_limit
  IN gas

\* The ledger after the first transactions of a block, by their number.
LedgersOf(l, b) ==
  LET after[i \in 0..Len(b.transactions)] ==
        IF i = 0 THEN l
        ELSE ApplyTx(after[i - 1], b.transactions[i], b.header.gas_limit \div 2)
  IN after

ApplyBlock(l, b) ==
  IF GasOf(b)[Len(b.transactions)] > MAX_U64 THEN Rejected
  ELSE LedgersOf(l, b)[Len(b.transactions)]

LedgerInit == ledger = GenesisAccounts

LedgerNext ==
  \E b \in Block : /\ ApplyBlock(ledger, b) # Rejected
                   /\ ledger' = ApplyBlock(ledger, b)

LedgerSpec == LedgerInit /\ [][LedgerNext]_ledger

=============================================================================
