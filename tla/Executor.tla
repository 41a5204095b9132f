------------------------------ MODULE Executor ------------------------------
(***************************************************************************)
(* ValueTransferExecutor::execute (core/execution/src/executor.rs).        *)
(*                                                                         *)
(* The loop over the transactions of a block is a state machine with two   *)
(* steps per transaction, one for each account it writes: Debit charges    *)
(* the sender, Credit pays the recipient and appends the receipt.  Every   *)
(* early return leaves the loop with the error in `result'.                *)
(***************************************************************************)
EXTENDS Provider

VARIABLES
  phase,                \* where the executor is
  block,                \* the block being executed
  receipts,             \* receipts of the transactions executed so far
  cumulative_gas_used,
  result                \* "none" while running, then "Ok" or the error

execVars == <<phase, block, receipts, cumulative_gas_used, result>>

Phase == {"idle", "debit", "credit", "done", "failed", "panicked"}

Receipt == [tx : Transaction, effective_gas_price : 0..MAX_U128,
            gas_used : 0..MAX_U64, cumulative_gas_used : 0..MAX_U64]

base_fee_per_gas == block.header.gas_limit \div 2

\* The loop variable: one receipt is pushed per transaction.
signed_tx == block.transactions[Len(receipts) + 1]

charge(tx, base_fee) ==
  effective_gas_price(tx, base_fee) * tx.gas_limit + tx.value

\* Plausible bugs of the checks: only a nonce from the future is refused, the
\* worst case cost is not compared or compared with >=, the last nonce is
\* not seen to overflow.
debit_error_past_nonce(tx, base_fee) ==
  LET account == state[tx.sender]
  IN  IF account = NoAccount THEN "AccountNotFound"
      ELSE IF tx.nonce > account.nonce THEN "InvalidNonce"
      ELSE IF max_cost(tx) > account.balance THEN "InsufficientBalance"
      ELSE effective_gas_price_error(tx, base_fee)

debit_error_no_max_cost(tx, base_fee) ==
  LET account == state[tx.sender]
  IN  IF account = NoAccount THEN "AccountNotFound"
      ELSE IF tx.nonce # account.nonce THEN "InvalidNonce"
      ELSE IF effective_gas_price_error(tx, base_fee) # "Ok"
           THEN effective_gas_price_error(tx, base_fee)
      ELSE IF charge(tx, base_fee) > account.balance THEN "Underflow"
      ELSE IF account.nonce + 1 > MAX_U64 THEN "Overflow"
      ELSE "Ok"

debit_error_max_cost_reached(tx, base_fee) ==
  LET account == state[tx.sender]
  IN  IF account = NoAccount THEN "AccountNotFound"
      ELSE IF tx.nonce # account.nonce THEN "InvalidNonce"
      ELSE IF max_cost(tx) >= account.balance THEN "InsufficientBalance"
      ELSE IF effective_gas_price_error(tx, base_fee) # "Ok"
           THEN effective_gas_price_error(tx, base_fee)
      ELSE IF account.nonce + 1 > MAX_U64 THEN "Overflow"
      ELSE "Ok"

debit_error_last_nonce(tx, base_fee) ==
  LET account == state[tx.sender]
  IN  IF account = NoAccount THEN "AccountNotFound"
      ELSE IF tx.nonce # account.nonce THEN "InvalidNonce"
      ELSE IF max_cost(tx) > account.balance THEN "InsufficientBalance"
      ELSE effective_gas_price_error(tx, base_fee)

\* The first check of the sender's side that fails, in the order of the code.
debit_error(tx, base_fee) ==
  LET account == state[tx.sender]
  IN  IF account = NoAccount THEN "AccountNotFound"
      ELSE IF tx.nonce # account.nonce THEN "InvalidNonce"
      ELSE IF max_cost(tx) > MAX_U128 THEN "Overflow"
      ELSE IF max_cost(tx) > account.balance THEN "InsufficientBalance"
      ELSE IF effective_gas_price_error(tx, base_fee) # "Ok"
           THEN effective_gas_price_error(tx, base_fee)
      ELSE IF charge(tx, base_fee) > MAX_U128 THEN "Overflow"
      ELSE IF charge(tx, base_fee) > account.balance THEN "Underflow"
      ELSE IF account.nonce + 1 > MAX_U64 THEN "Overflow"
      ELSE "Ok"

Fail(error) ==
  /\ result' = error
  /\ phase' = "failed"
  /\ UNCHANGED <<block, receipts, cumulative_gas_used>>

-----------------------------------------------------------------------------
DebitFails ==
  /\ phase = "debit"
  /\ debit_error(signed_tx, base_fee_per_gas) # "Ok"
  /\ Fail(debit_error(signed_tx, base_fee_per_gas))
  /\ UNCHANGED stateVars

Debit ==
  /\ phase = "debit"
  /\ debit_error(signed_tx, base_fee_per_gas) = "Ok"
  /\ LET sender == signed_tx.sender
     IN set_account(sender,
          [balance |-> state[sender].balance - charge(signed_tx, base_fee_per_gas),
           nonce   |-> state[sender].nonce + 1])
  /\ phase' = "credit"
  /\ UNCHANGED <<block, receipts, cumulative_gas_used, result>>

\* `to: None' reaches todo!(): the task unwinds with the journal open.
CreditPanics ==
  /\ phase = "credit"
  /\ signed_tx.to = NoAddress
  /\ phase' = "panicked"
  /\ UNCHANGED <<block, receipts, cumulative_gas_used, result, state, journal>>

\* Plausible bug: the recipient is read before the sender was charged.
recipient_stale ==
  IF PreState[signed_tx.to] = NoAccount
  THEN DefaultAccount ELSE PreState[signed_tx.to]

recipient ==
  IF state[signed_tx.to] = NoAccount THEN DefaultAccount ELSE state[signed_tx.to]

CreditFails ==
  /\ phase = "credit"
  /\ signed_tx.to # NoAddress
  /\ recipient.balance + signed_tx.value > MAX_U128
  /\ Fail("Overflow")
  /\ UNCHANGED stateVars

\* The gas counter is checked after the recipient has been written.
Credit ==
  /\ phase = "credit"
  /\ signed_tx.to # NoAddress
  /\ recipient.balance + signed_tx.value <= MAX_U128
  /\ set_account(signed_tx.to,
                 [recipient EXCEPT !.balance = @ + signed_tx.value])
  /\ LET gas == cumulative_gas_used + signed_tx.gas_limit
     IN IF gas > MAX_U64
        THEN Fail("Overflow")
        ELSE /\ cumulative_gas_used' = gas
             /\ receipts' = Append(receipts,
                  [tx |-> signed_tx,
                   effective_gas_price |->
                     effective_gas_price(signed_tx, base_fee_per_gas),
                   gas_used |-> signed_tx.gas_limit,
                   cumulative_gas_used |-> gas])
             /\ phase' = IF Len(receipts') < Len(block.transactions)
                         THEN "debit" ELSE "done"
             /\ UNCHANGED <<block, result>>

ExecutorStep == DebitFails \/ Debit \/ CreditPanics \/ CreditFails \/ Credit

=============================================================================
