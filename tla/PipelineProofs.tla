--------------------------- MODULE PipelineProofs ---------------------------
(***************************************************************************)
(* Type correctness of the pipeline, that a charge never underflows and    *)
(* that blocks are committed whole, for all addresses, blocks and widths.  *)
(***************************************************************************)
EXTENDS Pipeline, TLAPS

\* The loop of the executor: there is a transaction to work on while it runs,
\* every transaction has its receipt when it ends, and all senders are known.
LoopOK ==
  /\ senders_recovered(block)
  /\ phase \in {"debit", "credit"} => Len(receipts) < Len(block.transactions)
  /\ phase = "done" => Len(receipts) = Len(block.transactions)

\* The inductive invariant of the pipeline.
PipelineInv == PipelineTypeOK /\ LoopOK /\ NoUnderflow

-----------------------------------------------------------------------------
\* The account states.
Accounts == [Address -> Account \cup {NoAccount}]

\* What a rollback restores is an account state.
LEMMA PreStateType ==
  ASSUME PipelineTypeOK
  PROVE  PreState \in Accounts
<1>1. /\ state \in Accounts
      /\ journal.accounts \in [Address -> Account \cup {NoAccount, Unsaved}]
  BY DEF PipelineTypeOK, Accounts
<1> QED BY <1>1 DEF PreState, Accounts

\* Products of naturals are natural and grow with a factor.
LEMMA Product ==
  ASSUME NEW p \in Nat, NEW q \in Nat, NEW g \in Nat, p <= q
  PROVE  p * g \in Nat /\ p * g <= q * g
<1>1. \A x, y \in Nat : x * y \in Nat
  OBVIOUS
<1>2. PICK d \in Nat : q = p + d
  <2>1. q - p \in Nat /\ q = p + (q - p)
    OBVIOUS
  <2> QED BY <2>1
<1>3. q * g = p * g + d * g
  BY <1>2
<1> QED BY <1>1, <1>3

\* The fields of a block are those of its type.
LEMMA BlockFields ==
  ASSUME NEW b \in Block
  PROVE  /\ b.header \in Header
         /\ b.header.gas_limit \in 0..MAX_U64 /\ b.header.gas_used \in 0..MAX_U64
         /\ b.header.number \in Nat /\ b.header.timestamp \in Nat
         /\ b.transactions \in Seq(Transaction)
<1>1. b \in BlockType
  BY BlockAssumption
<1> QED BY <1>1 DEF BlockType, Header

\* effective_gas_price is at most the fee cap, so the charge of a transaction
\* is natural and at most its max_cost.
LEMMA ChargeBounded ==
  ASSUME NEW tx \in Transaction, NEW base_fee \in Nat,
         effective_gas_price_error(tx, base_fee) = "Ok"
  PROVE  /\ effective_gas_price(tx, base_fee) \in 0..tx.fee_cap
         /\ charge(tx, base_fee) \in Nat
         /\ charge(tx, base_fee) <= max_cost(tx)
<1>1. /\ tx.fee_cap \in Nat /\ tx.priority \in Nat /\ tx.gas_limit \in Nat
      /\ tx.value \in Nat
  BY BoundsAssumption DEF Transaction
<1>2. effective_gas_price(tx, base_fee) \in 0..tx.fee_cap
  BY <1>1 DEF effective_gas_price, effective_gas_price_error
<1> DEFINE p == effective_gas_price(tx, base_fee)
<1>3. p \in Nat /\ p <= tx.fee_cap
  BY <1>1, <1>2
<1> HIDE DEF p
<1>4. p * tx.gas_limit \in Nat /\ p * tx.gas_limit <= tx.fee_cap * tx.gas_limit
  BY <1>1, <1>3, Product
<1>5. tx.fee_cap * tx.gas_limit \in Nat
  BY <1>1, Product
<1>6. charge(tx, base_fee) = p * tx.gas_limit + tx.value
  BY DEF charge, p
<1> QED BY <1>1, <1>2, <1>4, <1>5, <1>6 DEF max_cost

\* The sender's checks never end in Underflow, and a transaction that passes
\* them can be charged.
LEMMA DebitError ==
  ASSUME NEW tx \in Transaction, NEW base_fee \in Nat, tx.sender \in Address,
         state \in [Address -> Account \cup {NoAccount}]
  PROVE  /\ debit_error(tx, base_fee) \in ExecResult \ {"Underflow"}
         /\ debit_error(tx, base_fee) = "Ok" =>
              /\ state[tx.sender] \in Account
              /\ tx.nonce = state[tx.sender].nonce
              /\ tx.nonce + 1 <= MAX_U64
              /\ effective_gas_price(tx, base_fee) \in 0..MAX_U128
              /\ charge(tx, base_fee) \in 0..state[tx.sender].balance
<1> DEFINE account == state[tx.sender]
           price_error == effective_gas_price_error(tx, base_fee)
           cost == charge(tx, base_fee)
           e == debit_error(tx, base_fee)
<1>1. price_error \in {"Ok", "InsufficientMaxFee", "Overflow"}
  BY DEF effective_gas_price_error
<1>2. account # NoAccount => account \in Account /\ account.balance \in Nat
  BY BoundsAssumption DEF Account
<1>3. tx.fee_cap \in 0..MAX_U128 /\ tx.fee_cap \in Nat
  BY BoundsAssumption DEF Transaction
<1>4. price_error = "Ok" =>
        /\ effective_gas_price(tx, base_fee) \in 0..tx.fee_cap
        /\ cost \in Nat /\ cost <= max_cost(tx)
  BY ChargeBounded
<1>5. max_cost(tx) \in Nat
  <2>1. tx.fee_cap \in Nat /\ tx.gas_limit \in Nat /\ tx.value \in Nat
    BY BoundsAssumption DEF Transaction
  <2> QED BY <2>1, Product DEF max_cost
<1>6. e = IF account = NoAccount THEN "AccountNotFound"
          ELSE IF tx.nonce # account.nonce THEN "InvalidNonce"
          ELSE IF max_cost(tx) > MAX_U128 THEN "Overflow"
          ELSE IF max_cost(tx) > account.balance THEN "InsufficientBalance"
          ELSE IF price_error # "Ok" THEN price_error
          ELSE IF cost > MAX_U128 THEN "Overflow"
          ELSE IF cost > account.balance THEN "Underflow"
          ELSE IF account.nonce + 1 > MAX_U64 THEN "Overflow"
          ELSE "Ok"
  BY DEF debit_error
<1> HIDE DEF account, price_error, cost, e
<1>7. e \in ExecResult \ {"Underflow"}
  BY <1>1, <1>2, <1>4, <1>5, <1>6 DEF ExecResult
<1>8. e = "Ok" =>
        /\ account \in Account
        /\ tx.nonce = account.nonce
        /\ tx.nonce + 1 <= MAX_U64
        /\ effective_gas_price(tx, base_fee) \in 0..MAX_U128
        /\ cost \in 0..account.balance
  <2>1. ASSUME e = "Ok"
        PROVE  /\ account # NoAccount /\ tx.nonce = account.nonce
               /\ max_cost(tx) <= account.balance
               /\ price_error = "Ok" /\ ~(account.nonce + 1 > MAX_U64)
    BY <2>1, <1>1, <1>2, <1>5, <1>6
  <2>2. account # NoAccount => account.nonce \in Nat
    BY <1>2, BoundsAssumption DEF Account
  <2> QED BY <2>1, <2>2, <1>2, <1>3, <1>4, <1>5, BoundsAssumption
<1> QED BY <1>7, <1>8 DEF account, cost, e

\* The transaction the executor works on.
LEMMA RunningTx ==
  ASSUME PipelineInv, phase \in {"debit", "credit"}
  PROVE  /\ signed_tx \in Transaction
         /\ signed_tx.sender \in Address
         /\ signed_tx.gas_limit \in 0..MAX_U64 /\ signed_tx.value \in 0..MAX_U128
         /\ signed_tx.nonce \in 0..MAX_U64
         /\ signed_tx.to \in Address \cup {NoAddress}
         /\ base_fee_per_gas \in Nat
<1>1. block \in Block /\ receipts \in Seq(Receipt)
  BY DEF PipelineInv, PipelineTypeOK
<1>2. /\ block.transactions \in Seq(Transaction)
      /\ block.header.gas_limit \in 0..MAX_U64
  BY <1>1, BlockFields
<1>3. Len(receipts) + 1 \in DOMAIN block.transactions
  BY <1>1, <1>2 DEF PipelineInv, LoopOK
<1>4. signed_tx \in Transaction
  BY <1>2, <1>3 DEF signed_tx
<1>5. signed_tx.sender # NoAddress
  BY <1>3 DEF PipelineInv, LoopOK, senders_recovered, signed_tx
<1>6. base_fee_per_gas \in Nat
  BY <1>2, BoundsAssumption DEF base_fee_per_gas
<1> QED BY <1>4, <1>5, <1>6 DEF Transaction

JournalType == [open : BOOLEAN,
                accounts : [Address -> Account \cup {NoAccount, Unsaved}]]

\* set_account keeps the types and what a rollback would restore.
LEMMA SetAccount ==
  ASSUME state \in [Address -> Account \cup {NoAccount}], journal \in JournalType,
         journal.open,
         NEW address \in Address, NEW info \in Account,
         set_account(address, info)
  PROVE  /\ state' \in [Address -> Account \cup {NoAccount}]
         /\ journal' \in JournalType
         /\ journal'.open
         /\ PreState' = PreState
<1>1. state' = [state EXCEPT ![address] = info]
  BY DEF set_account
<1>2. state' \in [Address -> Account \cup {NoAccount}]
  BY <1>1
<1>3. CASE journal.accounts[address] = Unsaved
  <2>1. journal' = [journal EXCEPT !.accounts[address] = state[address]]
    BY <1>3 DEF set_account
  <2>2. journal' \in JournalType /\ journal'.open
    BY <2>1 DEF JournalType
  <2>3. journal'.accounts = [journal.accounts EXCEPT ![address] = state[address]]
    BY <2>1 DEF JournalType
  <2>4. state[address] # Unsaved
    BY SentinelAssumption
  <2>5. PreState' = PreState
    BY <1>1, <1>3, <2>2, <2>3, <2>4 DEF PreState, JournalType
  <2> QED BY <1>2, <2>2, <2>5
<1>4. CASE journal.accounts[address] # Unsaved
  <2>1. journal' = journal
    BY <1>4 DEF set_account
  <2>2. PreState' = PreState
    BY <1>1, <1>4, <2>1 DEF PreState
  <2> QED BY <1>2, <2>1, <2>2
<1> QED BY <1>3, <1>4

\* Leaving the loop with an error other than Underflow.
LEMMA FailStep ==
  ASSUME PipelineInv, journal.open, phase \in {"debit", "credit"},
         NEW error \in ExecResult, error # "Underflow", Fail(error),
         state' \in [Address -> Account \cup {NoAccount}],
         journal' \in JournalType, journal'.open
  PROVE  PipelineInv'
  BY DEF PipelineInv, PipelineTypeOK, LoopOK, NoUnderflow, Fail, JournalType,
         Phase, senders_recovered

\* A step of the executor keeps the invariant and what a rollback restores.
LEMMA ExecutorStepOK ==
  ASSUME PipelineInv, ExecutorStep
  PROVE  PipelineInv' /\ PreState' = PreState
<1> USE DEF JournalType
<1>1. phase \in {"debit", "credit"} /\ journal.open
  BY DEF ExecutorStep, DebitFails, Debit, CreditPanics, CreditFails, Credit,
         PipelineInv, PipelineTypeOK
<1>2. /\ state \in [Address -> Account \cup {NoAccount}]
      /\ journal \in JournalType
      /\ cumulative_gas_used \in 0..MAX_U64
      /\ receipts \in Seq(Receipt)
  BY DEF PipelineInv, PipelineTypeOK
<1>3. /\ signed_tx \in Transaction
      /\ signed_tx.sender \in Address
      /\ signed_tx.gas_limit \in 0..MAX_U64 /\ signed_tx.value \in 0..MAX_U128
      /\ signed_tx.nonce \in 0..MAX_U64
      /\ signed_tx.to \in Address \cup {NoAddress}
      /\ base_fee_per_gas \in Nat
  BY <1>1, RunningTx
<1>4. CASE DebitFails
  <2>1. debit_error(signed_tx, base_fee_per_gas) \in ExecResult \ {"Underflow"}
    BY <1>2, <1>3, DebitError
  <2>2. UNCHANGED <<state, journal>>
    BY <1>4 DEF DebitFails, stateVars
  <2>3. PreState' = PreState
    BY <2>2 DEF PreState
  <2> QED BY <1>1, <1>2, <1>4, <2>1, <2>2, <2>3, FailStep DEF DebitFails
<1>5. CASE Debit
  <2> DEFINE sender == signed_tx.sender
             info == [balance |-> state[sender].balance
                                    - charge(signed_tx, base_fee_per_gas),
                      nonce   |-> state[sender].nonce + 1]
  <2>1. /\ state[sender] \in Account
        /\ state[sender].nonce + 1 <= MAX_U64
        /\ charge(signed_tx, base_fee_per_gas) \in 0..state[sender].balance
    BY <1>2, <1>3, <1>5, DebitError, Zenon DEF Debit
  <2>2. info \in Account
    BY <2>1, BoundsAssumption DEF Account
  <2>3. set_account(sender, info)
    BY <1>5 DEF Debit
  <2> HIDE DEF info
  <2>4. /\ state' \in [Address -> Account \cup {NoAccount}]
        /\ journal' \in JournalType /\ journal'.open
        /\ PreState' = PreState
    BY <1>1, <1>2, <1>3, <2>2, <2>3, SetAccount
  <2> QED BY <1>5, <2>4 DEF Debit, PipelineInv, PipelineTypeOK, LoopOK,
             NoUnderflow, Phase, senders_recovered
<1>6. CASE CreditPanics
  <2>1. PreState' = PreState
    BY <1>6 DEF CreditPanics, PreState
  <2> QED BY <1>6, <2>1 DEF CreditPanics, PipelineInv, PipelineTypeOK, LoopOK,
             NoUnderflow, Phase, senders_recovered
<1>7. CASE CreditFails
  <2>1. UNCHANGED <<state, journal>>
    BY <1>7 DEF CreditFails, stateVars
  <2>2. PreState' = PreState
    BY <2>1 DEF PreState
  <2>3. "Overflow" \in ExecResult
    BY DEF ExecResult
  <2> QED BY <1>1, <1>2, <1>7, <2>1, <2>2, <2>3, FailStep DEF CreditFails
<1>8. CASE Credit
  <2> DEFINE info == [recipient EXCEPT !.balance = @ + signed_tx.value]
             gas == cumulative_gas_used + signed_tx.gas_limit
             receipt == [tx |-> signed_tx,
                         effective_gas_price |->
                           effective_gas_price(signed_tx, base_fee_per_gas),
                         gas_used |-> signed_tx.gas_limit,
                         cumulative_gas_used |-> gas]
  <2>1. signed_tx.to \in Address
    BY <1>3, <1>8 DEF Credit
  <2>2. recipient \in Account
    BY <1>2, <2>1, BoundsAssumption DEF recipient, DefaultAccount, Account
  <2>3. info \in Account
    BY <1>3, <1>8, <2>2, BoundsAssumption DEF Credit, Account
  <2>4. set_account(signed_tx.to, info)
    BY <1>8 DEF Credit
  <2>5. /\ state' \in [Address -> Account \cup {NoAccount}]
        /\ journal' \in JournalType /\ journal'.open
        /\ PreState' = PreState
    <3> HIDE DEF info
    <3> QED BY <1>1, <1>2, <2>1, <2>3, <2>4, SetAccount
  <2>6. CASE gas > MAX_U64
    <3>1. Fail("Overflow")
      BY <1>8, <2>6 DEF Credit
    <3>2. "Overflow" \in ExecResult
      BY DEF ExecResult
    <3> QED BY <1>1, <2>5, <3>1, <3>2, FailStep
  <2>7. CASE ~(gas > MAX_U64)
    <3>1. /\ cumulative_gas_used' = gas
          /\ receipts' = Append(receipts, receipt)
          /\ phase' = IF Len(receipts') < Len(block.transactions)
                      THEN "debit" ELSE "done"
          /\ block' = block /\ result' = result
      BY <1>8, <2>7 DEF Credit
    <3>2. gas \in 0..MAX_U64
      BY <1>2, <1>3, <2>7, BoundsAssumption
    <3>3. effective_gas_price(signed_tx, base_fee_per_gas) \in 0..MAX_U128
      BY <1>3, BoundsAssumption DEF effective_gas_price, Transaction
    <3>4. receipt \in Receipt
      BY <1>3, <3>2, <3>3 DEF Receipt
    <3> HIDE DEF receipt, gas
    <3>5. receipts' \in Seq(Receipt) /\ Len(receipts') = Len(receipts) + 1
      BY <1>2, <3>1, <3>4
    <3>6. block.transactions \in Seq(Transaction)
      BY BlockFields DEF PipelineInv, PipelineTypeOK
    <3>7. Len(receipts) < Len(block.transactions)
      BY <1>1 DEF PipelineInv, LoopOK
    <3>8. LoopOK'
      BY <1>2, <3>1, <3>5, <3>6, <3>7
         DEF PipelineInv, LoopOK, senders_recovered
    <3>9. PipelineTypeOK'
      BY <2>5, <3>1, <3>2, <3>5 DEF PipelineInv, PipelineTypeOK, Phase
    <3> QED BY <2>5, <3>1, <3>8, <3>9 DEF PipelineInv, NoUnderflow
  <2> QED BY <2>6, <2>7
<1> QED BY <1>4, <1>5, <1>6, <1>7, <1>8 DEF ExecutorStep

-----------------------------------------------------------------------------
\* execute opens the journal with nothing saved.
LEMMA StartExecuteOK ==
  ASSUME PipelineInv, NEW b \in Block, senders_recovered(b), StartExecute(b)
  PROVE  PipelineInv' /\ PreState' = PreState
<1>1. /\ journal \in JournalType /\ ~journal.open
      /\ state \in [Address -> Account \cup {NoAccount}]
      /\ state' = state
      /\ journal' = [open |-> TRUE, accounts |-> [a \in Address |-> Unsaved]]
  BY ZenonT(30) DEF StartExecute, begin_journal, NoJournal, PipelineInv, PipelineTypeOK,
         JournalType
<1>2. PreState' = PreState
  BY <1>1 DEF PreState
<1>3. b.transactions \in Seq(Transaction)
  BY BlockFields
<1>4. /\ block' = b /\ receipts' = << >> /\ cumulative_gas_used' = 0
      /\ result' = "none"
      /\ phase' = IF b.transactions = << >> THEN "done" ELSE "debit"
  BY DEF StartExecute
<1>5. LoopOK'
  <2>1. senders_recovered(b)'
    BY DEF senders_recovered
  <2>2. Len(receipts') = 0
    BY <1>4
  <2>3. IF b.transactions = << >> THEN Len(b.transactions) = 0
                                 ELSE Len(b.transactions) > 0
    BY <1>3
  <2> QED BY <1>4, <2>1, <2>2, <2>3 DEF LoopOK, senders_recovered
<1>6. PipelineTypeOK'
  BY <1>1, <1>4, BoundsAssumption DEF PipelineTypeOK, Phase, ExecResult
<1> QED BY <1>2, <1>4, <1>5, <1>6 DEF PipelineInv, NoUnderflow

\* execute refuses a block and leaves the accounts alone.
LEMMA RefuseExecuteOK ==
  ASSUME PipelineInv, NEW b \in Block, RefuseExecute(b)
  PROVE  PipelineInv' /\ PreState' = PreState
<1>1. execute_error(b) \in ExecResult \ {"Underflow"}
  BY DEF execute_error, validate_header, validate_body, ExecResult
<1>2. PreState' = PreState
  BY DEF RefuseExecute, stateVars, PreState
<1> QED BY <1>1, <1>2 DEF RefuseExecute, stateVars, PipelineInv, PipelineTypeOK,
           LoopOK, NoUnderflow, senders_recovered

\* What Return establishes.
LEMMA ReturnOK ==
  ASSUME NEW outcome \in ExecResult \ {"Underflow"}, Return(outcome),
         state' \in [Address -> Account \cup {NoAccount}], journal' = NoJournal
  PROVE  PipelineInv'
<1>1. Genesis \in Block /\ Genesis.transactions = << >>
  BY GenesisAssumption
<1>2. journal' \in JournalType /\ ~journal'.open
  BY DEF NoJournal, JournalType
<1>3. LoopOK'
  BY <1>1 DEF Return, LoopOK, senders_recovered
<1> QED BY <1>1, <1>2, <1>3, BoundsAssumption
        DEF Return, PipelineInv, PipelineTypeOK, NoUnderflow, Phase, JournalType

\* A finished block is committed with a receipt for every transaction.
LEMMA FinishExecuteOK ==
  ASSUME PipelineInv, FinishExecute
  PROVE  /\ PipelineInv'
         /\ PreState' = state
         /\ Len(receipts) = Len(block.transactions)
<1>1. /\ state' = state /\ journal' = NoJournal /\ Return("Ok")
      /\ state \in [Address -> Account \cup {NoAccount}]
  BY DEF FinishExecute, commit_journal, PipelineInv, PipelineTypeOK
<1>2. PreState' = state
  BY <1>1 DEF PreState, NoJournal
<1>3. "Ok" \in ExecResult \ {"Underflow"}
  BY DEF ExecResult
<1> QED BY <1>1, <1>2, <1>3, ReturnOK DEF FinishExecute, PipelineInv, LoopOK

\* A failed block is rolled back to the state before it.
LEMMA AbortExecuteOK ==
  ASSUME PipelineInv, AbortExecute
  PROVE  PipelineInv' /\ PreState' = PreState /\ state' = PreState
<1>1. state' = PreState /\ journal' = NoJournal /\ Return(result)
  BY DEF AbortExecute, rollback_journal, PreState
<1>2. PreState \in [Address -> Account \cup {NoAccount}]
  BY DEF PreState, PipelineInv, PipelineTypeOK
<1>3. PreState' = state'
  BY <1>1, <1>2 DEF PreState, NoJournal
<1>4. result \in ExecResult \ {"Underflow"}
  BY DEF PipelineInv, PipelineTypeOK, NoUnderflow
<1> QED BY <1>1, <1>2, <1>3, <1>4, ReturnOK

-----------------------------------------------------------------------------
\* The initial states satisfy the invariant.
LEMMA PipelineInitOK == PipelineInit => PipelineInv
<1> SUFFICES ASSUME PipelineInit PROVE PipelineInv
  OBVIOUS
<1>1. Genesis \in Block /\ Genesis.transactions = << >>
  BY GenesisAssumption
<1>2. journal \in JournalType /\ ~journal.open
  BY DEF PipelineInit, ProviderInit, NoJournal, JournalType
<1>3. LoopOK
  BY <1>1 DEF PipelineInit, LoopOK, senders_recovered
<1> QED BY <1>1, <1>2, <1>3, BoundsAssumption, PipelineAssumption
        DEF PipelineInit, ProviderInit, PipelineInv, PipelineTypeOK, NoUnderflow,
            Phase, ExecResult, JournalType

\* A step of the pipeline keeps the invariant and commits whole blocks only.
LEMMA PipelineStepOK ==
  ASSUME PipelineInv, [PipelineNext]_pipelineVars
  PROVE  /\ PipelineInv'
         /\ \/ PreState' = PreState
            \/ /\ phase = "done" /\ result' = "Ok"
               /\ Len(receipts) = Len(block.transactions)
               /\ PreState' = state
<1>1. CASE \E b \in Block : senders_recovered(b)
                              /\ (StartExecute(b) \/ RefuseExecute(b))
  BY <1>1, StartExecuteOK, RefuseExecuteOK
<1>2. CASE ExecutorStep
  BY <1>2, ExecutorStepOK
<1>3. CASE FinishExecute
  BY <1>3, FinishExecuteOK DEF FinishExecute, Return
<1>4. CASE AbortExecute
  BY <1>4, AbortExecuteOK
<1>5. CASE UNCHANGED <<stateVars, execVars>>
  <2>1. PreState' = PreState
    BY <1>5 DEF stateVars, PreState
  <2> QED BY <1>5, <2>1 DEF stateVars, execVars, PipelineInv, PipelineTypeOK,
             LoopOK, NoUnderflow, senders_recovered
<1> QED BY <1>1, <1>2, <1>3, <1>4, <1>5
        DEF PipelineNext, Unwound, pipelineVars

\* The invariant is inductive.
THEOREM PipelineInvariant == PipelineSpec => []PipelineInv
<1>1. PipelineInv /\ [PipelineNext]_pipelineVars => PipelineInv'
  BY PipelineStepOK
<1> QED BY <1>1, PipelineInitOK, PTL DEF PipelineSpec

\* The pipeline's state keeps its types and the journal is open exactly while
\* a block is executed: begin_journal never fails.
THEOREM PipelineTypeCorrect == PipelineSpec => []PipelineTypeOK
BY PipelineInvariant, PTL DEF PipelineInv

\* The checked_sub of the executor never fails.
THEOREM ChargeNeverUnderflows == PipelineSpec => []NoUnderflow
BY PipelineInvariant, PTL DEF PipelineInv

\* Execution is all or nothing, whatever the block and wherever it fails.
THEOREM ExecutionAtomic == PipelineSpec => CommitsWholeBlocks
<1>1. PipelineInv /\ [PipelineNext]_pipelineVars =>
        [\/ PreState' = PreState
         \/ /\ phase = "done" /\ result' = "Ok"
            /\ Len(receipts) = Len(block.transactions)
            /\ PreState' = state]_pipelineVars
  BY PipelineStepOK
<1> QED BY <1>1, PipelineInvariant, PTL DEF PipelineSpec, CommitsWholeBlocks

-----------------------------------------------------------------------------
\* The transactions of the running block that have been charged.
Charged ==
  CASE phase = "credit"            -> 1..(Len(receipts) + 1)
    [] phase \in {"debit", "done"} -> 1..Len(receipts)
    [] OTHER                       -> {}

\* `account' is one that has used `nonce'.
Used(account, nonce) == account # NoAccount /\ nonce < account.nonce

\* A nonce of the chain is used, a nonce of the running block is used now and
\* was not at the start of the block; nonces only grow.
NonceOK ==
  /\ \A a \in Address : PreState[a] # NoAccount =>
       state[a] # NoAccount /\ PreState[a].nonce <= state[a].nonce
  /\ \A t \in DOMAIN transactions :
       /\ t.nonce \in Nat /\ t.sender \in Address
       /\ Used(PreState[t.sender], t.nonce)
  /\ \A i \in Charged :
       LET t == block.transactions[i]
       IN  Used(state[t.sender], t.nonce) /\ ~Used(PreState[t.sender], t.nonce)

\* A transaction of the running block.
LEMMA BodyTx ==
  ASSUME PipelineInv, NEW i \in DOMAIN block.transactions
  PROVE  /\ block.transactions[i] \in Transaction
         /\ block.transactions[i].sender \in Address
         /\ block.transactions[i].nonce \in Nat
<1>1. block.transactions \in Seq(Transaction)
  BY BlockFields DEF PipelineInv, PipelineTypeOK
<1>2. block.transactions[i].sender # NoAddress
  BY DEF PipelineInv, LoopOK, senders_recovered
<1>3. block.transactions[i] \in Transaction
  BY <1>1
<1> QED BY <1>2, <1>3, BoundsAssumption DEF Transaction

\* The charged transactions are among those of the block; at the end they are
\* all of them.
LEMMA ChargedTxs ==
  ASSUME PipelineInv
  PROVE  /\ Charged \subseteq DOMAIN block.transactions
         /\ phase = "done" => Charged = DOMAIN block.transactions
<1>1. block.transactions \in Seq(Transaction) /\ receipts \in Seq(Receipt)
  BY BlockFields DEF PipelineInv, PipelineTypeOK
<1>2. /\ DOMAIN block.transactions = 1..Len(block.transactions)
      /\ Len(block.transactions) \in Nat /\ Len(receipts) \in Nat
  BY <1>1
<1> DEFINE n == Len(receipts)
           N == Len(block.transactions)
<1>3. /\ phase \in {"debit", "credit"} => n < N
      /\ phase = "done" => n = N
  BY DEF PipelineInv, LoopOK
<1>4. /\ phase = "credit" => Charged = 1..(n + 1)
      /\ phase \in {"debit", "done"} => Charged = 1..n
      /\ phase \notin {"debit", "credit", "done"} => Charged = {}
  BY DEF Charged
<1> HIDE DEF n, N
<1>5. n \in Nat /\ N \in Nat /\ DOMAIN block.transactions = 1..N
  BY <1>2, Zenon DEF n, N
<1> QED BY <1>3, <1>4, <1>5

\* Writing an account whose nonce does not shrink.
LEMMA NonceWrite ==
  ASSUME PipelineInv, NonceOK, PreState' = PreState,
         UNCHANGED <<transactions, block>>,
         NEW a \in Address, NEW info \in Account,
         state' = [state EXCEPT ![a] = info],
         state[a] # NoAccount => state[a].nonce <= info.nonce,
         \A i \in Charged' \ Charged :
           LET t == block.transactions[i]
           IN  /\ Used(state'[t.sender], t.nonce)
               /\ ~Used(PreState[t.sender], t.nonce)
  PROVE  NonceOK'
<1>1. state \in Accounts /\ PreState \in Accounts /\ info.nonce \in Nat
  BY PreStateType, BoundsAssumption
     DEF PipelineInv, PipelineTypeOK, Accounts, Account
<1>2. \A x \in Account : x.nonce \in Nat
  BY BoundsAssumption DEF Account
<1>3. info # NoAccount
  BY SentinelAssumption, Zenon
<1>4. \A b \in Address :
        /\ state'[b] = IF b = a THEN info ELSE state[b]
        /\ state[b] # NoAccount =>
             /\ state'[b] # NoAccount /\ state[b].nonce <= state'[b].nonce
             /\ state[b].nonce \in Nat /\ state'[b].nonce \in Nat
        /\ PreState[b] # NoAccount => PreState[b].nonce \in Nat
  BY <1>1, <1>2, <1>3 DEF Accounts
<1>5. \A b \in Address : PreState'[b] # NoAccount =>
        state'[b] # NoAccount /\ PreState'[b].nonce <= state'[b].nonce
  <2>1. \A b \in Address : PreState[b] # NoAccount =>
          state[b] # NoAccount /\ PreState[b].nonce <= state[b].nonce
    BY Zenon DEF NonceOK
  <2> QED BY <1>4, <2>1
<1>6. \A t \in DOMAIN transactions' :
        /\ t.nonce \in Nat /\ t.sender \in Address
        /\ Used(PreState'[t.sender], t.nonce)
  BY Zenon DEF NonceOK
<1>7. ASSUME NEW i \in Charged'
      PROVE  LET t == block'.transactions[i]
             IN  /\ Used(state'[t.sender], t.nonce)
                 /\ ~Used(PreState'[t.sender], t.nonce)
  <2> DEFINE t == block.transactions[i]
  <2>1. CASE i \in Charged
    <3>0. t.sender \in Address /\ t.nonce \in Nat
      BY <2>1, ChargedTxs, BodyTx, Zenon
    <3>1. Used(state[t.sender], t.nonce) /\ ~Used(PreState[t.sender], t.nonce)
      BY <2>1, Zenon DEF NonceOK
    <3> HIDE DEF t
    <3>2. Used(state'[t.sender], t.nonce)
      BY <1>4, <3>0, <3>1 DEF Used
    <3> QED BY <3>1, <3>2, Zenon DEF t
  <2>2. CASE i \notin Charged
    BY <2>2
  <2> QED BY <2>1, <2>2, Zenon
<1> QED BY <1>5, <1>6, <1>7, Zenon DEF NonceOK

\* The nonces through a step of the executor.
LEMMA NonceExecutor ==
  ASSUME PipelineInv, NonceOK, ExecutorStep, UNCHANGED transactions
  PROVE  NonceOK'
<1>1. PipelineInv /\ NonceOK /\ ExecutorStep /\ transactions' = transactions
  OBVIOUS
<1>2. PreState' = PreState
  BY <1>1, ExecutorStepOK
<1>3. /\ state \in Accounts /\ PreState \in Accounts /\ Len(receipts) \in Nat
      /\ receipts \in Seq(Receipt)
  BY <1>1, PreStateType DEF PipelineInv, PipelineTypeOK, Accounts
<1>4. /\ phase = "credit" => Charged = 1..(Len(receipts) + 1)
      /\ phase = "debit" => Charged = 1..Len(receipts)
      /\ phase' = "credit" => Charged' = 1..(Len(receipts') + 1)
      /\ phase' \in {"debit", "done"} => Charged' = 1..Len(receipts')
      /\ phase' \in {"failed", "panicked"} => Charged' = {}
  BY Zenon DEF Charged
<1>5. CASE DebitFails \/ CreditPanics \/ CreditFails
  <2>1. /\ UNCHANGED <<state, block>> /\ phase' \in {"failed", "panicked"}
    BY <1>5 DEF DebitFails, CreditPanics, CreditFails, Fail, stateVars
  <2>2. Charged' = {}
    BY <1>4, <2>1
  <2> QED BY <1>1, <1>2, <2>1, <2>2, Zenon DEF NonceOK
<1>6. CASE Debit
  <2> DEFINE tx == signed_tx
             account == state[tx.sender]
             info == [balance |-> account.balance - charge(tx, base_fee_per_gas),
                      nonce   |-> account.nonce + 1]
  <2>1. phase = "debit" /\ phase' = "credit" /\ UNCHANGED <<block, receipts>>
    BY <1>6 DEF Debit
  <2>2. tx \in Transaction /\ tx.sender \in Address /\ base_fee_per_gas \in Nat
    BY <1>1, <2>1, RunningTx, Zenon
  <2>3. /\ account \in Account /\ tx.nonce = account.nonce
        /\ tx.nonce + 1 <= MAX_U64
        /\ charge(tx, base_fee_per_gas) \in 0..account.balance
    BY <1>3, <1>6, <2>2, DebitError, Zenon DEF Debit, Accounts
  <2>4. account.nonce \in Nat /\ account # NoAccount
    BY <2>3, SentinelAssumption, BoundsAssumption DEF Account
  <2>5. info \in Account /\ info.nonce = tx.nonce + 1
    BY <2>3, BoundsAssumption DEF Account
  <2>6. state' = [state EXCEPT ![tx.sender] = info]
    BY <1>6 DEF Debit, set_account
  <2> HIDE DEF info
  <2>7. Used(state'[tx.sender], tx.nonce)
    BY <1>3, <2>2, <2>3, <2>4, <2>5, <2>6, SentinelAssumption
       DEF Used, Accounts
  <2>8. ~Used(PreState[tx.sender], tx.nonce)
    <3>1. PreState[tx.sender] # NoAccount =>
            /\ PreState[tx.sender].nonce \in Nat
            /\ PreState[tx.sender].nonce <= account.nonce
      BY <1>1, <1>3, <2>2, BoundsAssumption
         DEF NonceOK, Accounts, Account
    <3> QED BY <2>3, <2>4, <3>1 DEF Used
  <2>9. \A i \in Charged' \ Charged : block.transactions[i] = tx
    <3>1. Charged' = 1..(Len(receipts) + 1) /\ Charged = 1..Len(receipts)
      BY <1>4, <2>1
    <3>2. \A i \in Charged' \ Charged : i = Len(receipts) + 1
      BY <1>3, <3>1
    <3> QED BY <3>2 DEF signed_tx
  <2>10. account # NoAccount => account.nonce <= info.nonce
    BY <2>3, <2>4, <2>5
  <2> HIDE DEF tx
  <2> QED BY <1>1, <1>2, <2>1, <2>2, <2>5, <2>6, <2>7, <2>8, <2>9, <2>10,
             NonceWrite, ZenonT(30)
<1>7. CASE Credit
  <2> DEFINE a == signed_tx.to
             info == [recipient EXCEPT !.balance = @ + signed_tx.value]
  <2>1. phase = "credit" /\ a # NoAddress
    BY <1>7, Zenon DEF Credit
  <2>2. a \in Address /\ signed_tx.value \in 0..MAX_U128
    BY <1>1, <2>1, RunningTx, Zenon
  <2>3. /\ recipient \in Account
        /\ state[a] # NoAccount => recipient = state[a]
    BY <1>3, <2>2, BoundsAssumption
       DEF recipient, DefaultAccount, Account, Accounts
  <2>4. info \in Account /\ info.nonce = recipient.nonce /\ info.nonce \in Nat
    BY <1>7, <2>2, <2>3, BoundsAssumption DEF Credit, Account
  <2>5. state' = [state EXCEPT ![a] = info]
    BY <1>7 DEF Credit, set_account
  <2>6. /\ block' = block
        /\ \/ phase' = "failed"
           \/ /\ phase' \in {"debit", "done"}
              /\ \E r : receipts' = Append(receipts, r)
    BY <1>7 DEF Credit, Fail
  <2>7. Charged' \subseteq Charged
    <3>1. CASE phase' = "failed"
      BY <1>4, <3>1
    <3>2. CASE phase' \in {"debit", "done"} /\ \E r : receipts' = Append(receipts, r)
      <4>1. Len(receipts') = Len(receipts) + 1
        BY <1>3, <3>2
      <4> QED BY <1>4, <2>1, <3>2, <4>1
    <3> QED BY <2>6, <3>1, <3>2
  <2>8. state[a] # NoAccount => state[a].nonce <= info.nonce
    BY <2>3, <2>4
  <2> HIDE DEF a, info
  <2> QED BY <1>1, <1>2, <2>2, <2>4, <2>5, <2>6, <2>7, <2>8, NonceWrite, ZenonT(30)
<1> QED BY <1>1, <1>5, <1>6, <1>7, Zenon DEF ExecutorStep

\* A step of the pipeline, alone or inside the block processor.
PipelineAct ==
  \/ \E b \in Block : /\ senders_recovered(b)
                      /\ StartExecute(b) \/ RefuseExecute(b)
  \/ ExecutorStep \/ FinishExecute \/ AbortExecute
  \/ UNCHANGED <<stateVars, execVars>>

=============================================================================
