------------------------------ MODULE Pipeline ------------------------------
(***************************************************************************)
(* Pipeline::execute (core/execution/src/pipeline.rs) with StrictValidator *)
(* (validator.rs): look up the parent, validate header and body, open the  *)
(* journal, run the executor, then roll back on an error and commit        *)
(* otherwise.  The specification lets the owner of the pipeline execute    *)
(* any block, in any order, as often as the state allows.                  *)
(***************************************************************************)
EXTENDS Executor

CONSTANTS
  MAX_TXS,           \* StrictValidator { max_txs }
  GenesisAccounts    \* the account state the provider starts from

ASSUME PipelineAssumption ==
  /\ MAX_TXS \in Nat
  /\ GenesisAccounts \in [Address -> Account \cup {NoAccount}]

pipelineVars == <<storeVars, stateVars, execVars>>

\* Plausible bug: gas_used is not compared with gas_limit.
validate_header_no_gas(header, parent) ==
  IF header.parent_hash # hash_header(parent) THEN "InvalidParentHash"
  ELSE IF header.number # parent.number + 1 THEN "InvalidBlockNumber"
  ELSE "Ok"

\* StrictValidator: the first check that fails, in the order of the code.
validate_header(header, parent) ==
  IF header.parent_hash # hash_header(parent) THEN "InvalidParentHash"
  ELSE IF header.number # parent.number + 1 THEN "InvalidBlockNumber"
  ELSE IF header.gas_used > header.gas_limit THEN "GasLimitExceeded"
  ELSE "Ok"

validate_body(b) ==
  IF Len(b.transactions) > MAX_TXS THEN "TooManyTransactions" ELSE "Ok"

\* What stops execute(b) before the executor runs.
execute_error(b) ==
  IF ~known(b.header.parent_hash) THEN "HeaderNotFound"
  ELSE LET parent == get_block_by_hash(b.header.parent_hash).header
       IN IF validate_header(b.header, parent) # "Ok"
          THEN validate_header(b.header, parent)
          ELSE IF validate_body(b) # "Ok" THEN validate_body(b)
          ELSE IF journal.open THEN "JournalAlreadySet"
          ELSE "Ok"

\* build_block_with_senders succeeded: only such blocks reach the pipeline.
senders_recovered(b) ==
  \A i \in DOMAIN b.transactions : b.transactions[i].sender # NoAddress

-----------------------------------------------------------------------------
\* execute(b) up to the call of the executor.
StartExecute(b) ==
  /\ phase = "idle"
  /\ execute_error(b) = "Ok"
  /\ begin_journal
  /\ block' = b
  /\ receipts' = << >>
  /\ cumulative_gas_used' = 0
  /\ result' = "none"
  /\ phase' = IF b.transactions = << >> THEN "done" ELSE "debit"

\* execute(b) returns before the journal is opened.
RefuseExecute(b) ==
  /\ phase = "idle"
  /\ execute_error(b) # "Ok"
  /\ result' = execute_error(b)
  /\ UNCHANGED <<stateVars, phase, block, receipts, cumulative_gas_used>>

\* execute returns: the executor's locals are gone (Genesis stands for no
\* block being executed).
Return(outcome) ==
  /\ phase' = "idle"
  /\ block' = Genesis
  /\ receipts' = << >>
  /\ cumulative_gas_used' = 0
  /\ result' = outcome

\* The executor returned Ok.
FinishExecute ==
  /\ phase = "done"
  /\ commit_journal
  /\ Return("Ok")

\* Plausible bug: the journal is committed on an error too.
AbortCommits ==
  /\ phase = "failed"
  /\ commit_journal
  /\ Return(result)

\* The executor returned an error.
AbortExecute ==
  /\ phase = "failed"
  /\ rollback_journal
  /\ Return(result)

PipelineInit ==
  /\ ProviderInit(GenesisAccounts)
  /\ phase = "idle"
  /\ block = Genesis
  /\ receipts = << >>
  /\ cumulative_gas_used = 0
  /\ result = "none"

\* A panic unwinds the task that owns the pipeline; nothing follows.
Unwound == phase = "panicked" /\ UNCHANGED <<stateVars, execVars>>

PipelineNext ==
  /\ \/ \E b \in Block : /\ senders_recovered(b)
                         /\ StartExecute(b) \/ RefuseExecute(b)
     \/ ExecutorStep
     \/ FinishExecute
     \/ AbortExecute
     \/ Unwound
  /\ UNCHANGED storeVars

PipelineSpec == PipelineInit /\ [][PipelineNext]_pipelineVars

-----------------------------------------------------------------------------
ExecResult == {"none", "Ok", "AccountNotFound", "InvalidNonce", "Overflow",
               "InsufficientBalance", "InsufficientMaxFee", "Underflow",
               "HeaderNotFound", "InvalidParentHash", "InvalidBlockNumber",
               "GasLimitExceeded", "TooManyTransactions", "JournalAlreadySet"}

\* Types of the pipeline's state; the journal is open exactly while a block
\* is being executed, so begin_journal never meets an open journal.
PipelineTypeOK ==
  /\ state \in [Address -> Account \cup {NoAccount}]
  /\ journal \in [open : BOOLEAN,
                   accounts : [Address -> Account \cup {NoAccount, Unsaved}]]
  /\ phase \in Phase
  /\ block \in Block
  /\ receipts \in Seq(Receipt)
  /\ cumulative_gas_used \in 0..MAX_U64
  /\ result \in ExecResult
  /\ journal.open <=> phase # "idle"

\* A transaction that passed the max_cost check can always be charged: the
\* checked_sub of executor.rs never reports Underflow.
NoUnderflow == result # "Underflow"

\* A step either leaves the journalled pre-state of the accounts alone or
\* commits a block whose transactions all have a receipt.  A block that
\* fails half way leaves no trace, accounts it created included.
CommitsWholeBlocks ==
  [][\/ PreState' = PreState
     \/ /\ phase = "done" /\ result' = "Ok"
        /\ Len(receipts) = Len(block.transactions)
        /\ PreState' = state]_pipelineVars

=============================================================================
