----------------------------- MODULE TestClient -----------------------------
(***************************************************************************)
(* Runs of the test client (node/src/bin/test-client.rs) against a node.   *)
(*                                                                         *)
(* The node is seen through its protocol: it serves the messages of one    *)
(* connection in order, those of different connections in any order, and   *)
(* commits a block that extends its chain and that the ledger accepts.     *)
(* Node and BlockProcessor show that the code does so.  A block above the  *)
(* next number would be buffered; HeadKeepsUp excludes it.                 *)
(***************************************************************************)
EXTENDS BlockBuilder, FiniteSets

CONSTANTS
  Client,        \* runs of the test client
  Stranger,      \* those that were given another chain id
  MaxPings,      \* bound: pings of the manager
  block_count,
  transactions_per_block,   \* client -> its argument
  Value,         \* the value of every transfer
  GasLimit,      \* the gas of every transfer
  NoAccount, GenesisAccounts, Rejected

\* Without transactions nothing would be waited for; the default is 3.  The
\* keys are those of accounts that exist since genesis.
ASSUME ClientAssumption ==
  /\ transactions_per_block \in [Client -> Nat \ {0}]
  /\ block_count \in Nat
  /\ Stranger \subseteq Client
  /\ Key \in Seq(DOMAIN GenesisAccounts)
  /\ \A i \in DOMAIN Key : GenesisAccounts[Key[i]] \in Account

VARIABLES
  chain,       \* the node: its blocks, genesis first
  accounts,    \* the node: its account state
  request,     \* client -> messages on their way to the node
  response,    \* client -> messages on their way back
  pings,       \* pings sent so far (bounds the model)
  orderly,     \* runs follow one another, and every answer comes in time
               \* and before a ping
  run          \* client -> where its main() is, and its locals

vars == <<chain, accounts, request, response, pings, orderly, run>>
nodeVars == <<chain, accounts, pings, orderly>>

Ledger == INSTANCE Ledger WITH ledger <- accounts

tip == chain[Len(chain)]
Msg(type) == [type |-> type]

\* A fresh main(): `start' and `confirmed' are history.
NewRun(c) ==
  [at |-> "idle", builder |-> NewBuilder, block_index |-> 0, asked |-> 0,
   transactions_per_block |-> transactions_per_block[c],
   snapshots |-> [a \in {} |-> 0], all_processed |-> TRUE, block |-> Genesis,
   start |-> 0, confirmed |-> 0]

Init ==
  /\ chain = <<Genesis>>
  /\ accounts = GenesisAccounts
  /\ request = [c \in Client |-> << >>]
  /\ response = [c \in Client |-> << >>]
  /\ pings = 0
  /\ orderly \in BOOLEAN
  /\ run = [c \in Client |-> NewRun(c)]

ended(c) == run[c].at \in {"done", "refused", "failed"}

-----------------------------------------------------------------------------
\* A block of the node's chain: BlockProcessor, Pipeline and Executor.
Acceptable(b) ==
  /\ b.header.number = tip.header.number + 1
  /\ b.header.parent_hash = hash_header(tip.header)
  /\ b.header.timestamp > tip.header.timestamp
  /\ b.header.gas_used <= b.header.gas_limit
  /\ Ledger!ApplyBlock(accounts, b) # Rejected

ServeBlock(c) ==
  /\ Head(request[c]).type = "NewBlock"
  /\ LET b == Head(request[c]).block
     IN IF Acceptable(b)
        THEN /\ chain' = Append(chain, b)
             /\ accounts' = Ledger!ApplyBlock(accounts, b)
        ELSE UNCHANGED <<chain, accounts>>
  /\ UNCHANGED response

Answer(c, m) ==
  CASE m.type = "Status" ->
         Msg(IF c \in Stranger THEN "Disconnect" ELSE "Status")
    [] m.type = "GetChainHead" ->
         [type |-> "ChainHead", number |-> tip.header.number,
          hash |-> hash_header(tip.header)]
    [] m.type = "GetAccountState" ->
         [type |-> "AccountState", address |-> m.address,
          account |-> accounts[m.address]]

ServeQuery(c) ==
  /\ Head(request[c]).type \in {"Status", "GetChainHead", "GetAccountState"}
  /\ response' = [response EXCEPT ![c] =
                    Append(@, Answer(c, Head(request[c])))]
  /\ UNCHANGED <<chain, accounts>>

\* The client's last message is only logged.
ServeDisconnect(c) ==
  /\ Head(request[c]).type = "Disconnect"
  /\ UNCHANGED <<chain, accounts, response>>

Serve(c) ==
  /\ request[c] # << >>
  /\ ServeBlock(c) \/ ServeQuery(c) \/ ServeDisconnect(c)
  /\ request' = [request EXCEPT ![c] = Tail(@)]
  /\ UNCHANGED <<pings, orderly, run>>

\* The manager pings a welcomed peer whenever its interval is over.
Ping(c) ==
  /\ ~orderly /\ pings < MaxPings
  /\ run[c].at \in {"head", "query", "confirm"}
  /\ pings' = pings + 1
  /\ response' = [response EXCEPT ![c] = Append(@, Msg("Ping"))]
  /\ UNCHANGED <<chain, accounts, orderly, request, run>>

-----------------------------------------------------------------------------
\* The sender of transaction i of the current block, counted from 1.
sender_index(r, i) == ((r.block_index + i - 1) % Len(Key)) + 1

spec(r, i) ==
  [sender_index |-> sender_index(r, i),
   recipient |-> Key[(sender_index(r, i) % Len(Key)) + 1],
   value |-> Value, gas_limit |-> GasLimit]
specs(r) == [i \in 1..r.transactions_per_block |-> spec(r, i)]

AskAccount(r, i) ==
  [type |-> "GetAccountState", address |-> Key[sender_index(r, i)]]

Update(c, r, messages) ==
  /\ run' = [run EXCEPT ![c] = r]
  /\ request' = [request EXCEPT ![c] = @ \o messages]

\* The head of the loop over the blocks.
BeginBlock(c, r) ==
  IF r.block_index = block_count
  THEN Update(c, [r EXCEPT !.at = "done"], <<Msg("Disconnect")>>)
  ELSE Update(c, [r EXCEPT !.at = "query", !.asked = 1,
                           !.snapshots = [a \in {} |-> 0]],
              <<AskAccount(r, 1)>>)

NextBlock(c, r) ==
  BeginBlock(c, [r EXCEPT !.block_index = @ + 1, !.confirmed = @ + 1])

Fail(c, at) == Update(c, [run[c] EXCEPT !.at = at], << >>)

\* The arguments are read again after the handshake.
ArgumentsValid(r) == Key # << >> /\ r.transactions_per_block <= Len(Key)

\* TCP connect and Status.
Connect(c) ==
  /\ run[c].at = "idle"
  /\ orderly => \A d \in Client : run[d].at = "idle" \/ ended(d)
  /\ Update(c, [run[c] EXCEPT !.at = "status"], <<Msg("Status")>>)
  /\ UNCHANGED <<nodeVars, response>>

\* framed.next() inside the timeout yields a message.
Receive(c, at, types) ==
  /\ run[c].at = at
  /\ response[c] # << >>
  /\ Head(response[c]).type \in types
  /\ response' = [response EXCEPT ![c] = Tail(@)]
  /\ UNCHANGED nodeVars

OnStatus(c) ==
  /\ Receive(c, "status", {"Status"})
  /\ Update(c, [run[c] EXCEPT !.at = "head"], <<Msg("GetChainHead")>>)

\* Any other answer to the handshake ends the client without an error.
OnRefusal(c) ==
  /\ Receive(c, "status", {"Disconnect"})
  /\ Fail(c, "refused")

\* The builder goes on from the head of the node.
Resume(c, head) ==
  IF TimestampFits(run[c].builder, head.number) /\ ArgumentsValid(run[c])
  THEN BeginBlock(c, [run[c] EXCEPT
                       !.builder = set_current_head(@, head.number, head.hash),
                       !.start = head.number])
  ELSE Fail(c, "failed")

OnChainHead(c) ==
  /\ Receive(c, "head", {"ChainHead"})
  /\ Resume(c, Head(response[c]))

\* Plausible bug: the client waits for the nonce it has just used.
expected_nonce_used(r, address) == r.snapshots[address].nonce

expected_nonce(r, address) == r.snapshots[address].nonce + 1

\* The block is built from the snapshots and sent, and the first account is
\* asked again.
SendBlock(c, r) ==
  IF generate_error(r.builder, specs(r), r.snapshots) # "Ok"
  THEN Fail(c, "failed")
  ELSE LET b == generate_block(r.builder, specs(r), r.snapshots)
       IN Update(c, [r EXCEPT !.at = "confirm", !.asked = 1,
                              !.all_processed = TRUE, !.block = b,
                              !.builder = generated(@, specs(r))],
                 <<[type |-> "NewBlock", block |-> b], AskAccount(r, 1)>>)

\* HashMap::insert
insert(map, key, value) ==
  [k \in DOMAIN map \cup {key} |-> IF k = key THEN value ELSE map[k]]

OnSnapshot(c) ==
  /\ Receive(c, "query", {"AccountState"})
  /\ LET m == Head(response[c])
         r == [run[c] EXCEPT !.snapshots = insert(@, m.address, m.account)]
     IN IF m.account.nonce = MAX_U64 THEN Fail(c, "failed")
        ELSE IF r.asked < r.transactions_per_block
        THEN Update(c, [r EXCEPT !.asked = @ + 1],
                    <<AskAccount(r, r.asked + 1)>>)
        ELSE SendBlock(c, r)

\* wait_for_sender_nonces: another round follows one in which an account
\* was behind.
OnConfirm(c) ==
  /\ Receive(c, "confirm", {"AccountState"})
  /\ LET m == Head(response[c])
         r == [run[c] EXCEPT !.all_processed =
                 @ /\ m.account.nonce >= expected_nonce(run[c], m.address)]
     IN IF r.asked < r.transactions_per_block
        THEN Update(c, [r EXCEPT !.asked = @ + 1],
                    <<AskAccount(r, r.asked + 1)>>)
        ELSE IF r.all_processed THEN NextBlock(c, r)
        ELSE Update(c, [r EXCEPT !.asked = 1, !.all_processed = TRUE],
                    <<AskAccount(r, 1)>>)

\* A message that is not the answer is an error.
OnUnexpected(c) ==
  /\ \E at \in {"head", "query", "confirm"} : Receive(c, at, {"Ping"})
  /\ Fail(c, "failed")

\* The timeout of one answer, or the deadline of the confirmation.
Timeout(c) ==
  /\ ~orderly
  /\ run[c].at \in {"status", "head", "query", "confirm"}
  /\ Fail(c, IF run[c].at = "status" THEN "refused" ELSE "failed")
  /\ UNCHANGED <<nodeVars, response>>

ClientStep(c) ==
  \/ Connect(c) \/ OnStatus(c) \/ OnRefusal(c) \/ OnChainHead(c)
  \/ OnSnapshot(c) \/ OnConfirm(c) \/ OnUnexpected(c)

Finished == (\A c \in Client : ended(c) /\ request[c] = << >>) /\ UNCHANGED vars

Next ==
  \/ \E c \in Client : Serve(c) \/ Ping(c) \/ ClientStep(c) \/ Timeout(c)
  \/ Finished

\* The node serves what it received and the client polls its socket.
Spec ==
  /\ Init /\ [][Next]_vars
  /\ \A c \in Client : WF_vars(Serve(c)) /\ WF_vars(ClientStep(c))

-----------------------------------------------------------------------------
\* "send it, and wait for the node to advance before building the next one":
\* a run that was confirmed k blocks has seen the node's chain grow by k
\* blocks since it resumed, also when the confirmation was the work of
\* another run with the same accounts.  The next block is never above the
\* next number, so the node never has to buffer it.
HeadKeepsUp ==
  \A c \in Client :
    /\ tip.header.number >= run[c].start + run[c].confirmed
    /\ \A i \in DOMAIN request[c] : request[c][i].type = "NewBlock" =>
         request[c][i].block.header.number <= tip.header.number + 1

\* In orderly runs a block a client waits for or was confirmed is on the
\* chain or still on its way, and the builder, which moves its head before
\* the node has seen the block, agrees with the node when it builds the next
\* one.
BuilderTracksChain ==
  orderly => \A c \in Client :
    /\ run[c].at = "query" =>
         /\ run[c].builder.current_number = tip.header.number
         /\ run[c].builder.current_hash = hash_header(tip.header)
    /\ (run[c].at = "confirm" /\ run[c].block # tip) =>
         \E i \in DOMAIN request[c] :
           request[c][i] = [type |-> "NewBlock", block |-> run[c].block]

\* "You can run the client again without restarting the node ... a second
\* default run sends blocks 11 through 20": orderly runs each add their blocks.
RunsComplete ==
  orderly =>
    <>[]/\ \A c \in Client \ Stranger : run[c].at = "done"
        /\ Len(chain) = 1 + block_count * Cardinality(Client \ Stranger)

=============================================================================
