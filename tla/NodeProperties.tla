--------------------------- MODULE NodeProperties ---------------------------
(***************************************************************************)
(* What the clients of the node can rely on: what is relayed to them, how  *)
(* they are answered and, under the fairness of the runtime, that they are *)
(* answered, forgotten when they leave, and that the node can be stopped.  *)
(***************************************************************************)
EXTENDS Node, FiniteSets

\* The runtime polls every task that can run.
TaskFairness ==
  /\ \A p \in Peer : WF_vars(~Ended /\ PeerStep(p))
  /\ WF_vars(~Ended /\ RouterStep)
  /\ WF_vars(~Ended /\ AdapterStep)
  /\ WF_vars(~Ended /\ ProcessorStep)
  /\ WF_vars(~Ended /\ (ListenerStep \/ MainStep))

\* The steps of clients that read what they are sent, and that close.
Reads(p)  == /\ ~Ended /\ ClientRead(p)
             /\ UNCHANGED <<managerVars, shutdown, processorVars, taskVars>>
Closes(p) == /\ ~Ended /\ ClientClose(p)
             /\ UNCHANGED <<managerVars, shutdown, processorVars, taskVars>>

-----------------------------------------------------------------------------
\* All messages on their way to p or received by it.
Towards(p) ==
  out[p] \o (IF At(p, "write") THEN <<conn[p].held>> ELSE << >>) \o peerq[p]

\* A relayed transaction reaches every other peer at most once and never
\* the peer it came from.
RelayedOnce ==
  \A p, q \in Peer :
    LET relayed == {i \in DOMAIN Towards(p) :
                      /\ Towards(p)[i].type = "Transactions"
                      /\ Towards(p)[i].origin = q}
        offered == {i \in DOMAIN sent[q] : sent[q][i].type = "Transactions"}
    IN Cardinality(relayed) <= (IF p = q THEN 0 ELSE Cardinality(offered))

\* What p asked: which kind of answer it waits for and how many blocks it
\* had sent before it asked.
Asked(p) ==
  LET queries == SelectSeq([i \in DOMAIN sent[p] |-> i],
                   LAMBDA i : \/ sent[p][i].type = "GetChainHead"
                              \/ /\ sent[p][i].type = "GetAccountState"
                                 /\ sent[p][i].known)
  IN [k \in DOMAIN queries |->
        [type |-> IF sent[p][queries[k]].type = "GetChainHead"
                  THEN "ChainHead" ELSE "AccountState",
         blocks |-> Cardinality({i \in 1..queries[k] :
                                   sent[p][i].type = "NewBlock"})]]

Answered(p) ==
  SelectSeq(out[p], LAMBDA m : m.type \in {"AccountState", "ChainHead"})

\* Queries pass five queues and two answer paths.  While the processor lives
\* the answers reach the peer that asked, in the order it asked; an account
\* answer reflects exactly the blocks the peer sent before the question, a
\* head answer none that it sent after it.
AnswersInOrder ==
  processing => \A p \in Peer :
    /\ Len(Answered(p)) <= Len(Asked(p))
    /\ \A k \in DOMAIN Answered(p) :
         /\ Answered(p)[k].to = p
         /\ Answered(p)[k].type = Asked(p)[k].type
         /\ IF Answered(p)[k].type = "AccountState"
            THEN Answered(p)[k].seen = Asked(p)[k].blocks
            ELSE Answered(p)[k].seen <= Asked(p)[k].blocks

\* A client that is gone is forgotten.
PeersForgotten ==
  \A p \in Peer :
    client[p] = "closed" ~> (p \notin peer_map /\ At(p, "done")) \/ Ended

\* No question of a client that keeps reading stays open for ever, unless
\* the processor dies, the node is stopped, the client leaves or breaks the
\* protocol.
QueriesAnswered ==
  \A p \in Peer :
    []<>(\/ Len(SelectSeq(SubSeq(out[p], 1, read[p]),
                  LAMBDA m : m.type \in {"AccountState", "ChainHead"}))
              = Len(Asked(p))
         \/ shutdown \/ ~processing \/ client[p] = "closed"
         \/ conn[p].at \in {"leave", "done"})

\* "Stop the node with `Ctrl-C`. The node logs a shutdown metrics summary":
\* after the signal main comes to its end.
ShutdownCompletes == shutdown ~> Ended

=============================================================================
