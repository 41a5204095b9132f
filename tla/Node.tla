--------------------------------- MODULE Node ---------------------------------
(***************************************************************************)
(* The node as node/src/main.rs wires it: listener, connection tasks, peer *)
(* manager, adapter and processor joined by bounded channels, and the      *)
(* shutdown that main coordinates.                                         *)
(*                                                                         *)
(* The processor is BlockProcessor seen from outside: it takes its         *)
(* messages in order, answers queries at once and publishes the head after *)
(* a block.  Its state is the number of blocks of each peer that it has    *)
(* dealt with, and an answer carries that number as `seen', so that it     *)
(* tells which blocks it reflects.                                         *)
(***************************************************************************)
EXTENDS PeerManager

CONSTANTS
  ProcCap,    \* capacity of the processor channel, 256
  Stoppable   \* bound: whether a run includes the shutdown signal

ASSUME NodeAssumption == ProcCap \in Nat \ {0} /\ Stoppable \in BOOLEAN

VARIABLES
  adapter,     \* the adapter task
  procq,       \* the processor channel
  proc,        \* the processor task
  handled,     \* peer -> how many of its blocks the processor has dealt with
  reply,       \* the oneshot channel of the query in progress
  listener,    \* the listener task
  main         \* main() after it has spawned the others

processorVars == <<procq, proc, handled, reply, shared_head>>
taskVars == <<adapter, listener, main>>
vars == <<connectionVars, managerVars, shutdown, processorVars, taskVars>>

Waiting == [at |-> "recv", held |-> None]
Answer(type, p, seen) == [type |-> type, to |-> p, seen |-> seen]

Init ==
  /\ ConnectionInit
  /\ ManagerInit
  /\ adapter = Waiting
  /\ procq = << >>
  /\ proc = "recv"
  /\ handled = [p \in Peer |-> 0]
  /\ reply = None
  /\ listener = "accept"
  /\ main = "run"

-----------------------------------------------------------------------------
\* listen(): a connection is accepted, with a fresh id and a fresh channel.
Accept(p) ==
  /\ listener = "accept"
  /\ client[p] = "absent"
  /\ client' = [client EXCEPT ![p] = "open"]
  /\ conn' = [conn EXCEPT ![p].at = "select"]
  /\ UNCHANGED <<sent, read, taken, out, peerq, events, event_rx, managerVars,
                 shutdown, processorVars, taskVars>>

ListenerStep ==
  /\ \/ listener = "accept" /\ shutdown /\ listener' = "join"
     \/ /\ listener = "join"
        /\ \A p \in Peer : conn[p].at \in {"none", "done"}
        /\ listener' = "done"
  /\ UNCHANGED <<connectionVars, managerVars, shutdown, processorVars, adapter,
                 main>>

-----------------------------------------------------------------------------
processing == proc \in {"recv", "publish"}

\* network_event_rx.recv().  The head is read here, not through the queue.
AdapterRecv ==
  /\ adapter.at = "recv" /\ netq # << >>
  /\ LET e == Head(netq)
     IN adapter' =
          IF e.message.type = "GetChainHead"
          THEN [at |-> "answer",
                held |-> SendMessage(e.peer_id,
                           Answer("ChainHead", e.peer_id,
                                  shared_head[e.peer_id]))]
          ELSE [at |-> "process", held |-> e]
  /\ netq' = Tail(netq)
  /\ UNCHANGED <<connectionVars, peer_map, mgr, ticks, shutdown, processorVars,
                 listener, main>>

AdapterEnd ==
  /\ adapter.at = "recv" /\ netq = << >> /\ mgr.at = "stopped"
  /\ adapter' = [Waiting EXCEPT !.at = "done"]
  /\ UNCHANGED <<connectionVars, managerVars, shutdown, processorVars, listener,
                 main>>

\* processor_tx_for_adapter.send(..).await; nothing is sent to a dead task.
AdapterProcess ==
  /\ adapter.at = "process"
  /\ \/ /\ processing /\ Len(procq) < ProcCap
        /\ procq' = Append(procq, adapter.held)
        /\ adapter' = IF adapter.held.message.type = "NewBlock" THEN Waiting
                      ELSE [adapter EXCEPT !.at = "await"]
     \/ ~processing /\ adapter' = Waiting /\ UNCHANGED procq
  /\ UNCHANGED <<connectionVars, managerVars, shutdown, proc, handled, reply,
                 shared_head, listener, main>>

\* Plausible bug: the adapter does not wait for the answer and takes the
\* next event; it passes on what it finds later.
AdapterReplyLate ==
  /\ adapter.at = "await"
  /\ adapter' = [at |-> "answer",
                 held |-> SendMessage(adapter.held.peer_id,
                            Answer("AccountState", adapter.held.peer_id,
                                   shared_head[adapter.held.peer_id]))]
  /\ reply' = None
  /\ UNCHANGED <<connectionVars, managerVars, shutdown, procq, proc, handled,
                 shared_head, listener, main>>

\* Plausible bug: an unknown account ends the adapter.
AdapterReplyStops ==
  /\ adapter.at = "await" /\ reply # None
  /\ adapter' = IF reply.type = "Error" THEN [Waiting EXCEPT !.at = "done"]
                ELSE [at |-> "answer", held |-> SendMessage(reply.to, reply)]
  /\ reply' = None
  /\ UNCHANGED <<connectionVars, managerVars, shutdown, procq, proc, handled,
                 shared_head, listener, main>>

\* response_rx.await: an account, an error that nobody is told of, or a
\* sender that was dropped with the task.
AdapterReply ==
  /\ adapter.at = "await"
  /\ \/ /\ reply.type = "AccountState"
        /\ adapter' = [at |-> "answer",
                       held |-> SendMessage(reply.to, reply)]
     \/ reply.type = "Error" /\ adapter' = Waiting
     \/ reply = None /\ ~processing /\ adapter' = Waiting
  /\ reply' = None
  /\ UNCHANGED <<connectionVars, managerVars, shutdown, procq, proc, handled,
                 shared_head, listener, main>>

\* event_tx_for_adapter.send(..).await
AdapterAnswer ==
  /\ adapter.at = "answer"
  /\ \/ EventRoom /\ events' = Append(events, adapter.held)
     \/ event_rx = "dropped" /\ UNCHANGED events
  /\ adapter' = Waiting
  /\ UNCHANGED <<clientVars, taken, out, conn, peerq, event_rx, managerVars,
                 shutdown, processorVars, listener, main>>

AdapterStep ==
  AdapterRecv \/ AdapterEnd \/ AdapterProcess \/ AdapterReply \/ AdapterAnswer

-----------------------------------------------------------------------------
TakeProc(type) ==
  /\ proc = "recv" /\ procq # << >>
  /\ Head(procq).message.type = type
  /\ procq' = Tail(procq)
  /\ UNCHANGED <<connectionVars, managerVars, shutdown, shared_head, taskVars>>

ProcessBlock ==
  /\ TakeProc("NewBlock")
  /\ handled' = [handled EXCEPT ![Head(procq).peer_id] = @ + 1]
  /\ proc' = "publish"
  /\ UNCHANGED reply

\* A block may reach todo!() in the executor.
ProcessorPanics ==
  /\ TakeProc("NewBlock")
  /\ proc' = "panicked"
  /\ UNCHANGED <<handled, reply>>

ProcessQuery ==
  /\ TakeProc("GetAccountState")
  /\ reply' = IF Head(procq).message.known
              THEN Answer("AccountState", Head(procq).peer_id,
                          handled[Head(procq).peer_id])
              ELSE Msg("Error")
  /\ UNCHANGED <<handled, proc>>

ProcessShutdown ==
  /\ TakeProc("Shutdown")
  /\ proc' = "stopped"
  /\ UNCHANGED <<handled, reply>>

PublishHead ==
  /\ proc = "publish"
  /\ shared_head' = handled
  /\ proc' = "recv"
  /\ UNCHANGED <<connectionVars, managerVars, shutdown, procq, handled, reply,
                 taskVars>>

ProcessorStep ==
  \/ ProcessBlock \/ ProcessorPanics \/ ProcessQuery \/ ProcessShutdown
  \/ PublishHead

-----------------------------------------------------------------------------
CtrlC ==
  /\ Stoppable /\ ~shutdown
  /\ shutdown' = TRUE
  /\ UNCHANGED <<connectionVars, managerVars, processorVars, taskVars>>

\* Plausible bug: main waits for the manager only.
MainJoinsManagerOnly ==
  /\ \/ main = "run" /\ shutdown /\ main' = "manager"
     \/ main = "manager" /\ mgr.at = "stopped" /\ main' = "send"
  /\ UNCHANGED <<connectionVars, managerVars, shutdown, processorVars, adapter,
                 listener>>

\* main_shutdown_rx.recv(), then the handles of listener and manager.
MainJoins ==
  /\ \/ main = "run" /\ shutdown /\ main' = "listener"
     \/ main = "listener" /\ listener = "done" /\ main' = "manager"
     \/ main = "manager" /\ mgr.at = "stopped" /\ main' = "send"
  /\ UNCHANGED <<connectionVars, managerVars, shutdown, processorVars, adapter,
                 listener>>

\* processor_tx.send(Shutdown), without effect on a dead processor.
MainSendsShutdown ==
  /\ main = "send"
  /\ \/ /\ processing /\ Len(procq) < ProcCap
        /\ procq' = Append(procq, [message |-> Msg("Shutdown")])
     \/ ~processing /\ UNCHANGED procq
  /\ main' = "processor"
  /\ UNCHANGED <<connectionVars, managerVars, shutdown, proc, handled, reply,
                 shared_head, adapter, listener>>

\* processor_handle.await?: the summary is logged, or main returns the error.
MainEnds ==
  /\ main = "processor" /\ ~processing
  /\ main' = IF proc = "stopped" THEN "stopped" ELSE "failed"
  /\ UNCHANGED <<connectionVars, managerVars, shutdown, processorVars, adapter,
                 listener>>

MainStep == MainJoins \/ MainSendsShutdown \/ MainEnds

Ended == main \in {"stopped", "failed"}

-----------------------------------------------------------------------------
PeerStep(p) == ConnectionStep(p) /\ UNCHANGED <<managerVars, shutdown,
                                                processorVars, taskVars>>
PeerEnvironment(p) == ClientStep(p) /\ UNCHANGED <<managerVars, shutdown,
                                                   processorVars, taskVars>>
RouterStep == ManagerStep /\ UNCHANGED <<processorVars, taskVars>>

\* Everything ends with main: the runtime drops the other tasks.
Next ==
  \/ /\ ~Ended
     /\ \/ \E p \in Peer : Accept(p) \/ PeerEnvironment(p) \/ PeerStep(p)
        \/ ListenerStep \/ RouterStep \/ AdapterStep \/ ProcessorStep
        \/ CtrlC \/ MainStep
  \/ Ended /\ UNCHANGED vars

Spec == Init /\ [][Next]_vars

-----------------------------------------------------------------------------
\* The manager forgets every peer: an entry whose connection task has ended
\* is matched by a Disconnected that is still queued.  The entry is made by
\* one event and removed by another, or by a failed send in between.
NoLeakedPeer ==
  \A p \in peer_map :
    At(p, "done") => \E i \in DOMAIN events : events[i] = Disconnected(p)

\* A client first hears the outcome of the handshake, and hears it once; the
\* manager only routes to peers that were welcomed, whatever it has to relay
\* while the handshake is under way.
HandshakeFirst ==
  \A p \in Peer :
    /\ \A i \in DOMAIN out[p] :
         (out[p][i].type = "Status") => i = 1
    /\ out[p] # << >> => out[p][1].type \in {"Status", "Disconnect"}
    /\ (p \in peer_map \/ peerq[p] # << >>) => out[p][1].type = "Status"
    /\ (out[p] # << >> /\ out[p][1].type = "Status")
         => sent[p][1] = Status(TRUE)

\* The processor is told to stop only when no connection and no manager is
\* left that could still take up a message of a peer.
ShutdownLast ==
  (\E i \in DOMAIN procq : procq[i].message.type = "Shutdown")
    \/ proc = "stopped"
  => /\ mgr.at = "stopped" /\ peer_map = {}
     /\ \A p \in Peer : conn[p].at \in {"none", "done"}

=============================================================================
