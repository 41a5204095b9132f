----------------------------- MODULE PeerManager -----------------------------
(***************************************************************************)
(* The task that tracks the peers and routes their messages (manage in     *)
(* networking/src/manager.rs).  Every send to a peer or to the adapter is  *)
(* an await on a bounded channel: while the manager waits for one of them  *)
(* it handles nothing else.                                                *)
(***************************************************************************)
EXTENDS Connection

CONSTANTS
  NetCap,     \* capacity of the network event channel, 256 in node/src/main.rs
  MaxTicks    \* bound: ping rounds

ASSUME ManagerAssumption == NetCap \in Nat \ {0} /\ MaxTicks \in Nat

VARIABLES
  peer_map,   \* the peers whose outbound channel the manager knows
  mgr,        \* where the task is, the sends it still has to do
  netq,       \* the network event channel to the adapter
  ticks,      \* ping rounds so far (bounds the model)
  shutdown    \* the broadcast of the shutdown signal

managerVars == <<peer_map, mgr, netq, ticks>>

Idle == [at |-> "select", todo |-> {}, message |-> None, stale |-> {}]

ManagerInit ==
  /\ peer_map = {}
  /\ mgr = Idle
  /\ netq = << >>
  /\ ticks = 0
  /\ shutdown = FALSE

\* A loop of sends: `message' goes to each peer of `todo', in any order.
Round(todo, message) ==
  mgr' = IF todo = {} THEN Idle
         ELSE [at |-> "send", todo |-> todo, message |-> message, stale |-> {}]

\* event_rx.recv() yields an event.  Main and the adapter keep a sender, so
\* it never yields None while the manager runs.
TakeEvent(type) ==
  /\ mgr.at = "select"
  /\ events # << >>
  /\ Head(events).type = type
  /\ events' = Tail(events)
  /\ UNCHANGED <<clientVars, taken, out, conn, peerq, event_rx, netq, ticks,
                 shutdown>>

from == Head(events).peer_id
body == Head(events).message
TakeMessage(types) == TakeEvent("Message") /\ body.type \in types

OnConnected ==
  /\ TakeEvent("Connected")
  /\ peer_map' = peer_map \cup {from}
  /\ UNCHANGED mgr

OnDisconnected ==
  /\ TakeEvent("Disconnected")
  /\ peer_map' = peer_map \ {from}
  /\ UNCHANGED mgr

OnPing ==
  /\ TakeMessage({"Ping"})
  /\ Round(peer_map \cap {from}, Msg("Pong"))
  /\ UNCHANGED peer_map

\* Plausible bug: the peer a transaction came from is not skipped.
OnTransactionsEcho ==
  /\ TakeMessage({"Transactions"})
  /\ Round(peer_map, body)
  /\ UNCHANGED peer_map

OnTransactions ==
  /\ TakeMessage({"Transactions"})
  /\ Round(peer_map \ {from}, body)
  /\ UNCHANGED peer_map

\* NewBlock, GetAccountState and GetChainHead become a NetworkEvent.
OnRequest ==
  /\ TakeMessage({"NewBlock", "GetAccountState", "GetChainHead"})
  /\ mgr' = [mgr EXCEPT !.at = "forward", !.message = Received(from, body)]
  /\ UNCHANGED peer_map

\* Pong, GetBlockHeaders, NewBlockHashes, BlockHeaders, Disconnect and
\* unexpected answers are only logged.
OnIgnored ==
  /\ TakeMessage({"Ignored"})
  /\ UNCHANGED <<peer_map, mgr>>

\* A peer that is gone is not in the map: the message is dropped.
OnSendMessage ==
  /\ TakeEvent("SendMessage")
  /\ Round(peer_map \cap {from}, body)
  /\ UNCHANGED peer_map

\* interval.tick(); the first one is due at once.
Tick ==
  /\ mgr.at = "select"
  /\ ticks < MaxTicks
  /\ ticks' = ticks + 1
  /\ Round(peer_map, Msg("Ping"))
  /\ UNCHANGED <<connectionVars, peer_map, netq, shutdown>>

\* processor_event_tx.send(..).await; the adapter outlives the manager.
Forward ==
  /\ mgr.at = "forward"
  /\ Len(netq) < NetCap
  /\ netq' = Append(netq, mgr.message)
  /\ mgr' = Idle
  /\ UNCHANGED <<connectionVars, peer_map, ticks, shutdown>>

\* One send of a loop has ended; after the last one the closed peers go.
SentTo(p, closed) ==
  LET stale == IF closed THEN mgr.stale \cup {p} ELSE mgr.stale
  IN IF mgr.todo = {p}
     THEN mgr' = Idle /\ peer_map' = peer_map \ stale
     ELSE /\ mgr' = [mgr EXCEPT !.todo = @ \ {p}, !.stale = stale]
          /\ UNCHANGED peer_map

\* sender.send(..).await inside a loop: the receiver lives until its task
\* ends, also while that task waits to announce its own end.
SendTo(p) ==
  /\ mgr.at = "send" /\ p \in mgr.todo
  /\ \/ /\ ~At(p, "done") /\ Len(peerq[p]) < PeerCap
        /\ peerq' = [peerq EXCEPT ![p] = Append(@, mgr.message)]
        /\ SentTo(p, FALSE)
     \/ /\ At(p, "done")
        /\ SentTo(p, TRUE)
        /\ UNCHANGED peerq
  /\ UNCHANGED <<clientVars, taken, out, conn, events, event_rx, netq, ticks,
                 shutdown>>

\* Plausible bug: the loop is not left.
StopGoesOn ==
  /\ mgr' = Idle
  /\ peer_map' = {}
  /\ UNCHANGED <<event_rx, events>>

\* The task returns: it drops both of its channels and every peer sender.
Stop ==
  /\ mgr' = [Idle EXCEPT !.at = "stopped"]
  /\ peer_map' = {}
  /\ event_rx' = "dropped"
  /\ events' = << >>

\* shutdown_rx.recv(): every peer is told, then the map is cleared.
OnShutdown ==
  /\ mgr.at = "select" /\ shutdown
  /\ IF peer_map = {}
     THEN Stop
     ELSE /\ mgr' = [at |-> "goodbye", todo |-> peer_map,
                     message |-> Msg("Disconnect"), stale |-> {}]
          /\ UNCHANGED <<peer_map, event_rx, events>>
  /\ UNCHANGED <<clientVars, taken, out, conn, peerq, netq, ticks, shutdown>>

Goodbye(p) ==
  /\ mgr.at = "goodbye" /\ p \in mgr.todo
  /\ \/ /\ ~At(p, "done") /\ Len(peerq[p]) < PeerCap
        /\ peerq' = [peerq EXCEPT ![p] = Append(@, mgr.message)]
     \/ At(p, "done") /\ UNCHANGED peerq
  /\ IF mgr.todo = {p}
     THEN Stop
     ELSE /\ mgr' = [mgr EXCEPT !.todo = @ \ {p}]
          /\ UNCHANGED <<peer_map, event_rx, events>>
  /\ UNCHANGED <<clientVars, taken, out, conn, netq, ticks, shutdown>>

ManagerStep ==
  \/ OnConnected \/ OnDisconnected \/ OnPing \/ OnTransactions \/ OnRequest
  \/ OnIgnored \/ OnSendMessage \/ Tick \/ Forward \/ OnShutdown
  \/ \E p \in Peer : SendTo(p) \/ Goodbye(p)

=============================================================================
