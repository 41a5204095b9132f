------------------------------ MODULE Connection ------------------------------
(***************************************************************************)
(* The task that serves one TCP connection (networking/src/connection.rs)  *)
(* between its client, the event channel of the peer manager and the       *)
(* peer's own outbound channel.                                            *)
(*                                                                         *)
(* A step is what the task does up to its next await.  A peer stands for   *)
(* one connection: the listener never hands out a PeerId twice.  Messages  *)
(* keep their type and what a property tells apart; how they are put on    *)
(* the wire is the subject of Framing.                                     *)
(***************************************************************************)
EXTENDS Integers, Sequences

CONSTANTS
  Peer,           \* connections
  Script,         \* bound: peer -> for each message in turn, the choices
                  \* its client has
  EventCap,       \* capacity of the event channel, 256 in node/src/main.rs
  PeerCap,        \* capacity of a peer's outbound channel, 32 in server.rs
  SocketCap       \* messages a socket holds, each way, before writes wait

ASSUME ConnectionAssumption == {EventCap, PeerCap, SocketCap} \subseteq Nat \ {0}

VARIABLES
  client,       \* peer -> "absent", "open", "closed"
  sent,         \* peer -> all messages its client has sent
  taken,        \* peer -> how many of these the task has decoded
  out,          \* peer -> all messages written to the socket
  read,         \* peer -> how many of these the client has read
  conn,         \* peer -> the task: where it is, handshake, what it holds
  peerq,        \* peer -> its outbound channel (peer_sender, peer_rx)
  events,       \* the event channel of the manager
  event_rx,     \* "open", or "dropped" once the manager is gone
  shared_head   \* the published chain head: peer -> how many of its blocks

clientVars == <<client, sent, read>>
connectionVars == <<clientVars, taken, out, conn, peerq, events, event_rx>>

Msg(type) == [type |-> type]
None      == Msg("None")
Status(right_chain) == [type |-> "Status", right_chain |-> right_chain]

\* What a client can send: every type of message, those the manager ignores
\* and bytes that are no message as one each.  Transactions are told apart by
\* the client that sent them.
ClientMessage(p) ==
  {Status(TRUE), Status(FALSE), [type |-> "Transactions", origin |-> p]}
  \cup {[type |-> "GetAccountState", known |-> known] : known \in BOOLEAN}
  \cup {Msg(type) : type \in {"Ping", "NewBlock", "GetChainHead", "Ignored",
                              "Undecodable"}}

ASSUME ScriptAssumption ==
  \A p \in Peer : Script[p] \in Seq(SUBSET ClientMessage(p))

\* PeerEvent
Connected(p)      == [type |-> "Connected", peer_id |-> p]
Disconnected(p)   == [type |-> "Disconnected", peer_id |-> p]
Received(p, m)    == [type |-> "Message", peer_id |-> p, message |-> m]
SendMessage(p, m) == [type |-> "SendMessage", peer_id |-> p, message |-> m]

NewTask == [at |-> "none", state |-> "AwaitingStatus", held |-> None]

ConnectionInit ==
  /\ client = [p \in Peer |-> "absent"]
  /\ sent = [p \in Peer |-> << >>]
  /\ taken = [p \in Peer |-> 0]
  /\ out = [p \in Peer |-> << >>]
  /\ read = [p \in Peer |-> 0]
  /\ conn = [p \in Peer |-> NewTask]
  /\ peerq = [p \in Peer |-> << >>]
  /\ events = << >>
  /\ event_rx = "open"
  /\ shared_head = [p \in Peer |-> 0]

-----------------------------------------------------------------------------
\* The client: it sends, reads and closes as it likes.
ClientSend(p) ==
  /\ client[p] = "open"
  /\ Len(sent[p]) < Len(Script[p])
  /\ Len(sent[p]) - taken[p] < SocketCap
  /\ \E m \in Script[p][Len(sent[p]) + 1] :
       sent' = [sent EXCEPT ![p] = Append(@, m)]
  /\ UNCHANGED <<client, read, taken, out, conn, peerq, events, event_rx>>

ClientRead(p) ==
  /\ client[p] = "open"
  /\ read[p] < Len(out[p])
  /\ read' = [read EXCEPT ![p] = @ + 1]
  /\ UNCHANGED <<client, sent, taken, out, conn, peerq, events, event_rx>>

ClientClose(p) ==
  /\ client[p] = "open"
  /\ client' = [client EXCEPT ![p] = "closed"]
  /\ UNCHANGED <<sent, read, taken, out, conn, peerq, events, event_rx>>

ClientStep(p) ==
  \/ ClientSend(p)
  \/ ClientRead(p)
  \/ ClientClose(p)

-----------------------------------------------------------------------------
At(p, at) == conn[p].at = at

\* The task goes on to `at', holding h until its next send completes.
GoTo(p, at, h) == conn' = [conn EXCEPT ![p].at = at, ![p].held = h]

\* framed.next() yields a message.
next(p) == sent[p][taken[p] + 1]
Receive(p, state) ==
  /\ At(p, "select")
  /\ conn[p].state = state
  /\ taken[p] < Len(sent[p])
  /\ taken' = [taken EXCEPT ![p] = @ + 1]
  /\ UNCHANGED <<clientVars, out, peerq, events, event_rx>>

\* A first Status is answered by the node's Status, with the head read at
\* this moment, or by a Disconnect when the chain is another one.
ReceiveStatus(p) ==
  /\ Receive(p, "AwaitingStatus")
  /\ next(p).type = "Status"
  /\ GoTo(p, "write",
          IF next(p).right_chain
          THEN [type |-> "Status", head |-> shared_head]
          ELSE Msg("Disconnect"))

\* Plausible bug: the task returns without announcing it.
ReceiveViolationReturns(p) ==
  /\ \/ Receive(p, "AwaitingStatus") /\ next(p).type # "Status"
     \/ Receive(p, "Established") /\ next(p).type \in {"Status", "Undecodable"}
  /\ GoTo(p, "done", None)

\* Anything else before the handshake, a second Status, and bytes that the
\* codec rejects end the connection.
ReceiveViolation(p) ==
  /\ \/ Receive(p, "AwaitingStatus") /\ next(p).type # "Status"
     \/ Receive(p, "Established") /\ next(p).type \in {"Status", "Undecodable"}
  /\ GoTo(p, "leave", None)

ReceiveMessage(p) ==
  /\ Receive(p, "Established")
  /\ next(p).type \notin {"Status", "Undecodable"}
  /\ GoTo(p, "event", Received(p, next(p)))

\* Plausible bug: the task returns when the client closes.
ReceiveNoneReturns(p) ==
  /\ At(p, "select")
  /\ client[p] = "closed" /\ taken[p] = Len(sent[p])
  /\ GoTo(p, "done", None)
  /\ UNCHANGED <<clientVars, taken, out, peerq, events, event_rx>>

\* framed.next() yields None: the client closed and all it sent was read.
ReceiveNone(p) ==
  /\ At(p, "select")
  /\ client[p] = "closed" /\ taken[p] = Len(sent[p])
  /\ GoTo(p, "leave", None)
  /\ UNCHANGED <<clientVars, taken, out, peerq, events, event_rx>>

\* peer_rx.recv().  The manager only knows the channel after Connected, and
\* no select lies between that and Established, so the branch that drops a
\* message before the handshake is never taken.
TakeOutbound(p) ==
  /\ At(p, "select")
  /\ conn[p].state = "Established"
  /\ peerq[p] # << >>
  /\ peerq' = [peerq EXCEPT ![p] = Tail(@)]
  /\ GoTo(p, "write", Head(peerq[p]))
  /\ UNCHANGED <<clientVars, taken, out, events, event_rx>>

\* Plausible bug: the connection stays after a refused handshake.
AfterWriteStays(p) ==
  IF conn[p].state = "Established" THEN GoTo(p, "select", None)
  ELSE GoTo(p, "event", Connected(p))

\* What follows a write: the announcement after the node's Status, the end
\* after a refusal, the loop otherwise.
AfterWrite(p) ==
  IF conn[p].state = "Established" THEN GoTo(p, "select", None)
  ELSE IF conn[p].held.type = "Status" THEN GoTo(p, "event", Connected(p))
  ELSE GoTo(p, "leave", None)

\* framed.send completes once the socket has room ...
Write(p) ==
  /\ At(p, "write")
  /\ client[p] = "open" => Len(out[p]) - read[p] < SocketCap
  /\ out' = [out EXCEPT ![p] = Append(@, conn[p].held)]
  /\ AfterWrite(p)
  /\ UNCHANGED <<clientVars, taken, peerq, events, event_rx>>

\* ... or fails: a write to a closed socket is noticed sooner or later.
WriteFails(p) ==
  /\ At(p, "write")
  /\ client[p] = "closed"
  /\ GoTo(p, "leave", None)
  /\ UNCHANGED <<clientVars, taken, out, peerq, events, event_rx>>

EventRoom == event_rx = "open" /\ Len(events) < EventCap

\* event_sender.send(..).await inside the loop.
SendEvent(p) ==
  /\ At(p, "event")
  /\ \/ /\ EventRoom
        /\ events' = Append(events, conn[p].held)
        /\ conn' = [conn EXCEPT ![p] = [at |-> "select",
                                        state |-> "Established",
                                        held |-> None]]
     \/ /\ event_rx = "dropped"
        /\ GoTo(p, "leave", None)
        /\ UNCHANGED events
  /\ UNCHANGED <<clientVars, taken, out, peerq, event_rx>>

\* Every exit passes the last send; the socket and peer_rx go with the task.
Leave(p) ==
  /\ At(p, "leave")
  /\ \/ EventRoom /\ events' = Append(events, Disconnected(p))
     \/ event_rx = "dropped" /\ UNCHANGED events
  /\ GoTo(p, "done", None)
  /\ peerq' = [peerq EXCEPT ![p] = << >>]
  /\ UNCHANGED <<clientVars, taken, out, event_rx>>

ConnectionStep(p) ==
  \/ ReceiveStatus(p) \/ ReceiveViolation(p) \/ ReceiveMessage(p)
  \/ ReceiveNone(p) \/ TakeOutbound(p) \/ Write(p) \/ WriteFails(p)
  \/ SendEvent(p) \/ Leave(p)

=============================================================================
