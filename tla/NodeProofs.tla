----------------------------- MODULE NodeProofs -----------------------------
(***************************************************************************)
(* For any number of peers, any channel capacities and any messages of the *)
(* clients: the manager never keeps a peer whose connection is gone, the   *)
(* processor is stopped last, and a client hears the outcome of its        *)
(* handshake first, once, and before anything is routed to it.             *)
(*                                                                         *)
(* What a step of each task does to the others is stated once, as a lemma  *)
(* about its effect; the invariants follow from the effects.               *)
(***************************************************************************)
EXTENDS Node, TLAPS

IsSeq(q) == q \in Seq({q[i] : i \in DOMAIN q})

\* The shape of the tasks' records.
ConnShape ==
  /\ DOMAIN conn = Peer
  /\ \A p \in Peer : {"at", "state", "held"} \subseteq DOMAIN conn[p]

-----------------------------------------------------------------------------
\* A sequence is one over its own elements.
LEMMA SeqOfElements ==
  ASSUME NEW S, NEW q \in Seq(S)
  PROVE  IsSeq(q)
<1> DEFINE T == {q[i] : i \in DOMAIN q}
<1>1. Len(q) \in Nat /\ DOMAIN q = 1..Len(q) /\ q = [i \in 1..Len(q) |-> q[i]]
  OBVIOUS
<1>2. \A i \in 1..Len(q) : q[i] \in T
  BY <1>1
<1>3. q \in [1..Len(q) -> T]
  BY <1>1, <1>2
<1>4. q \in Seq(T)
  BY <1>1, <1>3
<1> QED BY <1>4 DEF IsSeq

\* What Append and Tail do to a sequence of any values.
LEMMA AppendSeq ==
  ASSUME NEW q, NEW x, IsSeq(q)
  PROVE  LET r == Append(q, x)
         IN  /\ IsSeq(r)
             /\ Len(q) \in Nat /\ DOMAIN q = 1..Len(q)
             /\ DOMAIN r = 1..(Len(q) + 1)
             /\ \A i \in DOMAIN q : r[i] = q[i]
             /\ r[Len(q) + 1] = x
<1> DEFINE S == {q[i] : i \in DOMAIN q} \cup {x}
           r == Append(q, x)
<1>1. q \in Seq(S)
  BY DEF IsSeq
<1>2. /\ r \in Seq(S) /\ Len(q) \in Nat /\ DOMAIN q = 1..Len(q)
      /\ Len(r) = Len(q) + 1 /\ DOMAIN r = 1..(Len(q) + 1)
      /\ \A i \in DOMAIN q : r[i] = q[i]
      /\ r[Len(q) + 1] = x
  BY <1>1
<1>3. IsSeq(r)
  BY <1>2, SeqOfElements, ZenonT(60)
<1> QED BY <1>2, <1>3

\* Taking the first element moves the others down by one.
LEMMA TailSeq ==
  ASSUME NEW q, IsSeq(q), q # << >>
  PROVE  LET r == Tail(q)
         IN  /\ IsSeq(r)
             /\ Len(q) \in Nat \ {0} /\ DOMAIN q = 1..Len(q)
             /\ DOMAIN r = 1..(Len(q) - 1)
             /\ \A i \in DOMAIN r : r[i] = q[i + 1]
             /\ Head(q) = q[1]
<1> DEFINE S == {q[i] : i \in DOMAIN q}
           r == Tail(q)
<1>1. q \in Seq(S)
  BY DEF IsSeq
<1>2. /\ r \in Seq(S) /\ Len(q) \in Nat \ {0} /\ DOMAIN q = 1..Len(q)
      /\ Len(r) = Len(q) - 1 /\ DOMAIN r = 1..(Len(q) - 1)
      /\ \A i \in DOMAIN r : r[i] = q[i + 1]
      /\ Head(q) = q[1]
  BY <1>1
<1>3. IsSeq(r)
  BY <1>2, SeqOfElements, ZenonT(60)
<1> QED BY <1>2, <1>3

\* A channel that is not empty has a first element.
LEMMA SeqNonempty ==
  ASSUME NEW q, IsSeq(q), q # << >>
  PROVE  Len(q) \in Nat /\ Len(q) >= 1 /\ 1 \in DOMAIN q
BY DEF IsSeq

\* The empty channel.
LEMMA EmptySeq == IsSeq(<< >>) /\ DOMAIN << >> = {}
BY DEF IsSeq

-----------------------------------------------------------------------------
\* What a connection task does: it moves on, and it puts into the event
\* channel what it holds or, last of all, its Disconnected.
ConnectionEffect(p) ==
  /\ conn[p].at \notin {"none", "done"}
  /\ ConnShape'
  /\ \A q \in Peer \ {p} : conn'[q] = conn[q]
  /\ conn'[p].at = "event" => conn'[p].held.peer_id = p
  /\ event_rx' = event_rx
  /\ \/ events' = events /\ (conn'[p].at = "done" => event_rx = "dropped")
     \/ /\ event_rx = "open" /\ conn'[p].at = "done"
        /\ events' = Append(events, Disconnected(p))
     \/ /\ event_rx = "open" /\ conn[p].at = "event" /\ conn'[p].at # "done"
        /\ events' = Append(events, conn[p].held)

\* A task that goes on keeps the shape of its record and no other task moves.
LEMMA GoToEffect ==
  ASSUME NEW p \in Peer, NEW at, NEW h, ConnShape, GoTo(p, at, h)
  PROVE  /\ ConnShape'
         /\ conn'[p].at = at /\ conn'[p].held = h
         /\ conn'[p].state = conn[p].state
         /\ \A q \in Peer \ {p} : conn'[q] = conn[q]
<1> DEFINE c == [conn[p] EXCEPT !.at = at, !.held = h]
<1>1. {"at", "state", "held"} \subseteq DOMAIN conn[p] /\ DOMAIN conn = Peer
  BY DEF ConnShape
<1>2. /\ DOMAIN c = DOMAIN conn[p] /\ c.at = at /\ c.held = h
      /\ c.state = conn[p].state
  BY <1>1
<1>3. conn' = [conn EXCEPT ![p] = c]
  BY <1>1, ZenonT(60) DEF GoTo
<1> HIDE DEF c
<1> QED BY <1>1, <1>2, <1>3 DEF ConnShape

\* Each branch of handle_connection has that effect.
LEMMA ConnectionStepEffect ==
  ASSUME NEW p \in Peer, ConnShape, ConnectionStep(p)
  PROVE  ConnectionEffect(p)
<1> USE DEF At
<1>1. CASE ReceiveStatus(p)
  <2>1. PICK h : GoTo(p, "write", h)
    BY <1>1 DEF ReceiveStatus
  <2> QED BY <1>1, <2>1, GoToEffect DEF ReceiveStatus, Receive, ConnectionEffect
<1>2. CASE ReceiveViolation(p)
  <2>1. GoTo(p, "leave", None)
    BY <1>2 DEF ReceiveViolation
  <2> QED BY <1>2, <2>1, GoToEffect
          DEF ReceiveViolation, Receive, ConnectionEffect
<1>3. CASE ReceiveMessage(p)
  <2>1. GoTo(p, "event", Received(p, next(p)))
    BY <1>3 DEF ReceiveMessage
  <2>2. Received(p, next(p)).peer_id = p
    BY DEF Received
  <2> QED BY <1>3, <2>1, <2>2, GoToEffect
          DEF ReceiveMessage, Receive, ConnectionEffect
<1>4. CASE ReceiveNone(p)
  <2>1. GoTo(p, "leave", None)
    BY <1>4 DEF ReceiveNone
  <2> QED BY <1>4, <2>1, GoToEffect DEF ReceiveNone, ConnectionEffect
<1>5. CASE TakeOutbound(p)
  <2>1. GoTo(p, "write", Head(peerq[p]))
    BY <1>5 DEF TakeOutbound
  <2> QED BY <1>5, <2>1, GoToEffect DEF TakeOutbound, ConnectionEffect
<1>6. CASE Write(p)
  <2>1. \/ GoTo(p, "select", None) \/ GoTo(p, "leave", None)
        \/ GoTo(p, "event", Connected(p))
    BY <1>6 DEF Write, AfterWrite
  <2>2. Connected(p).peer_id = p
    BY DEF Connected
  <2> QED BY <1>6, <2>1, <2>2, GoToEffect DEF Write, ConnectionEffect
<1>7. CASE WriteFails(p)
  <2>1. GoTo(p, "leave", None)
    BY <1>7 DEF WriteFails
  <2> QED BY <1>7, <2>1, GoToEffect DEF WriteFails, ConnectionEffect
<1>8. CASE SendEvent(p)
  <2>1. CASE GoTo(p, "leave", None) /\ UNCHANGED events
    BY <1>8, <2>1, GoToEffect DEF SendEvent, ConnectionEffect
  <2>2. CASE /\ EventRoom /\ events' = Append(events, conn[p].held)
             /\ conn' = [conn EXCEPT ![p] = [at |-> "select",
                                             state |-> "Established",
                                             held |-> None]]
    <3>1. ConnShape' /\ conn'[p].at = "select"
          /\ \A q \in Peer \ {p} : conn'[q] = conn[q]
      BY <2>2 DEF ConnShape
    <3> QED BY <1>8, <2>2, <3>1 DEF SendEvent, EventRoom, ConnectionEffect
  <2> QED BY <1>8, <2>1, <2>2 DEF SendEvent
<1>9. CASE Leave(p)
  <2>1. GoTo(p, "done", None)
    BY <1>9 DEF Leave
  <2> QED BY <1>9, <2>1, GoToEffect DEF Leave, EventRoom, ConnectionEffect
<1> QED BY <1>1, <1>2, <1>3, <1>4, <1>5, <1>6, <1>7, <1>8, <1>9
        DEF ConnectionStep

-----------------------------------------------------------------------------
(* The handshake *)

\* The node has answered the client's Status with its own.
Welcomed(p) == out[p] # << >> /\ out[p][1].type = "Status"

\* What a message may be once it is inside the node.
Plain(m) == m.type # "Status"

\* What the manager may find in its channel.
Routable(e) ==
  /\ e.type = "Connected" => e.peer_id \in Peer /\ Welcomed(e.peer_id)
  /\ e.type \in {"Message", "SendMessage"} => Plain(e.message)

\* The progress of a connection task: nothing is written before the client's
\* first message, which decides what is written first.
TaskInv(p) ==
  /\ client[p] = "absent" => conn[p].at = "none"
  /\ conn[p].state \in {"AwaitingStatus", "Established"}
  /\ conn[p].state = "Established" \/ conn[p].at = "event" => Welcomed(p)
  /\ conn[p].state = "AwaitingStatus" /\ conn[p].at \in {"none", "select"}
       => taken[p] = 0 /\ out[p] = << >>
  /\ conn[p].at = "event" => Routable(conn[p].held)
  /\ conn[p].at = "write" =>
       IF conn[p].state = "Established" THEN Plain(conn[p].held)
       ELSE /\ out[p] = << >>
            /\ \/ conn[p].held.type = "Disconnect"
               \/ /\ conn[p].held.type = "Status"
                  /\ sent[p] # << >> /\ sent[p][1] = Status(TRUE)

\* What has been written to a socket.
WrittenInv(p) ==
  /\ IsSeq(out[p])
  /\ \A i \in DOMAIN out[p] : out[p][i].type = "Status" => i = 1
  /\ out[p] # << >> => out[p][1].type \in {"Status", "Disconnect"}
  /\ Welcomed(p) => sent[p] # << >> /\ sent[p][1] = Status(TRUE)

\* What is on its way to a client.
OutboundInv(p) ==
  /\ IsSeq(peerq[p])
  /\ \A i \in DOMAIN peerq[p] : Plain(peerq[p][i])
  /\ peerq[p] # << >> => Welcomed(p)

\* What holds of clients, tasks and channels while handshakes are under way.
ConnectionInv ==
  /\ DOMAIN out = Peer /\ DOMAIN peerq = Peer /\ DOMAIN sent = Peer
  /\ DOMAIN taken = Peer /\ DOMAIN client = Peer
  /\ \A p \in Peer :
       /\ sent[p] \in Seq(ClientMessage(p))
       /\ TaskInv(p) /\ WrittenInv(p) /\ OutboundInv(p)
  /\ \A i \in DOMAIN events : Routable(events[i])

\* A welcome is never taken back.
WelcomeLasts == \A p \in Peer : Welcomed(p) => Welcomed(p)'

\* What a step has to keep.
HandshakeKept == ConnectionInv' /\ WelcomeLasts

\* What a step may do to the event channel.
ChannelStep ==
  \/ events' = events
  \/ events' = << >>
  \/ events # << >> /\ events' = Tail(events)
  \/ \E e : Routable(e) /\ events' = Append(events, e)

\* What a connection task leaves alone, and what it puts into the channel.
TaskFrame(p) ==
  /\ UNCHANGED <<client, sent>>
  /\ DOMAIN out' = Peer /\ DOMAIN peerq' = Peer /\ DOMAIN taken' = Peer
  /\ \A q \in Peer \ {p} : /\ conn'[q] = conn[q] /\ out'[q] = out[q]
                            /\ peerq'[q] = peerq[q] /\ taken'[q] = taken[q]
  /\ Welcomed(p) => Welcomed(p)'
  /\ ChannelStep

\* What was routable stays so: a welcome is never taken back.
LEMMA RoutableLasts ==
  ASSUME WelcomeLasts
  PROVE  \A e : Routable(e) => Routable(e)'
BY DEF WelcomeLasts, Routable

\* The channel holds what can be routed: some of it may be taken, and what is
\* added can be routed.
LEMMA ChannelRoutable ==
  ASSUME IsSeq(events), \A i \in DOMAIN events : Routable(events[i]),
         WelcomeLasts,
         ChannelStep
  PROVE  \A i \in DOMAIN events' : Routable(events[i])'
<1>1. CASE events' = events \/ events' = << >>
  BY <1>1, EmptySeq, RoutableLasts, Zenon
<1>2. CASE events # << >> /\ events' = Tail(events)
  <2>1. \A i \in DOMAIN events' : i + 1 \in DOMAIN events /\ events'[i] = events[i + 1]
    <3>1. /\ Len(events) \in Nat \ {0} /\ DOMAIN events = 1..Len(events)
          /\ DOMAIN events' = 1..(Len(events) - 1)
          /\ \A i \in DOMAIN events' : events'[i] = events[i + 1]
      BY <1>2, TailSeq
    <3>2. \A i \in 1..(Len(events) - 1) : i + 1 \in 1..Len(events)
      BY <3>1
    <3> QED BY <3>1, <3>2
  <2> QED BY <2>1, RoutableLasts, Zenon
<1>3. CASE \E e : Routable(e) /\ events' = Append(events, e)
  <2>1. PICK e : Routable(e) /\ events' = Append(events, e)
    BY <1>3
  <2>2. \A i \in DOMAIN events' : \/ i \in DOMAIN events /\ events'[i] = events[i]
                                 \/ events'[i] = e
    <3>1. /\ Len(events) \in Nat /\ DOMAIN events = 1..Len(events)
          /\ DOMAIN events' = 1..(Len(events) + 1)
          /\ \A i \in DOMAIN events : events'[i] = events[i]
          /\ events'[Len(events) + 1] = e
      BY <2>1, AppendSeq
    <3>2. \A i \in 1..(Len(events) + 1) :
            i \in 1..Len(events) \/ i = Len(events) + 1
      BY <3>1
    <3> QED BY <3>1, <3>2
  <2> QED BY <2>1, <2>2, RoutableLasts, Zenon
<1> QED BY <1>1, <1>2, <1>3, Zenon DEF ChannelStep

\* A step of a task concerns that task and the channel.
LEMMA HandshakeLocal ==
  ASSUME NEW p \in Peer, IsSeq(events), ConnectionInv, TaskFrame(p),
         TaskInv(p)', WrittenInv(p)', OutboundInv(p)'
  PROVE  HandshakeKept
<1>1. WelcomeLasts
  BY DEF TaskFrame, Welcomed, WelcomeLasts
<1>2. \A e : Routable(e) => Routable(e)'
  BY <1>1, RoutableLasts
<1>3. ASSUME NEW q \in Peer, q # p
      PROVE  TaskInv(q)' /\ WrittenInv(q)' /\ OutboundInv(q)'
  <2>1. /\ conn'[q] = conn[q] /\ out'[q] = out[q] /\ peerq'[q] = peerq[q]
        /\ taken'[q] = taken[q] /\ client' = client /\ sent' = sent
    BY <1>3 DEF TaskFrame
  <2>2. TaskInv(q)'
    <3>1. conn[q].at = "event" => Routable(conn[q].held)'
      <4>1. conn[q].at = "event" => Routable(conn[q].held)
        BY Zenon DEF ConnectionInv, TaskInv
      <4> QED BY <1>1, <2>1, <4>1 DEF Routable, WelcomeLasts
    <3> QED BY <2>1, <3>1, Zenon DEF ConnectionInv, TaskInv, Welcomed, Plain
  <2>3. WrittenInv(q)' /\ OutboundInv(q)'
    BY <2>1, Zenon DEF ConnectionInv, WrittenInv, OutboundInv, Welcomed, Plain
  <2> QED BY <2>2, <2>3
<1>4. \A i \in DOMAIN events' : Routable(events[i])'
  BY <1>1, ChannelRoutable DEF ConnectionInv, TaskFrame
<1> QED BY <1>1, <1>3, <1>4 DEF ConnectionInv, TaskFrame, HandshakeKept

\* What holds when a connection task takes a step.
TaskBefore(p) ==
  /\ ConnectionInv /\ ConnShape /\ IsSeq(events)
  /\ TaskInv(p) /\ WrittenInv(p) /\ OutboundInv(p)
  /\ DOMAIN out = Peer /\ DOMAIN peerq = Peer /\ DOMAIN taken = Peer
  /\ sent[p] \in Seq(ClientMessage(p))

\* A write: the outcome of the handshake, or what the manager routed.
LEMMA HandshakeWrites ==
  ASSUME NEW p \in Peer, TaskBefore(p), Write(p)
  PROVE  HandshakeKept
<1> USE DEF At, clientVars
<1>a. TaskInv(p) /\ WrittenInv(p) /\ OutboundInv(p)
  BY DEF TaskBefore
<1>b. IsSeq(events) /\ ConnShape /\ ConnectionInv
  BY DEF TaskBefore
<1>c. /\ DOMAIN out = Peer /\ DOMAIN peerq = Peer /\ DOMAIN taken = Peer
  BY DEF TaskBefore
<1> DEFINE h == conn[p].held
<1>1. /\ conn[p].at = "write" /\ AfterWrite(p)
      /\ out' = [out EXCEPT ![p] = Append(out[p], h)]
      /\ UNCHANGED <<client, sent, peerq, taken, events>>
  BY Zenon DEF Write
<1>2. /\ conn'[p].state = conn[p].state
      /\ \A q \in Peer \ {p} : conn'[q] = conn[q]
      /\ IF conn[p].state = "Established" THEN conn'[p].at = "select"
         ELSE IF h.type = "Status"
         THEN conn'[p].at = "event" /\ conn'[p].held = Connected(p)
         ELSE conn'[p].at = "leave"
  BY <1>b, <1>1, GoToEffect DEF AfterWrite
<1>3. /\ out'[p] = Append(out[p], h) /\ DOMAIN out' = Peer
      /\ \A q \in Peer \ {p} : out'[q] = out[q]
  BY <1>c, <1>1, Zenon
<1>4. /\ IsSeq(out'[p]) /\ Len(out[p]) \in Nat /\ DOMAIN out[p] = 1..Len(out[p])
      /\ DOMAIN out'[p] = 1..(Len(out[p]) + 1)
      /\ \A j \in DOMAIN out[p] : out'[p][j] = out[p][j]
      /\ out'[p][Len(out[p]) + 1] = h
  <2> DEFINE s == out[p]
  <2>1. IsSeq(s)
    BY <1>a DEF WrittenInv
  <2> HIDE DEF s, h
  <2>2. /\ IsSeq(Append(s, h)) /\ Len(s) \in Nat /\ DOMAIN s = 1..Len(s)
        /\ DOMAIN Append(s, h) = 1..(Len(s) + 1)
        /\ \A j \in DOMAIN s : Append(s, h)[j] = s[j]
        /\ Append(s, h)[Len(s) + 1] = h
    BY <2>1, AppendSeq
  <2> QED BY <1>3, <2>2 DEF s
<1>5. out'[p] # << >>
  BY <1>4
<1>6. CASE conn[p].state = "Established"
  <2>1. Welcomed(p) /\ h.type # "Status" /\ conn'[p].at = "select"
    BY <1>a, <1>1, <1>2, <1>6 DEF TaskInv, Plain
  <2>2. Len(out[p]) >= 1
    BY <2>1 DEF Welcomed
  <2>3. out'[p][1] = out[p][1] /\ Welcomed(p)'
    BY <1>4, <2>1, SMTT(30) DEF Welcomed
  <2>4. TaskFrame(p)
    BY <1>c, <1>1, <1>2, <2>3, Zenon DEF TaskFrame, ChannelStep
  <2>5. TaskInv(p)'
    BY <1>a, <1>1, <1>2, <2>1, <2>3 DEF TaskInv
  <2>6. WrittenInv(p)'
    <3>1. \A j \in DOMAIN out'[p] : out'[p][j].type = "Status" => j = 1
      <4>1. \A j \in DOMAIN out[p] : out[p][j].type = "Status" => j = 1
        BY <1>a DEF WrittenInv
      <4> HIDE DEF h
      <4> QED BY <1>4, <2>1, <4>1, SMTT(30)
    <3>2. sent' = sent /\ IsSeq(out'[p])
      BY <1>1, <1>4
    <3> QED BY <1>a, <2>1, <2>3, <3>1, <3>2, ZenonT(60) DEF WrittenInv, Welcomed
  <2>7. OutboundInv(p)'
    BY <1>a, <1>1, <2>3 DEF OutboundInv
  <2> QED BY <1>b, <2>4, <2>5, <2>6, <2>7, HandshakeLocal, Zenon
<1>7. CASE conn[p].state # "Established"
  <2>1. /\ conn[p].state = "AwaitingStatus" /\ out[p] = << >>
        /\ \/ h.type = "Disconnect"
           \/ h.type = "Status" /\ sent[p] # << >> /\ sent[p][1] = Status(TRUE)
    BY <1>a, <1>1, <1>7, ZenonT(60) DEF TaskInv
  <2>2. DOMAIN out'[p] = {1} /\ out'[p][1] = h
    BY <1>4, <2>1
  <2>3. ~Welcomed(p) /\ (Welcomed(p)' <=> h.type = "Status")
    BY <2>1, <2>2 DEF Welcomed
  <2>4. TaskFrame(p)
    BY <1>c, <1>1, <1>2, <2>3 DEF TaskFrame, ChannelStep
  <2>5. TaskInv(p)'
    <3>1. h.type = "Status" => Routable(conn[p].held)'
      BY <1>2, <1>7, <2>3 DEF Routable, Connected
    <3> QED BY <1>a, <1>1, <1>2, <2>3, <3>1, ZenonT(60) DEF TaskInv
  <2>6. WrittenInv(p)'
    BY <1>1, <1>4, <2>1, <2>2, <2>3, ZenonT(60) DEF WrittenInv
  <2>7. OutboundInv(p)'
    BY <1>a, <1>c, <1>1, <2>3 DEF OutboundInv
  <2> QED BY <1>b, <2>4, <2>5, <2>6, <2>7, HandshakeLocal
<1> QED BY <1>6, <1>7

\* A message that the manager routed.
LEMMA HandshakeTakes ==
  ASSUME NEW p \in Peer, TaskBefore(p), TakeOutbound(p)
  PROVE  HandshakeKept
<1> USE DEF At, clientVars
<1>a. TaskInv(p) /\ WrittenInv(p) /\ OutboundInv(p)
  BY DEF TaskBefore
<1>b. IsSeq(events) /\ ConnShape /\ ConnectionInv
  BY DEF TaskBefore
<1>c. /\ DOMAIN out = Peer /\ DOMAIN peerq = Peer /\ DOMAIN taken = Peer
  BY DEF TaskBefore
<1>1. /\ GoTo(p, "write", Head(peerq[p])) /\ conn[p].at = "select"
      /\ conn[p].state = "Established" /\ peerq[p] # << >>
      /\ peerq' = [peerq EXCEPT ![p] = Tail(peerq[p])]
      /\ UNCHANGED <<client, sent, out, taken, events>>
  BY Zenon DEF TakeOutbound
<1>2. /\ conn'[p].at = "write" /\ conn'[p].held = Head(peerq[p])
      /\ conn'[p].state = "Established"
      /\ \A q \in Peer \ {p} : conn'[q] = conn[q]
  BY <1>b, <1>1, GoToEffect
<1>3. /\ peerq'[p] = Tail(peerq[p]) /\ DOMAIN peerq' = Peer
      /\ \A q \in Peer \ {p} : peerq'[q] = peerq[q]
  BY <1>c, <1>1, Zenon
<1>4. /\ IsSeq(peerq'[p]) /\ Plain(Head(peerq[p]))
      /\ \A j \in DOMAIN peerq'[p] : Plain(peerq'[p][j])
  <2> DEFINE s == peerq[p]
  <2>1. IsSeq(s) /\ s # << >> /\ \A j \in DOMAIN s : Plain(s[j])
    BY <1>a, <1>1 DEF OutboundInv
  <2> HIDE DEF s
  <2>2. /\ IsSeq(Tail(s)) /\ Len(s) \in Nat \ {0} /\ DOMAIN s = 1..Len(s)
        /\ DOMAIN Tail(s) = 1..(Len(s) - 1)
        /\ \A j \in DOMAIN Tail(s) : Tail(s)[j] = s[j + 1]
        /\ Head(s) = s[1]
    BY <2>1, TailSeq
  <2>3. Plain(Head(s)) /\ \A j \in DOMAIN Tail(s) : Plain(Tail(s)[j])
    BY <2>1, <2>2
  <2> QED BY <1>3, <2>2, <2>3, Zenon DEF s
<1>5. Welcomed(p) /\ Welcomed(p)'
  BY <1>a, <1>1, Zenon DEF TaskInv, Welcomed
<1>6. TaskFrame(p)
  BY <1>c, <1>1, <1>2, <1>5, Zenon DEF TaskFrame, ChannelStep
<1>7. TaskInv(p)'
  BY <1>a, <1>1, <1>2, <1>4, <1>5 DEF TaskInv
<1>8. WrittenInv(p)' /\ OutboundInv(p)'
  BY <1>a, <1>1, <1>4, ZenonT(60) DEF WrittenInv, OutboundInv, Welcomed
<1> QED BY <1>b, <1>6, <1>7, <1>8, HandshakeLocal, Zenon

\* An event for the manager.
LEMMA HandshakeAnnounces ==
  ASSUME NEW p \in Peer, TaskBefore(p), SendEvent(p), EventRoom,
         events' = Append(events, conn[p].held),
         conn' = [conn EXCEPT ![p] = [at |-> "select", state |-> "Established",
                                      held |-> None]]
  PROVE  HandshakeKept
<1> USE DEF At, clientVars
<1>a. TaskInv(p) /\ WrittenInv(p) /\ OutboundInv(p)
  BY Zenon DEF TaskBefore
<1>b. IsSeq(events) /\ ConnShape /\ ConnectionInv
  BY DEF TaskBefore
<1>c. /\ DOMAIN out = Peer /\ DOMAIN peerq = Peer /\ DOMAIN taken = Peer
  BY DEF TaskBefore
<1>1. conn[p].at = "event" /\ UNCHANGED <<client, sent, out, peerq, taken>>
  BY DEF SendEvent
<1>2. /\ conn'[p].at = "select" /\ conn'[p].state = "Established"
      /\ \A q \in Peer \ {p} : conn'[q] = conn[q]
  BY <1>b, Zenon DEF ConnShape
<1>3. Welcomed(p) /\ Welcomed(p)' /\ Routable(conn[p].held)
  BY <1>a, <1>1, Zenon DEF TaskInv, Welcomed
<1>4. TaskFrame(p)
  BY <1>c, <1>1, <1>3 DEF TaskFrame, ChannelStep
<1>5. TaskInv(p)'
  BY <1>a, <1>1, <1>2, <1>3, ZenonT(60) DEF TaskInv
<1>6. WrittenInv(p)' /\ OutboundInv(p)'
  BY <1>a, <1>1, <1>3, ZenonT(60) DEF WrittenInv, OutboundInv
<1> QED BY <1>b, <1>4, <1>5, <1>6, HandshakeLocal, Zenon

\* The end of the task.
LEMMA HandshakeLeaves ==
  ASSUME NEW p \in Peer, TaskBefore(p), Leave(p)
  PROVE  HandshakeKept
<1> USE DEF At, clientVars
<1>a. TaskInv(p) /\ WrittenInv(p) /\ OutboundInv(p)
  BY DEF TaskBefore
<1>b. IsSeq(events) /\ ConnShape /\ ConnectionInv
  BY DEF TaskBefore
<1>c. /\ DOMAIN out = Peer /\ DOMAIN peerq = Peer /\ DOMAIN taken = Peer
  BY DEF TaskBefore
<1>1. /\ GoTo(p, "done", None) /\ conn[p].at = "leave"
      /\ peerq' = [peerq EXCEPT ![p] = << >>]
      /\ UNCHANGED <<client, sent, out, taken>>
      /\ events' = events \/ events' = Append(events, Disconnected(p))
  BY Zenon DEF Leave
<1>2. /\ conn'[p].at = "done" /\ conn'[p].state = conn[p].state
      /\ \A q \in Peer \ {p} : conn'[q] = conn[q]
  BY <1>b, <1>1, GoToEffect, Zenon
<1>3. /\ peerq'[p] = << >> /\ DOMAIN peerq' = Peer
      /\ \A q \in Peer \ {p} : peerq'[q] = peerq[q]
  BY <1>c, <1>1
<1>4. Welcomed(p)' <=> Welcomed(p)
  BY <1>1 DEF Welcomed
<1>5. Routable(Disconnected(p))
  BY Zenon DEF Routable, Disconnected
<1>6. TaskFrame(p)
  BY <1>c, <1>1, <1>2, <1>4, <1>5, Zenon DEF TaskFrame, ChannelStep
<1>7. TaskInv(p)'
  BY <1>a, <1>1, <1>2, <1>4 DEF TaskInv
<1>8. WrittenInv(p)' /\ OutboundInv(p)'
  BY <1>a, <1>c, <1>1, <1>4, EmptySeq, ZenonT(60) DEF WrittenInv, OutboundInv
<1> QED BY <1>b, <1>6, <1>7, <1>8, HandshakeLocal

\* A task that goes on without a write.
LEMMA HandshakeMoves ==
  ASSUME NEW p \in Peer, TaskBefore(p), NEW at, NEW h,
         GoTo(p, at, h),
         UNCHANGED <<client, sent, out, peerq, events>>,
         at # "none", DOMAIN taken' = Peer,
         \A q \in Peer \ {p} : taken'[q] = taken[q],
         conn[p].at # "none", at # "select",
         at = "event" => Welcomed(p) /\ Routable(h),
         at = "write" => /\ conn[p].state # "Established"
                         /\ out[p] = << >>
                         /\ \/ h.type = "Disconnect"
                            \/ /\ h.type = "Status"
                               /\ sent[p] # << >> /\ sent[p][1] = Status(TRUE)
  PROVE  HandshakeKept
<1>0. /\ IsSeq(events) /\ ConnShape /\ TaskInv(p) /\ WrittenInv(p) /\ OutboundInv(p)
      /\ DOMAIN out = Peer /\ DOMAIN peerq = Peer /\ DOMAIN taken = Peer
      /\ sent[p] \in Seq(ClientMessage(p)) /\ ConnectionInv
  BY Zenon DEF TaskBefore
<1>1. /\ conn'[p].at = at /\ conn'[p].held = h
      /\ conn'[p].state = conn[p].state
      /\ \A q \in Peer \ {p} : conn'[q] = conn[q]
  <2>1. ConnShape
    BY <1>0, Zenon
  <2> QED BY <2>1, GoToEffect, SMTT(30)
<1>2. TaskFrame(p)
  BY <1>0, <1>1 DEF TaskFrame, ChannelStep, Welcomed
<1>3. WrittenInv(p)' /\ OutboundInv(p)'
  BY <1>0, ZenonT(60) DEF WrittenInv, OutboundInv, Welcomed
<1>4. TaskInv(p)'
  <2>1. Welcomed(p)' <=> Welcomed(p)
    BY Zenon DEF Welcomed
  <2>2. at = "event" => Routable(conn[p].held)'
    BY <1>1 DEF Routable, Welcomed
  <2>3. client'[p] # "absent"
    BY <1>0, ZenonT(60) DEF TaskInv
  <2> QED BY <1>0, <1>1, <2>1, <2>2, ZenonT(60) DEF TaskInv
<1> QED BY <1>0, <1>2, <1>3, <1>4, HandshakeLocal, Zenon

\* A Status of a client names the right chain or another one.
LEMMA StatusTold ==
  ASSUME NEW p, NEW m \in ClientMessage(p), m.type = "Status", m.right_chain
  PROVE  m = Status(TRUE)
<1>1. m \in {Status(TRUE), Status(FALSE)}
  <2>1. m # [type |-> "Transactions", origin |-> p]
    OBVIOUS
  <2>2. m \notin {[type |-> "GetAccountState", known |-> known] : known \in BOOLEAN}
    OBVIOUS
  <2>3. m \notin {Msg(type) : type \in {"Ping", "NewBlock", "GetChainHead", "Ignored",
                                       "Undecodable"}}
    BY DEF Msg
  <2> QED BY <2>1, <2>2, <2>3, Zenon DEF ClientMessage
<1>2. ~Status(FALSE).right_chain
  BY DEF Status
<1> QED BY <1>1, <1>2, ZenonT(60)

\* The first message decides the first answer.
LEMMA HandshakeAnswers ==
  ASSUME NEW p \in Peer, TaskBefore(p), ReceiveStatus(p)
  PROVE  HandshakeKept
<1> USE DEF At, clientVars
<1>0. /\ IsSeq(events) /\ ConnShape /\ TaskInv(p) /\ WrittenInv(p) /\ OutboundInv(p)
      /\ DOMAIN out = Peer /\ DOMAIN peerq = Peer /\ DOMAIN taken = Peer
      /\ sent[p] \in Seq(ClientMessage(p)) /\ ConnectionInv
  BY DEF TaskBefore
<1> DEFINE h == IF next(p).right_chain
                THEN [type |-> "Status", head |-> shared_head]
                ELSE Msg("Disconnect")
<1>1. /\ GoTo(p, "write", h) /\ next(p).type = "Status"
      /\ conn[p].at = "select" /\ conn[p].state = "AwaitingStatus"
      /\ taken[p] < Len(sent[p]) /\ taken' = [taken EXCEPT ![p] = taken[p] + 1]
      /\ UNCHANGED <<client, sent, out, peerq, events>>
  BY Zenon DEF ReceiveStatus, Receive
<1>2. taken[p] = 0 /\ out[p] = << >>
  BY <1>0, <1>1, Zenon DEF TaskInv
<1>3. sent[p] # << >> /\ next(p) = sent[p][1] /\ next(p) \in ClientMessage(p)
  BY <1>0, <1>1, <1>2 DEF next
<1>4. next(p).right_chain => next(p) = Status(TRUE)
  BY <1>1, <1>3, StatusTold, ZenonT(60)
<1>5. h.type = "Disconnect" \/ (h.type = "Status" /\ sent[p][1] = Status(TRUE))
  BY <1>3, <1>4, ZenonT(60) DEF Msg
<1>6. DOMAIN taken' = Peer /\ \A q \in Peer \ {p} : taken'[q] = taken[q]
  BY <1>0, <1>1
<1> HIDE DEF h
<1> QED BY HandshakeMoves, <1>1, <1>2, <1>3, <1>5, <1>6, ZenonT(60)

\* A violation of the protocol.
LEMMA HandshakeEnds ==
  ASSUME NEW p \in Peer, TaskBefore(p), ReceiveViolation(p)
  PROVE  HandshakeKept
<1> USE DEF At, clientVars
<1>0. /\ IsSeq(events) /\ ConnShape /\ TaskInv(p) /\ WrittenInv(p) /\ OutboundInv(p)
      /\ DOMAIN out = Peer /\ DOMAIN peerq = Peer /\ DOMAIN taken = Peer
      /\ sent[p] \in Seq(ClientMessage(p)) /\ ConnectionInv
  BY DEF TaskBefore
<1>1. /\ GoTo(p, "leave", None) /\ conn[p].at = "select"
      /\ taken' = [taken EXCEPT ![p] = taken[p] + 1]
      /\ UNCHANGED <<client, sent, out, peerq, events>>
  BY Zenon DEF ReceiveViolation, Receive
<1>2. DOMAIN taken' = Peer /\ \A q \in Peer \ {p} : taken'[q] = taken[q]
  BY <1>0, <1>1
<1> QED BY HandshakeMoves, <1>1, <1>2, ZenonT(60)

\* A message of a welcomed client.
LEMMA HandshakeReceives ==
  ASSUME NEW p \in Peer, TaskBefore(p), ReceiveMessage(p)
  PROVE  HandshakeKept
<1> USE DEF At, clientVars
<1>0. /\ IsSeq(events) /\ ConnShape /\ TaskInv(p) /\ WrittenInv(p) /\ OutboundInv(p)
      /\ DOMAIN out = Peer /\ DOMAIN peerq = Peer /\ DOMAIN taken = Peer
      /\ sent[p] \in Seq(ClientMessage(p)) /\ ConnectionInv
  BY DEF TaskBefore
<1>1. /\ GoTo(p, "event", Received(p, next(p))) /\ conn[p].at = "select"
      /\ conn[p].state = "Established" /\ next(p).type # "Status"
      /\ taken' = [taken EXCEPT ![p] = taken[p] + 1]
      /\ UNCHANGED <<client, sent, out, peerq, events>>
  BY Zenon DEF ReceiveMessage, Receive
<1>2. Welcomed(p) /\ Routable(Received(p, next(p)))
  BY <1>0, <1>1, Zenon DEF TaskInv, Routable, Received, Plain
<1>3. DOMAIN taken' = Peer /\ \A q \in Peer \ {p} : taken'[q] = taken[q]
  BY <1>0, <1>1
<1> QED BY HandshakeMoves, <1>1, <1>2, <1>3, ZenonT(60)

\* The connection task, in each of its branches.
LEMMA HandshakeConnection ==
  ASSUME NEW p \in Peer, ConnShape, IsSeq(events), ConnectionInv,
         ConnectionStep(p)
  PROVE  HandshakeKept
<1>1. TaskBefore(p)
  BY DEF TaskBefore, ConnectionInv
<1>2. CASE \/ ReceiveNone(p) \/ WriteFails(p)
           \/ SendEvent(p) /\ GoTo(p, "leave", None) /\ UNCHANGED events
  <2>1. /\ GoTo(p, "leave", None) /\ conn[p].at # "none"
        /\ UNCHANGED <<client, sent, out, peerq, events, taken>>
    BY <1>2, Zenon DEF ReceiveNone, WriteFails, SendEvent, At, clientVars
  <2>2. DOMAIN taken' = Peer
    BY <1>1, <2>1, Zenon DEF TaskBefore
  <2> QED BY <1>1, <2>1, <2>2, HandshakeMoves, ZenonT(60)
<1>3. SendEvent(p) =>
         \/ GoTo(p, "leave", None) /\ UNCHANGED events
         \/ /\ EventRoom /\ events' = Append(events, conn[p].held)
            /\ conn' = [conn EXCEPT ![p] = [at |-> "select",
                                            state |-> "Established",
                                            held |-> None]]
  BY DEF SendEvent
<1>4. CASE SendEvent(p)
  BY <1>1, <1>2, <1>3, <1>4, HandshakeAnnounces, Zenon
<1> QED BY <1>1, <1>2, <1>4, HandshakeAnswers, HandshakeEnds,
           HandshakeReceives,
           HandshakeTakes, HandshakeWrites, HandshakeLeaves, Zenon
           DEF ConnectionStep

\* Nothing has been written when the node starts.
LEMMA HandshakeInit == ConnectionInit => ConnectionInv
<1> SUFFICES ASSUME ConnectionInit PROVE ConnectionInv
  OBVIOUS
<1>1. ASSUME NEW p \in Peer
      PROVE  TaskInv(p) /\ WrittenInv(p) /\ OutboundInv(p)
  BY EmptySeq, Zenon
     DEF ConnectionInit, TaskInv, WrittenInv, OutboundInv, Welcomed, NewTask
<1> QED BY <1>1, EmptySeq DEF ConnectionInit, ConnectionInv

\* A step of the manager or of the adapter: it takes events and adds events
\* that can be routed, and adds messages to the channels of welcomed clients.
LEMMA HandshakeRouted ==
  ASSUME IsSeq(events), ConnectionInv,
         UNCHANGED <<client, sent, taken, out, conn>>,
         DOMAIN peerq' = Peer,
         \A q \in Peer :
           \/ peerq'[q] = peerq[q]
           \/ Welcomed(q) /\ \E m : Plain(m) /\ peerq'[q] = Append(peerq[q], m),
         ChannelStep
  PROVE  HandshakeKept
<1>1. WelcomeLasts
  BY Zenon DEF Welcomed, WelcomeLasts
<1>2. \A i \in DOMAIN events : Routable(events[i])
  BY DEF ConnectionInv
<1>3. \A i \in DOMAIN events' : Routable(events[i])'
  BY <1>1, <1>2, ChannelRoutable, Zenon
<1>4. ASSUME NEW q \in Peer
      PROVE  TaskInv(q)' /\ WrittenInv(q)' /\ OutboundInv(q)'
  <2>1. TaskInv(q)'
    BY Zenon DEF ConnectionInv, TaskInv, Routable, Welcomed, Plain
  <2>2. WrittenInv(q)'
    BY Zenon DEF ConnectionInv, WrittenInv, Welcomed
  <2>3. OutboundInv(q)'
    <3>1. CASE peerq'[q] = peerq[q]
      BY <3>1, Zenon DEF ConnectionInv, OutboundInv, Plain, Welcomed
    <3>2. CASE Welcomed(q) /\ \E m : Plain(m) /\ peerq'[q] = Append(peerq[q], m)
      <4>1. PICK m : Plain(m) /\ peerq'[q] = Append(peerq[q], m)
        BY <3>2, Zenon
      <4> DEFINE s == peerq[q]
      <4>2. IsSeq(s) /\ \A j \in DOMAIN s : Plain(s[j])
        BY DEF ConnectionInv, OutboundInv
      <4>3. peerq'[q] = Append(s, m)
        BY <4>1, Zenon
      <4> HIDE DEF s
      <4>4. /\ IsSeq(Append(s, m)) /\ Len(s) \in Nat /\ DOMAIN s = 1..Len(s)
            /\ DOMAIN Append(s, m) = 1..(Len(s) + 1)
            /\ \A j \in DOMAIN s : Append(s, m)[j] = s[j]
            /\ Append(s, m)[Len(s) + 1] = m
        BY <4>2, AppendSeq
      <4>5. \A j \in DOMAIN Append(s, m) : Plain(Append(s, m)[j])
        BY <4>1, <4>2, <4>4
      <4> QED BY <3>2, <4>3, <4>4, <4>5, Zenon DEF OutboundInv, Plain, Welcomed
    <3> QED BY <3>1, <3>2, Zenon
  <2> QED BY <2>1, <2>2, <2>3
<1> QED BY <1>1, <1>3, <1>4, Zenon DEF ConnectionInv, HandshakeKept

\* A client that sends: its first message stays the first.
LEMMA HandshakeClient ==
  ASSUME NEW p \in Peer, ConnectionInv, ClientStep(p)
  PROVE  HandshakeKept
<1>1. CASE ClientSend(p)
  <2>1. /\ UNCHANGED <<client, taken, out, conn, peerq, events>>
        /\ Len(sent[p]) < Len(Script[p])
        /\ \E m \in Script[p][Len(sent[p]) + 1] :
             sent' = [sent EXCEPT ![p] = Append(sent[p], m)]
    BY <1>1, ZenonT(60) DEF ClientSend
  <2>2. PICK m \in Script[p][Len(sent[p]) + 1] :
          sent' = [sent EXCEPT ![p] = Append(sent[p], m)]
    BY <2>1, ZenonT(60)
  <2>3. DOMAIN sent = Peer /\ sent[p] \in Seq(ClientMessage(p))
    BY Zenon DEF ConnectionInv
  <2>4. m \in ClientMessage(p)
    <3>1. Script[p] \in Seq(SUBSET ClientMessage(p))
      BY ScriptAssumption
    <3>2. Len(sent[p]) + 1 \in 1..Len(Script[p])
      BY <2>1, <2>3, <3>1
    <3> HIDE DEF ClientMessage
    <3> QED BY <2>2, <3>1, <3>2
  <2>5. /\ DOMAIN sent' = Peer
        /\ sent'[p] \in Seq(ClientMessage(p))
        /\ sent[p] # << >> => sent'[p] # << >> /\ sent'[p][1] = sent[p][1]
        /\ \A q \in Peer \ {p} : sent'[q] = sent[q]
    BY <2>2, <2>3, <2>4
  <2>6. \A q \in Peer : sent[q] # << >> => sent'[q] # << >> /\ sent'[q][1] = sent[q][1]
    BY <2>5, Zenon
  <2>7. ASSUME NEW q \in Peer
        PROVE  TaskInv(q)' /\ WrittenInv(q)' /\ OutboundInv(q)'
    <3>1. TaskInv(q)'
      <4>1. TaskInv(q) /\ (Welcomed(q)' <=> Welcomed(q))
        BY <2>1 DEF ConnectionInv, Welcomed
      <4>2. conn[q].at = "event" => Routable(conn[q].held)'
        BY <2>1, <4>1, Zenon DEF TaskInv, Routable, Welcomed, Plain
      <4> QED BY <2>1, <2>6, <4>1, <4>2, Zenon DEF TaskInv, Plain
    <3>2. WrittenInv(q)' /\ OutboundInv(q)'
      BY <2>1, <2>6, ZenonT(60)
         DEF ConnectionInv, WrittenInv, OutboundInv, Welcomed, Plain
    <3> QED BY <3>1, <3>2
  <2>8. WelcomeLasts /\ \A i \in DOMAIN events' : Routable(events[i])'
    BY <2>1 DEF ConnectionInv, Routable, Welcomed, Plain, WelcomeLasts
  <2>9. \A q \in Peer : sent'[q] \in Seq(ClientMessage(q))
    <3>1. \A q \in Peer : sent[q] \in Seq(ClientMessage(q))
      BY Zenon DEF ConnectionInv
    <3> QED BY <2>5, <3>1, Zenon
  <2> QED BY <2>1, <2>5, <2>7, <2>8, <2>9 DEF ConnectionInv, HandshakeKept
<1>2. CASE ClientRead(p) \/ ClientClose(p)
  <2>1. UNCHANGED <<sent, taken, out, conn, peerq, events>>
    BY <1>2, Zenon DEF ClientRead, ClientClose
  <2>2. /\ DOMAIN client' = Peer
        /\ \A q \in Peer : client'[q] = "absent" => client[q] = "absent"
    BY <1>2 DEF ClientRead, ClientClose, ConnectionInv
  <2>3. ASSUME NEW q \in Peer
        PROVE  TaskInv(q)' /\ WrittenInv(q)' /\ OutboundInv(q)'
    <3>1. TaskInv(q)'
      <4>1. TaskInv(q)
        BY DEF ConnectionInv
      <4> QED BY <2>1, <2>2, <4>1, Zenon DEF TaskInv, Routable, Welcomed, Plain
    <3>2. WrittenInv(q)' /\ OutboundInv(q)'
      BY <2>1, Zenon
         DEF ConnectionInv, WrittenInv, OutboundInv, Welcomed, Plain
    <3> QED BY <3>1, <3>2
  <2>4. WelcomeLasts /\ \A i \in DOMAIN events' : Routable(events[i])'
    BY <2>1 DEF ConnectionInv, Routable, Welcomed, Plain, WelcomeLasts
  <2> QED BY <2>1, <2>2, <2>3, <2>4 DEF ConnectionInv, HandshakeKept
<1> QED BY <1>1, <1>2, Zenon DEF ClientStep

\* The listener: a fresh task has read and written nothing.
LEMMA HandshakeAccept ==
  ASSUME NEW p \in Peer, ConnShape, ConnectionInv,
         client[p] = "absent",
         client' = [client EXCEPT ![p] = "open"],
         conn' = [conn EXCEPT ![p].at = "select"],
         UNCHANGED <<sent, taken, out, peerq, events>>
  PROVE  HandshakeKept
<1>2. /\ conn'[p].at = "select" /\ conn'[p].state = conn[p].state
      /\ \A q \in Peer \ {p} : conn'[q] = conn[q]
  <2> DEFINE c == [conn[p] EXCEPT !.at = "select"]
  <2>1. {"at", "state", "held"} \subseteq DOMAIN conn[p] /\ DOMAIN conn = Peer
    BY DEF ConnShape
  <2>2. c.at = "select" /\ c.state = conn[p].state
    BY <2>1
  <2>3. conn' = [conn EXCEPT ![p] = c]
    BY <2>1
  <2> HIDE DEF c
  <2> QED BY <2>1, <2>2, <2>3
<1>3. /\ DOMAIN client' = Peer /\ client'[p] = "open"
      /\ \A q \in Peer \ {p} : client'[q] = client[q]
  BY DEF ConnectionInv
<1>4. ASSUME NEW q \in Peer
      PROVE  TaskInv(q)' /\ WrittenInv(q)' /\ OutboundInv(q)'
  <2>1. TaskInv(q)'
    <3>0. TaskInv(q)
      BY DEF ConnectionInv
    <3>1. CASE q = p
      <4>1. /\ conn[q].at = "none" /\ conn'[q].at = "select"
            /\ conn'[q].state = conn[q].state /\ client'[q] = "open"
            /\ out' = out /\ taken' = taken
        BY <1>2, <1>3, <3>0, <3>1 DEF TaskInv
      <4> QED BY <3>0, <4>1, Zenon DEF TaskInv, Welcomed
    <3>2. CASE q # p
      <4>1. /\ conn'[q] = conn[q] /\ client'[q] = client[q]
            /\ out' = out /\ taken' = taken /\ sent' = sent
        BY <1>2, <1>3, <3>2
      <4> QED BY <3>0, <4>1, ZenonT(60) DEF TaskInv, Routable, Welcomed, Plain
    <3> QED BY <3>1, <3>2
  <2>2. WrittenInv(q)' /\ OutboundInv(q)'
    BY Zenon DEF ConnectionInv, WrittenInv, OutboundInv, Welcomed, Plain
  <2> QED BY <2>1, <2>2
<1>5. WelcomeLasts /\ \A i \in DOMAIN events' : Routable(events[i])'
  BY DEF ConnectionInv, Routable, Welcomed, Plain, WelcomeLasts
<1> QED BY <1>3, <1>4, <1>5 DEF ConnectionInv, HandshakeKept

-----------------------------------------------------------------------------
(* The manager and the rest of the node *)


\* The shape of the manager's record.
MgrShape == {"at", "todo", "message"} \subseteq DOMAIN mgr

(* The handshake *)

\* What the manager and the adapter still have to send, and to whom.
RouterInv ==
  /\ \A p \in peer_map : Welcomed(p)
  /\ mgr.at \in {"send", "goodbye"} =>
       Plain(mgr.message) /\ \A p \in mgr.todo : p \in Peer /\ Welcomed(p)
  /\ adapter.at = "answer" => Plain(adapter.held.message)

HandshakeInv == ConnectionInv /\ RouterInv

\* A step of somebody else: a welcome lasts.
LEMMA RouterUnchanged ==
  ASSUME peer_map \subseteq Peer, HandshakeInv, HandshakeKept,
         UNCHANGED <<peer_map, mgr, adapter>>
  PROVE  HandshakeInv'
BY Zenon DEF HandshakeInv, RouterInv, HandshakeKept, WelcomeLasts, Plain

\* The adapter: its answers are no handshakes.
LEMMA HandshakeAdapter ==
  ASSUME IsSeq(events), {"at", "held"} \subseteq DOMAIN adapter,
         adapter.at = "answer" => adapter.held.type = "SendMessage",
         HandshakeInv, AdapterStep
  PROVE  HandshakeInv'
<1>0. ConnectionInv /\ RouterInv /\ DOMAIN peerq = Peer
  BY DEF HandshakeInv, ConnectionInv
<1>1. /\ UNCHANGED <<client, sent, taken, out, conn, peerq, peer_map, mgr>>
      /\ \/ events' = events
         \/ adapter.at = "answer" /\ events' = Append(events, adapter.held)
      /\ adapter'.at = "answer" => Plain(adapter'.held.message)
  <2> USE DEF connectionVars, clientVars, managerVars, Waiting
  <2>1. CASE AdapterRecv
    BY <2>1 DEF AdapterRecv, SendMessage, Answer, Plain
  <2>2. CASE AdapterEnd \/ AdapterProcess
    BY <2>2 DEF AdapterEnd, AdapterProcess
  <2>3. CASE AdapterReply
    BY <2>3 DEF AdapterReply, SendMessage, Plain
  <2>4. CASE AdapterAnswer
    BY <2>4, Zenon DEF AdapterAnswer
  <2> QED BY <2>1, <2>2, <2>3, <2>4, ZenonT(60) DEF AdapterStep
<1>2. ChannelStep
  BY <1>0, <1>1 DEF RouterInv, Routable, ChannelStep
<1>3. HandshakeKept
  BY <1>0, <1>1, <1>2, HandshakeRouted
<1> QED BY <1>0, <1>1, <1>3 DEF HandshakeInv, HandshakeKept, RouterInv, Welcomed, Plain

\* What a step of the manager leaves alone, and to whom it sends.
RouterFrame ==
  /\ UNCHANGED <<client, sent, taken, out, conn>>
  /\ DOMAIN peerq' = Peer
  /\ \A q \in Peer :
       \/ peerq'[q] = peerq[q]
       \/ Welcomed(q) /\ \E m : Plain(m) /\ peerq'[q] = Append(peerq[q], m)
  /\ ChannelStep

\* What the manager has to send after its step.
RouterNext ==
  mgr'.at \in {"send", "goodbye"} =>
    Plain(mgr'.message) /\ \A q \in mgr'.todo : q \in Peer /\ Welcomed(q)

\* The manager: it only sends to peers of its map, which were announced after
\* their welcome.
LEMMA HandshakeManager ==
  ASSUME IsSeq(events), MgrShape, peer_map \subseteq Peer, UNCHANGED adapter,
         HandshakeInv, ManagerStep
  PROVE  HandshakeInv'
<1>0. RouterInv /\ ConnectionInv /\ DOMAIN peerq = Peer
  BY DEF HandshakeInv, ConnectionInv
<1>1. \A q \in peer_map : q \in Peer /\ Welcomed(q)
  BY <1>0 DEF RouterInv
\* The conclusion, from what a step does to the manager's own state.
<1>2. ASSUME RouterFrame, RouterNext, \A q \in peer_map' : Welcomed(q)
      PROVE  HandshakeInv'
  <2>1. HandshakeKept /\ out' = out
    BY <1>0, <1>2, HandshakeRouted DEF RouterFrame
  <2> QED BY <1>0, <1>2, <2>1, Zenon
             DEF HandshakeInv, HandshakeKept, RouterInv, RouterNext, Welcomed, Plain
<1>3. ASSUME NEW todo, NEW m, Round(todo, m), todo \subseteq peer_map, Plain(m)
      PROVE  RouterNext
  BY <1>1, <1>3 DEF Round, Idle, RouterNext
\* The branches that take an event.
<1>4. ASSUME NEW type, TakeEvent(type)
      PROVE  /\ RouterFrame /\ mgr.at = "select"
             /\ Head(events).type = type /\ Routable(Head(events))
  <2>1. Head(events) = events[1] /\ 1 \in DOMAIN events
    BY <1>0, <1>4, TailSeq, SeqNonempty DEF TakeEvent
  <2>2. Routable(Head(events))
    BY <1>0, <2>1 DEF ConnectionInv
  <2> QED BY <1>0, <1>4, <2>2 DEF TakeEvent, clientVars, RouterFrame, ChannelStep
<1>5. CASE OnConnected
  <2>1. /\ RouterFrame /\ mgr.at = "select" /\ Welcomed(from)
        /\ peer_map' = peer_map \cup {from} /\ mgr' = mgr
    BY <1>4, <1>5 DEF OnConnected, Routable, from
  <2> QED BY <1>1, <1>2, <2>1 DEF RouterNext
<1>6. CASE OnDisconnected
  <2>1. /\ RouterFrame /\ mgr.at = "select"
        /\ peer_map' = peer_map \ {from} /\ mgr' = mgr
    BY <1>4, <1>6 DEF OnDisconnected
  <2> QED BY <1>1, <1>2, <2>1 DEF RouterNext
<1>7. CASE OnPing \/ OnTransactions \/ OnSendMessage
  <2>1. \E type \in {"Message", "SendMessage"} : TakeEvent(type)
    BY <1>7 DEF OnPing, OnTransactions, OnSendMessage, TakeMessage
  <2>2. RouterFrame /\ Plain(body)
    BY <1>4, <2>1 DEF Routable, body
  <2>3. Plain(Msg("Pong"))
    BY DEF Plain, Msg
  <2>4. /\ peer_map' = peer_map
        /\ \/ Round(peer_map \cap {from}, Msg("Pong"))
           \/ Round(peer_map \ {from}, body)
           \/ Round(peer_map \cap {from}, body)
    BY <1>7 DEF OnPing, OnTransactions, OnSendMessage
  <2>5. RouterNext
    BY <1>3, <2>2, <2>3, <2>4
  <2> QED BY <1>1, <1>2, <2>2, <2>4, <2>5
<1>8. CASE OnRequest \/ OnIgnored
  <2>1. /\ TakeEvent("Message") /\ peer_map' = peer_map
        /\ \/ mgr' = mgr
           \/ mgr' = [mgr EXCEPT !.at = "forward", !.message = Received(from, body)]
    BY <1>8 DEF OnRequest, OnIgnored, TakeMessage
  <2>2. RouterFrame /\ mgr.at = "select"
    BY <1>4, <2>1
  <2>3. mgr'.at \in {"select", "forward"}
    BY <1>0, <2>1, <2>2, Zenon DEF MgrShape
  <2> QED BY <1>1, <1>2, <2>1, <2>2, <2>3 DEF RouterNext
\* The branches that take none.
<1>9. ASSUME UNCHANGED <<client, sent, taken, out, conn, peerq>>,
             events' = events \/ events' = << >>
      PROVE  RouterFrame
  BY <1>0, <1>9 DEF RouterFrame, ChannelStep
<1>10. CASE Tick \/ Forward
  <2>1. UNCHANGED <<client, sent, taken, out, conn, peerq, events, peer_map>>
    BY <1>10 DEF Tick, Forward, connectionVars, clientVars
  <2>2. Plain(Msg("Ping"))
    BY DEF Plain, Msg
  <2>3. Round(peer_map, Msg("Ping")) \/ mgr' = Idle
    BY <1>10 DEF Tick, Forward
  <2>4. RouterNext
    BY <1>3, <2>2, <2>3 DEF RouterNext, Idle
  <2> QED BY <1>1, <1>2, <1>9, <2>1, <2>4, Zenon
<1>11. CASE OnShutdown
  <2>1. UNCHANGED <<client, sent, taken, out, conn, peerq>>
    BY <1>11, Zenon DEF OnShutdown, clientVars
  <2>2. CASE Stop
    <3>1. peer_map' = {} /\ events' = << >> /\ mgr'.at = "stopped"
      BY <2>2 DEF Stop, Idle
    <3> QED BY <1>2, <1>9, <2>1, <3>1 DEF RouterNext
  <2>3. CASE /\ mgr' = [at |-> "goodbye", todo |-> peer_map,
                        message |-> Msg("Disconnect"), stale |-> {}]
             /\ UNCHANGED <<peer_map, event_rx, events>>
    <3>1. Plain(mgr'.message) /\ mgr'.todo = peer_map
      BY <2>3, Zenon DEF Plain, Msg
    <3> QED BY <1>1, <1>2, <1>9, <2>1, <2>3, <3>1, Zenon DEF RouterNext
  <2> QED BY <1>11, <2>2, <2>3 DEF OnShutdown
\* The branches that put a message into the channel of a peer.
<1>12. ASSUME NEW p \in Peer, p \in mgr.todo, mgr.at \in {"send", "goodbye"},
              UNCHANGED <<client, sent, taken, out, conn>>,
              events' = events \/ events' = << >>,
              \/ peerq' = [peerq EXCEPT ![p] = Append(peerq[p], mgr.message)]
              \/ peerq' = peerq
       PROVE  RouterFrame
  <2>1. Welcomed(p) /\ Plain(mgr.message)
    BY <1>0, <1>12, Zenon DEF RouterInv
  <2>2. ChannelStep
    BY <1>12 DEF ChannelStep
  <2> QED BY <1>0, <1>12, <2>1, <2>2, Zenon DEF RouterFrame
<1>13. ASSUME NEW p \in Peer, SendTo(p)
       PROVE  HandshakeInv'
  <2>1. /\ UNCHANGED <<client, sent, taken, out, conn, events>>
        /\ mgr.at = "send" /\ p \in mgr.todo
        /\ \/ peerq' = [peerq EXCEPT ![p] = Append(peerq[p], mgr.message)]
           \/ peerq' = peerq
        /\ \E closed \in BOOLEAN : SentTo(p, closed)
    BY <1>13, Zenon DEF SendTo, clientVars
  <2>2. /\ peer_map' \subseteq peer_map
        /\ \/ mgr'.at = "select"
           \/ mgr'.message = mgr.message /\ mgr'.todo \subseteq mgr.todo
    <3>1. PICK closed \in BOOLEAN : SentTo(p, closed)
      BY <2>1
    <3> DEFINE stale == IF closed THEN mgr.stale \cup {p} ELSE mgr.stale
    <3>2. CASE mgr' = Idle /\ peer_map' = peer_map \ stale
      BY <3>2 DEF Idle
    <3>3. CASE /\ mgr' = [mgr EXCEPT !.todo = @ \ {p}, !.stale = stale]
               /\ UNCHANGED peer_map
      BY <1>0, <3>3, Zenon DEF MgrShape
    <3> QED BY <3>1, <3>2, <3>3 DEF SentTo
  <2>3. RouterNext
    BY <1>0, <2>1, <2>2, Zenon DEF RouterInv, RouterNext
  <2>4. RouterFrame
    BY <1>12, <2>1
  <2> QED BY <1>1, <1>2, <2>2, <2>3, <2>4
<1>14. ASSUME NEW p \in Peer, Goodbye(p)
       PROVE  HandshakeInv'
  <2>1. /\ UNCHANGED <<client, sent, taken, out, conn>>
        /\ mgr.at = "goodbye" /\ p \in mgr.todo
        /\ \/ peerq' = [peerq EXCEPT ![p] = Append(peerq[p], mgr.message)]
           \/ peerq' = peerq
    BY <1>14, Zenon DEF Goodbye, clientVars
  <2>2. CASE Stop
    <3>1. peer_map' = {} /\ events' = << >> /\ mgr'.at = "stopped"
      BY <2>2 DEF Stop, Idle
    <3> QED BY <1>2, <1>12, <2>1, <3>1 DEF RouterNext
  <2>3. CASE /\ mgr' = [mgr EXCEPT !.todo = @ \ {p}]
             /\ UNCHANGED <<peer_map, event_rx, events>>
    <3>1. mgr'.message = mgr.message /\ mgr'.todo \subseteq mgr.todo
      BY <1>0, <2>3 DEF MgrShape
    <3>2. RouterNext
      BY <1>0, <2>1, <3>1 DEF RouterInv, RouterNext
    <3> QED BY <1>1, <1>2, <1>12, <2>1, <2>3, <3>2
  <2> QED BY <1>14, <2>2, <2>3 DEF Goodbye
<1> QED BY <1>0, <1>5, <1>6, <1>7, <1>8, <1>10, <1>11, <1>13, <1>14, Zenon
           DEF ManagerStep

-----------------------------------------------------------------------------
(* The tasks of the node *)

\* The shapes of the tasks' records and of the channels.
Shapes ==
  /\ ConnShape /\ MgrShape
  /\ {"at", "held"} \subseteq DOMAIN adapter
  /\ IsSeq(events) /\ IsSeq(netq) /\ IsSeq(procq)

Gone == \A p \in Peer : conn[p].at \in {"none", "done"}

IsShutdown(m) == m.message.type = "Shutdown"
ShutdownQueued == \E i \in DOMAIN procq : IsShutdown(procq[i])

\* Main waits for listener and manager before it speaks to the processor, and
\* nobody else sends a Shutdown.
OrderInv ==
  /\ mgr.at = "stopped" => peer_map = {}
  /\ listener = "done" => Gone
  /\ main \in {"manager", "send", "processor", "stopped", "failed"}
       => listener = "done"
  /\ main \in {"send", "processor", "stopped", "failed"} => mgr.at = "stopped"
  /\ ShutdownQueued \/ proc = "stopped"
       => main \in {"processor", "stopped", "failed"}
  /\ mgr.at = "forward" => ~IsShutdown(mgr.message)
  /\ \A i \in DOMAIN netq : ~IsShutdown(netq[i])
  /\ adapter.at = "process" => ~IsShutdown(adapter.held)

\* A Connected of a task that has ended is followed by its Disconnected.
PeerInv ==
  /\ event_rx = "dropped" => events = << >> /\ peer_map = {}
  /\ event_rx = "open" \/ event_rx = "dropped"
  /\ mgr.at = "stopped" => event_rx = "dropped"
  /\ peer_map \subseteq Peer
  /\ \A p \in Peer : conn[p].at = "event" => conn[p].held.peer_id = p
  /\ adapter.at = "answer" => adapter.held.type = "SendMessage"
  /\ \A i \in DOMAIN events :
       events[i].type = "Connected" =>
         /\ events[i].peer_id \in Peer
         /\ At(events[i].peer_id, "done") =>
              \E j \in DOMAIN events :
                j > i /\ events[j] = Disconnected(events[i].peer_id)
  /\ NoLeakedPeer

NodeInv == Shapes /\ OrderInv /\ PeerInv

-----------------------------------------------------------------------------
\* What the manager does: it takes an event and keeps its map, works on its
\* sends, passes a request on, or stops.
ManagerEffect ==
  /\ mgr.at # "stopped"
  /\ MgrShape'
  /\ conn' = conn
  /\ mgr'.at = "forward" => ~IsShutdown(mgr'.message)
  /\ netq' = netq \/ (mgr.at = "forward" /\ netq' = Append(netq, mgr.message))
  /\ \/ /\ mgr'.at # "stopped" /\ event_rx' = event_rx
        /\ events' = events /\ peer_map' \subseteq peer_map
     \/ /\ mgr'.at # "stopped" /\ event_rx' = event_rx
        /\ events # << >> /\ events' = Tail(events)
        /\ \/ Head(events).type = "Connected" /\ peer_map' = peer_map \cup {from}
           \/ Head(events).type = "Disconnected" /\ peer_map' = peer_map \ {from}
           \/ /\ Head(events).type \notin {"Connected", "Disconnected"}
              /\ peer_map' = peer_map
     \/ /\ mgr'.at = "stopped" /\ event_rx' = "dropped"
        /\ events' = << >> /\ peer_map' = {}

\* A loop of sends begins, or ends at once when there is nobody to send to.
LEMMA RoundEffect ==
  ASSUME NEW todo, NEW message, Round(todo, message)
  PROVE  MgrShape' /\ mgr'.at \in {"select", "send"}
BY DEF Round, Idle, MgrShape

\* One send of a loop only removes peers whose channel is closed.
LEMMA SendEffect ==
  ASSUME NEW p, NEW closed, MgrShape, mgr.at = "send", SentTo(p, closed)
  PROVE  /\ MgrShape' /\ mgr'.at \in {"select", "send"}
         /\ peer_map' \subseteq peer_map
<1> DEFINE stale == IF closed THEN mgr.stale \cup {p} ELSE mgr.stale
<1>1. CASE mgr' = Idle /\ peer_map' = peer_map \ stale
  BY <1>1 DEF Idle, MgrShape
<1>2. CASE /\ mgr' = [mgr EXCEPT !.todo = @ \ {p}, !.stale = stale]
           /\ UNCHANGED peer_map
  BY <1>2 DEF MgrShape
<1> QED BY <1>1, <1>2, Zenon DEF SentTo

\* Each branch of manage has that effect.
LEMMA ManagerStepEffect ==
  ASSUME MgrShape, ManagerStep
  PROVE  ManagerEffect
<1>1. CASE OnConnected
  BY <1>1 DEF OnConnected, TakeEvent, ManagerEffect, MgrShape
<1>2. CASE OnDisconnected
  BY <1>2, Zenon DEF OnDisconnected, TakeEvent, ManagerEffect, MgrShape
<1>3. CASE OnPing
  <2>1. MgrShape' /\ mgr'.at \in {"select", "send"}
    BY <1>3, RoundEffect, Zenon DEF OnPing
  <2> QED BY <1>3, <2>1 DEF OnPing, TakeMessage, TakeEvent, ManagerEffect
<1>4. CASE OnTransactions
  <2>1. MgrShape' /\ mgr'.at \in {"select", "send"}
    BY <1>4, RoundEffect DEF OnTransactions
  <2> QED BY <1>4, <2>1 DEF OnTransactions, TakeMessage, TakeEvent, ManagerEffect
<1>5. CASE OnRequest
  <2>1. /\ mgr' = [mgr EXCEPT !.at = "forward", !.message = Received(from, body)]
        /\ body.type # "Shutdown"
    BY <1>5 DEF OnRequest, TakeMessage
  <2>2. ~IsShutdown(Received(from, body))
    BY <2>1 DEF IsShutdown, Received
  <2>3. MgrShape' /\ mgr'.at = "forward" /\ mgr'.message = Received(from, body)
    BY <2>1 DEF MgrShape
  <2> QED BY <1>5, <2>2, <2>3 DEF OnRequest, TakeMessage, TakeEvent, ManagerEffect
<1>6. CASE OnIgnored
  BY <1>6 DEF OnIgnored, TakeMessage, TakeEvent, ManagerEffect, MgrShape
<1>7. CASE OnSendMessage
  <2>1. MgrShape' /\ mgr'.at \in {"select", "send"}
    BY <1>7, RoundEffect, Zenon DEF OnSendMessage
  <2> QED BY <1>7, <2>1 DEF OnSendMessage, TakeEvent, ManagerEffect
<1>8. CASE Tick
  <2>1. MgrShape' /\ mgr'.at \in {"select", "send"}
    BY <1>8, RoundEffect, Zenon DEF Tick
  <2> QED BY <1>8, <2>1 DEF Tick, ManagerEffect, connectionVars
<1>9. CASE Forward
  BY <1>9, Zenon DEF Forward, ManagerEffect, connectionVars, Idle, MgrShape
<1>10. CASE OnShutdown
  <2>1. CASE Stop
    BY <1>10, <2>1, Zenon
       DEF OnShutdown, Stop, Idle, ManagerEffect, MgrShape
  <2>2. CASE /\ mgr' = [at |-> "goodbye", todo |-> peer_map,
                        message |-> Msg("Disconnect"), stale |-> {}]
             /\ UNCHANGED <<peer_map, event_rx, events>>
    BY <1>10, <2>2, Zenon DEF OnShutdown, ManagerEffect, MgrShape
  <2> QED BY <1>10, <2>1, <2>2 DEF OnShutdown
<1>11. ASSUME NEW p \in Peer, SendTo(p)
       PROVE  ManagerEffect
  <2>1. /\ MgrShape' /\ mgr'.at \in {"select", "send"}
        /\ peer_map' \subseteq peer_map
    BY <1>11, SendEffect, ZenonT(60) DEF SendTo
  <2> QED BY <1>11, <2>1 DEF SendTo, ManagerEffect
<1>12. ASSUME NEW p \in Peer, Goodbye(p)
       PROVE  ManagerEffect
  <2>1. CASE Stop
    BY <1>12, <2>1 DEF Goodbye, Stop, Idle, ManagerEffect, MgrShape
  <2>2. CASE /\ mgr' = [mgr EXCEPT !.todo = @ \ {p}]
             /\ UNCHANGED <<peer_map, event_rx, events>>
    BY <1>12, <2>2 DEF Goodbye, ManagerEffect, MgrShape
  <2> QED BY <1>12, <2>1, <2>2 DEF Goodbye
<1> QED BY <1>1, <1>2, <1>3, <1>4, <1>5, <1>6, <1>7, <1>8, <1>9, <1>10, <1>11,
           <1>12 DEF ManagerStep

-----------------------------------------------------------------------------
\* What the adapter does: it takes an event, passes on what it took, or
\* sends an answer.
AdapterEffect ==
  /\ {"at", "held"} \subseteq DOMAIN adapter'
  /\ UNCHANGED <<conn, event_rx, peer_map, mgr, proc, listener, main>>
  /\ \/ /\ netq # << >> /\ netq' = Tail(netq)
        /\ adapter'.at = "process" => adapter'.held = Head(netq)
     \/ netq' = netq /\ adapter'.at # "process"
  /\ procq' = procq
     \/ (adapter.at = "process" /\ procq' = Append(procq, adapter.held))
  /\ events' = events
     \/ (adapter.at = "answer" /\ event_rx = "open"
         /\ events' = Append(events, adapter.held))
  /\ adapter'.at = "answer" => adapter'.held.type = "SendMessage"

\* Each await of the adapter has that effect.
LEMMA AdapterStepEffect ==
  ASSUME {"at", "held"} \subseteq DOMAIN adapter, AdapterStep
  PROVE  AdapterEffect
<1> USE DEF connectionVars, managerVars, processorVars, Waiting
<1>1. CASE AdapterRecv
  BY <1>1, Zenon DEF AdapterRecv, SendMessage, AdapterEffect
<1>2. CASE AdapterEnd
  BY <1>2 DEF AdapterEnd, AdapterEffect
<1>3. CASE AdapterProcess
  <2>1. adapter' = Waiting \/ adapter' = [adapter EXCEPT !.at = "await"]
    BY <1>3, Zenon DEF AdapterProcess
  <2>2. /\ {"at", "held"} \subseteq DOMAIN adapter'
        /\ adapter'.at \notin {"process", "answer"}
    BY <2>1
  <2> QED BY <1>3, <2>2, Zenon DEF AdapterProcess, AdapterEffect
<1>4. CASE AdapterReply
  <2>1. \/ adapter' = Waiting
        \/ adapter' = [at |-> "answer", held |-> SendMessage(reply.to, reply)]
    BY <1>4, Zenon DEF AdapterReply
  <2>2. /\ {"at", "held"} \subseteq DOMAIN adapter' /\ adapter'.at # "process"
        /\ adapter'.at = "answer" => adapter'.held.type = "SendMessage"
    BY <2>1 DEF SendMessage
  <2> QED BY <1>4, <2>2, Zenon DEF AdapterReply, AdapterEffect
<1>5. CASE AdapterAnswer
  BY <1>5, Zenon DEF AdapterAnswer, EventRoom, AdapterEffect
<1> QED BY <1>1, <1>2, <1>3, <1>4, <1>5, Zenon DEF AdapterStep

\* What the processor does to its channel: only a Shutdown stops it.
ProcessorEffect ==
  /\ UNCHANGED <<conn, events, event_rx, peer_map, mgr, netq, adapter, listener,
                 main>>
  /\ \/ procq' = procq /\ proc' # "stopped"
     \/ /\ procq # << >> /\ procq' = Tail(procq)
        /\ proc' = "stopped" => IsShutdown(Head(procq))

\* Each message of the processor has that effect.
LEMMA ProcessorStepEffect ==
  ASSUME ProcessorStep
  PROVE  ProcessorEffect
BY Zenon DEF ProcessorStep, ProcessBlock, ProcessorPanics, ProcessQuery,
       ProcessShutdown, PublishHead, TakeProc, ProcessorEffect, IsShutdown,
       connectionVars, managerVars, taskVars

-----------------------------------------------------------------------------
\* The variables that the invariant is about.
invVars == <<conn, events, event_rx, peer_map, mgr, netq, adapter, procq, proc,
             listener, main>>

\* Steps of the clients and the signal do not touch the invariant.
LEMMA Unchanged ==
  ASSUME NodeInv, UNCHANGED invVars
  PROVE  NodeInv'
BY DEF NodeInv, invVars, Shapes, ConnShape, MgrShape, OrderInv, Gone,
       ShutdownQueued, PeerInv, NoLeakedPeer, At

\* The freshly started node.
LEMMA InitInv == Init => NodeInv
<1> SUFFICES ASSUME Init PROVE NodeInv
  OBVIOUS
<1>1. /\ conn = [p \in Peer |-> NewTask] /\ events = << >> /\ event_rx = "open"
      /\ peer_map = {} /\ mgr = Idle /\ netq = << >> /\ adapter = Waiting
      /\ procq = << >> /\ proc = "recv" /\ listener = "accept" /\ main = "run"
  BY Zenon DEF Init, ConnectionInit, ManagerInit
<1>2. Shapes
  BY <1>1, EmptySeq, Zenon
     DEF Shapes, ConnShape, MgrShape, NewTask, Idle, Waiting
<1>3. OrderInv
  BY <1>1, EmptySeq, Zenon DEF OrderInv, ShutdownQueued, Idle, Waiting
<1>4. PeerInv
  BY <1>1, EmptySeq, Zenon
     DEF PeerInv, NoLeakedPeer, NewTask, Idle, Waiting, At
<1> QED BY <1>2, <1>3, <1>4 DEF NodeInv

\* A connection task: it is not gone, so the listener still waits for it.
LEMMA ConnectionKeepsInv ==
  ASSUME NEW p \in Peer, NodeInv, PeerStep(p)
  PROVE  NodeInv'
<1>1. /\ ConnectionEffect(p)
      /\ UNCHANGED <<peer_map, mgr, netq, adapter, procq, proc, listener, main>>
  BY ConnectionStepEffect
     DEF NodeInv, Shapes, PeerStep, managerVars, processorVars, taskVars
<1>2. Shapes'
  <2>1. IsSeq(events) /\ ConnShape'
    BY <1>1, Zenon DEF NodeInv, Shapes, ConnectionEffect
  <2>2. \A x : IsSeq(Append(events, x))
    BY <2>1, AppendSeq
  <2>3. IsSeq(events')
    BY <1>1, <2>1, <2>2, ZenonT(60) DEF ConnectionEffect
  <2> QED BY <1>1, <2>1, <2>3, Zenon DEF NodeInv, Shapes, MgrShape
<1>3. OrderInv'
  BY <1>1, Zenon
     DEF NodeInv, OrderInv, Gone, ShutdownQueued, ConnectionEffect
<1>4. PeerInv'
  <2>0. /\ IsSeq(events) /\ PeerInv
        /\ \A q \in Peer \ {p} : conn'[q] = conn[q]
        /\ conn[p].at # "done"
    BY <1>1, Zenon DEF NodeInv, Shapes, ConnectionEffect
  <2>1. /\ event_rx' = "dropped" => events' = << >> /\ peer_map' = {}
        /\ event_rx' = "open" \/ event_rx' = "dropped"
        /\ mgr'.at = "stopped" => event_rx' = "dropped"
        /\ peer_map' \subseteq Peer
        /\ \A q \in Peer : conn'[q].at = "event" => conn'[q].held.peer_id = q
        /\ adapter'.at = "answer" => adapter'.held.type = "SendMessage"
    <3>1. event_rx' = event_rx /\ (event_rx = "dropped" => events' = events)
      BY <1>1, Zenon DEF ConnectionEffect
    <3>2. conn'[p].at = "event" => conn'[p].held.peer_id = p
      BY <1>1, Zenon DEF ConnectionEffect
    <3>3. \A q \in Peer : conn'[q].at = "event" => conn'[q].held.peer_id = q
      BY <2>0, <3>2 DEF PeerInv
    <3> QED BY <1>1, <2>0, <3>1, <3>3, Zenon DEF PeerInv
  <2>2. CASE events' = events /\ (conn'[p].at = "done" => event_rx = "dropped")
    <3>1. CASE conn'[p].at = "done"
      <4>1. events' = << >> /\ peer_map' = {}
        BY <1>1, <2>1, <2>2, <3>1, Zenon DEF ConnectionEffect
      <4> QED BY <2>1, <4>1, EmptySeq, Zenon DEF PeerInv, NoLeakedPeer
    <3>2. CASE conn'[p].at # "done"
      <4>1. \A q \in Peer : conn'[q].at = "done" <=> conn[q].at = "done"
        BY <2>0, <3>2, Zenon
      <4>2. NoLeakedPeer'
        BY <1>1, <2>0, <2>2, <4>1, Zenon DEF PeerInv, NoLeakedPeer, At
      <4> QED BY <2>0, <2>1, <2>2, <4>1, <4>2, Zenon DEF PeerInv, At
    <3> QED BY <3>1, <3>2, Zenon
  <2>3. CASE /\ event_rx = "open" /\ conn'[p].at = "done"
             /\ events' = Append(events, Disconnected(p))
    <3> DEFINE n == Len(events) + 1
    <3>1. /\ Len(events) \in Nat /\ DOMAIN events = 1..Len(events)
          /\ DOMAIN events' = 1..n
          /\ \A i \in DOMAIN events : events'[i] = events[i]
          /\ events'[n] = Disconnected(p)
      BY <2>0, <2>3, AppendSeq
    <3>2. events'[n].type # "Connected"
      BY <3>1 DEF Disconnected
    <3>3. \A i \in DOMAIN events' : events'[i].type = "Connected" =>
            /\ events'[i].peer_id \in Peer
            /\ conn'[events'[i].peer_id].at = "done" =>
                 \E j \in DOMAIN events' :
                   j > i /\ events'[j] = Disconnected(events'[i].peer_id)
      <4> SUFFICES ASSUME NEW i \in DOMAIN events', events'[i].type = "Connected"
                   PROVE  /\ events'[i].peer_id \in Peer
                          /\ conn'[events'[i].peer_id].at = "done" =>
                               \E j \in DOMAIN events' :
                                 /\ j > i
                                 /\ events'[j] = Disconnected(events'[i].peer_id)
        OBVIOUS
      <4>1. i \in DOMAIN events /\ events'[i] = events[i] /\ n > i /\ n \in DOMAIN events'
        BY <3>1, <3>2
      <4>2. CASE events[i].peer_id = p
        BY <3>1, <4>1, <4>2, Zenon
      <4>3. CASE events[i].peer_id # p
        BY <2>0, <3>1, <4>1, <4>3 DEF PeerInv, At
      <4> QED BY <4>2, <4>3, Zenon
    <3>4. NoLeakedPeer'
      BY <1>1, <2>0, <3>1 DEF PeerInv, NoLeakedPeer, At
    <3> QED BY <2>1, <3>3, <3>4, Zenon DEF PeerInv, At
  <2>4. CASE /\ event_rx = "open" /\ conn[p].at = "event" /\ conn'[p].at # "done"
             /\ events' = Append(events, conn[p].held)
    <3> DEFINE n == Len(events) + 1
    <3>1. /\ Len(events) \in Nat /\ DOMAIN events = 1..Len(events)
          /\ DOMAIN events' = 1..n
          /\ \A i \in DOMAIN events : events'[i] = events[i]
          /\ events'[n].peer_id = p
      BY <2>0, <2>4, AppendSeq DEF PeerInv
    <3>2. \A i \in DOMAIN events' : events'[i].type = "Connected" =>
            /\ events'[i].peer_id \in Peer
            /\ conn'[events'[i].peer_id].at = "done" =>
                 \E j \in DOMAIN events' :
                   j > i /\ events'[j] = Disconnected(events'[i].peer_id)
      <4> SUFFICES ASSUME NEW i \in DOMAIN events', events'[i].type = "Connected"
                   PROVE  /\ events'[i].peer_id \in Peer
                          /\ conn'[events'[i].peer_id].at = "done" =>
                               \E j \in DOMAIN events' :
                                 /\ j > i
                                 /\ events'[j] = Disconnected(events'[i].peer_id)
        OBVIOUS
      <4>1. CASE i = n
        BY <2>4, <3>1, <4>1, Zenon
      <4>2. CASE i # n
        <5>1. i \in DOMAIN events /\ events'[i] = events[i]
          BY <3>1, <4>2
        <5> QED BY <2>0, <2>4, <3>1, <5>1 DEF PeerInv, At
      <4> QED BY <4>1, <4>2, Zenon
    <3>3. NoLeakedPeer'
      BY <1>1, <2>0, <2>4, <3>1 DEF PeerInv, NoLeakedPeer, At
    <3> QED BY <2>1, <3>2, <3>3 DEF PeerInv, At
  <2> QED BY <1>1, <2>2, <2>3, <2>4, Zenon DEF ConnectionEffect
<1> QED BY <1>2, <1>3, <1>4, Zenon DEF NodeInv

\* The manager: taking a Connected of a task that has ended leaves its
\* Disconnected in the channel.
LEMMA ManagerKeepsInv ==
  ASSUME NodeInv, RouterStep
  PROVE  NodeInv'
<1>1. ManagerEffect /\ UNCHANGED <<adapter, procq, proc, listener, main>>
  BY ManagerStepEffect DEF NodeInv, Shapes, RouterStep, processorVars, taskVars
<1>2. IsSeq(events) /\ IsSeq(netq) /\ PeerInv /\ OrderInv
  BY Zenon DEF NodeInv, Shapes
<1>3. /\ IsSeq(netq')
      /\ \A i \in DOMAIN netq' : ~IsShutdown(netq'[i])
  <2>1. CASE netq' = netq
    BY <1>2, <2>1, Zenon DEF OrderInv
  <2>2. CASE mgr.at = "forward" /\ netq' = Append(netq, mgr.message)
    <3>1. /\ IsSeq(netq') /\ Len(netq) \in Nat /\ DOMAIN netq = 1..Len(netq)
          /\ DOMAIN netq' = 1..(Len(netq) + 1)
          /\ \A i \in DOMAIN netq : netq'[i] = netq[i]
          /\ netq'[Len(netq) + 1] = mgr.message
      BY <1>2, <2>2, AppendSeq
    <3> QED BY <1>2, <2>2, <3>1 DEF OrderInv
  <2> QED BY <1>1, <2>1, <2>2, Zenon DEF ManagerEffect
<1>4. IsSeq(events')
  <2>1. events # << >> => IsSeq(Tail(events))
    BY <1>2, TailSeq, Zenon
  <2> QED BY <1>1, <1>2, <2>1, EmptySeq, ZenonT(60) DEF ManagerEffect
<1>5. Shapes'
  BY <1>1, <1>3, <1>4, Zenon DEF NodeInv, Shapes, ManagerEffect, ConnShape
<1>6. OrderInv'
  BY <1>1, <1>2, <1>3
     DEF OrderInv, Gone, ShutdownQueued, ManagerEffect
<1>7. PeerInv'
  <2>0. /\ conn' = conn
        /\ \A p \in Peer : conn'[p].at = "event" => conn'[p].held.peer_id = p
        /\ adapter'.at = "answer" => adapter'.held.type = "SendMessage"
    <3>1. conn' = conn /\ adapter' = adapter
      BY <1>1 DEF ManagerEffect
    <3> QED BY <1>2, <3>1, Zenon DEF PeerInv
  <2>1. CASE /\ mgr'.at # "stopped" /\ event_rx' = event_rx
             /\ events' = events /\ peer_map' \subseteq peer_map
    BY <1>2, <2>0, <2>1, ZenonT(60) DEF PeerInv, NoLeakedPeer, At
  <2>2. CASE /\ mgr'.at = "stopped" /\ event_rx' = "dropped"
             /\ events' = << >> /\ peer_map' = {}
    BY <2>0, <2>2, EmptySeq, Zenon DEF PeerInv, NoLeakedPeer
  <2>3. CASE /\ mgr'.at # "stopped" /\ event_rx' = event_rx
             /\ events # << >> /\ events' = Tail(events)
             /\ \/ Head(events).type = "Connected" /\ peer_map' = peer_map \cup {from}
                \/ Head(events).type = "Disconnected" /\ peer_map' = peer_map \ {from}
                \/ /\ Head(events).type \notin {"Connected", "Disconnected"}
                   /\ peer_map' = peer_map
    <3>1. /\ Len(events) \in Nat \ {0} /\ DOMAIN events = 1..Len(events)
          /\ DOMAIN events' = 1..(Len(events) - 1)
          /\ \A i \in DOMAIN events' : events'[i] = events[i + 1]
          /\ Head(events) = events[1]
      BY <1>2, <2>3, TailSeq, Zenon
    <3>2. \/ Head(events).type = "Connected" /\ peer_map' = peer_map \cup {from}
          \/ Head(events).type = "Disconnected" /\ peer_map' = peer_map \ {from}
          \/ /\ Head(events).type \notin {"Connected", "Disconnected"}
             /\ peer_map' = peer_map
      BY <2>3, Zenon
    <3>3. conn' = conn /\ event_rx' = "open" /\ mgr'.at # "stopped"
      BY <1>2, <2>0, <2>3, Zenon DEF PeerInv
    <3>4. \A i \in DOMAIN events' : events'[i].type = "Connected" =>
            /\ events'[i].peer_id \in Peer
            /\ conn'[events'[i].peer_id].at = "done" =>
                 \E j \in DOMAIN events' :
                   j > i /\ events'[j] = Disconnected(events'[i].peer_id)
      <4> SUFFICES ASSUME NEW i \in DOMAIN events', events'[i].type = "Connected"
                   PROVE  /\ events'[i].peer_id \in Peer
                          /\ conn'[events'[i].peer_id].at = "done" =>
                               \E j \in DOMAIN events' :
                                 /\ j > i
                                 /\ events'[j] = Disconnected(events'[i].peer_id)
        OBVIOUS
      <4>1. i + 1 \in DOMAIN events /\ events'[i] = events[i + 1]
        BY <3>1
      <4>2. /\ events'[i].peer_id \in Peer
            /\ conn'[events'[i].peer_id].at = "done" =>
                 \E j \in DOMAIN events :
                   j > i + 1 /\ events[j] = Disconnected(events'[i].peer_id)
        BY <1>2, <3>3, <4>1, Zenon DEF PeerInv, At
      <4>3. \A j \in DOMAIN events : j > i + 1 =>
              j - 1 \in DOMAIN events' /\ j - 1 > i /\ events'[j - 1] = events[j]
        BY <3>1
      <4> QED BY <4>2, <4>3, Zenon
    <3>5. \A q \in peer_map' : conn'[q].at = "done" =>
            q \in Peer /\ \E j \in DOMAIN events : j > 1 /\ events[j] = Disconnected(q)
      <4> SUFFICES ASSUME NEW q \in peer_map', conn[q].at = "done"
                   PROVE  q \in Peer /\ \E j \in DOMAIN events :
                                         j > 1 /\ events[j] = Disconnected(q)
        BY <3>3, Zenon
      <4>1. Disconnected(q).type = "Disconnected" /\ Disconnected(q).peer_id = q
        BY Zenon DEF Disconnected
      <4>2. CASE Head(events).type = "Connected" /\ q = from
        BY <1>2, <3>1, <4>2 DEF PeerInv, At, from
      <4>3. CASE q \in peer_map /\ ~(events[1] = Disconnected(q))
        BY <1>2, <3>1, <4>3 DEF PeerInv, NoLeakedPeer, At
      <4> QED BY <3>1, <3>2, <4>1, <4>2, <4>3, Zenon DEF from
    <3>6. NoLeakedPeer'
      <4>1. \A j \in DOMAIN events : j > 1 =>
              j - 1 \in DOMAIN events' /\ events'[j - 1] = events[j]
        BY <3>1
      <4> QED BY <3>5, <4>1, Zenon DEF NoLeakedPeer, At
    <3>7. peer_map' \subseteq Peer
      BY <1>2, <3>1, <3>2 DEF PeerInv, from
    <3> QED BY <2>0, <3>3, <3>4, <3>6, <3>7, Zenon DEF PeerInv, At
  <2> QED BY <1>1, <2>1, <2>2, <2>3, ZenonT(60) DEF ManagerEffect
<1> QED BY <1>5, <1>6, <1>7, Zenon DEF NodeInv

\* The adapter: it passes on requests, never a Shutdown, and its answers are
\* no announcements of peers.
LEMMA AdapterKeepsInv ==
  ASSUME NodeInv, AdapterStep
  PROVE  NodeInv'
<1>1. AdapterEffect
  BY AdapterStepEffect DEF NodeInv, Shapes
<1>2. IsSeq(events) /\ IsSeq(netq) /\ IsSeq(procq) /\ PeerInv /\ OrderInv
  BY Zenon DEF NodeInv, Shapes
<1>3. /\ IsSeq(netq')
      /\ \A i \in DOMAIN netq' : ~IsShutdown(netq'[i])
      /\ adapter'.at = "process" => ~IsShutdown(adapter'.held)
  <2>1. CASE netq' = netq /\ adapter'.at # "process"
    BY <1>2, <2>1, Zenon DEF OrderInv
  <2>2. CASE /\ netq # << >> /\ netq' = Tail(netq)
             /\ adapter'.at = "process" => adapter'.held = Head(netq)
    <3>1. /\ IsSeq(netq') /\ Len(netq) \in Nat \ {0} /\ DOMAIN netq = 1..Len(netq)
          /\ DOMAIN netq' = 1..(Len(netq) - 1)
          /\ \A i \in DOMAIN netq' : netq'[i] = netq[i + 1]
          /\ Head(netq) = netq[1]
      BY <1>2, <2>2, TailSeq, Zenon
    <3> QED BY <1>2, <2>2, <3>1 DEF OrderInv
  <2> QED BY <1>1, <2>1, <2>2, Zenon DEF AdapterEffect
<1>4. IsSeq(procq') /\ (ShutdownQueued' => ShutdownQueued)
  <2>1. CASE procq' = procq
    BY <1>2, <2>1, Zenon DEF ShutdownQueued
  <2>2. CASE adapter.at = "process" /\ procq' = Append(procq, adapter.held)
    <3>1. /\ IsSeq(procq') /\ Len(procq) \in Nat /\ DOMAIN procq = 1..Len(procq)
          /\ DOMAIN procq' = 1..(Len(procq) + 1)
          /\ \A i \in DOMAIN procq : procq'[i] = procq[i]
          /\ procq'[Len(procq) + 1] = adapter.held
      BY <1>2, <2>2, AppendSeq
    <3> QED BY <1>2, <2>2, <3>1 DEF OrderInv, ShutdownQueued
  <2> QED BY <1>1, <2>1, <2>2, Zenon DEF AdapterEffect
<1>5. /\ IsSeq(events')
      /\ event_rx = "dropped" => events' = << >>
      /\ \A i \in DOMAIN events' : events'[i].type = "Connected" =>
           /\ events'[i].peer_id \in Peer
           /\ conn'[events'[i].peer_id].at = "done" =>
                \E j \in DOMAIN events' :
                  j > i /\ events'[j] = Disconnected(events'[i].peer_id)
      /\ NoLeakedPeer'
  <2>0. conn' = conn /\ peer_map' = peer_map
    BY <1>1, Zenon DEF AdapterEffect
  <2>1. CASE events' = events
    BY <1>2, <2>0, <2>1, Zenon DEF PeerInv, NoLeakedPeer, At
  <2>2. CASE /\ adapter.at = "answer" /\ event_rx = "open"
             /\ events' = Append(events, adapter.held)
    <3>1. /\ IsSeq(events') /\ Len(events) \in Nat /\ DOMAIN events = 1..Len(events)
          /\ DOMAIN events' = 1..(Len(events) + 1)
          /\ \A i \in DOMAIN events : events'[i] = events[i]
          /\ events'[Len(events) + 1] = adapter.held
      BY <1>2, <2>2, AppendSeq
    <3>2. adapter.held.type # "Connected"
      BY <1>2, <2>2, Zenon DEF PeerInv
    <3>3. NoLeakedPeer'
      BY <1>2, <2>0, <3>1 DEF PeerInv, NoLeakedPeer, At
    <3>4. \A i \in DOMAIN events' : events'[i].type = "Connected" =>
            i \in DOMAIN events /\ events'[i] = events[i]
      BY <3>1, <3>2
    <3> QED BY <1>2, <2>0, <2>2, <3>1, <3>3, <3>4 DEF PeerInv, At
  <2> QED BY <1>1, <2>1, <2>2, Zenon DEF AdapterEffect
<1>6. Shapes'
  BY <1>1, <1>3, <1>4, <1>5, Zenon
     DEF NodeInv, Shapes, AdapterEffect, ConnShape, MgrShape
<1>7. OrderInv'
  <2>1. UNCHANGED <<conn, peer_map, mgr, proc, listener, main>>
    BY <1>1, Zenon DEF AdapterEffect
  <2> QED BY <1>2, <1>3, <1>4, <2>1 DEF OrderInv, Gone
<1>8. PeerInv'
  BY <1>1, <1>2, <1>5, Zenon DEF PeerInv, At, AdapterEffect
<1> QED BY <1>6, <1>7, <1>8 DEF NodeInv

\* The processor: it stops only for a Shutdown that was queued.
LEMMA ProcessorKeepsInv ==
  ASSUME NodeInv, ProcessorStep
  PROVE  NodeInv'
<1>1. ProcessorEffect
  BY ProcessorStepEffect
<1>2. IsSeq(procq) /\ PeerInv /\ OrderInv
  BY Zenon DEF NodeInv, Shapes
<1>3. /\ IsSeq(procq')
      /\ ShutdownQueued' \/ proc' = "stopped" => ShutdownQueued
  <2>1. CASE procq' = procq /\ proc' # "stopped"
    BY <1>2, <2>1, Zenon DEF ShutdownQueued
  <2>2. CASE /\ procq # << >> /\ procq' = Tail(procq)
             /\ proc' = "stopped" => IsShutdown(Head(procq))
    <3>1. /\ IsSeq(procq') /\ Len(procq) \in Nat \ {0} /\ DOMAIN procq = 1..Len(procq)
          /\ DOMAIN procq' = 1..(Len(procq) - 1)
          /\ \A i \in DOMAIN procq' : procq'[i] = procq[i + 1]
          /\ Head(procq) = procq[1]
      BY <1>2, <2>2, TailSeq, Zenon
    <3> QED BY <2>2, <3>1 DEF ShutdownQueued
  <2> QED BY <1>1, <2>1, <2>2, Zenon DEF ProcessorEffect
<1>4. Shapes'
  BY <1>1, <1>3, Zenon
     DEF NodeInv, Shapes, ProcessorEffect, ConnShape, MgrShape
<1>5. OrderInv'
  <2>1. UNCHANGED <<conn, peer_map, mgr, netq, adapter, listener, main>>
    BY <1>1, Zenon DEF ProcessorEffect
  <2> QED BY <1>2, <1>3, <2>1 DEF OrderInv, Gone
<1>6. PeerInv'
  BY <1>1, <1>2 DEF PeerInv, NoLeakedPeer, At, ProcessorEffect
<1> QED BY <1>4, <1>5, <1>6 DEF NodeInv

\* The listener: it accepts before it has ended, and ends when all tasks have.
LEMMA ListenerKeepsInv ==
  ASSUME NodeInv, ListenerStep \/ \E p \in Peer : Accept(p)
  PROVE  NodeInv'
<1>1. CASE ListenerStep
  <2>1. /\ UNCHANGED <<conn, events, event_rx, peer_map, mgr, netq, adapter, procq,
                       proc, main>>
        /\ \/ listener = "accept" /\ listener' = "join"
           \/ listener = "join" /\ Gone /\ listener' = "done"
    BY <1>1, Zenon
       DEF ListenerStep, connectionVars, managerVars, processorVars, Gone
  <2>2. Shapes'
    BY <2>1, ZenonT(60) DEF NodeInv, Shapes, ConnShape, MgrShape
  <2>3. OrderInv'
    <3>1. OrderInv
      BY Zenon DEF NodeInv
    <3> QED BY <2>1, <3>1 DEF OrderInv, Gone, ShutdownQueued
  <2>4. PeerInv'
    BY <2>1 DEF NodeInv, PeerInv, NoLeakedPeer, At
  <2> QED BY <2>2, <2>3, <2>4 DEF NodeInv
<1>2. ASSUME NEW p \in Peer, Accept(p)
      PROVE  NodeInv'
  <2>1. /\ UNCHANGED <<events, event_rx, peer_map, mgr, netq, adapter, procq, proc,
                       listener, main>>
        /\ listener = "accept"
        /\ conn' = [conn EXCEPT ![p].at = "select"]
    BY <1>2, Zenon DEF Accept, managerVars, processorVars, taskVars
  <2>2. /\ ConnShape'
        /\ conn'[p].at = "select"
        /\ \A q \in Peer \ {p} : conn'[q] = conn[q]
    <3> DEFINE c == [conn[p] EXCEPT !.at = "select"]
    <3>1. {"at", "state", "held"} \subseteq DOMAIN conn[p] /\ DOMAIN conn = Peer
      BY DEF NodeInv, Shapes, ConnShape
    <3>2. DOMAIN c = DOMAIN conn[p] /\ c.at = "select"
      BY <3>1
    <3>3. conn' = [conn EXCEPT ![p] = c]
      BY <2>1, <3>1
    <3> HIDE DEF c
    <3> QED BY <3>1, <3>2, <3>3, Zenon DEF NodeInv, Shapes, ConnShape
  <2>3. Shapes'
    BY <2>1, <2>2 DEF NodeInv, Shapes, MgrShape
  <2>4. OrderInv'
    BY <2>1, <2>2, Zenon DEF NodeInv, OrderInv, ShutdownQueued
  <2>5. PeerInv'
    BY <2>1, <2>2 DEF NodeInv, PeerInv, NoLeakedPeer, At
  <2> QED BY <2>3, <2>4, <2>5, Zenon DEF NodeInv
<1> QED BY <1>1, <1>2

\* Main: it sends the Shutdown after it has joined the listener and the manager.
LEMMA MainKeepsInv ==
  ASSUME NodeInv, MainStep
  PROVE  NodeInv'
<1>1. /\ UNCHANGED <<conn, events, event_rx, peer_map, mgr, netq, adapter, proc,
                     listener>>
      /\ PeerInv /\ OrderInv /\ IsSeq(procq)
  BY DEF NodeInv, Shapes, MainStep, MainJoins, MainSendsShutdown, MainEnds,
         connectionVars, managerVars, processorVars
<1>2. /\ IsSeq(procq')
      /\ ShutdownQueued' => ShutdownQueued \/ main' = "processor"
  <2>1. CASE procq' = procq
    BY <1>1, <2>1, Zenon DEF ShutdownQueued
  <2>2. CASE procq' # procq
    <3>1. /\ main' = "processor"
          /\ procq' = Append(procq, [message |-> Msg("Shutdown")])
      BY <2>2, Zenon
         DEF MainStep, MainJoins, MainSendsShutdown, MainEnds, processorVars
    <3> QED BY <1>1, <3>1, AppendSeq, Zenon
  <2> QED BY <2>1, <2>2, Zenon
<1>3. \/ main = "run" /\ main' = "listener"
      \/ main = "listener" /\ listener = "done" /\ main' = "manager"
      \/ main = "manager" /\ mgr.at = "stopped" /\ main' = "send"
      \/ main = "send" /\ main' = "processor"
      \/ main = "processor" /\ main' \in {"stopped", "failed"}
  BY Zenon DEF MainStep, MainJoins, MainSendsShutdown, MainEnds
<1>4. Shapes'
  BY <1>1, <1>2, Zenon DEF NodeInv, Shapes, ConnShape, MgrShape
<1>5. OrderInv'
  BY <1>1, <1>2, <1>3, ZenonT(60) DEF OrderInv, Gone
<1>6. PeerInv'
  BY <1>1 DEF PeerInv, NoLeakedPeer, At
<1> QED BY <1>4, <1>5, <1>6 DEF NodeInv

\* The invariant of the node, for every step of every task.
THEOREM NodeInvariant == Spec => []NodeInv
<1>1. NodeInv /\ [Next]_vars => NodeInv'
  <2> SUFFICES ASSUME NodeInv, [Next]_vars
               PROVE  NodeInv'
    OBVIOUS
  <2>1. CASE UNCHANGED vars
    <3>1. UNCHANGED invVars
      BY <2>1 DEF vars, invVars, connectionVars, managerVars, processorVars, taskVars
    <3> QED BY <3>1, Unchanged, Zenon
  <2>2. ASSUME NEW p \in Peer, PeerEnvironment(p)
        PROVE  NodeInv'
    <3>1. UNCHANGED invVars
      BY <2>2, ZenonT(60)
         DEF PeerEnvironment, ClientStep, ClientSend, ClientRead, ClientClose,
                  invVars, managerVars, processorVars, taskVars
    <3> QED BY <3>1, Unchanged
  <2>3. CASE CtrlC
    <3>1. UNCHANGED invVars
      BY <2>3 DEF CtrlC, invVars, connectionVars, managerVars, processorVars, taskVars
    <3> QED BY <3>1, Unchanged
  <2>4. CASE ListenerStep \/ \E p \in Peer : Accept(p)
    BY <2>4, ListenerKeepsInv
  <2>5. ASSUME NEW p \in Peer, PeerStep(p)
        PROVE  NodeInv'
    BY <2>5, ConnectionKeepsInv
  <2>6. CASE RouterStep
    BY <2>6, ManagerKeepsInv
  <2>7. CASE AdapterStep
    BY <2>7, AdapterKeepsInv, Zenon
  <2>8. CASE ProcessorStep
    BY <2>8, ProcessorKeepsInv
  <2>9. CASE MainStep
    BY <2>9, MainKeepsInv
  <2> QED BY <2>1, <2>2, <2>3, <2>4, <2>5, <2>6, <2>7, <2>8, <2>9, Zenon
             DEF Next
<1> QED BY InitInv, <1>1, PTL DEF Spec

\* The manager never keeps an entry for a connection that is gone, unless its
\* Disconnected is still in the channel: for any number of peers that come,
\* go and break the protocol at any moment, and any capacities.
THEOREM PeersNotLeaked == Spec => []NoLeakedPeer
<1>1. NodeInv => NoLeakedPeer
  BY Zenon DEF NodeInv, PeerInv
<1> QED BY <1>1, NodeInvariant, PTL

\* When the processor is told to stop, and when it has stopped, no connection
\* and no manager is left.
THEOREM ProcessorStopsLast == Spec => []ShutdownLast
<1>1. NodeInv => ShutdownLast
  BY DEF NodeInv, OrderInv, ShutdownLast, ShutdownQueued, IsShutdown, Gone
<1> QED BY <1>1, NodeInvariant, PTL

\* The invariant of the handshakes, for every step of every task.
THEOREM HandshakeInvariant == Spec => []HandshakeInv
<1>1. NodeInv /\ HandshakeInv /\ [Next]_vars => HandshakeInv'
  <2> SUFFICES ASSUME NodeInv, HandshakeInv, [Next]_vars
               PROVE  HandshakeInv'
    OBVIOUS
  <2>0. /\ ConnShape /\ MgrShape /\ {"at", "held"} \subseteq DOMAIN adapter
        /\ IsSeq(events) /\ peer_map \subseteq Peer
        /\ adapter.at = "answer" => adapter.held.type = "SendMessage"
        /\ ConnectionInv /\ DOMAIN peerq = Peer
    BY Zenon DEF NodeInv, Shapes, PeerInv, HandshakeInv, ConnectionInv
  <2>1. CASE \/ UNCHANGED vars \/ CtrlC \/ ListenerStep \/ ProcessorStep
             \/ MainStep
    <3>1. UNCHANGED connectionVars /\ UNCHANGED managerVars /\ UNCHANGED adapter
      BY <2>1, Zenon
         DEF vars, CtrlC, ListenerStep, ProcessorStep, ProcessBlock,
             ProcessorPanics, ProcessQuery, ProcessShutdown, PublishHead, TakeProc,
             MainStep, MainJoins, MainSendsShutdown, MainEnds, taskVars
    <3>2. UNCHANGED <<client, sent, taken, out, conn, peerq, events, peer_map, mgr,
                      adapter>>
      BY <3>1, Zenon DEF connectionVars, clientVars, managerVars
    <3>3. HandshakeKept
      <4>1. ChannelStep
        BY <3>2, Zenon DEF ChannelStep
      <4> QED BY <2>0, <3>2, <4>1, HandshakeRouted, Zenon
    <3> QED BY <2>0, <3>2, <3>3, RouterUnchanged
  <2>2. ASSUME NEW p \in Peer, PeerEnvironment(p)
        PROVE  HandshakeInv'
    BY <2>0, <2>2, HandshakeClient, RouterUnchanged
       DEF PeerEnvironment, managerVars, taskVars
  <2>3. ASSUME NEW p \in Peer, Accept(p)
        PROVE  HandshakeInv'
    <3>1. HandshakeKept
      BY <2>0, <2>3, HandshakeAccept, Zenon DEF Accept
    <3> QED BY <2>0, <2>3, <3>1, RouterUnchanged DEF Accept, managerVars, taskVars
  <2>4. ASSUME NEW p \in Peer, PeerStep(p)
        PROVE  HandshakeInv'
    BY <2>0, <2>4, HandshakeConnection, RouterUnchanged, Zenon
       DEF PeerStep, managerVars, taskVars
  <2>5. CASE RouterStep
    BY <2>0, <2>5, HandshakeManager, Zenon DEF RouterStep, taskVars
  <2>6. CASE AdapterStep
    BY <2>0, <2>6, HandshakeAdapter, Zenon
  <2> QED BY <2>1, <2>2, <2>3, <2>4, <2>5, <2>6, Zenon DEF Next
<1>2. Init => HandshakeInv
  BY HandshakeInit DEF Init, ManagerInit, Idle, Waiting, HandshakeInv, RouterInv
<1> QED BY NodeInvariant, <1>1, <1>2, PTL DEF Spec

\* A client hears the outcome of its handshake first and once, and the manager
\* routes nothing to a client that was not welcomed: for any number of peers,
\* any capacities and any order in which the tasks of the node run.
THEOREM HandshakesFirst == Spec => []HandshakeFirst
<1>1. HandshakeInv => HandshakeFirst
  BY Zenon DEF HandshakeInv, RouterInv, ConnectionInv, WrittenInv, OutboundInv,
               Welcomed, HandshakeFirst
<1> QED BY HandshakeInvariant, <1>1, PTL

=============================================================================
