----------------------------- MODULE RelayProofs -----------------------------
(***************************************************************************)
(* For any number of peers, any capacities and any messages of the clients *)
(* a relayed transaction reaches every other peer at most once and never   *)
(* the one it came from.                                                   *)
(*                                                                         *)
(* On its way a transaction is in one of six places: the task that decoded *)
(* it, the event channel, the manager's loop, the channel of a peer, the   *)
(* task that writes it, the socket.  The invariant counts it in all six.   *)
(***************************************************************************)
EXTENDS NodeProperties, NodeProofs

-----------------------------------------------------------------------------
(* Counting what is in a channel *)

\* How often x occurs in a sequence, and what occurs in it at all.
Count(s, x) == Cardinality({i \in DOMAIN s : s[i] = x})
Elements(s) == {s[i] : i \in DOMAIN s}

\* The facts about finite sets that counting rests on.
Subsets ==
  \A S, T : IsFiniteSet(S) /\ T \subseteq S =>
              IsFiniteSet(T) /\ Cardinality(T) <= Cardinality(S)
Unions ==
  \A S, T : IsFiniteSet(S) /\ IsFiniteSet(T) /\ S \cap T = {} =>
              Cardinality(S \cup T) = Cardinality(S) + Cardinality(T)
Images ==
  \A S, T : \A f \in [S -> T] :
    /\ IsFiniteSet(S)
    /\ \A i, j \in S : f[i] = f[j] => i = j
    /\ \A t \in T : \E i \in S : f[i] = t
    => IsFiniteSet(T) /\ Cardinality(T) = Cardinality(S)
FiniteSetFacts ==
  /\ \A n \in Nat : IsFiniteSet(1..n)
  /\ \A S : IsFiniteSet(S) => Cardinality(S) \in Nat
  /\ Cardinality({}) = 0
  /\ \A x : IsFiniteSet({x}) /\ Cardinality({x}) = 1
  /\ Subsets /\ Unions /\ Images

\* A part of a finite set.
LEMMA Part ==
  ASSUME FiniteSetFacts, NEW S, NEW T, IsFiniteSet(S), T \subseteq S
  PROVE  /\ IsFiniteSet(T) /\ Cardinality(T) \in Nat /\ Cardinality(S) \in Nat
         /\ Cardinality(T) <= Cardinality(S)
BY Zenon DEF FiniteSetFacts, Subsets

\* A count is a number.
LEMMA CountNat ==
  ASSUME FiniteSetFacts, NEW s, NEW x, IsSeq(s)
  PROVE  /\ IsFiniteSet({i \in DOMAIN s : s[i] = x})
         /\ Count(s, x) \in Nat
<1>1. Len(s) \in Nat /\ DOMAIN s = 1..Len(s)
  BY DEF IsSeq
<1>2. IsFiniteSet(DOMAIN s)
  BY <1>1, Zenon DEF FiniteSetFacts
<1>3. {i \in DOMAIN s : s[i] = x} \subseteq DOMAIN s
  BY Zenon
<1> QED BY <1>2, <1>3, Part, Zenon DEF Count

\* The places of two sequences one after the other.
LEMMA ConcatSeq ==
  ASSUME NEW s, NEW t, IsSeq(s), IsSeq(t)
  PROVE  LET n == Len(s)
             r == s \o t
         IN  /\ IsSeq(r)
             /\ \A i \in DOMAIN s : i \in DOMAIN r /\ r[i] = s[i]
             /\ \A i \in DOMAIN t : i + n \in DOMAIN r /\ r[i + n] = t[i]
             /\ \A k \in DOMAIN r :
                  k \in DOMAIN s \/ \E i \in DOMAIN t : k = i + n
             /\ \A i \in DOMAIN t : i + n \notin DOMAIN s
             /\ \A i, j \in DOMAIN t : i + n = j + n => i = j
<1> DEFINE n == Len(s)
           r == s \o t
<1>1. PICK V : V = Elements(s) \cup Elements(t)
  BY Zenon
<1>2. s \in Seq(V) /\ t \in Seq(V)
  BY <1>1 DEF IsSeq, Elements
<1>3. /\ n \in Nat /\ Len(t) \in Nat
      /\ DOMAIN s = 1..n /\ DOMAIN t = 1..Len(t)
      /\ r \in Seq(V) /\ DOMAIN r = 1..(n + Len(t))
      /\ \A i \in 1..n : r[i] = s[i]
      /\ \A i \in 1..Len(t) : r[i + n] = t[i]
  BY <1>2
<1>4. IsSeq(r)
  BY <1>3, SeqOfElements, Zenon
<1> HIDE DEF n, r
<1>5. \A i \in DOMAIN s : i \in DOMAIN r /\ r[i] = s[i]
  BY <1>3
<1>6. \A i \in DOMAIN t : i + n \in DOMAIN r /\ r[i + n] = t[i]
  BY <1>3
<1>7. \A k \in DOMAIN r : k \in DOMAIN s \/ \E i \in DOMAIN t : k = i + n
  <2>1. \A k \in 1..(n + Len(t)) :
          k \in 1..n \/ (k - n \in 1..Len(t) /\ k = (k - n) + n)
    BY <1>3
  <2> QED BY <1>3, <2>1, Zenon
<1>8. \A i \in DOMAIN t : i + n \notin DOMAIN s
  BY <1>3
<1>9. \A i, j \in DOMAIN t : i + n = j + n => i = j
  BY <1>3
<1> QED BY <1>4, <1>5, <1>6, <1>7, <1>8, <1>9, Zenon DEF n, r

\* What occurs in two sequences one after the other, and how often.
LEMMA CountConcat ==
  ASSUME FiniteSetFacts, NEW s, NEW t, NEW x, IsSeq(s), IsSeq(t)
  PROVE  /\ IsSeq(s \o t)
         /\ Elements(s \o t) = Elements(s) \cup Elements(t)
         /\ Count(s \o t, x) = Count(s, x) + Count(t, x)
<1> DEFINE n == Len(s)
           r == s \o t
           S == {i \in DOMAIN s : s[i] = x}
           T == {i \in DOMAIN t : t[i] = x}
           U == {i + n : i \in T}
<1>1. /\ IsSeq(r)
      /\ \A i \in DOMAIN s : i \in DOMAIN r /\ r[i] = s[i]
      /\ \A i \in DOMAIN t : i + n \in DOMAIN r /\ r[i + n] = t[i]
      /\ \A k \in DOMAIN r :
           k \in DOMAIN s \/ \E i \in DOMAIN t : k = i + n
      /\ \A i \in DOMAIN t : i + n \notin DOMAIN s
      /\ \A i, j \in DOMAIN t : i + n = j + n => i = j
  BY ConcatSeq, Zenon
<1> HIDE DEF n, r
<1>2. Elements(r) = Elements(s) \cup Elements(t)
  BY <1>1 DEF Elements
<1>3. IsFiniteSet(S) /\ IsFiniteSet(T)
  BY CountNat, Zenon
<1>4. IsFiniteSet(U) /\ Cardinality(U) = Cardinality(T)
  <2> DEFINE f == [i \in T |-> i + n]
  <2>1. f \in [T -> U] /\ \A u \in U : \E i \in T : f[i] = u
    OBVIOUS
  <2>2. \A i, j \in T : f[i] = f[j] => i = j
    BY <1>1
  <2>3. Images
    BY Zenon DEF FiniteSetFacts
  <2> HIDE DEF f, S, T, U
  <2> QED BY <1>3, <2>1, <2>2, <2>3, Zenon DEF Images
<1>5. {k \in DOMAIN r : r[k] = x} = S \cup U /\ S \cap U = {}
  BY <1>1
<1>6. Unions
  BY Zenon DEF FiniteSetFacts
<1> HIDE DEF S, T, U
<1>7. Cardinality(S \cup U) = Cardinality(S) + Cardinality(T)
  BY <1>3, <1>4, <1>5, <1>6, Zenon DEF Unions
<1> QED BY <1>1, <1>2, <1>5, <1>7, Zenon DEF Count, S, T, r

\* The sequence of one element, and the empty one.
LEMMA CountOne ==
  ASSUME FiniteSetFacts, NEW x, NEW y
  PROVE  /\ IsSeq(<<y>>) /\ Elements(<<y>>) = {y}
         /\ Count(<<y>>, x) = IF y = x THEN 1 ELSE 0
         /\ IsSeq(<< >>) /\ Elements(<< >>) = {} /\ Count(<< >>, x) = 0
<1>1. /\ <<y>> \in Seq({y}) /\ DOMAIN <<y>> = {1} /\ <<y>>[1] = y
  OBVIOUS
<1>2. IsSeq(<<y>>) /\ IsSeq(<< >>) /\ DOMAIN << >> = {}
  BY <1>1, SeqOfElements, EmptySeq, Zenon
<1>3. Elements(<<y>>) = {y} /\ Elements(<< >>) = {}
  BY <1>1, <1>2 DEF Elements
<1>4. /\ {i \in DOMAIN <<y>> : <<y>>[i] = x} = IF y = x THEN {1} ELSE {}
      /\ {i \in DOMAIN << >> : << >>[i] = x} = {}
  BY <1>1, <1>2
<1>5. Cardinality({}) = 0 /\ Cardinality({1}) = 1
  BY Zenon DEF FiniteSetFacts
<1> QED BY <1>2, <1>3, <1>4, <1>5, Zenon DEF Count

\* What is put into a channel, and what is taken out of it.
LEMMA CountAppend ==
  ASSUME FiniteSetFacts, NEW s, NEW x, NEW y, IsSeq(s)
  PROVE  /\ Elements(Append(s, y)) = Elements(s) \cup {y}
         /\ Count(Append(s, y), x) = Count(s, x) + (IF y = x THEN 1 ELSE 0)
<1>1. Append(s, y) = s \o <<y>>
  BY DEF IsSeq
<1>2. PICK o : o = <<y>>
  BY Zenon
<1>3. IsSeq(o) /\ Elements(o) = {y} /\ Count(o, x) = IF y = x THEN 1 ELSE 0
  BY <1>2, CountOne, Zenon
<1>4. /\ Elements(s \o o) = Elements(s) \cup Elements(o)
      /\ Count(s \o o, x) = Count(s, x) + Count(o, x)
  BY <1>3, CountConcat, Zenon
<1> QED BY <1>1, <1>2, <1>3, <1>4, Zenon

\* What a receiver takes is counted no more: recv of a channel.
LEMMA CountTail ==
  ASSUME FiniteSetFacts, NEW s, NEW x, IsSeq(s), s # << >>
  PROVE  /\ Elements(s) = Elements(Tail(s)) \cup {Head(s)}
         /\ Count(s, x) = Count(Tail(s), x) + (IF Head(s) = x THEN 1 ELSE 0)
         /\ Count(Tail(s), x) \in Nat
<1>1. PICK o, r : o = <<Head(s)>> /\ r = Tail(s)
  BY Zenon
<1>2. s = o \o r /\ IsSeq(r)
  <2>1. s = <<Head(s)>> \o Tail(s)
    BY DEF IsSeq
  <2>2. IsSeq(Tail(s))
    BY TailSeq, Zenon
  <2> QED BY <1>1, <2>1, <2>2, Zenon
<1>3. Count(r, x) \in Nat
  BY <1>2, CountNat, Zenon
<1>4. /\ IsSeq(o) /\ Elements(o) = {Head(s)}
      /\ Count(o, x) = IF Head(s) = x THEN 1 ELSE 0
  BY <1>1, CountOne, Zenon
<1>5. /\ Elements(o \o r) = Elements(o) \cup Elements(r)
      /\ Count(o \o r, x) = Count(o, x) + Count(r, x)
  <2>1. IsSeq(o) /\ IsSeq(r)
    BY <1>2, <1>4, Zenon
  <2> QED BY <2>1, CountConcat, Zenon
<1>6. Count(s, x) = Count(r, x) + (IF Head(s) = x THEN 1 ELSE 0)
  BY <1>2, <1>3, <1>4, <1>5
<1>7. Elements(s) = Elements(r) \cup {Head(s)}
  BY <1>2, <1>4, <1>5
<1> QED BY <1>1, <1>3, <1>6, <1>7, Zenon

\* How often x occurs among the first n elements of a sequence.
CountFirst(s, n, x) == Cardinality({i \in 1..n : s[i] = x})

\* One message more is read from a socket.
LEMMA CountFirstNext ==
  ASSUME FiniteSetFacts, NEW s, NEW n \in Nat, NEW x
  PROVE  /\ CountFirst(s, n, x) \in Nat
         /\ CountFirst(s, n + 1, x) =
              CountFirst(s, n, x) + (IF s[n + 1] = x THEN 1 ELSE 0)
<1> DEFINE S == {i \in 1..n : s[i] = x}
<1>1. IsFiniteSet(S) /\ Cardinality(S) \in Nat
  <2>1. IsFiniteSet(1..n)
    BY Zenon DEF FiniteSetFacts
  <2>2. S \subseteq 1..n
    BY Zenon
  <2> QED BY <2>1, <2>2, Part, Zenon
<1>2. 1..(n + 1) = (1..n) \cup {n + 1} /\ n + 1 \notin 1..n
  OBVIOUS
<1>3. {i \in 1..(n + 1) : s[i] = x} = IF s[n + 1] = x THEN S \cup {n + 1} ELSE S
  BY <1>2, Zenon
<1>4. S \cap {n + 1} = {}
  BY <1>2, Zenon
<1> HIDE DEF S
<1>5. Cardinality(S \cup {n + 1}) = Cardinality(S) + 1
  <2>1. IsFiniteSet({n + 1}) /\ Cardinality({n + 1}) = 1 /\ Unions
    BY Zenon DEF FiniteSetFacts
  <2>2. Cardinality(S \cup {n + 1}) = Cardinality(S) + Cardinality({n + 1})
    BY <1>1, <1>4, <2>1, Zenon DEF Unions
  <2> QED BY <2>1, <2>2, Zenon
<1>6. CountFirst(s, n, x) = Cardinality(S)
  BY Zenon DEF CountFirst, S
<1>7. CountFirst(s, n + 1, x) =
        IF s[n + 1] = x THEN Cardinality(S) + 1 ELSE Cardinality(S)
  BY <1>3, <1>5, Zenon DEF CountFirst
<1> QED BY <1>1, <1>6, <1>7

\* Elements that are added behind the first n do not count.
LEMMA CountFirstSame ==
  ASSUME NEW s, NEW m, NEW n \in Nat, NEW x, IsSeq(s), n <= Len(s)
  PROVE  CountFirst(Append(s, m), n, x) = CountFirst(s, n, x)
<1>1. \A i \in 1..n : Append(s, m)[i] = s[i]
  BY AppendSeq
<1> QED BY <1>1, Zenon DEF CountFirst

\* No more was read than was sent.
LEMMA CountFirstAll ==
  ASSUME FiniteSetFacts, NEW s, NEW n \in Nat, NEW x, IsSeq(s), n <= Len(s)
  PROVE  CountFirst(s, n, x) <= Count(s, x)
<1>1. DOMAIN s = 1..Len(s) /\ Len(s) \in Nat
  BY DEF IsSeq
<1>2. {i \in 1..n : s[i] = x} \subseteq {i \in DOMAIN s : s[i] = x}
  BY <1>1
<1>3. IsFiniteSet({i \in DOMAIN s : s[i] = x})
  BY CountNat, Zenon
<1> QED BY <1>2, <1>3, Part, Zenon DEF Count, CountFirst

-----------------------------------------------------------------------------
(* The invariant *)

\* The transaction of q.
Tx(q) == [type |-> "Transactions", origin |-> q]

\* What may go to p, and what the manager may be told.
Foreign(p, m) == m.type = "Transactions" => \E o \in Peer \ {p} : m = Tx(o)
Honest(e) ==
  /\ e.type = "Message" /\ e.message.type = "Transactions" =>
       \E o \in Peer : e = Received(o, Tx(o))
  /\ e.type = "SendMessage" => e.message.type # "Transactions"

\* Whether the task of p writes a transaction of q, whether the task of q
\* waits to report one, and whether the manager still has to send it to p.
Held(p, q) == IF At(p, "write") /\ conn[p].held = Tx(q) THEN 1 ELSE 0
Loaded(q) ==
  IF At(q, "event") /\ conn[q].held = Received(q, Tx(q)) THEN 1 ELSE 0
Pending(p, q) ==
  IF /\ mgr.at \in {"send", "goodbye"} /\ p \in mgr.todo
     /\ mgr.message = Tx(q)
  THEN 1 ELSE 0

\* The transactions of q that were decoded, those that the manager does not
\* know of yet, and those that have reached the channel of p.
Came(q) == CountFirst(sent[q], taken[q], Tx(q))
Incoming(q) == Loaded(q) + Count(events, Received(q, Tx(q)))
Way(p, q) == Count(out[p], Tx(q)) + Held(p, q) + Count(peerq[p], Tx(q))

Bound(p, q) == Way(p, q) + Pending(p, q) + Incoming(q) <= Came(q)

\* What the task of p holds and passes on.
TaskClean(p) ==
  /\ taken[p] \in Nat /\ taken[p] <= Len(sent[p])
  /\ \A m \in Elements(out[p]) \cup Elements(peerq[p]) : Foreign(p, m)
  /\ At(p, "write") => Foreign(p, conn[p].held)
  /\ At(p, "event") => Honest(conn[p].held)

RouterClean ==
  /\ \A e \in Elements(events) : Honest(e)
  /\ mgr.at \in {"send", "goodbye"} =>
       \A p \in mgr.todo : Foreign(p, mgr.message)
  /\ adapter.at = "answer" => Honest(adapter.held)

RelayInv ==
  /\ \A p \in Peer : TaskClean(p)
  /\ RouterClean
  /\ \A p, q \in Peer : p # q => Bound(p, q)

\* What the other invariants say about channels and tasks.
Sound ==
  /\ ConnShape /\ MgrShape /\ IsSeq(events) /\ peer_map \subseteq Peer
  /\ DOMAIN out = Peer /\ DOMAIN peerq = Peer
  /\ DOMAIN sent = Peer /\ DOMAIN taken = Peer
  /\ \A p \in Peer : /\ IsSeq(out[p]) /\ IsSeq(peerq[p])
                     /\ sent[p] \in Seq(ClientMessage(p))
                     /\ At(p, "event") => conn[p].held.peer_id = p
  /\ {"at", "held"} \subseteq DOMAIN adapter
  /\ adapter.at = "answer" => adapter.held.type = "SendMessage"

\* It follows from the invariants of the tasks and of the handshake.
LEMMA InvariantsSound == NodeInv /\ HandshakeInv => Sound
BY Zenon DEF NodeInv, Shapes, PeerInv, HandshakeInv, ConnectionInv, WrittenInv,
             OutboundInv, Sound, At

\* The numbers that the invariant compares.
LEMMA Numbers ==
  ASSUME FiniteSetFacts, NEW p \in Peer, NEW q \in Peer, Sound, TaskClean(q)
  PROVE  /\ Held(p, q) \in {0, 1} /\ Loaded(q) \in {0, 1}
         /\ Pending(p, q) \in {0, 1}
         /\ Count(out[p], Tx(q)) \in Nat /\ Count(peerq[p], Tx(q)) \in Nat
         /\ Count(events, Received(q, Tx(q))) \in Nat
         /\ Way(p, q) \in Nat /\ Incoming(q) \in Nat /\ Came(q) \in Nat
<1>1. Held(p, q) \in {0, 1} /\ Loaded(q) \in {0, 1} /\ Pending(p, q) \in {0, 1}
  BY Zenon DEF Held, Loaded, Pending
<1>2. /\ Count(out[p], Tx(q)) \in Nat /\ Count(peerq[p], Tx(q)) \in Nat
      /\ Count(events, Received(q, Tx(q))) \in Nat
  BY CountNat, Zenon DEF Sound
<1>3. Came(q) \in Nat
  BY CountFirstNext, Zenon DEF Came, TaskClean
<1> QED BY <1>1, <1>2, <1>3 DEF Way, Incoming

\* The same after a step.
LEMMA NumbersNext ==
  ASSUME FiniteSetFacts, NEW p \in Peer, NEW q \in Peer, Sound', TaskClean(q)'
  PROVE  /\ Held(p, q)' \in {0, 1} /\ Loaded(q)' \in {0, 1}
         /\ Pending(p, q)' \in {0, 1}
         /\ Count(out'[p], Tx(q)) \in Nat /\ Count(peerq'[p], Tx(q)) \in Nat
         /\ Count(events', Received(q, Tx(q))) \in Nat
         /\ Way(p, q)' \in Nat /\ Incoming(q)' \in Nat /\ Came(q)' \in Nat
<1>1. Held(p, q)' \in {0, 1} /\ Loaded(q)' \in {0, 1} /\ Pending(p, q)' \in {0, 1}
  BY Zenon DEF Held, Loaded, Pending
<1>2. /\ Count(out'[p], Tx(q)) \in Nat /\ Count(peerq'[p], Tx(q)) \in Nat
      /\ Count(events', Received(q, Tx(q))) \in Nat
  BY CountNat, Zenon DEF Sound
<1>3. Came(q)' \in Nat
  BY CountFirstNext, Zenon DEF Came, TaskClean
<1> QED BY <1>1, <1>2, <1>3 DEF Way, Incoming

-----------------------------------------------------------------------------
(* The connection tasks *)

\* What a step of the task of r leaves alone, and what it may report: nothing
\* that looks like a transaction of another peer.
RelayFrame(r) ==
  /\ sent' = sent /\ mgr' = mgr /\ adapter' = adapter
  /\ \A p \in Peer \ {r} : /\ conn'[p] = conn[p] /\ out'[p] = out[p]
                            /\ peerq'[p] = peerq[p] /\ taken'[p] = taken[p]
  /\ \/ events' = events
     \/ \E e : /\ Honest(e) /\ events' = Append(events, e)
               /\ \A q \in Peer \ {r} : e # Received(q, Tx(q))

\* The task of r neither makes nor doubles a transaction.
Flows(r) ==
  /\ TaskClean(r)'
  /\ \A q \in Peer : Way(r, q)' <= Way(r, q)
  /\ Incoming(r)' + Came(r) <= Incoming(r) + Came(r)'

\* Then the invariant is kept.
LEMMA FlowsKeep ==
  ASSUME FiniteSetFacts, NEW r \in Peer, Sound, Sound', RelayInv, RelayFrame(r), Flows(r)
  PROVE  RelayInv'
<1>1. ASSUME NEW p \in Peer
      PROVE  TaskClean(p)'
  <2>1. CASE p = r
    BY <2>1, Zenon DEF Flows
  <2>2. CASE p # r
    BY <2>2, Zenon DEF RelayInv, TaskClean, RelayFrame, At
  <2> QED BY <2>1, <2>2
<1>2. ASSUME NEW p \in Peer, NEW q \in Peer
      PROVE  Way(p, q)' <= Way(p, q) /\ Pending(p, q)' = Pending(p, q)
  <2>1. Pending(p, q)' = Pending(p, q)
    BY Zenon DEF Pending, RelayFrame
  <2>2. CASE p = r
    BY <2>1, <2>2, Zenon DEF Flows
  <2>3. CASE p # r
    <3>1. Way(p, q)' = Way(p, q)
      BY <2>3, Zenon DEF RelayFrame, Way, Held, At
    <3>2. Way(p, q) \in Nat
      BY Numbers, Zenon DEF RelayInv
    <3> QED BY <2>1, <3>1, <3>2
  <2> QED BY <2>2, <2>3, Zenon
<1>3. ASSUME NEW q \in Peer
      PROVE  Incoming(q)' + Came(q) <= Incoming(q) + Came(q)'
  <2>1. CASE q = r
    BY <2>1, Zenon DEF Flows
  <2>2. CASE q # r
    <3>1. Came(q)' = Came(q) /\ Loaded(q)' = Loaded(q)
      BY <2>2, Zenon DEF RelayFrame, Came, Loaded, At
    <3>2. Count(events', Received(q, Tx(q))) = Count(events, Received(q, Tx(q)))
      <4>1. IsSeq(events) /\ Count(events, Received(q, Tx(q))) \in Nat
        BY CountNat, Zenon DEF Sound
      <4>2. ASSUME NEW e, e # Received(q, Tx(q))
            PROVE  Count(Append(events, e), Received(q, Tx(q)))
                     = Count(events, Received(q, Tx(q)))
        <5>1. Count(Append(events, e), Received(q, Tx(q)))
                = Count(events, Received(q, Tx(q))) + 0
          BY <4>1, <4>2, CountAppend, Zenon
        <5> QED BY <4>1, <5>1
      <4>3. events' = events \/ \E e : /\ events' = Append(events, e)
                                       /\ e # Received(q, Tx(q))
        BY <2>2, Zenon DEF RelayFrame
      <4>4. CASE events' = events
        BY <4>4, Zenon
      <4>5. ASSUME NEW e, events' = Append(events, e), e # Received(q, Tx(q))
            PROVE  Count(events', Received(q, Tx(q)))
                     = Count(events, Received(q, Tx(q)))
        <5>1. Count(Append(events, e), Received(q, Tx(q)))
                = Count(events, Received(q, Tx(q)))
          BY <4>2, <4>5, Zenon
        <5> QED BY <4>5, <5>1, Zenon
      <4> QED BY <4>3, <4>4, <4>5, Zenon
    <3>3. Incoming(q)' = Incoming(q)
      BY <3>1, <3>2, Zenon DEF Incoming
    <3>4. Incoming(q) \in Nat /\ Came(q) \in Nat
      BY Numbers, Zenon DEF RelayInv
    <3> QED BY <3>1, <3>3, <3>4
  <2> QED BY <2>1, <2>2, Zenon
<1>4. RouterClean'
  <2>1. \A e \in Elements(events') : Honest(e)
    <3>1. IsSeq(events) /\ \A e \in Elements(events) : Honest(e)
      BY Zenon DEF Sound, RelayInv, RouterClean
    <3>2. \A e : Elements(Append(events, e)) = Elements(events) \cup {e}
      BY <3>1, CountAppend, Zenon
    <3> QED BY <3>1, <3>2, Zenon DEF RelayFrame
  <2> QED BY <2>1, Zenon DEF RelayInv, RouterClean, RelayFrame
<1>5. ASSUME NEW p \in Peer, NEW q \in Peer, p # q
      PROVE  Bound(p, q)'
  <2>1. /\ Way(p, q) \in Nat /\ Pending(p, q) \in {0, 1} /\ Incoming(q) \in Nat
        /\ Came(q) \in Nat
    BY Numbers, Zenon DEF RelayInv
  <2>2. Way(p, q)' \in Nat /\ Incoming(q)' \in Nat /\ Came(q)' \in Nat
    BY <1>1, NumbersNext, Zenon
  <2>3. Way(p, q) + Pending(p, q) + Incoming(q) <= Came(q)
    BY <1>5, Zenon DEF RelayInv, Bound
  <2>4. /\ Way(p, q)' <= Way(p, q) /\ Pending(p, q)' = Pending(p, q)
        /\ Incoming(q)' + Came(q) <= Incoming(q) + Came(q)'
    BY <1>2, <1>3, Zenon
  <2> QED BY <2>1, <2>2, <2>3, <2>4 DEF Bound
<1> QED BY <1>1, <1>4, <1>5, Zenon DEF RelayInv

\* The branches of the task, as far as transactions are concerned.
Receives(r) ==
  /\ At(r, "select") /\ taken[r] < Len(sent[r]) /\ taken'[r] = taken[r] + 1
  /\ out'[r] = out[r] /\ peerq'[r] = peerq[r] /\ events' = events
  /\ \/ conn'[r].at = "event" /\ conn'[r].held = Received(r, next(r))
     \/ conn'[r].at = "write" /\ conn'[r].held.type # "Transactions"
     \/ conn'[r].at = "leave"

Takes(r) ==
  /\ At(r, "select") /\ peerq[r] # << >> /\ peerq'[r] = Tail(peerq[r])
  /\ conn'[r].at = "write" /\ conn'[r].held = Head(peerq[r])
  /\ taken'[r] = taken[r] /\ out'[r] = out[r] /\ events' = events

Writes(r) ==
  /\ At(r, "write") /\ out'[r] = Append(out[r], conn[r].held)
  /\ \/ conn'[r].at \in {"select", "leave"}
     \/ conn'[r].at = "event" /\ conn'[r].held = Connected(r)
  /\ taken'[r] = taken[r] /\ peerq'[r] = peerq[r] /\ events' = events

Announces(r) ==
  /\ At(r, "event") /\ events' = Append(events, conn[r].held)
  /\ conn'[r].at = "select"
  /\ taken'[r] = taken[r] /\ out'[r] = out[r] /\ peerq'[r] = peerq[r]

MovesOn(r) ==
  /\ conn'[r].at \in {"select", "leave", "done"}
  /\ taken'[r] = taken[r] /\ out'[r] = out[r]
  /\ peerq'[r] = peerq[r] \/ peerq'[r] = << >>
  /\ events' = events \/ events' = Append(events, Disconnected(r))

\* The records that are told apart.
LEMMA Different ==
  ASSUME NEW p, NEW q
  PROVE  /\ Tx(q).type = "Transactions" /\ Received(p, Tx(q)).type = "Message"
         /\ Received(p, Tx(q)).peer_id = p /\ Received(p, Tx(q)).message = Tx(q)
         /\ Connected(p) # Received(q, Tx(q)) /\ Honest(Connected(p))
         /\ Disconnected(p) # Received(q, Tx(q)) /\ Honest(Disconnected(p))
<1>1. /\ Tx(q).type = "Transactions" /\ Received(p, Tx(q)).type = "Message"
      /\ Received(p, Tx(q)).peer_id = p /\ Received(p, Tx(q)).message = Tx(q)
      /\ Received(q, Tx(q)).type = "Message"
      /\ Connected(p).type = "Connected" /\ Disconnected(p).type = "Disconnected"
  BY Zenon DEF Tx, Received, Connected, Disconnected
<1> QED BY <1>1 DEF Honest

\* A message of the client is read: only its own transactions are reported.
LEMMA ReceivesFlows ==
  ASSUME FiniteSetFacts, NEW r \in Peer, Sound, Sound', sent' = sent, RelayInv, Receives(r)
  PROVE  Flows(r)
<1>1. /\ IsSeq(sent[r]) /\ sent[r] \in Seq(ClientMessage(r))
      /\ taken[r] \in Nat /\ TaskClean(r)
  BY SeqOfElements, Zenon DEF Sound, RelayInv, TaskClean
<1>2. /\ next(r) \in ClientMessage(r)
      /\ taken'[r] \in Nat /\ taken'[r] <= Len(sent'[r])
  BY <1>1 DEF Receives, next
<1>3. next(r).type = "Transactions" => next(r) = Tx(r)
  BY <1>2 DEF ClientMessage, Tx, Msg, Status
<1>4. Honest(Received(r, next(r)))
  <2>1. Received(r, next(r)).type = "Message"
        /\ Received(r, next(r)).message = next(r)
    BY Zenon DEF Received
  <2> QED BY <1>3, <2>1 DEF Honest
<1>5. TaskClean(r)'
  <2>1. /\ conn'[r].at = "write" => Foreign(r, conn'[r].held)
        /\ conn'[r].at = "event" => Honest(conn'[r].held)
    BY <1>4 DEF Receives, Foreign
  <2>2. \A m \in Elements(out'[r]) \cup Elements(peerq'[r]) : Foreign(r, m)
    BY <1>1, Zenon DEF TaskClean, Receives
  <2> QED BY <1>2, <2>1, <2>2, Zenon DEF TaskClean, At
<1>6. ASSUME NEW q \in Peer
      PROVE  Way(r, q)' <= Way(r, q)
  <2>1. Held(r, q)' = 0 /\ Held(r, q) = 0
    BY Different DEF Receives, Held, At
  <2>2. Way(r, q)' = Way(r, q)
    BY <2>1, Zenon DEF Way, Receives
  <2>3. Way(r, q) \in Nat
    BY Numbers, Zenon DEF RelayInv
  <2> QED BY <2>2, <2>3
<1>7. Incoming(r)' + Came(r) <= Incoming(r) + Came(r)'
  <2>1. /\ Incoming(r) \in Nat /\ Came(r) \in Nat
        /\ Count(events, Received(r, Tx(r))) \in Nat
    BY Numbers, Zenon DEF RelayInv
  <2>2. Came(r)' = Came(r) + (IF next(r) = Tx(r) THEN 1 ELSE 0)
    <3>1. taken'[r] = taken[r] + 1 /\ next(r) = sent[r][taken[r] + 1]
      BY Zenon DEF Receives, next
    <3>2. CountFirst(sent[r], taken[r] + 1, Tx(r)) =
            CountFirst(sent[r], taken[r], Tx(r))
            + (IF sent[r][taken[r] + 1] = Tx(r) THEN 1 ELSE 0)
      <4>1. taken[r] \in Nat
        BY <1>1, Zenon
      <4> QED BY <4>1, CountFirstNext, ZenonT(60)
    <3> QED BY <3>1, <3>2, Zenon DEF Came
  <2>3. Loaded(r) = 0 /\ Loaded(r)' <= (IF next(r) = Tx(r) THEN 1 ELSE 0)
    <3>1. Received(r, next(r)) = Received(r, Tx(r)) => next(r) = Tx(r)
      BY Zenon DEF Received
    <3> QED BY <3>1 DEF Receives, Loaded, At
  <2>4. /\ Incoming(r) = Loaded(r) + Count(events, Received(r, Tx(r)))
        /\ Incoming(r)' = Loaded(r)' + Count(events, Received(r, Tx(r)))
    BY Zenon DEF Incoming, Receives
  <2>5. Loaded(r)' \in {0, 1}
    BY Zenon DEF Loaded
  <2> QED BY <2>1, <2>2, <2>3, <2>4, <2>5
<1> QED BY <1>5, <1>6, <1>7, Zenon DEF Flows

\* A step that does not decode a message: nothing is added to what came.
LEMMA NothingCame ==
  ASSUME FiniteSetFacts, NEW r \in Peer, Sound, sent' = sent, RelayInv, taken'[r] = taken[r],
         Incoming(r)' \in Nat, Incoming(r)' <= Incoming(r)
  PROVE  /\ taken'[r] \in Nat /\ taken'[r] <= Len(sent'[r])
         /\ Incoming(r)' + Came(r) <= Incoming(r) + Came(r)'
<1>1. TaskClean(r)
  BY Zenon DEF RelayInv
<1>2. Incoming(r) \in Nat /\ Came(r) \in Nat /\ Came(r)' = Came(r)
  BY <1>1, Numbers, Zenon DEF Came
<1>3. Incoming(r)' + Came(r) <= Incoming(r) + Came(r)'
  BY <1>2
<1> QED BY <1>1, <1>3, Zenon DEF TaskClean

\* A message of the peer's channel is taken, to be written.
LEMMA TakesFlows ==
  ASSUME FiniteSetFacts, NEW r \in Peer, Sound, Sound', sent' = sent, RelayInv, Takes(r)
  PROVE  Flows(r)
<1>1. IsSeq(peerq[r]) /\ peerq[r] # << >> /\ TaskClean(r)
  BY Zenon DEF Sound, RelayInv, Takes
<1>2. Elements(peerq[r]) = Elements(peerq'[r]) \cup {Head(peerq[r])}
  BY <1>1, CountTail, Zenon DEF Takes
<1>3. Incoming(r)' <= Incoming(r) /\ Incoming(r)' \in Nat
  <2>1. Loaded(r)' = 0 /\ Loaded(r) = 0
    BY Zenon DEF Takes, Loaded, At
  <2>2. Incoming(r)' = Incoming(r) /\ Incoming(r) \in Nat
    BY <1>1, <2>1, Numbers, Zenon DEF Incoming, Takes
  <2> QED BY <2>2
<1>4. /\ taken'[r] \in Nat /\ taken'[r] <= Len(sent'[r])
      /\ Incoming(r)' + Came(r) <= Incoming(r) + Came(r)'
  BY <1>3, NothingCame, Zenon DEF Takes
<1>5. TaskClean(r)'
  BY <1>1, <1>2, <1>4, Zenon DEF TaskClean, Takes, At
<1>6. ASSUME NEW q \in Peer
      PROVE  Way(r, q)' <= Way(r, q)
  <2>1. /\ Count(peerq[r], Tx(q)) = Count(peerq'[r], Tx(q))
                                    + (IF Head(peerq[r]) = Tx(q) THEN 1 ELSE 0)
        /\ Count(peerq'[r], Tx(q)) \in Nat /\ Count(out[r], Tx(q)) \in Nat
        /\ out'[r] = out[r]
    BY <1>1, CountTail, CountNat, Zenon DEF Takes, Sound
  <2>2. /\ Held(r, q) = 0
        /\ Held(r, q)' = IF Head(peerq[r]) = Tx(q) THEN 1 ELSE 0
    BY Zenon DEF Takes, Held, At
  <2> QED BY <2>1, <2>2 DEF Way
<1> QED BY <1>4, <1>5, <1>6, Zenon DEF Flows

\* What the task holds is written.
LEMMA WritesFlows ==
  ASSUME FiniteSetFacts, NEW r \in Peer, Sound, Sound', sent' = sent, RelayInv, Writes(r)
  PROVE  Flows(r)
<1>1. IsSeq(out[r]) /\ TaskClean(r) /\ Foreign(r, conn[r].held)
  BY Zenon DEF Sound, RelayInv, Writes, TaskClean
<1>2. Elements(out'[r]) = Elements(out[r]) \cup {conn[r].held}
  <2>1. Elements(Append(out[r], conn[r].held)) = Elements(out[r]) \cup {conn[r].held}
    BY <1>1, CountAppend, Zenon
  <2> QED BY <2>1, Zenon DEF Writes
<1>3. Incoming(r)' <= Incoming(r) /\ Incoming(r)' \in Nat
  <2>1. Loaded(r)' = 0 /\ Loaded(r) = 0
    BY Different DEF Writes, Loaded, At
  <2>2. Incoming(r)' = Incoming(r) /\ Incoming(r) \in Nat
    BY <1>1, <2>1, Numbers, Zenon DEF Incoming, Writes
  <2> QED BY <2>2
<1>4. /\ taken'[r] \in Nat /\ taken'[r] <= Len(sent'[r])
      /\ Incoming(r)' + Came(r) <= Incoming(r) + Came(r)'
  BY <1>3, NothingCame, Zenon DEF Writes
<1>5. TaskClean(r)'
  <2>1. conn'[r].at # "write" /\ (conn'[r].at = "event" => Honest(conn'[r].held))
    BY Different DEF Writes
  <2>2. \A m \in Elements(out'[r]) \cup Elements(peerq'[r]) : Foreign(r, m)
    BY <1>1, <1>2, Zenon DEF TaskClean, Writes
  <2> QED BY <1>4, <2>1, <2>2, Zenon DEF TaskClean, At
<1>6. ASSUME NEW q \in Peer
      PROVE  Way(r, q)' <= Way(r, q)
  <2>1. /\ Count(out'[r], Tx(q)) = Count(out[r], Tx(q))
                                   + (IF conn[r].held = Tx(q) THEN 1 ELSE 0)
        /\ Count(out[r], Tx(q)) \in Nat /\ Count(peerq[r], Tx(q)) \in Nat
        /\ peerq'[r] = peerq[r]
    <3>1. Count(Append(out[r], conn[r].held), Tx(q)) =
            Count(out[r], Tx(q)) + (IF conn[r].held = Tx(q) THEN 1 ELSE 0)
      BY <1>1, CountAppend, Zenon
    <3>2. Count(out[r], Tx(q)) \in Nat /\ Count(peerq[r], Tx(q)) \in Nat
      BY Numbers, Zenon DEF RelayInv
    <3> QED BY <3>1, <3>2, Zenon DEF Writes
  <2>2. /\ Held(r, q)' = 0
        /\ Held(r, q) = IF conn[r].held = Tx(q) THEN 1 ELSE 0
    BY DEF Writes, Held, At
  <2> QED BY <2>1, <2>2 DEF Way
<1> QED BY <1>4, <1>5, <1>6, Zenon DEF Flows

\* What the task holds is put into the event channel.
LEMMA AnnouncesFlows ==
  ASSUME FiniteSetFacts, NEW r \in Peer, Sound, Sound', sent' = sent, RelayInv, Announces(r)
  PROVE  Flows(r)
<1>1. IsSeq(events) /\ TaskClean(r)
  BY Zenon DEF Sound, RelayInv
<1>2. /\ Held(r, r)' = 0 /\ Loaded(r)' = 0
      /\ Loaded(r) = IF conn[r].held = Received(r, Tx(r)) THEN 1 ELSE 0
  BY DEF Announces, Loaded, Held, At
<1>3. Incoming(r)' <= Incoming(r) /\ Incoming(r)' \in Nat
  <2>1. /\ Count(events', Received(r, Tx(r))) =
             Count(events, Received(r, Tx(r)))
             + (IF conn[r].held = Received(r, Tx(r)) THEN 1 ELSE 0)
        /\ Count(events, Received(r, Tx(r))) \in Nat
    <3>1. Count(Append(events, conn[r].held), Received(r, Tx(r))) =
            Count(events, Received(r, Tx(r)))
            + (IF conn[r].held = Received(r, Tx(r)) THEN 1 ELSE 0)
      BY <1>1, CountAppend, Zenon
    <3>2. Count(events, Received(r, Tx(r))) \in Nat
      BY <1>1, CountNat, Zenon
    <3> QED BY <3>1, <3>2, Zenon DEF Announces
  <2> QED BY <1>2, <2>1 DEF Incoming
<1>4. /\ taken'[r] \in Nat /\ taken'[r] <= Len(sent'[r])
      /\ Incoming(r)' + Came(r) <= Incoming(r) + Came(r)'
  BY <1>3, NothingCame, Zenon DEF Announces
<1>5. TaskClean(r)'
  BY <1>1, <1>4 DEF TaskClean, Announces, At
<1>6. ASSUME NEW q \in Peer
      PROVE  Way(r, q)' <= Way(r, q)
  <2>1. Held(r, q)' = 0 /\ Held(r, q) = 0
    BY DEF Announces, Held, At
  <2>2. Way(r, q)' = Way(r, q) /\ Way(r, q) \in Nat
    BY <2>1, Numbers, Zenon DEF Way, Announces, RelayInv
  <2> QED BY <2>2
<1> QED BY <1>4, <1>5, <1>6, Zenon DEF Flows

\* The task moves on, and what it held is lost.
LEMMA MovesOnFlows ==
  ASSUME FiniteSetFacts, NEW r \in Peer, Sound, Sound', sent' = sent, RelayInv, MovesOn(r)
  PROVE  Flows(r)
<1>1. IsSeq(events) /\ TaskClean(r)
  BY Zenon DEF Sound, RelayInv
<1>2. conn'[r].at \notin {"write", "event"}
  BY DEF MovesOn
<1>3. Incoming(r)' <= Incoming(r) /\ Incoming(r)' \in Nat
  <2>1. /\ Count(Append(events, Disconnected(r)), Received(r, Tx(r)))
             = Count(events, Received(r, Tx(r))) + 0
        /\ Count(events, Received(r, Tx(r))) \in Nat /\ Loaded(r) \in {0, 1}
    <3>1. Disconnected(r) # Received(r, Tx(r))
      BY Different
    <3>2. Count(Append(events, Disconnected(r)), Received(r, Tx(r)))
            = Count(events, Received(r, Tx(r)))
              + (IF Disconnected(r) = Received(r, Tx(r)) THEN 1 ELSE 0)
      BY <1>1, CountAppend, Zenon
    <3> QED BY <1>1, <3>1, <3>2, Numbers, Zenon
  <2>2. Loaded(r)' = 0
    BY <1>2, Zenon DEF Loaded, At
  <2>3. \/ Count(events', Received(r, Tx(r))) = Count(events, Received(r, Tx(r)))
        \/ Count(events', Received(r, Tx(r)))
             = Count(events, Received(r, Tx(r))) + 0
    BY <2>1, Zenon DEF MovesOn
  <2> QED BY <2>1, <2>2, <2>3 DEF Incoming
<1>4. /\ taken'[r] \in Nat /\ taken'[r] <= Len(sent'[r])
      /\ Incoming(r)' + Came(r) <= Incoming(r) + Came(r)'
  BY <1>3, NothingCame, Zenon DEF MovesOn
<1>5. TaskClean(r)'
  <2>1. Elements(peerq'[r]) \subseteq Elements(peerq[r]) /\ out'[r] = out[r]
    BY CountOne, Zenon DEF MovesOn
  <2> QED BY <1>1, <1>2, <1>4, <2>1, Zenon DEF TaskClean, At
<1>6. ASSUME NEW q \in Peer
      PROVE  Way(r, q)' <= Way(r, q)
  <2>1. /\ Held(r, q) \in {0, 1} /\ Count(out[r], Tx(q)) \in Nat
        /\ Count(peerq[r], Tx(q)) \in Nat
    BY Numbers, Zenon DEF RelayInv
  <2>2. Held(r, q)' = 0 /\ out'[r] = out[r]
    BY <1>2, Zenon DEF Held, MovesOn, At
  <2>3. \/ Count(peerq'[r], Tx(q)) = Count(peerq[r], Tx(q))
        \/ Count(peerq'[r], Tx(q)) = 0
    BY CountOne, Zenon DEF MovesOn
  <2> QED BY <2>1, <2>2, <2>3 DEF Way
<1> QED BY <1>4, <1>5, <1>6, Zenon DEF Flows

\* A step of the task of r with one of these effects keeps the invariant.
LEMMA TaskKeeps ==
  ASSUME FiniteSetFacts, NEW r \in Peer, Sound, Sound', RelayInv, RelayFrame(r),
         \/ Receives(r) \/ Takes(r) \/ Writes(r) \/ Announces(r) \/ MovesOn(r)
  PROVE  RelayInv'
<1>1. sent' = sent
  BY DEF RelayFrame
<1>2. Flows(r)
  BY <1>1, ReceivesFlows, TakesFlows, WritesFlows, AnnouncesFlows, MovesOnFlows,
     Zenon
<1> QED BY <1>2, FlowsKeep, Zenon

\* What a branch of the task leaves alone.
LEMMA FrameOf ==
  ASSUME NEW r \in Peer, Sound, UNCHANGED <<sent, mgr, adapter>>,
         \A p \in Peer \ {r} : conn'[p] = conn[p],
         taken' = taken \/ \E n : taken' = [taken EXCEPT ![r] = n],
         out' = out \/ \E o : out' = [out EXCEPT ![r] = o],
         peerq' = peerq \/ \E c : peerq' = [peerq EXCEPT ![r] = c],
         \/ events' = events
         \/ \E e : /\ Honest(e) /\ events' = Append(events, e)
                   /\ \A q \in Peer \ {r} : e # Received(q, Tx(q))
  PROVE  RelayFrame(r)
<1>1. /\ DOMAIN taken = Peer /\ DOMAIN out = Peer /\ DOMAIN peerq = Peer
  BY Zenon DEF Sound
<1>2. \A p \in Peer \ {r} : /\ taken'[p] = taken[p] /\ out'[p] = out[p]
                             /\ peerq'[p] = peerq[p]
  BY <1>1, Zenon
<1> QED BY <1>2, Zenon DEF RelayFrame

\* The branches of handle_connection.
LEMMA RelayConnection ==
  ASSUME FiniteSetFacts, NEW r \in Peer, Sound, Sound', RelayInv, UNCHANGED <<mgr, adapter>>,
         ConnectionStep(r)
  PROVE  RelayInv'
<1>0. /\ ConnShape /\ DOMAIN taken = Peer /\ DOMAIN out = Peer
      /\ DOMAIN peerq = Peer /\ TaskClean(r)
      /\ At(r, "event") => conn[r].held.peer_id = r
  BY Zenon DEF Sound, RelayInv
<1>1. ASSUME NEW at, NEW h, GoTo(r, at, h)
      PROVE  /\ conn'[r].at = at /\ conn'[r].held = h
             /\ \A p \in Peer \ {r} : conn'[p] = conn[p]
  BY <1>0, <1>1, GoToEffect, ZenonT(60)
<1>2. ASSUME NEW state, Receive(r, state)
      PROVE  /\ At(r, "select") /\ taken[r] < Len(sent[r])
             /\ UNCHANGED <<sent, out, peerq, events>>
             /\ taken' = [taken EXCEPT ![r] = taken[r] + 1]
             /\ taken'[r] = taken[r] + 1
  BY <1>0, <1>2, Zenon DEF Receive, clientVars
<1>3. CASE ReceiveStatus(r)
  <2>1. PICK h : GoTo(r, "write", h) /\ h.type # "Transactions"
    BY <1>3 DEF ReceiveStatus, Msg
  <2>2. Receive(r, "AwaitingStatus")
    BY <1>3, Zenon DEF ReceiveStatus
  <2>3. RelayFrame(r)
    BY <1>1, <1>2, <2>1, <2>2, FrameOf, Zenon
  <2>4. Receives(r)
    BY <1>1, <1>2, <2>1, <2>2, Zenon DEF Receives
  <2> QED BY <2>3, <2>4, TaskKeeps, Zenon
<1>4. CASE ReceiveViolation(r)
  <2>1. GoTo(r, "leave", None) /\ \E state : Receive(r, state)
    BY <1>4, Zenon DEF ReceiveViolation
  <2>2. RelayFrame(r)
    BY <1>1, <1>2, <2>1, FrameOf, Zenon
  <2>3. Receives(r)
    BY <1>1, <1>2, <2>1, Zenon DEF Receives
  <2> QED BY <2>2, <2>3, TaskKeeps, Zenon
<1>5. CASE ReceiveMessage(r)
  <2>1. GoTo(r, "event", Received(r, next(r))) /\ Receive(r, "Established")
    BY <1>5, Zenon DEF ReceiveMessage
  <2>2. RelayFrame(r)
    BY <1>1, <1>2, <2>1, FrameOf, Zenon
  <2>3. Receives(r)
    BY <1>1, <1>2, <2>1, Zenon DEF Receives
  <2> QED BY <2>2, <2>3, TaskKeeps, Zenon
<1>6. CASE TakeOutbound(r)
  <2>1. /\ At(r, "select") /\ peerq[r] # << >>
        /\ peerq' = [peerq EXCEPT ![r] = Tail(peerq[r])]
        /\ GoTo(r, "write", Head(peerq[r])) /\ UNCHANGED <<sent, taken, out, events>>
    BY <1>6, Zenon DEF TakeOutbound, clientVars
  <2>2. RelayFrame(r)
    BY <1>1, <2>1, FrameOf, Zenon
  <2>3. Takes(r)
    BY <1>0, <1>1, <2>1, Zenon DEF Takes
  <2> QED BY <2>2, <2>3, TaskKeeps, Zenon
<1>7. CASE Write(r)
  <2>1. /\ At(r, "write") /\ out' = [out EXCEPT ![r] = Append(out[r], conn[r].held)]
        /\ AfterWrite(r) /\ UNCHANGED <<sent, taken, peerq, events>>
    BY <1>7, Zenon DEF Write, clientVars
  <2>2. \/ GoTo(r, "select", None) \/ GoTo(r, "leave", None)
        \/ GoTo(r, "event", Connected(r))
    BY <2>1, Zenon DEF AfterWrite
  <2>3. RelayFrame(r)
    BY <1>1, <2>1, <2>2, FrameOf, Zenon
  <2>4. Writes(r)
    BY <1>0, <1>1, <2>1, <2>2, Zenon DEF Writes
  <2> QED BY <2>3, <2>4, TaskKeeps, Zenon
<1>8. CASE ReceiveNone(r) \/ WriteFails(r)
  <2>1. GoTo(r, "leave", None) /\ UNCHANGED <<sent, taken, out, peerq, events>>
    BY <1>8, Zenon DEF ReceiveNone, WriteFails, clientVars
  <2>2. RelayFrame(r)
    BY <1>1, <2>1, FrameOf, Zenon
  <2>3. MovesOn(r)
    BY <1>1, <2>1, Zenon DEF MovesOn
  <2> QED BY <2>2, <2>3, TaskKeeps, Zenon
<1>9. CASE SendEvent(r)
  <2>1. /\ At(r, "event") /\ UNCHANGED <<sent, taken, out, peerq>>
        /\ \/ /\ events' = Append(events, conn[r].held)
              /\ conn' = [conn EXCEPT ![r] = [at |-> "select",
                                              state |-> "Established",
                                              held |-> None]]
           \/ GoTo(r, "leave", None) /\ events' = events
    BY <1>9, Zenon DEF SendEvent, clientVars
  <2>2. CASE GoTo(r, "leave", None) /\ events' = events
    <3>1. RelayFrame(r)
      BY <1>1, <2>1, <2>2, FrameOf, Zenon
    <3>2. MovesOn(r)
      BY <1>1, <2>1, <2>2, Zenon DEF MovesOn
    <3> QED BY <3>1, <3>2, TaskKeeps, Zenon
  <2>3. CASE /\ events' = Append(events, conn[r].held)
             /\ conn' = [conn EXCEPT ![r] = [at |-> "select",
                                             state |-> "Established",
                                             held |-> None]]
    <3>1. conn'[r].at = "select" /\ \A p \in Peer \ {r} : conn'[p] = conn[p]
      BY <1>0, <2>3 DEF ConnShape
    <3>2. /\ Honest(conn[r].held)
          /\ \A q \in Peer \ {r} : conn[r].held # Received(q, Tx(q))
      <4>1. \A q : Received(q, Tx(q)).peer_id = q
        BY Different, Zenon
      <4> QED BY <1>0, <2>1, <4>1, Zenon DEF TaskClean
    <3>3. RelayFrame(r)
      BY <2>1, <2>3, <3>1, <3>2, FrameOf, Zenon
    <3>4. Announces(r)
      BY <2>1, <2>3, <3>1, Zenon DEF Announces
    <3> QED BY <3>3, <3>4, TaskKeeps, Zenon
  <2> QED BY <2>1, <2>2, <2>3, Zenon
<1>10. CASE Leave(r)
  <2>1. /\ GoTo(r, "done", None) /\ UNCHANGED <<sent, taken, out>>
        /\ peerq' = [peerq EXCEPT ![r] = << >>]
        /\ events' = events \/ events' = Append(events, Disconnected(r))
    BY <1>10, Zenon DEF Leave, clientVars
  <2>2. RelayFrame(r)
    <3>1. Honest(Disconnected(r)) /\ \A q : Disconnected(r) # Received(q, Tx(q))
      BY Different, Zenon
    <3>2. \/ events' = events
          \/ \E e : /\ Honest(e) /\ events' = Append(events, e)
                    /\ \A q \in Peer \ {r} : e # Received(q, Tx(q))
      BY <2>1, <3>1, Zenon
    <3> QED BY <1>1, <2>1, <3>2, FrameOf, Zenon
  <2>3. MovesOn(r)
    BY <1>0, <1>1, <2>1, Zenon DEF MovesOn
  <2> QED BY <2>2, <2>3, TaskKeeps, Zenon
<1> QED BY <1>3, <1>4, <1>5, <1>6, <1>7, <1>8, <1>9, <1>10, Zenon
           DEF ConnectionStep

\* A connection is accepted.
LEMMA RelayAccept ==
  ASSUME FiniteSetFacts, NEW r \in Peer, Sound, Sound', RelayInv, Accept(r)
  PROVE  RelayInv'
<1>1. /\ conn' = [conn EXCEPT ![r].at = "select"]
      /\ UNCHANGED <<sent, taken, out, peerq, events, mgr, adapter>>
  BY Zenon DEF Accept, managerVars, taskVars
<1>2. conn'[r].at = "select" /\ \A p \in Peer \ {r} : conn'[p] = conn[p]
  <2> DEFINE c == [conn[r] EXCEPT !.at = "select"]
  <2>1. {"at", "state", "held"} \subseteq DOMAIN conn[r] /\ DOMAIN conn = Peer
    BY DEF Sound, ConnShape
  <2>2. c.at = "select"
    BY <2>1
  <2>3. conn' = [conn EXCEPT ![r] = c]
    BY <1>1, <2>1
  <2> HIDE DEF c
  <2> QED BY <2>1, <2>2, <2>3, Zenon
<1>3. RelayFrame(r)
  BY <1>1, <1>2, FrameOf, Zenon
<1>4. MovesOn(r)
  BY <1>1, <1>2, Zenon DEF MovesOn
<1> QED BY <1>3, <1>4, TaskKeeps, Zenon

-----------------------------------------------------------------------------
(* The clients, the manager and the adapter *)

\* A client sends, reads or closes: nothing has been decoded yet.
LEMMA RelayClient ==
  ASSUME FiniteSetFacts, NEW c \in Peer, Sound, Sound', RelayInv, ClientStep(c),
         UNCHANGED <<mgr, adapter>>
  PROVE  RelayInv'
<1>1. /\ UNCHANGED <<taken, out, conn, peerq, events, mgr, adapter>>
      /\ \/ sent' = sent
         \/ \E m : sent' = [sent EXCEPT ![c] = Append(sent[c], m)]
  BY Zenon DEF ClientStep, ClientSend, ClientRead, ClientClose
<1>2. ASSUME NEW p \in Peer
      PROVE  sent'[p] = sent[p] \/ \E m : sent'[p] = Append(sent[p], m)
  BY <1>1, ZenonT(60) DEF Sound
<1>3. ASSUME NEW p \in Peer
      PROVE  taken[p] <= Len(sent'[p]) /\ Came(p)' = Came(p)
  <2>1. taken[p] \in Nat /\ taken[p] <= Len(sent[p]) /\ IsSeq(sent[p])
    BY SeqOfElements, Zenon DEF Sound, RelayInv, TaskClean
  <2>2. ASSUME NEW m
        PROVE  taken[p] <= Len(Append(sent[p], m))
    BY <2>1 DEF IsSeq
  <2>3. ASSUME NEW m
        PROVE  CountFirst(Append(sent[p], m), taken[p], Tx(p)) = Came(p)
    BY <2>1, CountFirstSame, Zenon DEF Came
  <2> QED BY <1>1, <1>2, <2>1, <2>2, <2>3, Zenon DEF Came
<1>4. \A p \in Peer : TaskClean(p)'
  BY <1>1, <1>3, Zenon DEF RelayInv, TaskClean, At
<1>5. RouterClean'
  BY <1>1, Zenon DEF RelayInv, RouterClean
<1>6. ASSUME NEW p \in Peer, NEW q \in Peer
      PROVE  Bound(p, q)' <=> Bound(p, q)
  <2>1. /\ Way(p, q)' = Way(p, q) /\ Pending(p, q)' = Pending(p, q)
        /\ Incoming(q)' = Incoming(q)
    BY <1>1, Zenon DEF Way, Held, Pending, Incoming, Loaded, At
  <2> QED BY <1>3, <2>1, Zenon DEF Bound
<1> QED BY <1>4, <1>5, <1>6, Zenon DEF RelayInv

\* A step inside the node passes a transaction on at most once.
PassedOn(p, q) ==
  Count(peerq'[p], Tx(q)) + Pending(p, q)' + Count(events', Received(q, Tx(q)))
    <= Count(peerq[p], Tx(q)) + Pending(p, q) + Count(events, Received(q, Tx(q)))

\* A step of the manager or the adapter that does so keeps the invariant.
LEMMA RouterKeeps ==
  ASSUME FiniteSetFacts, Sound, Sound', RelayInv, UNCHANGED <<sent, taken, out, conn>>,
         RouterClean',
         \A p \in Peer : \A m \in Elements(peerq'[p]) : Foreign(p, m),
         \A p, q \in Peer : p # q => PassedOn(p, q)
  PROVE  RelayInv'
<1>1. \A p \in Peer : TaskClean(p)'
  BY ZenonT(60) DEF RelayInv, TaskClean, At
<1>2. ASSUME NEW p \in Peer, NEW q \in Peer, p # q
      PROVE  Bound(p, q)'
  <2>1. /\ Came(q)' = Came(q) /\ Held(p, q)' = Held(p, q)
        /\ Loaded(q)' = Loaded(q) /\ out' = out
    BY Zenon DEF Came, Held, Loaded, At
  <2>2. /\ Held(p, q) \in {0, 1} /\ Loaded(q) \in {0, 1}
        /\ Pending(p, q) \in {0, 1}
        /\ Count(out[p], Tx(q)) \in Nat /\ Count(peerq[p], Tx(q)) \in Nat
        /\ Count(events, Received(q, Tx(q))) \in Nat /\ Came(q) \in Nat
    BY Numbers, Zenon DEF RelayInv
  <2>3. /\ Pending(p, q)' \in {0, 1} /\ Count(peerq'[p], Tx(q)) \in Nat
        /\ Count(events', Received(q, Tx(q))) \in Nat
    BY <1>1, NumbersNext, Zenon
  <2>4. PassedOn(p, q) /\ Bound(p, q)
    BY <1>2, Zenon DEF RelayInv
  <2> QED BY <2>1, <2>2, <2>3, <2>4 DEF PassedOn, Bound, Way, Incoming
<1> QED BY <1>1, <1>2, Zenon DEF RelayInv

\* What the manager has to send next is no transaction.
Quiet ==
  mgr'.at \in {"send", "goodbye"} => mgr'.message.type # "Transactions"

\* The manager takes an event, or none, and relays nothing.
LEMMA QuietKeeps ==
  ASSUME FiniteSetFacts, Sound, Sound', RelayInv,
         UNCHANGED <<sent, taken, out, conn, peerq, adapter>>, Quiet,
         \/ events' = events
         \/ events' = << >>
         \/ events # << >> /\ events' = Tail(events)
  PROVE  RelayInv'
<1>0. IsSeq(events) /\ RouterClean
  BY Zenon DEF Sound, RelayInv
<1>1. Elements(events') \subseteq Elements(events)
  BY <1>0, CountOne, CountTail, Zenon
<1>2. RouterClean'
  BY <1>0, <1>1, Zenon DEF RouterClean, Quiet, Foreign
<1>3. \A p \in Peer : \A m \in Elements(peerq'[p]) : Foreign(p, m)
  BY Zenon DEF RelayInv, TaskClean
<1>4. ASSUME NEW p \in Peer, NEW q \in Peer
      PROVE  PassedOn(p, q)
  <2>1. Pending(p, q)' = 0
    BY Different, Zenon DEF Pending, Quiet
  <2>2. /\ Pending(p, q) \in {0, 1} /\ Count(peerq[p], Tx(q)) \in Nat
        /\ Count(events, Received(q, Tx(q))) \in Nat /\ peerq' = peerq
    BY Numbers, Zenon DEF RelayInv
  <2>3. /\ Count(<< >>, Received(q, Tx(q))) = 0
        /\ events # << >> =>
             /\ Count(Tail(events), Received(q, Tx(q))) \in Nat
             /\ Count(events, Received(q, Tx(q))) =
                  Count(Tail(events), Received(q, Tx(q)))
                  + (IF Head(events) = Received(q, Tx(q)) THEN 1 ELSE 0)
    BY <1>0, CountOne, CountTail, Zenon
  <2>4. /\ Count(events', Received(q, Tx(q))) \in Nat
        /\ Count(events', Received(q, Tx(q))) <= Count(events, Received(q, Tx(q)))
    <3>1. CASE events' = events
      BY <2>2, <3>1
    <3>2. CASE events' = << >>
      BY <2>2, <2>3, <3>2
    <3>3. CASE events # << >> /\ events' = Tail(events)
      BY <2>2, <2>3, <3>3
    <3> QED BY <3>1, <3>2, <3>3, Zenon
  <2> QED BY <2>1, <2>2, <2>4 DEF PassedOn
<1> QED BY <1>2, <1>3, <1>4, RouterKeeps, Zenon

\* The manager takes a transaction and is about to relay it.
LEMMA RelayTransactions ==
  ASSUME FiniteSetFacts, Sound, Sound', RelayInv, UNCHANGED adapter, OnTransactions
  PROVE  RelayInv'
<1>0. IsSeq(events) /\ RouterClean
  BY Zenon DEF Sound, RelayInv
<1>1. /\ mgr.at = "select" /\ events # << >> /\ events' = Tail(events)
      /\ Head(events).type = "Message" /\ body.type = "Transactions"
      /\ UNCHANGED <<sent, taken, out, conn, peerq>>
      /\ Round(peer_map \ {from}, body)
  BY Zenon DEF OnTransactions, TakeMessage, TakeEvent, clientVars
<1>2. Elements(events) = Elements(events') \cup {Head(events)}
  BY <1>0, <1>1, CountTail, Zenon
<1>3. PICK o \in Peer : Head(events) = Received(o, Tx(o))
  BY <1>0, <1>1, <1>2, Zenon DEF RouterClean, Honest, body
<1>4. from = o /\ body = Tx(o)
  <2>1. Received(o, Tx(o)).peer_id = o /\ Received(o, Tx(o)).message = Tx(o)
    BY Different
  <2> QED BY <1>3, <2>1, Zenon DEF from, body
<1>5. mgr'.at \in {"send", "goodbye"} =>
        mgr'.message = Tx(o) /\ o \notin mgr'.todo
  BY <1>1, <1>4 DEF Round, Idle
<1>6. RouterClean'
  <2>1. mgr'.at \in {"send", "goodbye"} =>
          \A p \in mgr'.todo : Foreign(p, mgr'.message)
    BY <1>3, <1>5, Zenon DEF Foreign
  <2> QED BY <1>0, <1>2, <2>1, Zenon DEF RouterClean
<1>7. \A p \in Peer : \A m \in Elements(peerq'[p]) : Foreign(p, m)
  BY <1>1, Zenon DEF RelayInv, TaskClean
<1>8. ASSUME NEW p \in Peer, NEW q \in Peer, p # q
      PROVE  PassedOn(p, q)
  <2>1. /\ Count(peerq[p], Tx(q)) \in Nat /\ peerq' = peerq
        /\ Count(events', Received(q, Tx(q))) \in Nat
        /\ Count(events, Received(q, Tx(q))) =
             Count(events', Received(q, Tx(q)))
             + (IF Head(events) = Received(q, Tx(q)) THEN 1 ELSE 0)
    BY <1>0, <1>1, CountTail, Numbers, Zenon DEF RelayInv
  <2>2. Pending(p, q) = 0
    BY <1>1 DEF Pending
  <2>3. /\ Pending(p, q)' \in {0, 1}
        /\ Pending(p, q)' = 1 => Head(events) = Received(q, Tx(q))
    <3>1. Tx(o) = Tx(q) => o = q
      BY Zenon DEF Tx
    <3>2. Pending(p, q)' = 0 \/ (Pending(p, q)' = 1 /\ Tx(o) = Tx(q))
      BY <1>5, Zenon DEF Pending
    <3> QED BY <1>3, <3>1, <3>2
  <2> QED BY <2>1, <2>2, <2>3 DEF PassedOn
<1> QED BY <1>1, <1>6, <1>7, <1>8, RouterKeeps, Zenon

\* The manager sends to one peer of its loop and takes it off the list.
LEMMA SendKeeps ==
  ASSUME FiniteSetFacts, NEW r \in Peer, Sound, Sound', RelayInv,
         UNCHANGED <<sent, taken, out, conn, adapter>>,
         mgr.at \in {"send", "goodbye"}, r \in mgr.todo,
         \/ peerq' = [peerq EXCEPT ![r] = Append(peerq[r], mgr.message)]
         \/ peerq' = peerq,
         events' = events \/ events' = << >>,
         \/ mgr'.at \notin {"send", "goodbye"}
         \/ mgr'.message = mgr.message /\ mgr'.todo = mgr.todo \ {r}
  PROVE  RelayInv'
<1>0. /\ DOMAIN peerq = Peer /\ RouterClean /\ Foreign(r, mgr.message)
      /\ \A p \in Peer : IsSeq(peerq[p]) /\ TaskClean(p)
  BY Zenon DEF Sound, RelayInv, RouterClean
<1>1. RouterClean'
  <2>1. Elements(events') \subseteq Elements(events)
    BY CountOne, Zenon
  <2> QED BY <1>0, <2>1, Zenon DEF RouterClean
<1>2. /\ \A p \in Peer \ {r} : peerq'[p] = peerq[p]
      /\ peerq'[r] = peerq[r] \/ peerq'[r] = Append(peerq[r], mgr.message)
  BY <1>0, Zenon
<1>3. \A p \in Peer : \A m \in Elements(peerq'[p]) : Foreign(p, m)
  <2>1. Elements(Append(peerq[r], mgr.message)) = Elements(peerq[r]) \cup {mgr.message}
    BY <1>0, CountAppend, Zenon
  <2> QED BY <1>0, <1>2, <2>1, Zenon DEF TaskClean
<1>4. ASSUME NEW p \in Peer, NEW q \in Peer, p # q
      PROVE  PassedOn(p, q)
  <2>1. /\ Pending(p, q) \in {0, 1} /\ Count(peerq[p], Tx(q)) \in Nat
        /\ Count(events, Received(q, Tx(q))) \in Nat
    BY <1>0, Numbers, Zenon
  <2>2. /\ Count(events', Received(q, Tx(q))) \in Nat
        /\ Count(events', Received(q, Tx(q))) <= Count(events, Received(q, Tx(q)))
    <3>1. Count(<< >>, Received(q, Tx(q))) = 0
      BY CountOne, Zenon
    <3> QED BY <2>1, <3>1
  <2>3. CASE p = r
    <3>1. Pending(p, q) = IF mgr.message = Tx(q) THEN 1 ELSE 0
      BY <2>3, Zenon DEF Pending
    <3>2. Pending(p, q)' = 0
      BY <2>3, Zenon DEF Pending
    <3>3. Count(Append(peerq[r], mgr.message), Tx(q)) =
            Count(peerq[r], Tx(q)) + (IF mgr.message = Tx(q) THEN 1 ELSE 0)
      BY <1>0, CountAppend, Zenon
    <3>4. \/ Count(peerq'[p], Tx(q)) = Count(peerq[p], Tx(q))
          \/ Count(peerq'[p], Tx(q)) =
               Count(peerq[p], Tx(q)) + (IF mgr.message = Tx(q) THEN 1 ELSE 0)
      BY <1>2, <2>3, <3>3, Zenon
    <3> QED BY <2>1, <2>2, <3>1, <3>2, <3>4 DEF PassedOn
  <2>4. CASE p # r
    <3>1. peerq'[p] = peerq[p]
      BY <1>2, <2>4, Zenon
    <3>2. Pending(p, q)' = 0 \/ Pending(p, q)' = Pending(p, q)
      BY <2>4, Zenon DEF Pending
    <3> QED BY <2>1, <2>2, <3>1, <3>2 DEF PassedOn
  <2> QED BY <2>3, <2>4, Zenon
<1> QED BY <1>1, <1>3, <1>4, RouterKeeps, Zenon

\* The branches of manage.
LEMMA RelayManager ==
  ASSUME FiniteSetFacts, Sound, Sound', RelayInv, UNCHANGED adapter, ManagerStep
  PROVE  RelayInv'
<1>0. IsSeq(events) /\ RouterClean /\ MgrShape
  BY Zenon DEF Sound, RelayInv
<1>1. ASSUME NEW type, TakeEvent(type)
      PROVE  /\ mgr.at = "select" /\ events # << >> /\ events' = Tail(events)
             /\ UNCHANGED <<sent, taken, out, conn, peerq>>
             /\ Head(events).type = type /\ Honest(Head(events))
  <2>1. Head(events) \in Elements(events)
    BY <1>0, <1>1, CountTail, Zenon DEF TakeEvent
  <2> QED BY <1>0, <1>1, <2>1, Zenon DEF TakeEvent, RouterClean, clientVars
<1>2. ASSUME NEW todo, NEW m, Round(todo, m), m.type # "Transactions"
      PROVE  Quiet
  BY <1>2 DEF Round, Idle, Quiet
<1>3. Msg("Pong").type # "Transactions" /\ Msg("Ping").type # "Transactions"
  BY DEF Msg
<1>4. CASE OnConnected \/ OnDisconnected \/ OnIgnored
  <2>1. mgr' = mgr /\ \E type : TakeEvent(type)
    BY <1>4, Zenon DEF OnConnected, OnDisconnected, OnIgnored, TakeMessage
  <2>2. Quiet
    BY <1>1, <2>1 DEF Quiet
  <2> QED BY <1>1, <2>1, <2>2, QuietKeeps, Zenon
<1>5. CASE OnPing
  <2>1. Quiet /\ TakeEvent("Message")
    BY <1>2, <1>3, <1>5, Zenon DEF OnPing, TakeMessage
  <2> QED BY <1>1, <2>1, QuietKeeps, Zenon
<1>6. CASE OnSendMessage
  <2>1. TakeEvent("SendMessage") /\ Round(peer_map \cap {from}, body)
    BY <1>6, Zenon DEF OnSendMessage
  <2>2. body.type # "Transactions"
    BY <1>1, <2>1, Zenon DEF Honest, body
  <2>3. Quiet
    BY <1>2, <2>1, <2>2, Zenon
  <2> QED BY <1>1, <2>1, <2>3, QuietKeeps, Zenon
<1>7. CASE OnRequest
  <2>1. /\ TakeEvent("Message")
        /\ mgr' = [mgr EXCEPT !.at = "forward", !.message = Received(from, body)]
    BY <1>7, Zenon DEF OnRequest, TakeMessage
  <2>2. mgr'.at = "forward"
    BY <1>0, <2>1, Zenon DEF MgrShape
  <2>3. Quiet
    BY <2>2 DEF Quiet
  <2> QED BY <1>1, <2>1, <2>3, QuietKeeps, Zenon
<1>8. CASE Tick \/ Forward
  <2>1. UNCHANGED <<sent, taken, out, conn, peerq, events>>
    BY <1>8, Zenon DEF Tick, Forward, connectionVars, clientVars
  <2>2. Quiet
    <3>1. mgr' = Idle => Quiet
      BY DEF Idle, Quiet
    <3> QED BY <1>2, <1>3, <1>8, <3>1, Zenon DEF Tick, Forward
  <2> QED BY <2>1, <2>2, QuietKeeps, Zenon
<1>9. Stop => mgr'.at = "stopped" /\ events' = << >>
  BY DEF Stop, Idle
<1>10. CASE OnShutdown
  <2>1. /\ UNCHANGED <<sent, taken, out, conn, peerq>>
        /\ \/ Stop
           \/ /\ mgr' = [at |-> "goodbye", todo |-> peer_map,
                         message |-> Msg("Disconnect"), stale |-> {}]
              /\ events' = events
    BY <1>10, Zenon DEF OnShutdown, clientVars
  <2>2. Quiet /\ (events' = events \/ events' = << >>)
    BY <1>9, <2>1 DEF Quiet, Msg
  <2> QED BY <2>1, <2>2, QuietKeeps, Zenon
<1>11. ASSUME NEW r \in Peer, SendTo(r)
       PROVE  RelayInv'
  <2>1. /\ mgr.at = "send" /\ r \in mgr.todo
        /\ UNCHANGED <<sent, taken, out, conn, events>>
        /\ \/ peerq' = [peerq EXCEPT ![r] = Append(peerq[r], mgr.message)]
           \/ peerq' = peerq
        /\ \E closed \in BOOLEAN : SentTo(r, closed)
    BY <1>11, Zenon DEF SendTo, clientVars
  <2>2. \/ mgr'.at \notin {"send", "goodbye"}
        \/ mgr'.message = mgr.message /\ mgr'.todo = mgr.todo \ {r}
    <3>1. \/ mgr' = Idle
          \/ \E stale : mgr' = [mgr EXCEPT !.todo = mgr.todo \ {r}, !.stale = stale]
      BY <2>1, Zenon DEF SentTo
    <3>2. mgr' = Idle => mgr'.at \notin {"send", "goodbye"}
      BY DEF Idle
    <3>3. ASSUME NEW stale,
                 mgr' = [mgr EXCEPT !.todo = mgr.todo \ {r}, !.stale = stale]
          PROVE  mgr'.message = mgr.message /\ mgr'.todo = mgr.todo \ {r}
      BY <1>0, <3>3, Zenon DEF MgrShape
    <3> QED BY <3>1, <3>2, <3>3, Zenon
  <2> QED BY <2>1, <2>2, SendKeeps, Zenon
<1>12. ASSUME NEW r \in Peer, Goodbye(r)
       PROVE  RelayInv'
  <2>1. /\ mgr.at = "goodbye" /\ r \in mgr.todo
        /\ UNCHANGED <<sent, taken, out, conn>>
        /\ \/ peerq' = [peerq EXCEPT ![r] = Append(peerq[r], mgr.message)]
           \/ peerq' = peerq
        /\ \/ Stop
           \/ mgr' = [mgr EXCEPT !.todo = mgr.todo \ {r}] /\ events' = events
    BY <1>12, Zenon DEF Goodbye, clientVars
  <2>2. \/ mgr'.at \notin {"send", "goodbye"} /\ events' = << >>
        \/ /\ mgr'.message = mgr.message /\ mgr'.todo = mgr.todo \ {r}
           /\ events' = events
    BY <1>0, <1>9, <2>1 DEF MgrShape
  <2> QED BY <2>1, <2>2, SendKeeps, Zenon
<1> QED BY <1>4, <1>5, <1>6, <1>7, <1>8, <1>10, <1>11, <1>12, RelayTransactions,
           Zenon DEF ManagerStep

\* The adapter: its answers are no transactions.
LEMMA RelayAdapter ==
  ASSUME FiniteSetFacts, Sound, Sound', RelayInv, AdapterStep
  PROVE  RelayInv'
<1>0. /\ IsSeq(events) /\ RouterClean
      /\ adapter.at = "answer" => adapter.held.type = "SendMessage"
  BY Zenon DEF Sound, RelayInv
<1>1. /\ UNCHANGED <<sent, taken, out, conn, peerq, mgr>>
      /\ \/ events' = events
         \/ adapter.at = "answer" /\ events' = Append(events, adapter.held)
      /\ adapter'.at = "answer" => Honest(adapter'.held)
  <2> USE DEF connectionVars, clientVars, managerVars, Waiting
  <2>1. CASE AdapterRecv
    BY <2>1 DEF AdapterRecv, SendMessage, Answer, Honest
  <2>2. CASE AdapterEnd \/ AdapterProcess
    <3>1. \/ adapter' = Waiting \/ adapter' = [Waiting EXCEPT !.at = "done"]
          \/ adapter' = [adapter EXCEPT !.at = "await"]
      BY <2>2, Zenon DEF AdapterEnd, AdapterProcess
    <3>2. "at" \in DOMAIN adapter
      BY Zenon DEF Sound
    <3>3. adapter'.at # "answer"
      BY <3>1, <3>2 DEF Waiting
    <3> QED BY <2>2, <3>3, Zenon DEF AdapterEnd, AdapterProcess
  <2>3. CASE AdapterReply
    BY <2>3 DEF AdapterReply, SendMessage, Honest
  <2>4. CASE AdapterAnswer
    BY <2>4 DEF AdapterAnswer
  <2> QED BY <2>1, <2>2, <2>3, <2>4, Zenon DEF AdapterStep
<1>2. RouterClean'
  <2>1. \A e : Elements(Append(events, e)) = Elements(events) \cup {e}
    BY <1>0, CountAppend, Zenon
  <2>2. \A e \in Elements(events') : Honest(e)
    <3>1. CASE events' = events
      BY <1>0, <3>1, Zenon DEF RouterClean
    <3>2. CASE adapter.at = "answer" /\ events' = Append(events, adapter.held)
      <4>1. Elements(events') = Elements(events) \cup {adapter.held}
        BY <2>1, <3>2, Zenon
      <4> QED BY <1>0, <3>2, <4>1, Zenon DEF RouterClean
    <3> QED BY <1>1, <3>1, <3>2, Zenon
  <2> QED BY <1>0, <1>1, <2>2, Zenon DEF RouterClean
<1>3. ASSUME NEW p \in Peer, NEW q \in Peer
      PROVE  PassedOn(p, q)
  <2>1. /\ Pending(p, q) \in {0, 1} /\ Count(peerq[p], Tx(q)) \in Nat
        /\ Count(events, Received(q, Tx(q))) \in Nat
    BY Numbers, Zenon DEF RelayInv
  <2>2. Pending(p, q)' = Pending(p, q) /\ peerq' = peerq
    BY <1>1, Zenon DEF Pending
  <2>3. \/ Count(events', Received(q, Tx(q))) = Count(events, Received(q, Tx(q)))
        \/ Count(events', Received(q, Tx(q)))
             = Count(events, Received(q, Tx(q))) + 0
    <3>1. adapter.at = "answer" => adapter.held # Received(q, Tx(q))
      BY <1>0, Different
    <3>2. Count(Append(events, adapter.held), Received(q, Tx(q)))
            = Count(events, Received(q, Tx(q)))
              + (IF adapter.held = Received(q, Tx(q)) THEN 1 ELSE 0)
      BY <1>0, CountAppend, Zenon
    <3> QED BY <1>1, <3>1, <3>2, Zenon
  <2> QED BY <2>1, <2>2, <2>3 DEF PassedOn
<1>4. \A p \in Peer : \A m \in Elements(peerq'[p]) : Foreign(p, m)
  BY <1>1, Zenon DEF RelayInv, TaskClean
<1> QED BY <1>1, <1>2, <1>3, <1>4, RouterKeeps, Zenon

-----------------------------------------------------------------------------
\* Nothing is under way when the node starts.
LEMMA RelayInit ==
  ASSUME FiniteSetFacts, Init
  PROVE  RelayInv
<1>1. /\ sent = [p \in Peer |-> << >>] /\ taken = [p \in Peer |-> 0]
      /\ out = [p \in Peer |-> << >>] /\ conn = [p \in Peer |-> NewTask]
      /\ peerq = [p \in Peer |-> << >>] /\ events = << >>
      /\ mgr.at = "select" /\ adapter.at = "recv"
  BY Zenon DEF Init, ConnectionInit, ManagerInit, Idle, Waiting
<1>2. NewTask.at = "none"
  BY DEF NewTask
<1>3. RouterClean
  BY <1>1, CountOne, Zenon DEF RouterClean
<1>4. ASSUME NEW p \in Peer
      PROVE  TaskClean(p)
  <2>1. /\ sent[p] = << >> /\ taken[p] = 0 /\ out[p] = << >> /\ peerq[p] = << >>
        /\ conn[p].at = "none"
    BY <1>1, <1>2, Zenon
  <2>2. Len(<< >>) = 0
    OBVIOUS
  <2>3. Elements(<< >>) = {}
    BY CountOne, Zenon
  <2> QED BY <2>1, <2>2, <2>3 DEF TaskClean, At
<1>5. ASSUME NEW p \in Peer, NEW q \in Peer
      PROVE  Bound(p, q)
  <2>1. /\ out[p] = << >> /\ peerq[p] = << >> /\ conn[p].at = "none"
        /\ conn[q].at = "none" /\ taken[q] = 0
    BY <1>1, <1>2, Zenon
  <2>2. Held(p, q) = 0 /\ Loaded(q) = 0 /\ Pending(p, q) = 0
    BY <1>1, <2>1 DEF Held, Loaded, Pending, At
  <2>3. \A x : Count(<< >>, x) = 0
    BY CountOne, Zenon
  <2>4. Came(q) \in Nat
    <3>1. CountFirst(sent[q], 0, Tx(q)) \in Nat
      BY CountFirstNext, Zenon
    <3> QED BY <2>1, <3>1, Zenon DEF Came
  <2>5. /\ Count(out[p], Tx(q)) = 0 /\ Count(peerq[p], Tx(q)) = 0
        /\ Count(events, Received(q, Tx(q))) = 0
    BY <1>1, <2>1, <2>3, Zenon
  <2> QED BY <2>2, <2>4, <2>5 DEF Bound, Way, Incoming
<1> QED BY <1>3, <1>4, <1>5, Zenon DEF RelayInv

\* Every step of every task keeps the invariant.
LEMMA RelayNext ==
  ASSUME FiniteSetFacts, Sound, Sound', RelayInv, [Next]_vars
  PROVE  RelayInv'
<1>1. CASE \/ UNCHANGED vars \/ CtrlC \/ ListenerStep \/ ProcessorStep
           \/ MainStep
  <2>1. UNCHANGED connectionVars /\ UNCHANGED managerVars /\ UNCHANGED adapter
    BY <1>1, Zenon
       DEF vars, CtrlC, ListenerStep, ProcessorStep, ProcessBlock,
           ProcessorPanics, ProcessQuery, ProcessShutdown, PublishHead, TakeProc,
           MainStep, MainJoins, MainSendsShutdown, MainEnds, taskVars
  <2>2. UNCHANGED <<sent, taken, out, conn, peerq, events, mgr, adapter>>
    BY <2>1, Zenon DEF connectionVars, clientVars, managerVars
  <2>3. \A p \in Peer : TaskClean(p) => TaskClean(p)'
    BY <2>2, Zenon DEF TaskClean, At
  <2>4. RouterClean => RouterClean'
    BY <2>2, Zenon DEF RouterClean
  <2>5. ASSUME NEW p \in Peer, NEW q \in Peer
        PROVE  Bound(p, q)' <=> Bound(p, q)
    <3>1. /\ Held(p, q)' = Held(p, q) /\ Pending(p, q)' = Pending(p, q)
          /\ Loaded(q)' = Loaded(q) /\ Came(q)' = Came(q)
      BY <2>2, Zenon DEF Held, Pending, Loaded, Came, At
    <3>2. Way(p, q)' = Way(p, q) /\ Incoming(q)' = Incoming(q)
      BY <2>2, <3>1, Zenon DEF Way, Incoming
    <3> QED BY <3>1, <3>2, Zenon DEF Bound
  <2> QED BY <2>3, <2>4, <2>5, Zenon DEF RelayInv
<1>2. ASSUME NEW p \in Peer, PeerEnvironment(p)
      PROVE  RelayInv'
  BY <1>2, RelayClient, Zenon DEF PeerEnvironment, managerVars, taskVars
<1>3. ASSUME NEW p \in Peer, Accept(p)
      PROVE  RelayInv'
  BY <1>3, RelayAccept, Zenon
<1>4. ASSUME NEW p \in Peer, PeerStep(p)
      PROVE  RelayInv'
  BY <1>4, RelayConnection, Zenon DEF PeerStep, managerVars, taskVars
<1>5. CASE RouterStep
  BY <1>5, RelayManager, Zenon DEF RouterStep, taskVars
<1>6. CASE AdapterStep
  BY <1>6, RelayAdapter, Zenon
<1> QED BY <1>1, <1>2, <1>3, <1>4, <1>5, <1>6, Zenon DEF Next

\* What is on its way to p, by the places where it is.
LEMMA TowardsCount ==
  ASSUME FiniteSetFacts, NEW p \in Peer, NEW q \in Peer, Sound, RelayInv
  PROVE  /\ IsSeq(Towards(p))
         /\ \A m \in Elements(Towards(p)) : Foreign(p, m)
         /\ Count(Towards(p), Tx(q)) = Way(p, q)
<1> DEFINE h == IF At(p, "write") THEN <<conn[p].held>> ELSE << >>
<1>1. IsSeq(out[p]) /\ IsSeq(peerq[p]) /\ TaskClean(p)
  BY Zenon DEF Sound, RelayInv
<1>2. IsSeq(h) /\ (\A m \in Elements(h) : Foreign(p, m)) /\ Count(h, Tx(q)) = Held(p, q)
  <2>1. CASE At(p, "write")
    <3>1. /\ IsSeq(<<conn[p].held>>) /\ Elements(<<conn[p].held>>) = {conn[p].held}
          /\ Count(<<conn[p].held>>, Tx(q)) =
               IF conn[p].held = Tx(q) THEN 1 ELSE 0
      BY CountOne, Zenon
    <3> QED BY <1>1, <2>1, <3>1, Zenon DEF TaskClean, Held
  <2>2. CASE ~At(p, "write")
    BY <2>2, CountOne, Zenon DEF Held
  <2> QED BY <2>1, <2>2
<1>3. Towards(p) = (out[p] \o h) \o peerq[p]
  BY Zenon DEF Towards
<1> HIDE DEF h
<1>4. /\ IsSeq(out[p] \o h)
      /\ Elements(out[p] \o h) = Elements(out[p]) \cup Elements(h)
      /\ Count(out[p] \o h, Tx(q)) = Count(out[p], Tx(q)) + Count(h, Tx(q))
  BY <1>1, <1>2, CountConcat
<1>5. /\ IsSeq(Towards(p))
      /\ Elements(Towards(p)) = Elements(out[p] \o h) \cup Elements(peerq[p])
      /\ Count(Towards(p), Tx(q)) =
           Count(out[p] \o h, Tx(q)) + Count(peerq[p], Tx(q))
  BY <1>1, <1>3, <1>4, CountConcat
<1> QED BY <1>1, <1>2, <1>4, <1>5, Zenon DEF TaskClean, Way

\* What has been relayed is no more than what was offered.
LEMMA RelayGoal ==
  ASSUME FiniteSetFacts, Sound, RelayInv
  PROVE  RelayedOnce
<1> SUFFICES ASSUME NEW p \in Peer, NEW q \in Peer
             PROVE  LET relayed == {i \in DOMAIN Towards(p) :
                                      /\ Towards(p)[i].type = "Transactions"
                                      /\ Towards(p)[i].origin = q}
                        offered == {i \in DOMAIN sent[q] :
                                      sent[q][i].type = "Transactions"}
                    IN Cardinality(relayed) <=
                         (IF p = q THEN 0 ELSE Cardinality(offered))
  BY Zenon DEF RelayedOnce
<1> DEFINE relayed == {i \in DOMAIN Towards(p) :
                         /\ Towards(p)[i].type = "Transactions"
                         /\ Towards(p)[i].origin = q}
           offered == {i \in DOMAIN sent[q] : sent[q][i].type = "Transactions"}
           decoded == {i \in DOMAIN sent[q] : sent[q][i] = Tx(q)}
<1>1. \A o : Tx(o).type = "Transactions" /\ Tx(o).origin = o
  BY Zenon DEF Tx
<1>2. \A i \in DOMAIN Towards(p) :
        /\ Towards(p)[i].type = "Transactions" =>
             \E o \in Peer \ {p} : Towards(p)[i] = Tx(o)
        /\ Towards(p)[i].type = "Transactions" /\ Towards(p)[i].origin = q
             <=> Towards(p)[i] = Tx(q)
  <2>1. \A i \in DOMAIN Towards(p) : Foreign(p, Towards(p)[i])
    BY TowardsCount, Zenon DEF Elements
  <2> QED BY <1>1, <2>1, Zenon DEF Foreign
<1>3. Cardinality(relayed) = Way(p, q)
  <2>1. relayed = {i \in DOMAIN Towards(p) : Towards(p)[i] = Tx(q)}
    BY <1>2, Zenon
  <2> QED BY <2>1, TowardsCount, Zenon DEF Count
<1>4. CASE p = q
  <2>1. relayed = {}
    <3>1. \A i \in DOMAIN Towards(p) : Towards(p)[i] # Tx(q)
      BY <1>1, <1>2, <1>4
    <3> QED BY <1>2, <3>1, Zenon
  <2>2. Cardinality(relayed) = 0
    BY <2>1, Zenon DEF FiniteSetFacts
  <2> QED BY <1>4, <2>2
<1>5. CASE p # q
  <2>1. /\ IsSeq(sent[q]) /\ taken[q] \in Nat /\ taken[q] <= Len(sent[q])
        /\ TaskClean(q)
    BY SeqOfElements, Zenon DEF Sound, RelayInv, TaskClean
  <2>2. /\ Way(p, q) \in Nat /\ Pending(p, q) \in {0, 1} /\ Incoming(q) \in Nat
        /\ Came(q) \in Nat
    BY <2>1, Numbers, Zenon
  <2>3. Way(p, q) + Pending(p, q) + Incoming(q) <= Came(q)
    BY <1>5, Zenon DEF RelayInv, Bound
  <2>4. Came(q) <= Cardinality(decoded)
    BY <2>1, CountFirstAll, Zenon DEF Came, Count
  <2>5. Cardinality(decoded) <= Cardinality(offered) /\ Cardinality(offered) \in Nat
        /\ Cardinality(decoded) \in Nat
    <3>1. Len(sent[q]) \in Nat /\ DOMAIN sent[q] = 1..Len(sent[q])
      BY <2>1 DEF IsSeq
    <3>2. IsFiniteSet(DOMAIN sent[q])
      BY <3>1, Zenon DEF FiniteSetFacts
    <3>3. offered \subseteq DOMAIN sent[q] /\ decoded \subseteq offered
      BY <1>1, Zenon
    <3> HIDE DEF offered, decoded
    <3>4. IsFiniteSet(offered)
      BY <3>2, <3>3, Part, Zenon
    <3> QED BY <3>3, <3>4, Part, Zenon
  <2> HIDE DEF relayed, offered, decoded
  <2>6. Cardinality(relayed) <= Cardinality(offered)
    BY <1>3, <2>2, <2>3, <2>4, <2>5
  <2> QED BY <1>5, <2>6, Zenon DEF relayed, offered
<1> QED BY <1>4, <1>5, Zenon

-----------------------------------------------------------------------------
(* The theorem *)

INSTANCE FiniteSetTheorems

\* The facts about finite sets that the lemmas assume.
LEMMA SetFacts == FiniteSetFacts
<1>1. /\ \A n \in Nat : IsFiniteSet(1..n)
      /\ \A S : IsFiniteSet(S) => Cardinality(S) \in Nat
      /\ Cardinality({}) = 0
      /\ \A x : IsFiniteSet({x}) /\ Cardinality({x}) = 1
  <2>1. \A n \in Nat : n \in Int /\ 0 \in Int /\ 1 \in Int
    OBVIOUS
  <2>2. \A n \in Nat : IsFiniteSet(1..n)
    BY <2>1, FS_Interval, Zenon
  <2> QED BY <2>2, FS_CardinalityType, FS_EmptySet, FS_Singleton, Zenon
<1>2. Subsets
  BY FS_Subset, Zenon DEF Subsets
<1>3. Unions
  <2> SUFFICES ASSUME NEW S, NEW T, IsFiniteSet(S), IsFiniteSet(T), S \cap T = {}
               PROVE  Cardinality(S \cup T) = Cardinality(S) + Cardinality(T)
    BY Zenon DEF Unions
  <2>1. Cardinality(S \cup T)
          = Cardinality(S) + Cardinality(T) - Cardinality(S \cap T)
    BY FS_Union, Zenon
  <2>2. Cardinality(S) \in Nat /\ Cardinality(T) \in Nat
    BY <1>1, Zenon
  <2>3. Cardinality(S \cap T) = 0
    BY <1>1, Zenon
  <2> QED BY <2>1, <2>2, <2>3
<1>4. Images
  <2> SUFFICES ASSUME NEW S, NEW T, NEW f \in [S -> T], IsFiniteSet(S),
                      \A i, j \in S : f[i] = f[j] => i = j,
                      \A t \in T : \E i \in S : f[i] = t
               PROVE  IsFiniteSet(T) /\ Cardinality(T) = Cardinality(S)
    BY Zenon DEF Images
  <2>1. f \in Bijection(S, T)
    BY Zenon DEF Bijection, Injection, Surjection, IsInjective
  <2> QED BY <2>1, FS_Bijection, Zenon DEF ExistsBijection
<1> QED BY <1>1, <1>2, <1>3, <1>4, Zenon DEF FiniteSetFacts

\* A transaction is relayed to every other peer at most once and never to the
\* peer it came from: for any number of peers, any capacities, any messages of
\* the clients and any order in which the tasks of the node run.
THEOREM RelayedAtMostOnce == Spec => []RelayedOnce
<1>1. NodeInv /\ HandshakeInv /\ (NodeInv /\ HandshakeInv)' /\ RelayInv
      /\ [Next]_vars => RelayInv'
  <2>1. NodeInv' /\ HandshakeInv' => Sound'
    BY Zenon DEF NodeInv, Shapes, PeerInv, HandshakeInv, ConnectionInv,
                 WrittenInv, OutboundInv, Sound, At
  <2> QED BY <2>1, SetFacts, InvariantsSound, RelayNext, Zenon
<1>2. NodeInv /\ HandshakeInv /\ RelayInv => RelayedOnce
  BY SetFacts, InvariantsSound, RelayGoal, Zenon
<1>3. Init => RelayInv
  BY SetFacts, RelayInit, Zenon
<1> QED BY <1>1, <1>2, <1>3, NodeInvariant, HandshakeInvariant, PTL DEF Spec

=============================================================================
