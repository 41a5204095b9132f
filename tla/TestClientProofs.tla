-------------------------- MODULE TestClientProofs --------------------------
(***************************************************************************)
(* For any number of runs of the test client, any keys and blocks: a run   *)
(* is confirmed no block that the chain has not grown by, and sends none   *)
(* that the node would have to buffer.                                     *)
(***************************************************************************)
EXTENDS TestClient, TLAPS, NaturalsInduction, WellFoundedInduction

\* Induction over the naturals, for a set in place of a predicate.
LEMMA SetInduction ==
  ASSUME NEW S, 0 \in S, \A n \in Nat : n \in S => n + 1 \in S
  PROVE  Nat \subseteq S
<1> DEFINE less == {pair \in Nat \X Nat : pair[1] < pair[2]}
           T == Nat \ S
<1> SUFFICES ASSUME T # {}
             PROVE  FALSE
  OBVIOUS
<1>1. IsWellFoundedOn(less, Nat)
  BY NatLessThanWellFounded DEF OpToRel
<1> HIDE DEF less
<1>2. PICK n \in T : \A m \in T : <<m, n>> \notin less
  BY <1>1, WFMin, Zenon
<1>3. n # 0 /\ n - 1 \in Nat /\ (n - 1) + 1 = n
  BY <1>2
<1>4. <<n - 1, n>> \in less
  BY <1>3 DEF less
<1>5. n - 1 \in S
  BY <1>2, <1>3, <1>4, Zenon
<1> QED BY <1>2, <1>3, <1>5

-----------------------------------------------------------------------------
IsSeq(q) == q \in Seq({q[i] : i \in DOMAIN q})

\* A function on an initial part of the naturals is a sequence.
LEMMA SeqOfDomain ==
  ASSUME NEW q, NEW n \in Nat, q = [i \in 1..n |-> q[i]]
  PROVE  IsSeq(q) /\ Len(q) = n /\ DOMAIN q = 1..n
<1> DEFINE T == {q[i] : i \in DOMAIN q}
<1>1. DOMAIN q = 1..n
  OBVIOUS
<1>2. \A i \in 1..n : q[i] \in T
  BY <1>1
<1>3. q \in [1..n -> T]
  BY <1>1, <1>2
<1>4. q \in Seq(T) /\ Len(q) = n
  BY <1>1, <1>3
<1> QED BY <1>1, <1>4 DEF IsSeq

\* A sequence is one over its own elements.
LEMMA SeqOfElements ==
  ASSUME NEW S, NEW q \in Seq(S)
  PROVE  IsSeq(q)
<1>1. Len(q) \in Nat /\ q = [i \in 1..Len(q) |-> q[i]]
  OBVIOUS
<1> HIDE DEF IsSeq
<1> QED BY <1>1, SeqOfDomain, Zenon

\* What is received is taken off, and the other messages move up.
LEMMA TailSeq ==
  ASSUME NEW q, IsSeq(q), q # << >>
  PROVE  /\ IsSeq(Tail(q))
         /\ 1 \in DOMAIN q /\ Head(q) = q[1]
         /\ \A i \in DOMAIN Tail(q) :
              i + 1 \in DOMAIN q /\ Tail(q)[i] = q[i + 1] /\ i + 1 # 1
<1> DEFINE T == {q[i] : i \in DOMAIN q}
           r == Tail(q)
<1>1. q \in Seq(T)
  BY DEF IsSeq
<1>2. /\ Len(q) \in Nat \ {0} /\ DOMAIN q = 1..Len(q) /\ Head(q) = q[1]
      /\ r \in Seq(T) /\ DOMAIN r = 1..(Len(q) - 1)
      /\ \A i \in DOMAIN r : r[i] = q[i + 1]
  BY <1>1
<1>3. IsSeq(r)
  BY <1>2, SeqOfElements, Zenon
<1> QED BY <1>2, <1>3

\* A message is put after the others.
LEMMA AppendSeq ==
  ASSUME NEW q, NEW x, IsSeq(q)
  PROVE  /\ IsSeq(Append(q, x))
         /\ \A i \in DOMAIN Append(q, x) :
              \/ i \in DOMAIN q /\ Append(q, x)[i] = q[i]
              \/ i = Len(q) + 1 /\ Append(q, x)[i] = x
<1> DEFINE T == {q[i] : i \in DOMAIN q} \cup {x}
           r == Append(q, x)
<1>1. q \in Seq(T)
  BY DEF IsSeq
<1>2. /\ Len(q) \in Nat /\ DOMAIN q = 1..Len(q)
      /\ r \in Seq(T) /\ DOMAIN r = 1..(Len(q) + 1)
      /\ \A i \in DOMAIN q : r[i] = q[i]
      /\ r[Len(q) + 1] = x
  BY <1>1
<1>3. IsSeq(r)
  BY <1>2, SeqOfElements, Zenon
<1> QED BY <1>2, <1>3

\* Sending no message, one or two.
LEMMA SendSeq ==
  ASSUME NEW q, IsSeq(q)
  PROVE  /\ q \o << >> = q
         /\ \A x : q \o <<x>> = Append(q, x)
         /\ \A x, y : q \o <<x, y>> = Append(Append(q, x), y)
<1> SUFFICES ASSUME NEW x, NEW y
             PROVE  /\ q \o << >> = q
                    /\ q \o <<x>> = Append(q, x)
                    /\ q \o <<x, y>> = Append(Append(q, x), y)
  BY Zenon
<1> DEFINE T == {q[i] : i \in DOMAIN q} \cup {x, y}
<1>1. q \in Seq(T)
  BY DEF IsSeq
<1>2. q \o << >> = q
  BY <1>1
<1>3. q \o <<x>> = Append(q, x)
  BY <1>1
<1>4. q \o <<x, y>> = Append(Append(q, x), y)
  BY <1>1
<1> QED BY <1>2, <1>3, <1>4

-----------------------------------------------------------------------------
\* The accounts of the keys exist, with a nonce.
Nonces(l) ==
  \A i \in DOMAIN Key : Key[i] \in DOMAIN l /\ l[Key[i]].nonce \in Nat

\* A transaction leaves each of them a nonce.
LEMMA TransactionNonces ==
  ASSUME NEW l, Nonces(l), NEW tx, NEW fee
  PROVE  \/ Ledger!ApplyTx(l, tx, fee) = Rejected
         \/ Nonces(Ledger!ApplyTx(l, tx, fee))
<1> DEFINE charged == Ledger!Charged(l, tx, fee)
           paid == Ledger!Paid(charged, tx)
<1>1. DOMAIN charged = DOMAIN l /\ DOMAIN paid = DOMAIN charged
  BY DEF Ledger!Charged, Ledger!Paid
<1>2. Nonces(charged)
  <2> SUFFICES ASSUME NEW i \in DOMAIN Key
               PROVE  charged[Key[i]].nonce \in Nat
    BY <1>1 DEF Nonces
  <2>1. Key[i] \in DOMAIN l /\ l[Key[i]].nonce \in Nat
    BY DEF Nonces
  <2>2. CASE Key[i] = tx.sender
    <3>1. charged[Key[i]].nonce = l[Key[i]].nonce + 1
      BY <2>1, <2>2 DEF Ledger!Charged
    <3> QED BY <2>1, <3>1
  <2>3. CASE Key[i] # tx.sender
    BY <2>1, <2>3 DEF Ledger!Charged
  <2> QED BY <2>2, <2>3
<1> HIDE DEF charged
<1>3. Nonces(paid)
  <2> SUFFICES ASSUME NEW i \in DOMAIN Key
               PROVE  paid[Key[i]].nonce \in Nat
    BY <1>1 DEF Nonces
  <2>1. Key[i] \in DOMAIN charged /\ charged[Key[i]].nonce \in Nat
    BY <1>1, <1>2 DEF Nonces
  <2>2. \/ paid[Key[i]] = charged[Key[i]]
        \/ paid[Key[i]].nonce = 0
        \/ paid[Key[i]].nonce = charged[Key[i]].nonce
    BY <2>1 DEF Ledger!Paid
  <2> QED BY <2>1, <2>2
<1> QED BY <1>3, Zenon DEF Ledger!ApplyTx, Ledger!Transfer, charged

\* So does a block that is applied, the fold over its transactions.
LEMMA BlockNonces ==
  ASSUME NEW l, Nonces(l), NEW b, IsSeq(b.transactions)
  PROVE  \/ Ledger!ApplyBlock(l, b) = Rejected
         \/ Nonces(Ledger!ApplyBlock(l, b))
<1> DEFINE n == Len(b.transactions)
           fee == b.header.gas_limit \div 2
           apply(v, i) == Ledger!ApplyTx(v, b.transactions[i], fee)
           after(f, k) == f = [i \in 0..k |-> IF i = 0 THEN l
                                              ELSE apply(f[i - 1], i)]
           L == Ledger!LedgersOf(l, b)
<1>1. n \in Nat
  BY DEF IsSeq
<1>2. L = CHOOSE f : after(f, n)
  BY Zenon DEF Ledger!LedgersOf
<1>3. \A v, i : Nonces(v) => apply(v, i) = Rejected \/ Nonces(apply(v, i))
  BY TransactionNonces, Zenon
<1>4. \A i : apply(Rejected, i) = Rejected
  BY Zenon DEF Ledger!ApplyTx
<1> HIDE DEF n, fee, apply, L
<1>5. \E f : after(f, n)
  <2> DEFINE S == {k \in Nat : \E f : after(f, k)}
  <2>1. 0 \in S
    <3> DEFINE f == [i \in 0..0 |-> l]
    <3>1. after(f, 0)
      OBVIOUS
    <3> QED BY <3>1, Zenon
  <2>2. ASSUME NEW k \in Nat, k \in S
        PROVE  k + 1 \in S
    <3>1. PICK f : after(f, k)
      BY <2>2
    <3> DEFINE g == [i \in 0..(k + 1) |-> IF i = k + 1 THEN apply(f[k], k + 1)
                                          ELSE f[i]]
    <3>2. ASSUME NEW i \in 0..(k + 1)
          PROVE  g[i] = IF i = 0 THEN l ELSE apply(g[i - 1], i)
      <4>1. CASE i = k + 1
        <5>1. i # 0 /\ i - 1 = k /\ k \in 0..(k + 1) /\ k # k + 1
          BY <4>1
        <5>2. g[k] = f[k] /\ g[i] = apply(f[k], k + 1)
          BY <4>1, <5>1
        <5> QED BY <4>1, <5>1, <5>2
      <4>2. CASE i # k + 1
        <5>1. i \in 0..k /\ g[i] = f[i]
          BY <4>2
        <5>2. f[i] = IF i = 0 THEN l ELSE apply(f[i - 1], i)
          BY <3>1, <5>1, Zenon
        <5>3. i # 0 => i - 1 \in 0..(k + 1) /\ i - 1 # k + 1
          BY <5>1
        <5>4. i # 0 => g[i - 1] = f[i - 1]
          BY <5>3
        <5> QED BY <5>1, <5>2, <5>4, Zenon
      <4> QED BY <4>1, <4>2
    <3>3. after(g, k + 1)
      <4>1. g = [i \in 0..(k + 1) |-> g[i]]
        OBVIOUS
      <4> HIDE DEF g
      <4> QED BY <3>2, <4>1, Zenon
    <3>4. k + 1 \in Nat
      OBVIOUS
    <3> QED
      <4> HIDE DEF after
      <4> QED BY <3>3, <3>4, Zenon
  <2> HIDE DEF S
  <2>3. n \in S
    BY <1>1, <2>1, <2>2, SetInduction, Zenon
  <2> QED BY <2>3 DEF S
<1>6. after(L, n)
  <2> HIDE DEF after
  <2> QED BY <1>2, <1>5, Zenon
<1>7. /\ L[0] = l
      /\ \A i \in 1..n : L[i] = apply(L[i - 1], i)
  <2>1. \A i \in 0..n : L[i] = IF i = 0 THEN l ELSE apply(L[i - 1], i)
    BY <1>6, Zenon
  <2> QED BY <1>1, <2>1
<1>8. L[n] = Rejected \/ Nonces(L[n])
  <2> DEFINE S == {k \in Nat : k <= n => L[k] = Rejected \/ Nonces(L[k])}
  <2>1. 0 \in S
    BY <1>7
  <2>2. ASSUME NEW k \in Nat, k \in S
        PROVE  k + 1 \in S
    <3> SUFFICES ASSUME k + 1 <= n
                 PROVE  L[k + 1] = Rejected \/ Nonces(L[k + 1])
      OBVIOUS
    <3>1. k + 1 \in 1..n /\ (k + 1) - 1 = k /\ k <= n
      BY <1>1
    <3>2. L[k] = Rejected \/ Nonces(L[k])
      BY <2>2, <3>1
    <3>3. L[k + 1] = apply(L[k], k + 1)
      BY <1>7, <3>1
    <3> QED BY <1>3, <1>4, <3>2, <3>3, Zenon
  <2> HIDE DEF S
  <2>3. n \in S
    BY <1>1, <2>1, <2>2, SetInduction, Zenon
  <2> QED BY <1>1, <2>3 DEF S
<1> QED BY <1>8, Zenon DEF Ledger!ApplyBlock, L, n

-----------------------------------------------------------------------------
(* One run of the client, by its locals r, the messages q on their way to  *)
(* the node and s on their way back, the number N of the node's head and   *)
(* the node's accounts.                                                    *)

RunFields ==
  {"at", "builder", "block_index", "asked", "transactions_per_block",
   "snapshots", "all_processed", "block", "start", "confirmed"}
BuilderFields ==
  {"current_number", "current_hash", "genesis_timestamp", "current_timestamp"}

RunOK(c, r) ==
  /\ DOMAIN r = RunFields /\ DOMAIN r.builder = BuilderFields
  /\ r.block_index \in Nat /\ r.start \in Nat /\ r.confirmed \in Nat
  /\ r.transactions_per_block = transactions_per_block[c]

\* A block on its way does not have to be buffered.
BlocksOK(q, N) ==
  \A i \in DOMAIN q : q[i].type = "NewBlock" =>
    /\ q[i].block.header.number \in Nat /\ q[i].block.header.number <= N + 1
    /\ IsSeq(q[i].block.transactions)

\* No question about an account is open ...
Silent(q, s) ==
  /\ \A i \in DOMAIN q : q[i].type # "GetAccountState"
  /\ \A i \in DOMAIN s : s[i].type # "AccountState"

\* ... or just the one that the client waits for.
Awaited(r) == Key[sender_index(r, r.asked)]

OneQuestion(r, q, s) ==
  /\ \A i \in DOMAIN q : q[i].type = "GetAccountState" =>
       /\ q[i].address = Awaited(r)
       /\ \A j \in DOMAIN q : q[j].type = "GetAccountState" => i = j
       /\ \A j \in DOMAIN s : s[j].type # "AccountState"
  /\ \A i \in DOMAIN s : s[i].type = "AccountState" =>
       /\ s[i].address = Awaited(r)
       /\ \A j \in DOMAIN s : s[j].type = "AccountState" => i = j

\* Until the chain grows, what the client was told is what the node holds.
ToldOK(r, s, N, acc) ==
  N = r.start + r.confirmed =>
    /\ \A i \in DOMAIN s : s[i].type = "AccountState" =>
         s[i].account = acc[s[i].address]
    /\ \A a \in DOMAIN r.snapshots : r.snapshots[a] = acc[a]

\* The first n senders of the block have a snapshot.
Covered(r, n) ==
  \A i \in 1..n : Key[sender_index(r, i)] \in DOMAIN r.snapshots

BeforeOK(r, q, s, N) ==
  /\ Silent(q, s)
  /\ r.start = 0 /\ r.confirmed = 0
  /\ \A i \in DOMAIN s : s[i].type = "ChainHead" =>
       s[i].number \in Nat /\ s[i].number <= N

AskingOK(c, r, q, s, N, acc) ==
  /\ OneQuestion(r, q, s)
  /\ ToldOK(r, s, N, acc)
  /\ Key # << >> /\ r.asked \in 1..transactions_per_block[c]
  /\ r.at = "query" => /\ r.builder.current_number = r.start + r.confirmed
                       /\ Covered(r, r.asked - 1)
  /\ r.at = "confirm" => /\ r.builder.current_number = r.start + r.confirmed + 1
                         /\ Covered(r, transactions_per_block[c])

RunInv(c, r, q, s, N, acc) ==
  /\ RunOK(c, r) /\ IsSeq(q) /\ IsSeq(s)
  /\ N >= r.start + r.confirmed
  /\ BlocksOK(q, N)
  /\ r.at \in {"idle", "status", "head"} => BeforeOK(r, q, s, N)
  /\ r.at \in {"query", "confirm"} => AskingOK(c, r, q, s, N, acc)

-----------------------------------------------------------------------------
\* The indices of the senders are those of keys.
LEMMA SenderHasKey ==
  ASSUME NEW r, r.block_index \in Nat, NEW i \in Nat \ {0}, Key # << >>
  PROVE  sender_index(r, i) \in DOMAIN Key
<1>1. Key \in Seq(DOMAIN GenesisAccounts)
  BY ClientAssumption
<1>2. Len(Key) \in Nat \ {0} /\ DOMAIN Key = 1..Len(Key)
  BY <1>1
<1>3. \A x \in Nat, n \in Nat \ {0} : (x % n) + 1 \in 1..n
  OBVIOUS
<1>4. r.block_index + i - 1 \in Nat
  OBVIOUS
<1> QED BY <1>2, <1>3, <1>4 DEF sender_index

\* When the chain grows, what was told to a run may be old, and no longer
\* counts.
LEMMA RunLater ==
  ASSUME NEW c, NEW r, NEW q, NEW s, NEW N \in Nat, NEW acc, NEW later,
         RunInv(c, r, q, s, N, acc)
  PROVE  RunInv(c, r, q, s, N + 1, later)
<1>1. r.start + r.confirmed \in Nat /\ N >= r.start + r.confirmed
  BY DEF RunInv, RunOK
<1>2. N + 1 >= r.start + r.confirmed /\ N + 1 # r.start + r.confirmed
  BY <1>1
<1>3. BlocksOK(q, N + 1)
  BY DEF RunInv, BlocksOK
<1>4. BeforeOK(r, q, s, N) => BeforeOK(r, q, s, N + 1)
  BY DEF BeforeOK
<1>5. AskingOK(c, r, q, s, N, acc) => AskingOK(c, r, q, s, N + 1, later)
  BY <1>2, Zenon DEF AskingOK, ToldOK
<1> QED BY <1>2, <1>3, <1>4, <1>5, Zenon DEF RunInv

\* The node takes a message.
LEMMA RunServed ==
  ASSUME NEW c, NEW r, NEW q, NEW s, NEW N, NEW acc,
         RunInv(c, r, q, s, N, acc), q # << >>
  PROVE  RunInv(c, r, Tail(q), s, N, acc)
<1>1. /\ IsSeq(Tail(q))
      /\ \A i \in DOMAIN Tail(q) : i + 1 \in DOMAIN q /\ Tail(q)[i] = q[i + 1]
  BY TailSeq, Zenon DEF RunInv
<1>2. DOMAIN Tail(q) \subseteq Int
  BY <1>1 DEF IsSeq
<1>3. BlocksOK(Tail(q), N)
  BY <1>1, Zenon DEF RunInv, BlocksOK
<1>4. BeforeOK(r, q, s, N) => BeforeOK(r, Tail(q), s, N)
  BY <1>1, Zenon DEF BeforeOK, Silent
<1>5. OneQuestion(r, q, s) => OneQuestion(r, Tail(q), s)
  BY <1>1, <1>2 DEF OneQuestion
<1>6. AskingOK(c, r, q, s, N, acc) => AskingOK(c, r, Tail(q), s, N, acc)
  BY <1>5, Zenon DEF AskingOK
<1> QED BY <1>1, <1>3, <1>4, <1>6, Zenon DEF RunInv

\* The node sends something else than an account.
LEMMA RunHears ==
  ASSUME NEW c, NEW r, NEW q, NEW s, NEW N \in Nat, NEW acc, NEW m,
         RunInv(c, r, q, s, N, acc), m.type # "AccountState",
         m.type = "ChainHead" => m.number = N
  PROVE  RunInv(c, r, q, Append(s, m), N, acc)
<1> DEFINE t == Append(s, m)
<1>1. /\ IsSeq(t)
      /\ \A i \in DOMAIN t : \/ i \in DOMAIN s /\ t[i] = s[i]
                             \/ t[i] = m
  BY AppendSeq, Zenon DEF RunInv
<1> HIDE DEF t
<1>2. BeforeOK(r, q, s, N) => BeforeOK(r, q, t, N)
  BY <1>1 DEF BeforeOK, Silent
<1>3. OneQuestion(r, q, s) => OneQuestion(r, q, t)
  BY <1>1, Zenon DEF OneQuestion
<1>4. ToldOK(r, s, N, acc) => ToldOK(r, t, N, acc)
  BY <1>1 DEF ToldOK
<1>5. AskingOK(c, r, q, s, N, acc) => AskingOK(c, r, q, t, N, acc)
  BY <1>3, <1>4, Zenon DEF AskingOK
<1> QED BY <1>1, <1>2, <1>5, Zenon DEF RunInv, t

\* The node answers a question about an account.
LEMMA RunAnswered ==
  ASSUME NEW c, NEW r, NEW q, NEW s, NEW N \in Nat, NEW acc, NEW m,
         RunInv(c, r, q, s, N, acc), q # << >>,
         Head(q).type = "GetAccountState", m.type = "AccountState",
         m.address = Head(q).address, m.account = acc[m.address]
  PROVE  RunInv(c, r, Tail(q), Append(s, m), N, acc)
<1> DEFINE t == Append(s, m)
           u == Tail(q)
<1>1. /\ IsSeq(t)
      /\ \A i \in DOMAIN t : \/ i \in DOMAIN s /\ t[i] = s[i]
                             \/ i = Len(s) + 1 /\ t[i] = m
  BY AppendSeq, Zenon DEF RunInv
<1>2. /\ 1 \in DOMAIN q /\ Head(q) = q[1]
      /\ \A i \in DOMAIN u : i + 1 \in DOMAIN q /\ u[i] = q[i + 1] /\ i + 1 # 1
  BY TailSeq, Zenon DEF RunInv
<1>3. RunInv(c, r, u, s, N, acc)
  BY RunServed, Zenon
<1> HIDE DEF t, u
<1>4. ~BeforeOK(r, q, s, N)
  BY <1>2, Zenon DEF BeforeOK, Silent
<1>5. ASSUME OneQuestion(r, q, s)
      PROVE  OneQuestion(r, u, t)
  <2>1. /\ \A i \in DOMAIN u : u[i].type # "GetAccountState"
        /\ \A i \in DOMAIN s : s[i].type # "AccountState"
        /\ m.address = Awaited(r)
    BY <1>2, <1>5, Zenon DEF OneQuestion
  <2> QED BY <1>1, <2>1, Zenon DEF OneQuestion
<1>6. ToldOK(r, s, N, acc) => ToldOK(r, t, N, acc)
  BY <1>1 DEF ToldOK
<1>7. AskingOK(c, r, q, s, N, acc) => AskingOK(c, r, u, t, N, acc)
  BY <1>5, <1>6, Zenon DEF AskingOK
<1> QED BY <1>1, <1>3, <1>4, <1>7, Zenon DEF RunInv, t, u

-----------------------------------------------------------------------------
\* The client gives up or is done.
LEMMA RunEnds ==
  ASSUME NEW c, NEW r, NEW q, NEW s, NEW N, NEW acc, NEW t, IsSeq(t),
         RunInv(c, r, q, s, N, acc), NEW at \in {"done", "refused", "failed"}
  PROVE  RunInv(c, [r EXCEPT !.at = at], q, t, N, acc)
<1> DEFINE e == [r EXCEPT !.at = at]
<1>1. RunOK(c, r)
  BY DEF RunInv
<1>2. /\ RunOK(c, e) /\ e.at = at
      /\ e.start = r.start /\ e.confirmed = r.confirmed
  BY <1>1 DEF RunOK, RunFields
<1> HIDE DEF e
<1> QED BY <1>2 DEF RunInv, e

\* The client asks for the account of the current sender.
LEMMA RunAsks ==
  ASSUME NEW c, NEW r, NEW q, NEW s, NEW N \in Nat, NEW acc,
         RunOK(c, r), IsSeq(q), IsSeq(s), BlocksOK(q, N), Silent(q, s),
         N >= r.start + r.confirmed, r.at \in {"query", "confirm"},
         Key # << >>, r.asked \in 1..transactions_per_block[c],
         N = r.start + r.confirmed =>
           \A a \in DOMAIN r.snapshots : r.snapshots[a] = acc[a],
         r.at = "query" => /\ r.builder.current_number = r.start + r.confirmed
                           /\ Covered(r, r.asked - 1),
         r.at = "confirm" =>
           /\ r.builder.current_number = r.start + r.confirmed + 1
           /\ Covered(r, transactions_per_block[c])
  PROVE  RunInv(c, r, Append(q, AskAccount(r, r.asked)), s, N, acc)
<1> DEFINE m == AskAccount(r, r.asked)
           u == Append(q, m)
<1>1. /\ IsSeq(u)
      /\ \A i \in DOMAIN u : \/ i \in DOMAIN q /\ u[i] = q[i]
                             \/ i = Len(q) + 1 /\ u[i] = m
  BY AppendSeq, Zenon
<1>2. m.type = "GetAccountState" /\ m.address = Awaited(r)
  BY Zenon DEF AskAccount, Awaited
<1> HIDE DEF m, u
<1>3. BlocksOK(u, N)
  BY <1>1, <1>2, Zenon DEF BlocksOK
<1>4. OneQuestion(r, u, s)
  BY <1>1, <1>2 DEF OneQuestion, Silent
<1>5. ToldOK(r, s, N, acc)
  BY Zenon DEF ToldOK, Silent
<1>6. AskingOK(c, r, u, s, N, acc)
  BY <1>4, <1>5, Zenon DEF AskingOK
<1>7. ~(r.at \in {"idle", "status", "head"})
  OBVIOUS
<1> QED BY <1>1, <1>3, <1>6, <1>7, Zenon DEF RunInv, u, m

\* The client begins its next block, or has sent all of them.
LEMMA RunBegins ==
  ASSUME NEW c \in Client, NEW r, NEW q, NEW s, NEW N \in Nat, NEW acc,
         RunOK(c, r), IsSeq(q), IsSeq(s), BlocksOK(q, N), Silent(q, s),
         N >= r.start + r.confirmed, Key # << >>,
         r.builder.current_number = r.start + r.confirmed
  PROVE  /\ RunInv(c, [r EXCEPT !.at = "query", !.asked = 1,
                                !.snapshots = [a \in {} |-> 0]],
                   Append(q, AskAccount(r, 1)), s, N, acc)
         /\ RunInv(c, [r EXCEPT !.at = "done"], Append(q, Msg("Disconnect")),
                   s, N, acc)
<1> DEFINE b == [r EXCEPT !.at = "query", !.asked = 1,
                          !.snapshots = [a \in {} |-> 0]]
           e == [r EXCEPT !.at = "done"]
           u == Append(q, Msg("Disconnect"))
<1>1. /\ RunOK(c, b) /\ b.at = "query" /\ b.asked = 1
      /\ b.start = r.start /\ b.confirmed = r.confirmed
      /\ b.builder = r.builder /\ b.block_index = r.block_index
      /\ b.snapshots = [a \in {} |-> 0]
  BY DEF RunOK, RunFields
<1>2. /\ RunOK(c, e) /\ e.at = "done"
      /\ e.start = r.start /\ e.confirmed = r.confirmed
  BY Zenon DEF RunOK, RunFields
<1> HIDE DEF b, e
<1>3. RunInv(c, b, Append(q, AskAccount(b, 1)), s, N, acc)
  <2>1. Covered(b, 0)
    BY DEF Covered
  <2>2. b.asked \in 1..transactions_per_block[c] /\ b.asked - 1 = 0
    BY <1>1, ClientAssumption
  <2>3. \A a \in DOMAIN b.snapshots : b.snapshots[a] = acc[a]
    BY <1>1, Zenon
  <2>4. b.at # "confirm" /\ b.at \in {"query", "confirm"}
    BY <1>1, Zenon
  <2>5. /\ N >= b.start + b.confirmed
        /\ b.builder.current_number = b.start + b.confirmed
        /\ Covered(b, b.asked - 1)
    BY <1>1, <2>1, <2>2, Zenon
  <2>6. RunInv(c, b, Append(q, AskAccount(b, b.asked)), s, N, acc)
    BY <1>1, <2>2, <2>3, <2>4, <2>5, RunAsks, Zenon
  <2> QED BY <1>1, <2>6, Zenon
<1>4. AskAccount(b, 1) = AskAccount(r, 1)
  BY <1>1, Zenon DEF AskAccount, sender_index
<1>5. IsSeq(u) /\ BlocksOK(u, N)
  <2>1. /\ IsSeq(u)
        /\ \A i \in DOMAIN u : \/ i \in DOMAIN q /\ u[i] = q[i]
                               \/ u[i] = Msg("Disconnect")
    BY AppendSeq, Zenon
  <2>2. Msg("Disconnect").type # "NewBlock"
    BY Zenon DEF Msg
  <2> QED BY <2>1, <2>2, Zenon DEF BlocksOK
<1>6. RunInv(c, e, u, s, N, acc)
  BY <1>2, <1>5 DEF RunInv
<1> QED BY <1>3, <1>4, <1>6, Zenon DEF b, e

\* An account that arrives is the one that was asked for, and as the node
\* holds it unless the chain has grown.
LEMMA AnswerTaken ==
  ASSUME NEW c, NEW r, NEW q, NEW s, NEW N, NEW acc,
         RunInv(c, r, q, s, N, acc), r.at \in {"query", "confirm"},
         s # << >>, Head(s).type = "AccountState"
  PROVE  /\ AskingOK(c, r, q, s, N, acc)
         /\ IsSeq(Tail(s)) /\ Silent(q, Tail(s))
         /\ Head(s).address = Awaited(r)
         /\ N = r.start + r.confirmed =>
              Head(s).account = acc[Head(s).address]
<1>1. /\ IsSeq(Tail(s))
      /\ 1 \in DOMAIN s /\ Head(s) = s[1]
      /\ \A i \in DOMAIN Tail(s) :
           i + 1 \in DOMAIN s /\ Tail(s)[i] = s[i + 1] /\ i + 1 # 1
  BY TailSeq, Zenon DEF RunInv
<1>2. AskingOK(c, r, q, s, N, acc)
  BY Zenon DEF RunInv
<1>3. OneQuestion(r, q, s) /\ ToldOK(r, s, N, acc)
  BY <1>2 DEF AskingOK
<1>4. Silent(q, Tail(s))
  BY <1>1, <1>3, Zenon DEF OneQuestion, Silent
<1> QED BY <1>1, <1>2, <1>3, <1>4, Zenon DEF OneQuestion, ToldOK

-----------------------------------------------------------------------------
\* The run after an answer to its question is still at the same block.
Continues(c, r, next, N, acc) ==
  /\ RunOK(c, next) /\ next.asked \in 1..transactions_per_block[c]
  /\ next.at = r.at /\ next.builder = r.builder
  /\ next.block_index = r.block_index
  /\ next.start = r.start /\ next.confirmed = r.confirmed
  /\ N = r.start + r.confirmed =>
       \A a \in DOMAIN next.snapshots : next.snapshots[a] = acc[a]
  /\ r.at = "query" => Covered(next, next.asked - 1)
  /\ r.at = "confirm" => Covered(next, transactions_per_block[c])

\* The next question of a round, or of another round.
LEMMA RunGoesOn ==
  ASSUME NEW c, NEW r, NEW q, NEW s, NEW N \in Nat, NEW acc, NEW next,
         RunInv(c, r, q, s, N, acc), r.at \in {"query", "confirm"},
         s # << >>, Head(s).type = "AccountState", Continues(c, r, next, N, acc)
  PROVE  RunInv(c, next, Append(q, AskAccount(next, next.asked)), Tail(s), N, acc)
<1>1. /\ AskingOK(c, r, q, s, N, acc)
      /\ IsSeq(Tail(s)) /\ Silent(q, Tail(s))
  BY AnswerTaken, Zenon
<1>2. IsSeq(q) /\ BlocksOK(q, N) /\ N >= r.start + r.confirmed
  BY Zenon DEF RunInv
<1>3. Key # << >>
  BY <1>1 DEF AskingOK
<1>4. /\ r.at = "query" => r.builder.current_number = r.start + r.confirmed
      /\ r.at = "confirm" => r.builder.current_number = r.start + r.confirmed + 1
  BY <1>1, Zenon DEF AskingOK
<1>5. /\ N >= next.start + next.confirmed /\ next.at \in {"query", "confirm"}
      /\ N = next.start + next.confirmed =>
           \A a \in DOMAIN next.snapshots : next.snapshots[a] = acc[a]
      /\ next.at = "query" =>
           /\ next.builder.current_number = next.start + next.confirmed
           /\ Covered(next, next.asked - 1)
      /\ next.at = "confirm" =>
           /\ next.builder.current_number = next.start + next.confirmed + 1
           /\ Covered(next, transactions_per_block[c])
  BY <1>2, <1>4, Zenon DEF Continues
<1>6. RunOK(c, next) /\ next.asked \in 1..transactions_per_block[c]
  BY Zenon DEF Continues
<1> QED BY <1>1, <1>2, <1>3, <1>5, <1>6, RunAsks, Zenon

\* What OnSnapshot and OnConfirm make of the run.
Told(r, m) == [r EXCEPT !.snapshots = insert(@, m.address, m.account)]

AskNext(r) == [r EXCEPT !.asked = @ + 1]

\* A snapshot that has arrived is the answer to the run's question, and the
\* next question is asked where there is one.
Noted(c, r, q, s, N, acc) ==
  LET e == Told(r, Head(s))
  IN  /\ RunOK(c, e) /\ e.asked = r.asked
      /\ e.transactions_per_block = transactions_per_block[c]
      /\ Covered(e, e.asked)
      /\ N = r.start + r.confirmed =>
           \A a \in DOMAIN e.snapshots : e.snapshots[a] = acc[a]
      /\ e.asked < e.transactions_per_block =>
           RunInv(c, AskNext(e), Append(q, AskAccount(e, e.asked + 1)), Tail(s),
                  N, acc)

\* OnSnapshot goes on to the next sender.
LEMMA NextSnapshot ==
  ASSUME NEW c \in Client, NEW r, NEW q, NEW s, NEW N \in Nat, NEW acc,
         RunInv(c, r, q, s, N, acc), r.at = "query",
         s # << >>, Head(s).type = "AccountState"
  PROVE  Noted(c, r, q, s, N, acc)
<1> DEFINE m == Head(s)
           told == insert(r.snapshots, m.address, m.account)
           e == Told(r, m)
           n == AskNext(e)
<1>1. /\ AskingOK(c, r, q, s, N, acc) /\ m.address = Awaited(r)
      /\ N = r.start + r.confirmed => m.account = acc[m.address]
  <2>1. r.at \in {"query", "confirm"}
    OBVIOUS
  <2> QED BY <2>1, AnswerTaken
<1>2. /\ r.asked \in 1..transactions_per_block[c] /\ Covered(r, r.asked - 1)
      /\ ToldOK(r, s, N, acc) /\ RunOK(c, r)
  BY <1>1, Zenon DEF AskingOK, RunInv
<1>3. transactions_per_block[c] \in Nat
  BY ClientAssumption, Zenon
<1>4. /\ DOMAIN told = DOMAIN r.snapshots \cup {m.address}
      /\ told[m.address] = m.account
      /\ \A a \in DOMAIN r.snapshots \ {m.address} : told[a] = r.snapshots[a]
  BY Zenon DEF insert
<1> HIDE DEF told, m
<1>5. N = r.start + r.confirmed => \A a \in DOMAIN told : told[a] = acc[a]
  BY <1>1, <1>2, <1>4, Zenon DEF ToldOK
<1>6. /\ RunOK(c, e) /\ e.at = r.at /\ e.asked = r.asked /\ e.snapshots = told
      /\ e.builder = r.builder /\ e.block_index = r.block_index
      /\ e.start = r.start /\ e.confirmed = r.confirmed
      /\ e.transactions_per_block = transactions_per_block[c]
  BY <1>2 DEF RunOK, RunFields, Told, told
<1> HIDE DEF e
<1>7. \A i : sender_index(e, i) = sender_index(r, i)
  BY <1>6, Zenon DEF sender_index
<1>8. Covered(e, e.asked)
  <2> SUFFICES ASSUME NEW i \in 1..e.asked
               PROVE  Key[sender_index(e, i)] \in DOMAIN e.snapshots
    BY Zenon DEF Covered
  <2>1. CASE i = r.asked
    BY <1>1, <1>4, <1>6, <1>7, <2>1, Zenon DEF Awaited
  <2>2. CASE i # r.asked
    <3>1. i \in 1..(r.asked - 1)
      BY <1>2, <1>3, <1>6, <2>2
    <3> QED BY <1>2, <1>4, <1>6, <1>7, <3>1, Zenon DEF Covered
  <2> QED BY <2>1, <2>2, Zenon
<1>9. ASSUME e.asked < e.transactions_per_block
      PROVE  RunInv(c, n, Append(q, AskAccount(e, e.asked + 1)), Tail(s), N, acc)
  <2>1. /\ RunOK(c, n) /\ n.at = r.at /\ n.asked = r.asked + 1
        /\ n.snapshots = told
        /\ n.builder = r.builder /\ n.block_index = r.block_index
        /\ n.start = r.start /\ n.confirmed = r.confirmed
    BY <1>6, Zenon DEF RunOK, RunFields, AskNext
  <2> HIDE DEF n
  <2>2. n.asked \in 1..transactions_per_block[c] /\ n.asked - 1 = e.asked
    BY <1>2, <1>3, <1>6, <1>9, <2>1
  <2>3. \A i : sender_index(n, i) = sender_index(e, i)
    BY <1>6, <2>1, Zenon DEF sender_index
  <2>4. Covered(n, n.asked - 1)
    BY <1>6, <1>8, <2>1, <2>2, <2>3, Zenon DEF Covered
  <2>5. r.at \in {"query", "confirm"} /\ Continues(c, r, n, N, acc)
    BY <1>5, <2>1, <2>2, <2>4, Zenon DEF Continues
  <2>6. RunInv(c, n, Append(q, AskAccount(n, n.asked)), Tail(s), N, acc)
    BY <2>5, RunGoesOn, Zenon
  <2>7. AskAccount(n, n.asked) = AskAccount(e, e.asked + 1)
    BY <1>6, <2>1, <2>3, Zenon DEF AskAccount
  <2> QED BY <2>6, <2>7, Zenon
<1> QED BY <1>5, <1>6, <1>8, <1>9, Zenon DEF Noted, e, n, m

\* OnConfirm goes on to the next sender or to another round, or begins the
\* next block: an account that has moved on since its snapshot shows that
\* the chain has grown.
LEMMA RunConfirmed ==
  ASSUME NEW c \in Client, NEW r, NEW q, NEW s, NEW N \in Nat, NEW acc,
         Nonces(acc), RunInv(c, r, q, s, N, acc), r.at = "confirm",
         s # << >>, Head(s).type = "AccountState"
  PROVE  /\ RunOK(c, r) /\ IsSeq(q) /\ IsSeq(Tail(s)) /\ BlocksOK(q, N)
         /\ Silent(q, Tail(s)) /\ Key # << >>
         /\ r.builder.current_number = r.start + r.confirmed + 1
         /\ Head(s).account.nonce >= expected_nonce(r, Head(s).address) =>
              N >= r.start + (r.confirmed + 1)
<1>1. /\ AskingOK(c, r, q, s, N, acc)
      /\ IsSeq(Tail(s)) /\ Silent(q, Tail(s))
      /\ Head(s).address = Awaited(r)
      /\ N = r.start + r.confirmed => Head(s).account = acc[Head(s).address]
  <2>1. r.at \in {"query", "confirm"}
    OBVIOUS
  <2> QED BY <2>1, AnswerTaken
<1>2. /\ RunOK(c, r) /\ IsSeq(q) /\ BlocksOK(q, N)
      /\ N >= r.start + r.confirmed
  BY Zenon DEF RunInv
<1>3. /\ Key # << >> /\ r.asked \in 1..transactions_per_block[c]
      /\ r.builder.current_number = r.start + r.confirmed + 1
      /\ Covered(r, transactions_per_block[c])
      /\ ToldOK(r, s, N, acc)
  BY <1>1, Zenon DEF AskingOK
<1>4. ASSUME Head(s).account.nonce >= expected_nonce(r, Head(s).address),
             N = r.start + r.confirmed
      PROVE  FALSE
  <2> DEFINE i == sender_index(r, r.asked)
             a == Head(s).address
  <2>1. a = Key[i] /\ a \in DOMAIN r.snapshots
    BY <1>1, <1>3, Zenon DEF Awaited, Covered
  <2>2. r.asked \in Nat \ {0} /\ r.block_index \in Nat
    BY <1>2, <1>3, ClientAssumption DEF RunOK
  <2>3. i \in DOMAIN Key
    BY <1>3, <2>2, SenderHasKey, Zenon
  <2>4. acc[a].nonce \in Nat
    BY <2>1, <2>3 DEF Nonces
  <2>5. Head(s).account = acc[a] /\ r.snapshots[a] = acc[a]
    BY <1>1, <1>3, <1>4, <2>1, Zenon DEF ToldOK
  <2> HIDE DEF i, a
  <2>6. acc[a].nonce >= acc[a].nonce + 1
    BY <1>4, <2>5, Zenon DEF expected_nonce, a
  <2> QED BY <2>4, <2>6
<1>5. r.start \in Nat /\ r.confirmed \in Nat
  BY <1>2, Zenon DEF RunOK
<1>6. N # r.start + r.confirmed => N >= r.start + (r.confirmed + 1)
  BY <1>2, <1>5
<1> QED BY <1>1, <1>2, <1>3, <1>4, <1>6, Zenon

\* The block that generate_block returns for a run that has its snapshots.
LEMMA BlockBuilt ==
  ASSUME NEW c \in Client, NEW r, RunOK(c, r), NEW snapshots,
         r.builder.current_number \in Nat
  PROVE  LET b == generate_block(r.builder, specs(r), snapshots)
             g == generated(r.builder, specs(r))
         IN  /\ b.header.number = r.builder.current_number + 1
             /\ IsSeq(b.transactions)
             /\ DOMAIN g = BuilderFields
             /\ g.current_number = r.builder.current_number + 1
<1> DEFINE b == generate_block(r.builder, specs(r), snapshots)
           g == generated(r.builder, specs(r))
           n == transactions_per_block[c]
<1>1. b.header.number = r.builder.current_number + 1
  BY DEF generate_block, next_header
<1>2. IsSeq(b.transactions)
  <2>1. n \in Nat /\ r.transactions_per_block = n
    BY ClientAssumption, Zenon DEF RunOK
  <2>2. b.transactions = [i \in 1..n |-> transaction(specs(r)[i], snapshots)]
    BY <2>1, Zenon DEF generate_block, specs
  <2>3. b.transactions = [i \in 1..n |-> b.transactions[i]]
    BY <2>2, Zenon
  <2> HIDE DEF b, n
  <2> QED BY <2>1, <2>3, SeqOfDomain, Zenon
<1>3. /\ DOMAIN g = BuilderFields
      /\ g.current_number = r.builder.current_number + 1
  BY DEF generated, next_header, RunOK, BuilderFields
<1> QED BY <1>1, <1>2, <1>3, Zenon

\* SendBlock, with the last snapshot in place.
LEMMA RunSends ==
  ASSUME NEW c \in Client, NEW r, NEW q, NEW s, NEW N \in Nat, NEW acc,
         RunOK(c, r), IsSeq(q), IsSeq(s), BlocksOK(q, N), Silent(q, s),
         N >= r.start + r.confirmed, r.at = "query", Key # << >>,
         r.builder.current_number = r.start + r.confirmed,
         Covered(r, transactions_per_block[c]),
         N = r.start + r.confirmed =>
           \A a \in DOMAIN r.snapshots : r.snapshots[a] = acc[a]
  PROVE  LET b == generate_block(r.builder, specs(r), r.snapshots)
         IN  RunInv(c, [r EXCEPT !.at = "confirm", !.asked = 1,
                                 !.all_processed = TRUE, !.block = b,
                                 !.builder = generated(@, specs(r))],
                    Append(Append(q, [type |-> "NewBlock", block |-> b]),
                           AskAccount(r, 1)),
                    s, N, acc)
<1> DEFINE b == generate_block(r.builder, specs(r), r.snapshots)
           g == generated(r.builder, specs(r))
           m == [type |-> "NewBlock", block |-> b]
           u == Append(q, m)
           e == [r EXCEPT !.at = "confirm", !.asked = 1,
                          !.all_processed = TRUE, !.block = b,
                          !.builder = g]
<1>1. r.start \in Nat /\ r.confirmed \in Nat /\ r.builder.current_number \in Nat
  BY DEF RunOK
<1>2. /\ b.header.number = r.builder.current_number + 1
      /\ IsSeq(b.transactions)
      /\ DOMAIN g = BuilderFields
      /\ g.current_number = r.builder.current_number + 1
  BY <1>1, BlockBuilt, Zenon
<1>3. m.type = "NewBlock" /\ m.block = b
  OBVIOUS
<1> HIDE DEF b, g, m
<1>4. /\ RunOK(c, e) /\ e.at = "confirm" /\ e.asked = 1 /\ e.builder = g
      /\ e.start = r.start /\ e.confirmed = r.confirmed
      /\ e.snapshots = r.snapshots /\ e.block_index = r.block_index
  BY <1>2 DEF RunOK, RunFields
<1> HIDE DEF e
<1>5. /\ IsSeq(u)
      /\ \A i \in DOMAIN u : \/ i \in DOMAIN q /\ u[i] = q[i]
                             \/ u[i] = m
  BY AppendSeq, Zenon
<1> HIDE DEF u
<1>6. BlocksOK(u, N)
  <2>1. b.header.number \in Nat /\ b.header.number <= N + 1
    BY <1>1, <1>2
  <2> QED BY <1>2, <1>3, <1>5, <2>1, Zenon DEF BlocksOK
<1>7. Silent(u, s)
  BY <1>3, <1>5 DEF Silent
<1>8. e.asked \in 1..transactions_per_block[c]
  BY <1>4, ClientAssumption
<1>9. /\ N >= e.start + e.confirmed
      /\ e.builder.current_number = e.start + e.confirmed + 1
      /\ e.at \in {"query", "confirm"} /\ e.at # "query"
      /\ N = e.start + e.confirmed =>
           \A a \in DOMAIN e.snapshots : e.snapshots[a] = acc[a]
  BY <1>2, <1>4, Zenon
<1>10. /\ Covered(e, transactions_per_block[c])
       /\ AskAccount(e, e.asked) = AskAccount(r, 1)
  BY <1>4, Zenon DEF Covered, AskAccount, sender_index
<1>11. RunInv(c, e, Append(u, AskAccount(e, e.asked)), s, N, acc)
  BY <1>4, <1>5, <1>6, <1>7, <1>8, <1>9, <1>10, RunAsks, Zenon
<1> QED BY <1>10, <1>11, Zenon DEF e, u, m, b, g

\* Connect and OnStatus.
At(r, at) == [r EXCEPT !.at = at]

Greets(r, at, m) ==
  /\ r.at \in {"idle", "status"} /\ at \in {"status", "head"}
  /\ m.type \in {"Status", "GetChainHead"}

Within(t, s) == \A i \in DOMAIN t : \E j \in DOMAIN s : t[i] = s[j]

\* A run that greets the node asks about no account and sends no block.
LEMMA RunGreets ==
  ASSUME NEW c, NEW r, NEW q, NEW s, NEW N, NEW acc,
         RunInv(c, r, q, s, N, acc), NEW at, NEW m, Greets(r, at, m),
         NEW t, IsSeq(t), Within(t, s)
  PROVE  RunInv(c, At(r, at), Append(q, m), t, N, acc)
<1> DEFINE e == At(r, at)
           u == Append(q, m)
<1>1. BeforeOK(r, q, s, N) /\ RunOK(c, r) /\ IsSeq(q)
  BY DEF RunInv, Greets
<1>2. /\ RunOK(c, e) /\ e.at = at
      /\ e.start = r.start /\ e.confirmed = r.confirmed
  BY <1>1 DEF RunOK, RunFields, At
<1>3. /\ IsSeq(u)
      /\ \A i \in DOMAIN u : \/ i \in DOMAIN q /\ u[i] = q[i]
                             \/ u[i] = m
  BY <1>1, AppendSeq, Zenon
<1> HIDE DEF e, u
<1>4. BlocksOK(u, N)
  BY <1>3, Zenon DEF BlocksOK, RunInv, Greets
<1>5. BeforeOK(e, u, t, N)
  <2>1. Silent(u, t)
    BY <1>1, <1>3, Zenon DEF BeforeOK, Silent, Within, Greets
  <2> QED BY <1>1, <1>2, <2>1, Zenon DEF BeforeOK, Within
<1>6. e.at \notin {"query", "confirm"} /\ N >= e.start + e.confirmed
  BY <1>2 DEF RunInv, Greets
<1> QED BY <1>2, <1>3, <1>4, <1>5, <1>6, Zenon DEF RunInv, e, u

-----------------------------------------------------------------------------
Number == tip.header.number

Here(c) == RunInv(c, run[c], request[c], response[c], Number, accounts)

\* The inductive invariant of the runs and their node.
ClientInv ==
  /\ IsSeq(chain) /\ chain # << >> /\ Number \in Nat
  /\ Nonces(accounts)
  /\ DOMAIN run = Client /\ DOMAIN request = Client /\ DOMAIN response = Client
  /\ \A c \in Client : Here(c)

\* What a step of the client leaves of the messages on their way to it.
Leaves(c, t) ==
  /\ UNCHANGED nodeVars
  /\ DOMAIN response' = Client /\ response'[c] = t
  /\ \A d \in Client \ {c} : response'[d] = response[d]

\* A step of one run, by what it makes of its own part of the state.
LEMMA RunStep ==
  ASSUME ClientInv, NEW c \in Client, NEW r, NEW messages, NEW t,
         Update(c, r, messages), Leaves(c, t),
         RunInv(c, r, request[c] \o messages, t, Number, accounts)
  PROVE  ClientInv'
<1>1. /\ chain' = chain /\ accounts' = accounts
      /\ DOMAIN response' = Client /\ response'[c] = t
      /\ \A d \in Client \ {c} : response'[d] = response[d]
  BY DEF nodeVars, Leaves
<1>2. Number' = Number
  BY <1>1, Zenon DEF Number, tip
<1>3. /\ run' = [run EXCEPT ![c] = r]
      /\ request' = [request EXCEPT ![c] = request[c] \o messages]
      /\ DOMAIN run = Client /\ DOMAIN request = Client
  BY Zenon DEF Update, ClientInv
<1>4. /\ DOMAIN run' = Client /\ DOMAIN request' = Client
      /\ run'[c] = r /\ request'[c] = request[c] \o messages
      /\ \A d \in Client \ {c} : run'[d] = run[d] /\ request'[d] = request[d]
  BY <1>3
<1>5. \A d \in Client : Here(d)'
  <2>1. Here(c)'
    BY <1>1, <1>2, <1>4, Zenon DEF Here
  <2>2. ASSUME NEW d \in Client \ {c}
        PROVE  Here(d)'
    BY <1>1, <1>2, <1>4, Zenon DEF Here, ClientInv
  <2> QED BY <2>1, <2>2
<1> QED BY <1>1, <1>2, <1>4, <1>5, Zenon DEF ClientInv

\* A run takes the first message, and the others stay in their order.
LEMMA RunReceives ==
  ASSUME ClientInv, NEW c \in Client, NEW at, NEW types, Receive(c, at, types)
  PROVE  LET s == response[c]
         IN  /\ Leaves(c, Tail(s)) /\ run[c].at = at
             /\ s # << >> /\ Head(s).type \in types
             /\ IsSeq(Tail(s))
             /\ Within(Tail(s), s)
             /\ 1 \in DOMAIN s /\ Head(s) = s[1]
<1> DEFINE s == response[c]
<1>1. s # << >> /\ IsSeq(s) /\ DOMAIN response = Client
  BY Zenon DEF Receive, ClientInv, Here, RunInv
<1>2. /\ IsSeq(Tail(s)) /\ 1 \in DOMAIN s /\ Head(s) = s[1]
      /\ \A i \in DOMAIN Tail(s) : i + 1 \in DOMAIN s /\ Tail(s)[i] = s[i + 1]
  BY <1>1, TailSeq, Zenon
<1>3. /\ UNCHANGED nodeVars /\ response' = [response EXCEPT ![c] = Tail(s)]
      /\ Head(s).type \in types /\ run[c].at = at
  BY Zenon DEF Receive
<1>4. Leaves(c, Tail(s))
  BY <1>1, <1>3 DEF Leaves
<1> QED BY <1>1, <1>2, <1>3, <1>4, Zenon DEF Within

\* A run gives up.
LEMMA RunFails ==
  ASSUME ClientInv, NEW c \in Client, NEW at \in {"refused", "failed"},
         Fail(c, at), NEW t, IsSeq(t), Leaves(c, t)
  PROVE  ClientInv'
<1> DEFINE r == run[c]
           q == request[c]
           e == [r EXCEPT !.at = at]
<1>1. RunInv(c, r, q, response[c], Number, accounts) /\ IsSeq(q)
  BY Zenon DEF ClientInv, Here, RunInv
<1>2. RunInv(c, e, q, t, Number, accounts)
  BY <1>1, RunEnds, Zenon
<1>3. q \o << >> = q
  BY <1>1, SendSeq, Zenon
<1>4. Update(c, e, << >>)
  BY Zenon DEF Fail
<1> HIDE DEF e, q
<1>5. RunInv(c, e, q \o << >>, t, Number, accounts)
  BY <1>2, <1>3, Zenon
<1> QED BY <1>4, <1>5, RunStep, Zenon DEF q

\* A run goes on and sends one message.
LEMMA RunSendsOne ==
  ASSUME ClientInv, NEW c \in Client, NEW e, NEW m, NEW t,
         Update(c, e, <<m>>), Leaves(c, t),
         RunInv(c, e, Append(request[c], m), t, Number, accounts)
  PROVE  ClientInv'
<1> DEFINE q == request[c]
<1>1. IsSeq(q)
  BY Zenon DEF ClientInv, Here, RunInv
<1>2. q \o <<m>> = Append(q, m)
  BY <1>1, SendSeq, Zenon
<1>3. RunInv(c, e, q \o <<m>>, t, Number, accounts)
  BY <1>2, Zenon
<1> QED BY <1>3, RunStep, Zenon

\* The handshake, from the client's side.
LEMMA GreetingKeeps ==
  ASSUME ClientInv, NEW c \in Client, Connect(c) \/ OnStatus(c)
  PROVE  ClientInv'
<1> DEFINE q == request[c]
           s == response[c]
<1>1. RunInv(c, run[c], q, s, Number, accounts) /\ IsSeq(s)
  BY Zenon DEF ClientInv, Here, RunInv
<1>2. CASE Connect(c)
  <2> DEFINE e == At(run[c], "status")
             m == Msg("Status")
  <2>1. /\ run[c].at = "idle" /\ UNCHANGED nodeVars /\ response' = response
        /\ Update(c, e, <<m>>)
    BY <1>2, Zenon DEF Connect, At
  <2>2. Leaves(c, s)
    BY <2>1, Zenon DEF Leaves, ClientInv
  <2>3. Greets(run[c], "status", m) /\ Within(s, s)
    BY <2>1, Zenon DEF Msg, Within, Greets
  <2>4. RunInv(c, e, Append(q, m), s, Number, accounts)
    <3> HIDE DEF m
    <3> QED BY <1>1, <2>3, RunGreets, Zenon
  <2> HIDE DEF e, m
  <2> QED BY <2>1, <2>2, <2>4, RunSendsOne, Zenon
<1>3. CASE OnStatus(c)
  <2> DEFINE e == At(run[c], "head")
             m == Msg("GetChainHead")
  <2>1. /\ Receive(c, "status", {"Status"})
        /\ Update(c, e, <<m>>)
    BY <1>3, Zenon DEF OnStatus, At
  <2>2. /\ Leaves(c, Tail(s)) /\ run[c].at = "status" /\ IsSeq(Tail(s))
        /\ Within(Tail(s), s)
    BY <2>1, RunReceives, Zenon
  <2>3. Greets(run[c], "head", m)
    BY <2>2 DEF Msg, Greets
  <2>4. RunInv(c, e, Append(q, m), Tail(s), Number, accounts)
    <3> HIDE DEF m
    <3> QED BY <1>1, <2>2, <2>3, RunGreets, Zenon
  <2> HIDE DEF e, m
  <2> QED BY <2>1, <2>2, <2>4, RunSendsOne, Zenon
<1> QED BY <1>2, <1>3

\* The head of the loop over the blocks.
LEMMA BeginKeeps ==
  ASSUME ClientInv, NEW c \in Client, NEW r, NEW t, BeginBlock(c, r),
         Leaves(c, t), RunOK(c, r), IsSeq(t), Silent(request[c], t),
         Number >= r.start + r.confirmed, Key # << >>,
         r.builder.current_number = r.start + r.confirmed
  PROVE  ClientInv'
<1> DEFINE q == request[c]
           b == [r EXCEPT !.at = "query", !.asked = 1,
                          !.snapshots = [a \in {} |-> 0]]
           e == [r EXCEPT !.at = "done"]
<1>1. IsSeq(q) /\ BlocksOK(q, Number) /\ Number \in Nat
  BY Zenon DEF ClientInv, Here, RunInv
<1>2. /\ RunInv(c, b, Append(q, AskAccount(r, 1)), t, Number, accounts)
      /\ RunInv(c, e, Append(q, Msg("Disconnect")), t, Number, accounts)
  BY <1>1, RunBegins, Zenon
<1> HIDE DEF b, e
<1>3. \/ Update(c, b, <<AskAccount(r, 1)>>)
      \/ Update(c, e, <<Msg("Disconnect")>>)
  BY Zenon DEF BeginBlock, b, e
<1> QED BY <1>2, <1>3, RunSendsOne, Zenon

\* The client resumes from the head of the node.
LEMMA ChainHeadKeeps ==
  ASSUME ClientInv, NEW c \in Client, OnChainHead(c)
  PROVE  ClientInv'
<1> DEFINE q == request[c]
           s == response[c]
           r == run[c]
           head == Head(s)
           e == [r EXCEPT !.builder = set_current_head(@, head.number, head.hash),
                          !.start = head.number]
<1>1. Receive(c, "head", {"ChainHead"}) /\ Resume(c, head)
  BY Zenon DEF OnChainHead
<1>2. /\ Leaves(c, Tail(s)) /\ r.at = "head" /\ IsSeq(Tail(s))
      /\ head.type = "ChainHead" /\ head = s[1] /\ 1 \in DOMAIN s
      /\ \A i \in DOMAIN Tail(s) : \E j \in DOMAIN s : Tail(s)[i] = s[j]
  <2>1. /\ Leaves(c, Tail(s)) /\ r.at = "head" /\ IsSeq(Tail(s))
        /\ head.type \in {"ChainHead"} /\ head = s[1] /\ 1 \in DOMAIN s
        /\ Within(Tail(s), s)
    BY <1>1, RunReceives, Zenon
  <2> QED BY <2>1, Zenon DEF Within
<1>3. RunOK(c, r) /\ BeforeOK(r, q, s, Number) /\ Number \in Nat
  BY <1>2 DEF ClientInv, Here, RunInv
<1>4. /\ head.number \in Nat /\ head.number <= Number
      /\ r.confirmed = 0 /\ Silent(q, s)
  BY <1>2, <1>3, Zenon DEF BeforeOK
<1>5. Silent(q, Tail(s))
  BY <1>2, <1>4, Zenon DEF Silent
<1> HIDE DEF head
<1>6. CASE Fail(c, "failed")
  BY <1>2, <1>6, RunFails, Zenon
<1>7. CASE BeginBlock(c, e) /\ ArgumentsValid(r)
  <2>1. /\ RunOK(c, e) /\ e.start = head.number /\ e.confirmed = 0
        /\ e.builder.current_number = head.number
    BY <1>3, <1>4, Zenon DEF RunOK, RunFields, BuilderFields, set_current_head
  <2>2. Number >= e.start + e.confirmed
        /\ e.builder.current_number = e.start + e.confirmed
    BY <1>3, <1>4, <2>1
  <2>3. Key # << >>
    BY <1>7 DEF ArgumentsValid
  <2> HIDE DEF e
  <2> QED BY <1>2, <1>5, <1>7, <2>1, <2>2, <2>3, BeginKeeps, Zenon
<1> QED BY <1>1, <1>6, <1>7, Zenon DEF Resume, head

\* A snapshot arrives; the last one is followed by the block.
LEMMA SnapshotKeeps ==
  ASSUME ClientInv, NEW c \in Client, OnSnapshot(c)
  PROVE  ClientInv'
<1> DEFINE q == request[c]
           s == response[c]
           r == run[c]
           e == Told(r, Head(s))
           n == AskNext(e)
           b == generate_block(e.builder, specs(e), e.snapshots)
           f == [e EXCEPT !.at = "confirm", !.asked = 1, !.all_processed = TRUE,
                          !.block = b, !.builder = generated(@, specs(e))]
           m == [type |-> "NewBlock", block |-> b]
<1>1. Receive(c, "query", {"AccountState"})
  BY Zenon DEF OnSnapshot
<1>2. /\ Leaves(c, Tail(s)) /\ r.at = "query" /\ s # << >> /\ IsSeq(Tail(s))
      /\ Head(s).type = "AccountState"
  <2>1. /\ Leaves(c, Tail(s)) /\ r.at = "query" /\ s # << >> /\ IsSeq(Tail(s))
        /\ Head(s).type \in {"AccountState"}
    BY <1>1, RunReceives, Zenon
  <2> QED BY <2>1, Zenon
<1>3. /\ RunInv(c, r, q, s, Number, accounts) /\ Number \in Nat
      /\ IsSeq(q) /\ BlocksOK(q, Number) /\ Number >= r.start + r.confirmed
      /\ RunOK(c, r)
  BY Zenon DEF ClientInv, Here, RunInv
<1>4. /\ RunOK(c, e) /\ e.asked = r.asked /\ Covered(e, e.asked)
      /\ e.transactions_per_block = transactions_per_block[c]
      /\ Number = r.start + r.confirmed =>
           \A a \in DOMAIN e.snapshots : e.snapshots[a] = accounts[a]
      /\ e.asked < e.transactions_per_block =>
           RunInv(c, n, Append(q, AskAccount(e, e.asked + 1)), Tail(s), Number,
                  accounts)
  <2>1. Noted(c, r, q, s, Number, accounts)
    BY <1>2, <1>3, NextSnapshot, Zenon
  <2> QED BY <2>1, Zenon DEF Noted
<1>5. /\ e.at = r.at /\ e.builder = r.builder
      /\ e.start = r.start /\ e.confirmed = r.confirmed
  BY <1>3 DEF RunOK, RunFields, Told
<1>6. \/ Fail(c, "failed")
      \/ /\ e.asked < e.transactions_per_block
         /\ Update(c, n, <<AskAccount(e, e.asked + 1)>>)
      \/ /\ ~(e.asked < e.transactions_per_block)
         /\ Update(c, f, <<m, AskAccount(e, 1)>>)
  BY Zenon DEF OnSnapshot, SendBlock, Told, AskNext
<1> HIDE DEF e, n
<1>7. CASE Fail(c, "failed")
  BY <1>2, <1>7, RunFails, Zenon
<1>8. CASE /\ e.asked < e.transactions_per_block
           /\ Update(c, n, <<AskAccount(e, e.asked + 1)>>)
  BY <1>2, <1>4, <1>8, RunSendsOne, Zenon
<1>9. CASE /\ ~(e.asked < e.transactions_per_block)
           /\ Update(c, f, <<m, AskAccount(e, 1)>>)
  <2>1. /\ AskingOK(c, r, q, s, Number, accounts) /\ Silent(q, Tail(s))
    <3>1. r.at \in {"query", "confirm"}
      BY <1>2
    <3> QED BY <1>2, <1>3, <3>1, AnswerTaken, Zenon
  <2>2. /\ r.asked \in 1..transactions_per_block[c] /\ Key # << >>
        /\ r.builder.current_number = r.start + r.confirmed
    BY <1>2, <2>1, Zenon DEF AskingOK
  <2>3. e.asked = transactions_per_block[c]
    BY <1>4, <1>9, <2>2, ClientAssumption
  <2>4. RunInv(c, f, Append(Append(q, m), AskAccount(e, 1)), Tail(s), Number,
               accounts)
    BY <1>2, <1>3, <1>4, <1>5, <2>1, <2>2, <2>3, RunSends, Zenon
  <2> HIDE DEF f, m
  <2>5. q \o <<m, AskAccount(e, 1)>> = Append(Append(q, m), AskAccount(e, 1))
    BY <1>3, SendSeq
  <2>6. RunInv(c, f, q \o <<m, AskAccount(e, 1)>>, Tail(s), Number, accounts)
    BY <2>4, <2>5, Zenon
  <2> QED BY <1>2, <1>9, <2>6, RunStep, Zenon
<1> QED BY <1>6, <1>7, <1>8, <1>9, Zenon

\* A confirmation arrives.
LEMMA ConfirmKeeps ==
  ASSUME ClientInv, NEW c \in Client, OnConfirm(c)
  PROVE  ClientInv'
<1> DEFINE q == request[c]
           s == response[c]
           r == run[c]
           moved == Head(s).account.nonce >= expected_nonce(r, Head(s).address)
           e == [r EXCEPT !.all_processed = @ /\ moved]
           n == [e EXCEPT !.asked = @ + 1]
           again == [e EXCEPT !.asked = 1, !.all_processed = TRUE]
           done == [e EXCEPT !.block_index = @ + 1, !.confirmed = @ + 1]
<1>1. Receive(c, "confirm", {"AccountState"})
  BY Zenon DEF OnConfirm
<1>2. /\ Leaves(c, Tail(s)) /\ r.at = "confirm" /\ s # << >> /\ IsSeq(Tail(s))
      /\ Head(s).type = "AccountState"
  <2>1. /\ Leaves(c, Tail(s)) /\ r.at = "confirm" /\ s # << >> /\ IsSeq(Tail(s))
        /\ Head(s).type \in {"AccountState"}
    BY <1>1, RunReceives, Zenon
  <2> QED BY <2>1, Zenon
<1>3. /\ RunInv(c, r, q, s, Number, accounts) /\ Number \in Nat
      /\ Nonces(accounts)
  BY Zenon DEF ClientInv, Here
<1>4. /\ RunOK(c, r) /\ Silent(q, Tail(s)) /\ Key # << >>
      /\ r.builder.current_number = r.start + r.confirmed + 1
      /\ moved => Number >= r.start + (r.confirmed + 1)
  BY <1>2, <1>3, RunConfirmed, Zenon
<1> HIDE DEF moved
<1>5. AskingOK(c, r, q, s, Number, accounts)
  BY <1>2, <1>3, Zenon DEF RunInv
<1>6. /\ r.asked \in 1..transactions_per_block[c]
      /\ ToldOK(r, s, Number, accounts)
      /\ Covered(r, transactions_per_block[c])
  BY <1>2, <1>5, Zenon DEF AskingOK
<1>7. /\ RunOK(c, e) /\ e.at = r.at /\ e.asked = r.asked
      /\ e.snapshots = r.snapshots /\ e.builder = r.builder
      /\ e.block_index = r.block_index
      /\ e.start = r.start /\ e.confirmed = r.confirmed
      /\ e.transactions_per_block = transactions_per_block[c]
      /\ e.all_processed => moved
  BY <1>4, Zenon DEF RunOK, RunFields
<1>8. \/ /\ e.asked < e.transactions_per_block
         /\ Update(c, n, <<AskAccount(e, e.asked + 1)>>)
      \/ e.all_processed /\ BeginBlock(c, done)
      \/ Update(c, again, <<AskAccount(e, 1)>>)
  BY Zenon DEF OnConfirm, NextBlock, moved
<1> HIDE DEF e
\* The next question is asked with the same snapshots.
<1>9. ASSUME NEW g, RunOK(c, g), g.at = r.at, g.builder = r.builder,
             g.block_index = r.block_index, g.snapshots = r.snapshots,
             g.start = r.start, g.confirmed = r.confirmed,
             g.asked \in 1..transactions_per_block[c],
             Update(c, g, <<AskAccount(e, g.asked)>>)
      PROVE  ClientInv'
  <2>1. \A i : sender_index(g, i) = sender_index(r, i)
    BY <1>9, Zenon DEF sender_index
  <2>2. Covered(g, transactions_per_block[c])
    BY <1>6, <1>9, <2>1, Zenon DEF Covered
  <2>3. AskAccount(e, g.asked) = AskAccount(g, g.asked)
    BY <1>7, <1>9, Zenon DEF AskAccount, sender_index
  <2>4. Number = r.start + r.confirmed =>
          \A a \in DOMAIN r.snapshots : r.snapshots[a] = accounts[a]
    BY <1>6 DEF ToldOK
  <2>5. r.at \in {"query", "confirm"} /\ Continues(c, r, g, Number, accounts)
    BY <1>2, <1>9, <2>2, <2>4, Zenon DEF Continues
  <2>6. RunInv(c, g, Append(q, AskAccount(g, g.asked)), Tail(s), Number, accounts)
    BY <1>2, <1>3, <2>5, RunGoesOn, Zenon
  <2> QED BY <1>2, <1>9, <2>3, <2>6, RunSendsOne, Zenon
<1>10. CASE /\ e.asked < e.transactions_per_block
            /\ Update(c, n, <<AskAccount(e, e.asked + 1)>>)
  <2>1. /\ RunOK(c, n) /\ n.at = r.at /\ n.builder = r.builder
        /\ n.block_index = r.block_index /\ n.snapshots = r.snapshots
        /\ n.start = r.start /\ n.confirmed = r.confirmed
        /\ n.asked = e.asked + 1
    BY <1>7, Zenon DEF RunOK, RunFields
  <2>2. n.asked \in 1..transactions_per_block[c]
    BY <1>6, <1>7, <1>10, <2>1, ClientAssumption
  <2> HIDE DEF n
  <2> QED BY <1>9, <1>10, <2>1, <2>2, Zenon
<1>11. CASE Update(c, again, <<AskAccount(e, 1)>>)
  <2>1. /\ RunOK(c, again) /\ again.at = r.at /\ again.builder = r.builder
        /\ again.block_index = r.block_index /\ again.snapshots = r.snapshots
        /\ again.start = r.start /\ again.confirmed = r.confirmed
        /\ again.asked = 1
    BY <1>7, Zenon DEF RunOK, RunFields
  <2>2. again.asked \in 1..transactions_per_block[c]
    BY <2>1, ClientAssumption
  <2> HIDE DEF again
  <2> QED BY <1>9, <1>11, <2>1, <2>2, Zenon
<1>12. CASE e.all_processed /\ BeginBlock(c, done)
  <2>1. /\ RunOK(c, done) /\ done.builder = r.builder
        /\ done.start = r.start /\ done.confirmed = r.confirmed + 1
    BY <1>7 DEF RunOK, RunFields
  <2>2. r.start \in Nat /\ r.confirmed \in Nat
    BY <1>4, Zenon DEF RunOK
  <2>3. /\ Number >= done.start + done.confirmed
        /\ done.builder.current_number = done.start + done.confirmed
    BY <1>4, <1>7, <1>12, <2>1, <2>2
  <2> HIDE DEF done
  <2> QED BY <1>2, <1>4, <1>12, <2>1, <2>3, BeginKeeps, Zenon
<1> QED BY <1>8, <1>10, <1>11, <1>12, Zenon

\* A run that gets another answer, or none in time, gives up.
LEMMA GivingUpKeeps ==
  ASSUME ClientInv, NEW c \in Client, OnRefusal(c) \/ OnUnexpected(c) \/ Timeout(c)
  PROVE  ClientInv'
<1> DEFINE s == response[c]
<1>1. CASE OnRefusal(c) \/ OnUnexpected(c)
  <2>1. PICK at, types, end : /\ Receive(c, at, types) /\ Fail(c, end)
                              /\ end \in {"refused", "failed"}
    BY <1>1, Zenon DEF OnRefusal, OnUnexpected
  <2>2. Leaves(c, Tail(s)) /\ IsSeq(Tail(s))
    BY <2>1, RunReceives, Zenon
  <2> QED BY <2>1, <2>2, RunFails, Zenon
<1>2. CASE Timeout(c)
  <2>1. PICK end \in {"refused", "failed"} :
          Fail(c, end) /\ UNCHANGED nodeVars /\ response' = response
    BY <1>2, Zenon DEF Timeout
  <2>2. Leaves(c, s) /\ IsSeq(s)
    BY <2>1, Zenon DEF Leaves, ClientInv, Here, RunInv
  <2> QED BY <2>1, <2>2, RunFails, Zenon
<1> QED BY <1>1, <1>2, Zenon

-----------------------------------------------------------------------------
\* What a step of the node makes of the messages of one connection.
Carries(c, q, s) ==
  /\ run' = run
  /\ DOMAIN request' = Client /\ DOMAIN response' = Client
  /\ request'[c] = q /\ response'[c] = s
  /\ \A d \in Client \ {c} : request'[d] = request[d] /\ response'[d] = response[d]

\* A step of the node that commits nothing.
LEMMA NodeStep ==
  ASSUME ClientInv, NEW c \in Client, NEW q, NEW s, Carries(c, q, s),
         UNCHANGED <<chain, accounts>>,
         RunInv(c, run[c], q, s, Number, accounts)
  PROVE  ClientInv'
<1>1. Number' = Number
  BY Zenon DEF Number, tip
<1>2. Here(c)'
  BY <1>1, Zenon DEF Here, Carries
<1>3. ASSUME NEW d \in Client \ {c}
      PROVE  Here(d)'
  BY <1>1, Zenon DEF Here, Carries, ClientInv
<1>4. \A d \in Client : Here(d)'
  BY <1>2, <1>3, Zenon
<1> QED BY <1>1, <1>4, Zenon DEF ClientInv, Carries

\* The last element of a sequence that an element was appended to.
LEMMA AppendLast ==
  ASSUME NEW q, NEW x, IsSeq(q)
  PROVE  /\ IsSeq(Append(q, x)) /\ Append(q, x) # << >>
         /\ Append(q, x)[Len(Append(q, x))] = x
<1> DEFINE T == {q[i] : i \in DOMAIN q} \cup {x}
<1>1. q \in Seq(T)
  BY DEF IsSeq
<1>2. /\ Append(q, x) # << >> /\ Append(q, x)[Len(Append(q, x))] = x
  BY <1>1
<1> QED BY <1>2, AppendSeq, Zenon

\* The node commits the next block.
LEMMA CommitKeeps ==
  ASSUME ClientInv, NEW c \in Client, Serve(c), ServeBlock(c),
         Acceptable(Head(request[c]).block)
  PROVE  ClientInv'
<1> DEFINE q == request[c]
           b == Head(q).block
<1>1. /\ q # << >> /\ Head(q).type = "NewBlock"
      /\ chain' = Append(chain, b) /\ accounts' = Ledger!ApplyBlock(accounts, b)
      /\ response' = response /\ run' = run
      /\ request' = [request EXCEPT ![c] = Tail(q)]
  BY Zenon DEF Serve, ServeBlock
<1>2. /\ b.header.number = Number + 1 /\ Ledger!ApplyBlock(accounts, b) # Rejected
  BY Zenon DEF Acceptable, Number
<1>3. /\ IsSeq(q) /\ BlocksOK(q, Number) /\ Nonces(accounts) /\ IsSeq(chain)
      /\ Number \in Nat /\ RunInv(c, run[c], q, response[c], Number, accounts)
  BY Zenon DEF ClientInv, Here, RunInv
<1>4. IsSeq(b.transactions)
  <2>1. 1 \in DOMAIN q /\ Head(q) = q[1]
    BY <1>1, <1>3, TailSeq, Zenon
  <2> QED BY <1>1, <1>3, <2>1, Zenon DEF BlocksOK
<1>5. Nonces(accounts)'
  <2>1. Nonces(Ledger!ApplyBlock(accounts, b))
    BY <1>2, <1>3, <1>4, BlockNonces, Zenon
  <2> QED BY <1>1, <2>1, Zenon DEF Nonces
<1>6. /\ IsSeq(chain') /\ chain' # << >> /\ chain'[Len(chain')] = b
  <2> HIDE DEF b
  <2> QED BY <1>1, <1>3, AppendLast, Zenon
<1>7. Number' = Number + 1
  BY <1>2, <1>6, Zenon DEF Number, tip
<1>8. /\ DOMAIN request' = Client /\ request'[c] = Tail(q)
      /\ \A d \in Client \ {c} : request'[d] = request[d]
  BY <1>1 DEF ClientInv
<1>9. \A d \in Client : Here(d)'
  <2>1. RunInv(c, run[c], Tail(q), response[c], Number, accounts)
    BY <1>1, <1>3, RunServed, Zenon
  <2>2. ASSUME NEW d \in Client
        PROVE  RunInv(d, run[d], request'[d], response[d], Number, accounts)
    BY <1>8, <2>1, Zenon DEF ClientInv, Here
  <2>3. ASSUME NEW d \in Client
        PROVE  RunInv(d, run[d], request'[d], response[d], Number + 1, accounts')
    BY <1>3, <2>2, RunLater, Zenon
  <2> QED BY <1>1, <1>7, <2>3, Zenon DEF Here
<1>10. Number' \in Nat
  BY <1>3, <1>7
<1> QED BY <1>1, <1>5, <1>6, <1>8, <1>9, <1>10, Zenon DEF ClientInv

\* The node serves the first message of a connection.
LEMMA ServeKeeps ==
  ASSUME ClientInv, NEW c \in Client, Serve(c)
  PROVE  ClientInv'
<1> DEFINE q == request[c]
           s == response[c]
           m == Answer(c, Head(q))
<1>1. /\ q # << >> /\ run' = run
      /\ request' = [request EXCEPT ![c] = Tail(q)]
  BY Zenon DEF Serve
<1>2. /\ RunInv(c, run[c], q, s, Number, accounts) /\ Number \in Nat
      /\ DOMAIN response = Client
  BY Zenon DEF ClientInv, Here
<1>3. RunInv(c, run[c], Tail(q), s, Number, accounts)
  BY <1>1, <1>2, RunServed, Zenon
<1>4. /\ DOMAIN request' = Client /\ request'[c] = Tail(q)
      /\ \A d \in Client \ {c} : request'[d] = request[d]
  BY <1>1 DEF ClientInv
<1>5. CASE ServeBlock(c) /\ Acceptable(Head(q).block)
  BY <1>5, CommitKeeps, Zenon
<1>6. CASE \/ ServeBlock(c) /\ ~Acceptable(Head(q).block)
           \/ ServeDisconnect(c)
  <2>1. UNCHANGED <<chain, accounts>> /\ response' = response
    BY <1>6, Zenon DEF ServeBlock, ServeDisconnect
  <2>2. Carries(c, Tail(q), s)
    BY <1>1, <1>2, <1>4, <2>1, Zenon DEF Carries
  <2> QED BY <1>3, <2>1, <2>2, NodeStep, Zenon
<1>7. CASE ServeQuery(c)
  <2>1. /\ Head(q).type \in {"Status", "GetChainHead", "GetAccountState"}
        /\ response' = [response EXCEPT ![c] = Append(s, m)]
        /\ UNCHANGED <<chain, accounts>>
    BY <1>7, Zenon DEF ServeQuery
  <2>2. /\ DOMAIN response' = Client /\ response'[c] = Append(s, m)
        /\ \A d \in Client \ {c} : response'[d] = response[d]
    <3> HIDE DEF m
    <3> QED BY <1>2, <2>1
  <2>3. Carries(c, Tail(q), Append(s, m))
    BY <1>1, <1>4, <2>2, Zenon DEF Carries
  <2>4. RunInv(c, run[c], Tail(q), Append(s, m), Number, accounts)
    <3>1. CASE Head(q).type = "GetAccountState"
      <4>1. /\ m.type = "AccountState" /\ m.address = Head(q).address
            /\ m.account = accounts[m.address]
        BY <3>1 DEF Answer
      <4> HIDE DEF m
      <4> QED BY <1>1, <1>2, <3>1, <4>1, RunAnswered, Zenon
    <3>2. CASE Head(q).type \in {"Status", "GetChainHead"}
      <4>1. /\ m.type # "AccountState"
            /\ m.type = "ChainHead" => m.number = Number
        BY <3>2 DEF Answer, Msg, Number
      <4> HIDE DEF m
      <4> QED BY <1>2, <1>3, <4>1, RunHears, Zenon
    <3> QED BY <2>1, <3>1, <3>2
  <2> HIDE DEF m
  <2> QED BY <2>1, <2>3, <2>4, NodeStep, Zenon
<1> QED BY <1>5, <1>6, <1>7, Zenon DEF Serve

\* The manager's ping is no answer.
LEMMA PingKeeps ==
  ASSUME ClientInv, NEW c \in Client, Ping(c)
  PROVE  ClientInv'
<1> DEFINE s == response[c]
           m == Msg("Ping")
<1>1. /\ response' = [response EXCEPT ![c] = Append(s, m)]
      /\ UNCHANGED <<chain, accounts>> /\ run' = run /\ request' = request
  BY Zenon DEF Ping
<1>2. m.type # "AccountState" /\ m.type # "ChainHead"
  BY DEF Msg
<1> HIDE DEF m
<1>3. /\ RunInv(c, run[c], request[c], s, Number, accounts) /\ Number \in Nat
      /\ DOMAIN response = Client /\ DOMAIN request = Client
  BY Zenon DEF ClientInv, Here
<1>4. RunInv(c, run[c], request[c], Append(s, m), Number, accounts)
  BY <1>2, <1>3, RunHears, Zenon
<1>5. /\ DOMAIN response' = Client /\ response'[c] = Append(s, m)
      /\ \A d \in Client \ {c} : response'[d] = response[d]
  BY <1>1, <1>3
<1>6. Carries(c, request[c], Append(s, m))
  BY <1>1, <1>3, <1>5, Zenon DEF Carries
<1> QED BY <1>1, <1>4, <1>6, NodeStep, Zenon

\* Before the first step nothing is on its way.
LEMMA InitOK == Init => ClientInv
<1> SUFFICES ASSUME Init
             PROVE  ClientInv
  OBVIOUS
<1>1. chain = <<Genesis>> /\ accounts = GenesisAccounts
  BY DEF Init
<1>2. /\ IsSeq(chain) /\ chain # << >> /\ Number = 0
  <2>1. /\ chain \in Seq({Genesis}) /\ Len(chain) = 1 /\ chain[1] = Genesis
    BY <1>1
  <2>2. \A i \in DOMAIN chain : chain[i] = Genesis
    BY <1>1
  <2>3. IsSeq(chain)
    BY <1>1, <2>2 DEF IsSeq
  <2> QED BY <2>1, <2>3, GenesisAssumption DEF Number, tip
<1>3. Nonces(accounts)
  <2> SUFFICES ASSUME NEW i \in DOMAIN Key
               PROVE  /\ Key[i] \in DOMAIN GenesisAccounts
                      /\ GenesisAccounts[Key[i]].nonce \in Nat
    BY <1>1, Zenon DEF Nonces
  <2>1. Key[i] \in DOMAIN GenesisAccounts
    BY ClientAssumption
  <2>2. GenesisAccounts[Key[i]] \in Account
    BY ClientAssumption
  <2> QED BY <2>1, <2>2, BoundsAssumption DEF Account
<1>4. ASSUME NEW c \in Client
      PROVE  Here(c)
  <2>1. /\ run[c] = NewRun(c) /\ request[c] = << >> /\ response[c] = << >>
    BY <1>4, Zenon DEF Init
  <2>2. RunOK(c, NewRun(c))
    BY Zenon DEF RunOK, RunFields, BuilderFields, NewRun, NewBuilder
  <2>3. /\ NewRun(c).at = "idle" /\ NewRun(c).start = 0
        /\ NewRun(c).confirmed = 0
    BY DEF NewRun
  <2>4. IsSeq(<< >>) /\ \A i \in DOMAIN << >> : FALSE
    BY DEF IsSeq
  <2>5. BlocksOK(<< >>, 0) /\ BeforeOK(NewRun(c), << >>, << >>, 0)
    BY <2>3, <2>4, Zenon DEF BlocksOK, BeforeOK, Silent
  <2>6. RunInv(c, NewRun(c), << >>, << >>, 0, accounts)
    BY <2>2, <2>3, <2>4, <2>5 DEF RunInv
  <2> QED BY <1>2, <2>1, <2>6, Zenon DEF Here
<1>5. DOMAIN run = Client /\ DOMAIN request = Client /\ DOMAIN response = Client
  BY DEF Init
<1> QED BY <1>2, <1>3, <1>4, <1>5 DEF ClientInv

\* Every step of the runs and of the node keeps the invariant.
LEMMA NextOK == ClientInv /\ [Next]_vars => ClientInv'
<1> SUFFICES ASSUME ClientInv, [Next]_vars
             PROVE  ClientInv'
  OBVIOUS
<1>1. CASE UNCHANGED vars
  BY <1>1, Zenon DEF vars, ClientInv, Here, Number, tip
<1>2. ASSUME NEW c \in Client, Serve(c) \/ Ping(c) \/ ClientStep(c) \/ Timeout(c)
      PROVE  ClientInv'
  BY <1>2, ServeKeeps, PingKeeps, GreetingKeeps, ChainHeadKeeps, SnapshotKeeps,
     ConfirmKeeps, GivingUpKeeps, Zenon DEF ClientStep
<1> QED BY <1>1, <1>2, Zenon DEF Next, Finished

\* For every set of runs, with whatever keys, numbers of blocks and of
\* transactions, in every interleaving with the node and with pings and
\* timeouts: a confirmed run has seen the chain grow by as many blocks as it
\* was confirmed (wait_for_sender_nonces), and no block it sends is above the
\* node's next number (generate_block after set_current_head).
THEOREM HeadNeverBehind == Spec => []HeadKeepsUp
<1>1. ClientInv => HeadKeepsUp
  <2> SUFFICES ASSUME ClientInv, NEW c \in Client
               PROVE  /\ Number >= run[c].start + run[c].confirmed
                      /\ BlocksOK(request[c], Number)
    BY Zenon DEF HeadKeepsUp, BlocksOK, Number
  <2> QED BY Zenon DEF ClientInv, Here, RunInv
<1> QED BY <1>1, InitOK, NextOK, PTL DEF Spec

=============================================================================
