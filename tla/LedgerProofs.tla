---------------------------- MODULE LedgerProofs ----------------------------
(***************************************************************************)
(* The pipeline implements the atomic ledger: whatever block is executed,  *)
(* the executor's two steps per transaction, its journal and its early     *)
(* returns add up to the reference effect of the block, fails only when    *)
(* the reference rejects it, and creates or loses no currency.             *)
(*                                                                         *)
(* The reference folds over the transactions of a block.  The library's    *)
(* induction theorems take an operator; the first lemmas here derive       *)
(* induction and recursion over the naturals, for sets and functions in    *)
(* place of operators, from the well-foundedness of the naturals.          *)
(***************************************************************************)
EXTENDS PipelineLedger, PipelineProofs, FiniteSetTheorems

\* A non-empty set of naturals has a least member.
LEMMA LeastNatural ==
  ASSUME NEW T \in SUBSET Nat, T # {}
  PROVE  \E n \in T : \A m \in T : n <= m
<1> DEFINE less == {pair \in Nat \X Nat : pair[1] < pair[2]}
<1>1. IsWellFoundedOn(less, Nat)
  BY NatLessThanWellFounded DEF OpToRel
<1> HIDE DEF less
<1>2. PICK n \in T : \A m \in T : <<m, n>> \notin less
  BY <1>1, WFMin, ZenonT(30)
<1>3. \A m \in T : m < n => <<m, n>> \in less
  BY DEF less
<1>4. \A m \in T : ~(m < n)
  BY <1>2, <1>3, ZenonT(30)
<1>5. \A m \in T : n <= m
  BY <1>4
<1> QED BY <1>5, ZenonT(30)

\* Induction over the naturals, for a set in place of a predicate.
LEMMA SetInduction ==
  ASSUME NEW S, 0 \in S, \A n \in Nat : n \in S => n + 1 \in S
  PROVE  Nat \subseteq S
<1> SUFFICES ASSUME ~(Nat \subseteq S)
             PROVE  FALSE
  OBVIOUS
<1>1. PICK n \in Nat \ S : \A m \in Nat \ S : n <= m
  BY LeastNatural, ZenonT(60)
<1>2. n # 0 /\ n - 1 \in Nat
  BY <1>1
<1>3. n - 1 \in S
  BY <1>1, <1>2
<1> QED BY <1>1, <1>2, <1>3

\* f starts at `base' and step[i] leads from its value at i - 1 to that at i.
Iterates(f, n, base, step) ==
  /\ f[0] = base
  /\ \A i \in 1..n : f[i] = step[i][f[i - 1]]

\* A step function can be iterated.
LEMMA IterationExists ==
  ASSUME NEW V, NEW base \in V, NEW n \in Nat, NEW step \in [1..n -> [V -> V]]
  PROVE  \E f \in [0..n -> V] : Iterates(f, n, base, step)
<1> DEFINE S == {k \in Nat : k <= n =>
                   \E f \in [0..k -> V] : Iterates(f, k, base, step)}
<1>1. 0 \in S
  <2> DEFINE f == [i \in 0..0 |-> base]
  <2>1. f \in [0..0 -> V] /\ Iterates(f, 0, base, step)
    BY DEF Iterates
  <2> QED BY <2>1
<1>2. ASSUME NEW k \in Nat, k \in S
      PROVE  k + 1 \in S
  <2> SUFFICES ASSUME k + 1 <= n
               PROVE  \E f \in [0..(k + 1) -> V] :
                        Iterates(f, k + 1, base, step)
    OBVIOUS
  <2>1. PICK f \in [0..k -> V] : Iterates(f, k, base, step)
    BY <1>2
  <2> DEFINE g == [i \in 0..(k + 1) |->
                     IF i = k + 1 THEN step[k + 1][f[k]] ELSE f[i]]
  <2>2. k + 1 \in 1..n /\ k \in 0..k
    OBVIOUS
  <2>3. step[k + 1][f[k]] \in V
    BY <2>1, <2>2
  <2>4. g \in [0..(k + 1) -> V]
    BY <2>1, <2>3
  <2>5. Iterates(g, k + 1, base, step)
    BY <2>1 DEF Iterates
  <2> QED BY <2>4, <2>5
<1> HIDE DEF S
<1>3. Nat \subseteq S
  BY <1>1, <1>2, SetInduction, Zenon
<1> QED BY <1>3 DEF S

\* A function that follows the steps from `base' has values in V.
LEMMA IterationType ==
  ASSUME NEW V, NEW n \in Nat, NEW g, g[0] \in V,
         \A i \in 1..n : g[i - 1] \in V => g[i] \in V
  PROVE  \A i \in 0..n : g[i] \in V
<1> DEFINE S == {k \in Nat : k <= n => g[k] \in V}
<1>1. 0 \in S
  OBVIOUS
<1>2. ASSUME NEW k \in Nat, k \in S
      PROVE  k + 1 \in S
  <2> SUFFICES ASSUME k + 1 <= n
               PROVE  g[k + 1] \in V
    OBVIOUS
  <2>1. k + 1 \in 1..n /\ (k + 1) - 1 = k /\ g[k] \in V
    BY <1>2
  <2> QED BY <2>1
<1> HIDE DEF S
<1>3. Nat \subseteq S
  BY <1>1, <1>2, SetInduction, Zenon
<1> QED BY <1>3 DEF S

-----------------------------------------------------------------------------
\* The transactions of a block and their fields have their types.
LEMMA BodyFields ==
  ASSUME NEW b \in Block
  PROVE  /\ Len(b.transactions) \in Nat
         /\ \A i \in 1..Len(b.transactions) :
              /\ b.transactions[i] \in Transaction
              /\ b.transactions[i].gas_limit \in Nat
<1>1. b.transactions \in Seq(Transaction)
  BY BlockFields
<1>2. \A i \in 1..Len(b.transactions) : b.transactions[i] \in Transaction
  BY <1>1
<1>3. \A tx \in Transaction : tx.gas_limit \in Nat
  BY BoundsAssumption DEF Transaction
<1> QED BY <1>1, <1>2, <1>3

\* The gas of the first transactions of a block meets its recursive equation.
LEMMA GasOfSteps ==
  ASSUME NEW b \in Block
  PROVE  /\ \A i \in 0..Len(b.transactions) : Reference!GasOf(b)[i] \in Nat
         /\ Reference!GasOf(b)[0] = 0
         /\ \A i \in 1..Len(b.transactions) :
              Reference!GasOf(b)[i] =
                Reference!GasOf(b)[i - 1] + b.transactions[i].gas_limit
<1> DEFINE n == Len(b.transactions)
           gas(i) == b.transactions[i].gas_limit
           step == [i \in 1..n |-> [v \in Nat |-> v + gas(i)]]
           Rec(f) == f = [i \in 0..n |-> IF i = 0 THEN 0 ELSE f[i - 1] + gas(i)]
           G == Reference!GasOf(b)
<1>1. G = CHOOSE f : Rec(f)
  BY DEF Reference!GasOf
<1>2. n \in Nat /\ \A i \in 1..n : gas(i) \in Nat
  BY BodyFields
<1> HIDE DEF n, gas, G
<1>3. step \in [1..n -> [Nat -> Nat]]
  BY <1>2
<1>4. PICK f \in [0..n -> Nat] : Iterates(f, n, 0, step)
  <2> HIDE DEF step
  <2> QED BY <1>2, <1>3, IterationExists, ZenonT(60)
<1>5. Rec(f)
  <2>1. f[0] = 0 /\ \A i \in 1..n : f[i] = step[i][f[i - 1]]
    BY <1>4 DEF Iterates
  <2>2. ASSUME NEW i \in 1..n
        PROVE  f[i] = f[i - 1] + gas(i)
    <3>1. i - 1 \in 0..n /\ f[i - 1] \in Nat
      BY <1>2
    <3> QED BY <2>1, <3>1, ZenonT(60)
  <2> QED BY <1>2, <2>1, <2>2
<1>6. Rec(G)
  <2> HIDE DEF Rec
  <2> QED BY <1>1, <1>5
<1>7. G[0] = 0 /\ \A i \in 1..n : G[i] = G[i - 1] + gas(i)
  <2>1. \A i \in 0..n : G[i] = IF i = 0 THEN 0 ELSE G[i - 1] + gas(i)
    BY <1>6, Zenon
  <2> QED BY <1>2, <2>1
<1>8. \A i \in 0..n : G[i] \in Nat
  <2>1. G[0] \in Nat /\ \A i \in 1..n : G[i - 1] \in Nat => G[i] \in Nat
    BY <1>2, <1>7
  <2> QED BY <1>2, <2>1, IterationType, ZenonT(60)
<1> QED BY <1>7, <1>8 DEF n, gas, G

\* A transaction whose sender was recovered.
Signed == {tx \in Transaction : tx.sender \in Address}

\* The fields of a transaction are naturals.
LEMMA TxFields ==
  ASSUME NEW tx \in Signed
  PROVE  /\ tx \in Transaction /\ tx.sender \in Address
         /\ tx.to \in Address \cup {NoAddress}
         /\ tx.nonce \in 0..MAX_U64 /\ tx.nonce \in Nat
         /\ tx.fee_cap \in Nat /\ tx.priority \in Nat /\ tx.gas_limit \in Nat
         /\ tx.value \in 0..MAX_U128 /\ tx.value \in Nat
BY BoundsAssumption DEF Signed, Transaction

\* An account's fields are naturals.
LEMMA AccountFields ==
  ASSUME NEW account \in Account
  PROVE  /\ account = [balance |-> account.balance, nonce |-> account.nonce]
         /\ account.balance \in 0..MAX_U128 /\ account.balance \in Nat
         /\ account.nonce \in 0..MAX_U64 /\ account.nonce \in Nat
BY BoundsAssumption DEF Account

\* The price of the reference is the one of effective_gas_price.
LEMMA PriceAgrees ==
  ASSUME NEW tx \in Signed, NEW base_fee \in Nat
  PROVE  Reference!Price(tx, base_fee) = effective_gas_price(tx, base_fee)
<1>1. tx.fee_cap \in Nat /\ base_fee + tx.priority \in Nat
  BY TxFields
<1> QED BY <1>1 DEF Reference!Price, effective_gas_price

\* What the sender is charged is natural and at most the worst case cost.
LEMMA FeeBounded ==
  ASSUME NEW tx \in Signed, NEW base_fee \in Nat,
         effective_gas_price_error(tx, base_fee) = "Ok"
  PROVE  /\ Reference!Price(tx, base_fee) * tx.gas_limit \in Nat
         /\ charge(tx, base_fee)
              = Reference!Price(tx, base_fee) * tx.gas_limit + tx.value
         /\ charge(tx, base_fee) \in Nat
         /\ charge(tx, base_fee) <= max_cost(tx)
         /\ max_cost(tx) \in Nat
<1>1. tx \in Transaction /\ tx.fee_cap \in Nat /\ tx.gas_limit \in Nat
      /\ tx.value \in Nat
  BY TxFields
<1>2. /\ effective_gas_price(tx, base_fee) \in 0..tx.fee_cap
      /\ charge(tx, base_fee) \in Nat
      /\ charge(tx, base_fee) <= max_cost(tx)
  BY <1>1, ChargeBounded
<1>3. effective_gas_price(tx, base_fee) * tx.gas_limit \in Nat
  BY <1>1, <1>2, Product
<1>4. tx.fee_cap * tx.gas_limit \in Nat
  BY <1>1, Product
<1> QED BY <1>1, <1>2, <1>3, <1>4, PriceAgrees DEF charge, max_cost

\* The checks of the executor, in their order, are the reference condition.
LEMMA ChecksAgree ==
  ASSUME state \in Accounts, NEW tx \in Signed, NEW base_fee \in Nat
  PROVE  debit_error(tx, base_fee) = "Ok" <=>
           Reference!Applicable(state, tx, base_fee)
<1> DEFINE account == state[tx.sender]
           price_error == effective_gas_price_error(tx, base_fee)
           cost == charge(tx, base_fee)
           worst == max_cost(tx)
<1>1. /\ tx.sender \in Address /\ tx.nonce \in Nat /\ tx.fee_cap \in Nat
      /\ tx.priority \in Nat
  BY TxFields
<1>2. account # NoAccount =>
        account.balance \in Nat /\ account.balance <= MAX_U128
          /\ account.nonce \in Nat
  BY <1>1, AccountFields, BoundsAssumption DEF Accounts
<1>3. price_error = "Ok" <=>
        (tx.kind # "Legacy" => /\ base_fee <= tx.fee_cap
                               /\ base_fee + tx.priority <= MAX_U128)
  BY <1>1, BoundsAssumption DEF effective_gas_price_error
<1>4. price_error = "Ok" => cost \in Nat /\ cost <= worst /\ worst \in Nat
  BY FeeBounded, Zenon
<1>5. debit_error(tx, base_fee) = "Ok" <=>
        /\ account # NoAccount /\ tx.nonce = account.nonce
        /\ ~(worst > MAX_U128) /\ ~(worst > account.balance)
        /\ price_error = "Ok"
        /\ ~(cost > MAX_U128) /\ ~(cost > account.balance)
        /\ ~(account.nonce + 1 > MAX_U64)
  BY DEF debit_error
<1>6. Reference!Applicable(state, tx, base_fee) <=>
        /\ account # NoAccount /\ tx.nonce = account.nonce
        /\ tx.nonce < MAX_U64
        /\ worst <= account.balance
        /\ price_error = "Ok"
  BY <1>3, Zenon DEF Reference!Applicable, Reference!Fits, max_cost
<1> HIDE DEF account, price_error, cost, worst
<1> QED BY <1>1, <1>2, <1>4, <1>5, <1>6, BoundsAssumption

\* Charging an applicable transaction leaves an account state.
LEMMA ChargedType ==
  ASSUME NEW l \in Accounts, NEW tx \in Signed, NEW base_fee \in Nat,
         Reference!Applicable(l, tx, base_fee)
  PROVE  /\ l[tx.sender] \in Account
         /\ charge(tx, base_fee) \in Nat
         /\ charge(tx, base_fee) <= l[tx.sender].balance
         /\ Reference!Charged(l, tx, base_fee) =
              [l EXCEPT ![tx.sender] =
                 [balance |-> l[tx.sender].balance - charge(tx, base_fee),
                  nonce   |-> l[tx.sender].nonce + 1]]
         /\ Reference!Charged(l, tx, base_fee) \in Accounts
<1> DEFINE account == l[tx.sender]
           cost == charge(tx, base_fee)
           fee == Reference!Price(tx, base_fee) * tx.gas_limit
           info == [balance |-> account.balance - cost, nonce |-> account.nonce + 1]
<1>1. tx.sender \in Address /\ tx.nonce \in Nat /\ tx.value \in Nat
  BY TxFields
<1>2. /\ account # NoAccount /\ account.nonce = tx.nonce /\ tx.nonce < MAX_U64
      /\ max_cost(tx) <= account.balance
      /\ tx.kind # "Legacy" => /\ base_fee <= tx.fee_cap
                               /\ base_fee + tx.priority <= MAX_U128
  BY DEF Reference!Applicable, Reference!Fits, max_cost
<1>3. account \in Account
  BY <1>1, <1>2, Zenon DEF Accounts
<1>4. effective_gas_price_error(tx, base_fee) = "Ok"
  BY <1>2, TxFields, BoundsAssumption DEF effective_gas_price_error
<1>5. /\ fee \in Nat /\ cost = fee + tx.value /\ cost \in Nat
      /\ cost <= max_cost(tx) /\ max_cost(tx) \in Nat
  BY <1>4, FeeBounded, Zenon
<1>6. /\ account.balance \in Nat /\ account.balance <= MAX_U128
      /\ account.nonce \in Nat
  BY <1>3, AccountFields, BoundsAssumption
<1>7. Reference!Charged(l, tx, base_fee) =
        [l EXCEPT ![tx.sender] = [balance |-> account.balance - fee - tx.value,
                                  nonce   |-> account.nonce + 1]]
  BY <1>1 DEF Reference!Charged, Accounts
<1> HIDE DEF cost, fee, account
<1>8. account.balance - fee - tx.value = account.balance - cost
  BY <1>1, <1>5, <1>6
<1>9. cost <= account.balance
  BY <1>2, <1>5, <1>6
<1>10. info \in Account
  BY <1>1, <1>2, <1>5, <1>6, <1>9, BoundsAssumption DEF Account
<1>11. [l EXCEPT ![tx.sender] = info] \in Accounts
  <2> HIDE DEF info
  <2> QED BY <1>10, ZenonT(60) DEF Accounts
<1> QED BY <1>3, <1>5, <1>7, <1>8, <1>9, <1>11, ZenonT(60) DEF account, cost

\* The recipient's account, a new one when there is none.
Recipient(l, tx) == IF l[tx.to] = NoAccount THEN DefaultAccount ELSE l[tx.to]

\* Paying the recipient writes its account with the value added.
LEMMA PaidWrites ==
  ASSUME NEW l \in Accounts, NEW tx \in Signed, tx.to # NoAddress
  PROVE  /\ tx.to \in Address
         /\ Recipient(l, tx) \in Account
         /\ Reference!Paid(l, tx) =
              [l EXCEPT ![tx.to] =
                 [balance |-> Recipient(l, tx).balance + tx.value,
                  nonce   |-> Recipient(l, tx).nonce]]
         /\ Reference!Paid(l, tx)[tx.to].balance
              = Recipient(l, tx).balance + tx.value
         /\ Recipient(l, tx).balance + tx.value <= MAX_U128 =>
              Reference!Paid(l, tx) \in Accounts
<1> DEFINE r == Recipient(l, tx)
           info == [balance |-> r.balance + tx.value, nonce |-> r.nonce]
<1>1. tx.to \in Address /\ tx.value \in Nat
  BY TxFields
<1>2. r \in Account
  BY <1>1, BoundsAssumption DEF Recipient, Accounts, DefaultAccount, Account
<1>3. /\ r = [balance |-> r.balance, nonce |-> r.nonce]
      /\ r.balance \in Nat /\ r.nonce \in 0..MAX_U64
  BY <1>2, AccountFields, Zenon
<1>4. Reference!Paid(l, tx) = [l EXCEPT ![tx.to] = info]
  <2>1. CASE l[tx.to] = NoAccount
    <3>1. r = [balance |-> 0, nonce |-> 0]
      BY <2>1 DEF Recipient, DefaultAccount
    <3>2. info = [balance |-> tx.value, nonce |-> 0]
      BY <1>1, <3>1
    <3> QED BY <1>1, <2>1, <3>2, ZenonT(60) DEF Reference!Paid, Accounts
  <2>2. CASE l[tx.to] # NoAccount
    <3>1. r = l[tx.to]
      BY <2>2 DEF Recipient
    <3> QED BY <1>1, <2>2, <3>1, Zenon DEF Reference!Paid, Accounts
  <2> QED BY <2>1, <2>2
<1>5. r.balance + tx.value <= MAX_U128 => info \in Account
  BY <1>1, <1>3, BoundsAssumption DEF Account
<1>6. r.balance + tx.value <= MAX_U128 => [l EXCEPT ![tx.to] = info] \in Accounts
  <2> HIDE DEF info, r
  <2> QED BY <1>5, ZenonT(60) DEF Accounts
<1>7. [l EXCEPT ![tx.to] = info][tx.to].balance = r.balance + tx.value
  BY <1>1 DEF Accounts
<1> QED BY <1>1, <1>2, <1>4, <1>6, <1>7, Zenon

\* A transaction leads from an account state to an account state or to
\* rejection.
LEMMA ApplyTxType ==
  ASSUME NEW l \in Accounts \cup {Rejected}, NEW tx \in Signed,
         NEW base_fee \in Nat
  PROVE  Reference!ApplyTx(l, tx, base_fee) \in Accounts \cup {Rejected}
<1>1. CASE \/ l = Rejected \/ tx.to = NoAddress
           \/ ~Reference!Applicable(l, tx, base_fee)
           \/ ~Reference!Fits(Reference!Transfer(l, tx, base_fee)[tx.to].balance)
  BY <1>1 DEF Reference!ApplyTx
<1>2. CASE /\ l # Rejected /\ tx.to # NoAddress
           /\ Reference!Applicable(l, tx, base_fee)
           /\ Reference!Fits(Reference!Transfer(l, tx, base_fee)[tx.to].balance)
  <2> DEFINE c == Reference!Charged(l, tx, base_fee)
  <2>1. c \in Accounts
    BY <1>2, ChargedType, ZenonT(60)
  <2>2. Reference!Transfer(l, tx, base_fee) = Reference!Paid(c, tx)
    BY DEF Reference!Transfer
  <2>3. Reference!Paid(c, tx)[tx.to].balance <= MAX_U128
    BY <1>2, <2>2 DEF Reference!Fits
  <2> HIDE DEF c
  <2>4. Reference!Paid(c, tx) \in Accounts
    BY <1>2, <2>1, <2>3, PaidWrites, ZenonT(60)
  <2> QED BY <1>2, <2>2, <2>4 DEF Reference!ApplyTx
<1> QED BY <1>1, <1>2

-----------------------------------------------------------------------------
BaseFee(b) == b.header.gas_limit \div 2

\* A block that reaches the pipeline: every sender was recovered.
LEMMA SignedBody ==
  ASSUME NEW b \in Block, senders_recovered(b)
  PROVE  /\ BaseFee(b) \in Nat
         /\ \A i \in 1..Len(b.transactions) : b.transactions[i] \in Signed
<1>1. b.header.gas_limit \in 0..MAX_U64 /\ b.transactions \in Seq(Transaction)
  BY BlockFields
<1>2. BaseFee(b) \in Nat
  BY <1>1, BoundsAssumption DEF BaseFee
<1>3. ASSUME NEW i \in 1..Len(b.transactions)
      PROVE  b.transactions[i] \in Signed
  <2>1. b.transactions[i] \in Transaction /\ i \in DOMAIN b.transactions
    BY <1>1
  <2>2. b.transactions[i].sender # NoAddress
    BY <2>1 DEF senders_recovered
  <2> QED BY <2>1, <2>2, Zenon DEF Signed, Transaction
<1> QED BY <1>2, <1>3

\* The reference ledgers of a block meet their recursive equation.
LEMMA LedgersOfSteps ==
  ASSUME NEW b \in Block, senders_recovered(b), NEW l \in Accounts
  PROVE  /\ \A i \in 0..Len(b.transactions) :
              Reference!LedgersOf(l, b)[i] \in Accounts \cup {Rejected}
         /\ Reference!LedgersOf(l, b)[0] = l
         /\ \A i \in 1..Len(b.transactions) :
              Reference!LedgersOf(l, b)[i] =
                Reference!ApplyTx(Reference!LedgersOf(l, b)[i - 1],
                                  b.transactions[i], BaseFee(b))
<1> DEFINE n == Len(b.transactions)
           V == Accounts \cup {Rejected}
           apply(v, i) == Reference!ApplyTx(v, b.transactions[i], BaseFee(b))
           step == [i \in 1..n |-> [v \in V |-> apply(v, i)]]
           Rec(f) == f = [i \in 0..n |-> IF i = 0 THEN l ELSE apply(f[i - 1], i)]
           L == Reference!LedgersOf(l, b)
<1>1. L = CHOOSE f : Rec(f)
  BY DEF Reference!LedgersOf, BaseFee
<1>2. n \in Nat /\ l \in V
  BY BodyFields
<1>3. \A i \in 1..n : \A v \in V : apply(v, i) \in V
  BY SignedBody, ApplyTxType
<1> HIDE DEF n, V, apply, L
<1>4. step \in [1..n -> [V -> V]]
  BY <1>3
<1>5. PICK f \in [0..n -> V] : Iterates(f, n, l, step)
  <2> HIDE DEF step
  <2> QED BY <1>2, <1>4, IterationExists
<1>6. Rec(f)
  <2>1. f[0] = l /\ \A i \in 1..n : f[i] = step[i][f[i - 1]]
    BY <1>5 DEF Iterates
  <2>2. ASSUME NEW i \in 1..n
        PROVE  f[i] = apply(f[i - 1], i)
    <3>1. i - 1 \in 0..n /\ f[i - 1] \in V
      BY <1>2
    <3> QED BY <2>1, <3>1, ZenonT(60)
  <2> QED BY <1>2, <2>1, <2>2
<1>7. Rec(L)
  <2> HIDE DEF Rec
  <2> QED BY <1>1, <1>6, Zenon
<1>8. L[0] = l /\ \A i \in 1..n : L[i] = apply(L[i - 1], i)
  <2>1. \A i \in 0..n : L[i] = IF i = 0 THEN l ELSE apply(L[i - 1], i)
    BY <1>7, Zenon
  <2> QED BY <1>2, <2>1
<1>9. \A i \in 0..n : L[i] \in V
  <2>1. L[0] \in V /\ \A i \in 1..n : L[i - 1] \in V => L[i] \in V
    BY <1>2, <1>3, <1>8
  <2> QED BY <1>2, <2>1, IterationType, ZenonT(60)
<1> QED BY <1>8, <1>9 DEF n, V, apply, L

\* The gas of a block is at least that of its first transactions.
LEMMA GasGrows ==
  ASSUME NEW b \in Block, NEW k \in 0..Len(b.transactions)
  PROVE  Reference!GasOf(b)[k] <= Reference!GasOf(b)[Len(b.transactions)]
<1> DEFINE n == Len(b.transactions)
           G == Reference!GasOf(b)
           V == {v \in Nat : G[k] <= v}
           g == [j \in 0..(n - k) |-> G[k + j]]
<1>1. n \in Nat /\ \A i \in 1..n : b.transactions[i].gas_limit \in Nat
  BY BodyFields
<1>2. /\ \A i \in 0..n : G[i] \in Nat
      /\ \A i \in 1..n : G[i] = G[i - 1] + b.transactions[i].gas_limit
  BY GasOfSteps
<1> HIDE DEF n, G
<1>3. k \in 0..n /\ n - k \in Nat
  BY <1>1 DEF n
<1>4. g[0] \in V
  BY <1>2, <1>3
<1>5. ASSUME NEW j \in 1..(n - k), g[j - 1] \in V
      PROVE  g[j] \in V
  <2>1. /\ k + j \in 1..n /\ (k + j) - 1 = k + (j - 1)
        /\ j \in 0..(n - k) /\ j - 1 \in 0..(n - k)
    BY <1>1, <1>3
  <2>2. G[k + j] = G[k + (j - 1)] + b.transactions[k + j].gas_limit
    BY <1>2, <2>1
  <2>3. G[k + (j - 1)] \in Nat /\ G[k] <= G[k + (j - 1)]
    BY <1>5, <2>1
  <2>4. G[k + j] \in Nat /\ G[k] <= G[k + j]
    <3> DEFINE low == G[k]
               before == G[k + (j - 1)]
               gas == b.transactions[k + j].gas_limit
    <3>1. gas \in Nat /\ low \in Nat /\ before \in Nat /\ low <= before
      BY <1>1, <1>2, <1>3, <2>1, <2>3
    <3>2. G[k + j] = before + gas
      BY <2>2
    <3> HIDE DEF low, before, gas
    <3>3. before + gas \in Nat /\ low <= before + gas
      BY <3>1
    <3> QED BY <3>2, <3>3, Zenon DEF low
  <2> QED BY <2>1, <2>4
<1> HIDE DEF g, V
<1>6. g[n - k] \in V
  <2>1. \A j \in 0..(n - k) : g[j] \in V
    BY <1>3, <1>4, <1>5, IterationType, ZenonT(60)
  <2> QED BY <1>3, <2>1
<1> QED BY <1>3, <1>6 DEF g, V, n, G

\* Once a transaction is rejected the block is.
LEMMA RejectionStays ==
  ASSUME NEW b \in Block, senders_recovered(b), NEW l \in Accounts,
         NEW k \in 0..Len(b.transactions),
         Reference!LedgersOf(l, b)[k] = Rejected
  PROVE  Reference!ApplyBlock(l, b) = Rejected
<1> DEFINE n == Len(b.transactions)
           L == Reference!LedgersOf(l, b)
           V == {Rejected}
           g == [j \in 0..(n - k) |-> L[k + j]]
<1>1. n \in Nat
  BY BodyFields, Zenon
<1>2. \A i \in 1..n : L[i - 1] = Rejected => L[i] = Rejected
  BY LedgersOfSteps DEF Reference!ApplyTx
<1> HIDE DEF n, L
<1>3. k \in 0..n /\ n - k \in Nat /\ L[k] = Rejected
  BY <1>1 DEF n, L
<1>4. g[0] \in V
  BY <1>3
<1>5. ASSUME NEW j \in 1..(n - k), g[j - 1] \in V
      PROVE  g[j] \in V
  <2>1. /\ k + j \in 1..n /\ (k + j) - 1 = k + (j - 1)
        /\ j \in 0..(n - k) /\ j - 1 \in 0..(n - k)
    BY <1>1, <1>3
  <2> QED BY <1>2, <1>5, <2>1
<1> HIDE DEF g, V
<1>6. g[n - k] \in V
  <2>1. \A j \in 0..(n - k) : g[j] \in V
    BY <1>3, <1>4, <1>5, IterationType, ZenonT(60)
  <2> QED BY <1>3, <2>1
<1>7. L[n] = Rejected
  <2>1. k + (n - k) = n /\ n - k \in 0..(n - k)
    BY <1>1, <1>3
  <2> QED BY <1>6, <2>1 DEF g, V
<1> QED BY <1>7 DEF L, n, Reference!ApplyBlock

-----------------------------------------------------------------------------
\* The reference ledger after the transactions that have a receipt.
Before == Reference!LedgersOf(PreState, block)[Len(receipts)]

\* How far the executor is, in terms of the reference: between two
\* transactions the accounts are the reference ledger, after a debit the
\* sender has been charged, and the counter holds the gas so far.
LedgerInv ==
  /\ phase \in {"debit", "done"} => state = Before
  /\ phase = "credit" =>
       /\ Before \in Accounts
       /\ Reference!Applicable(Before, signed_tx, base_fee_per_gas)
       /\ state = Reference!Charged(Before, signed_tx, base_fee_per_gas)
  /\ phase \in {"debit", "credit", "done"} =>
       cumulative_gas_used = Reference!GasOf(block)[Len(receipts)]
  /\ RejectionsJustified

\* What is known while a transaction runs.
LEMMA Running ==
  ASSUME PipelineInv, phase \in {"debit", "credit"}
  PROVE  /\ block \in Block /\ senders_recovered(block)
         /\ state \in Accounts /\ PreState \in Accounts
         /\ Len(receipts) \in Nat
         /\ Len(receipts) + 1 \in 1..Len(block.transactions)
         /\ signed_tx \in Signed
         /\ base_fee_per_gas = BaseFee(block) /\ base_fee_per_gas \in Nat
         /\ Reference!LedgersOf(PreState, block)[Len(receipts) + 1] =
              Reference!ApplyTx(Before, signed_tx, base_fee_per_gas)
         /\ Reference!GasOf(block)[Len(receipts) + 1] =
              Reference!GasOf(block)[Len(receipts)] + signed_tx.gas_limit
<1> DEFINE k == Len(receipts)
<1>1. /\ block \in Block /\ receipts \in Seq(Receipt)
      /\ state \in Accounts
      /\ journal \in [open : BOOLEAN,
                      accounts : [Address -> Account \cup {NoAccount, Unsaved}]]
  BY DEF PipelineInv, PipelineTypeOK, Accounts
<1>2. senders_recovered(block) /\ k < Len(block.transactions)
  BY DEF PipelineInv, LoopOK
<1>3. PreState \in Accounts
  BY <1>1 DEF PreState, Accounts
<1>4. k \in Nat /\ k + 1 \in 1..Len(block.transactions) /\ (k + 1) - 1 = k
  BY <1>1, <1>2, BodyFields
<1>5. signed_tx \in Signed /\ base_fee_per_gas \in Nat
  BY RunningTx, Zenon DEF Signed
<1>6. base_fee_per_gas = BaseFee(block) /\ signed_tx = block.transactions[k + 1]
  BY Zenon DEF base_fee_per_gas, BaseFee, signed_tx
<1>7. Reference!LedgersOf(PreState, block)[k + 1] =
        Reference!ApplyTx(Before, signed_tx, base_fee_per_gas)
  BY <1>1, <1>2, <1>3, <1>4, <1>6, LedgersOfSteps DEF Before
<1>8. Reference!GasOf(block)[k + 1] =
        Reference!GasOf(block)[k] + signed_tx.gas_limit
  BY <1>1, <1>4, <1>6, GasOfSteps, Zenon
<1> QED BY <1>1, <1>2, <1>3, <1>4, <1>5, <1>6, <1>7, <1>8

\* Leaving the loop is justified by a rejected transaction or by the gas.
LEMMA FailureJustified ==
  ASSUME PipelineInv, phase \in {"debit", "credit"},
         PreState' = PreState, block' = block, phase' = "failed",
         \/ Reference!ApplyTx(Before, signed_tx, base_fee_per_gas) = Rejected
         \/ Reference!GasOf(block)[Len(receipts) + 1] > MAX_U64
  PROVE  LedgerInv'
<1> DEFINE k == Len(receipts)
           n == Len(block.transactions)
<1>1. /\ block \in Block /\ senders_recovered(block) /\ PreState \in Accounts
      /\ k + 1 \in 0..n
      /\ Reference!LedgersOf(PreState, block)[k + 1] =
           Reference!ApplyTx(Before, signed_tx, base_fee_per_gas)
  BY Running
<1>2. Reference!ApplyBlock(PreState, block) = Rejected
  <2>1. CASE Reference!ApplyTx(Before, signed_tx, base_fee_per_gas) = Rejected
    BY <1>1, <2>1, RejectionStays
  <2>2. CASE Reference!GasOf(block)[k + 1] > MAX_U64
    <3>1. Reference!GasOf(block)[k + 1] <= Reference!GasOf(block)[n]
      BY <1>1, GasGrows
    <3>2. /\ Reference!GasOf(block)[k + 1] \in Nat
          /\ Reference!GasOf(block)[n] \in Nat
      BY <1>1, GasOfSteps, BodyFields
    <3>3. Reference!GasOf(block)[n] > MAX_U64
      BY <2>2, <3>1, <3>2, BoundsAssumption
    <3> QED BY <3>3 DEF Reference!ApplyBlock
  <2> QED BY <2>1, <2>2
<1>3. RejectionsJustified'
  BY <1>2, Zenon DEF RejectionsJustified
<1> QED BY <1>3 DEF LedgerInv

\* A step of the executor follows the reference.
LEMMA ExecutorFollowsLedger ==
  ASSUME PipelineInv, LedgerInv, ExecutorStep
  PROVE  LedgerInv'
<1> DEFINE k == Len(receipts)
           fee == base_fee_per_gas
           tx == signed_tx
<1>1. phase \in {"debit", "credit"} /\ block' = block
  BY DEF ExecutorStep, DebitFails, Debit, CreditPanics, CreditFails, Credit, Fail
<1>2. PreState' = PreState
  BY ExecutorStepOK, Zenon
<1>3. /\ state \in Accounts /\ PreState \in Accounts
      /\ k \in Nat /\ k + 1 \in 1..Len(block.transactions)
      /\ tx \in Signed /\ fee \in Nat
      /\ Reference!LedgersOf(PreState, block)[k + 1] =
           Reference!ApplyTx(Before, tx, fee)
      /\ Reference!GasOf(block)[k + 1] =
           Reference!GasOf(block)[k] + tx.gas_limit
  BY <1>1, Running, Zenon
<1>4. cumulative_gas_used = Reference!GasOf(block)[k]
  BY <1>1 DEF LedgerInv
<1>5. state # Rejected
  BY <1>3, LedgerAssumption DEF Accounts
<1>6. CASE DebitFails
  <2>1. state = Before /\ debit_error(tx, fee) # "Ok" /\ phase' = "failed"
    BY <1>6 DEF DebitFails, Fail, LedgerInv
  <2>2. ~Reference!Applicable(Before, tx, fee)
    BY <1>3, <2>1, ChecksAgree
  <2>3. Reference!ApplyTx(Before, tx, fee) = Rejected
    BY <2>2 DEF Reference!ApplyTx
  <2> QED BY <1>1, <1>2, <2>1, <2>3, FailureJustified
<1>7. CASE Debit
  <2>1. /\ state = Before /\ debit_error(tx, fee) = "Ok" /\ phase' = "credit"
        /\ receipts' = receipts /\ cumulative_gas_used' = cumulative_gas_used
        /\ state' = [state EXCEPT ![tx.sender] =
                       [balance |-> state[tx.sender].balance - charge(tx, fee),
                        nonce   |-> state[tx.sender].nonce + 1]]
    BY <1>7 DEF Debit, LedgerInv, set_account
  <2>2. Reference!Applicable(Before, tx, fee)
    BY <1>3, <2>1, ChecksAgree
  <2>3. state' = Reference!Charged(Before, tx, fee)
    BY <1>3, <2>1, <2>2, ChargedType
  <2>4. Before' = Before /\ signed_tx' = tx /\ base_fee_per_gas' = fee
    BY <1>1, <1>2, <2>1, ZenonT(60) DEF Before, signed_tx, base_fee_per_gas
  <2>5. cumulative_gas_used' = Reference!GasOf(block')[Len(receipts')]
    BY <1>1, <1>4, <2>1
  <2>6. RejectionsJustified'
    BY <2>1 DEF RejectionsJustified
  <2> HIDE DEF tx, fee
  <2>7. Reference!Applicable(Before', signed_tx', base_fee_per_gas')
    BY <2>2, <2>4
  <2>8. state' = Reference!Charged(Before', signed_tx', base_fee_per_gas')
    BY <2>3, <2>4
  <2>9. Before' \in Accounts
    BY <1>3, <2>1, <2>4
  <2> QED BY <2>1, <2>5, <2>6, <2>7, <2>8, <2>9 DEF LedgerInv
<1>8. CASE CreditPanics
  <2>1. phase' = "panicked"
    BY <1>8 DEF CreditPanics
  <2> QED BY <2>1 DEF LedgerInv, RejectionsJustified
<1>9. ASSUME phase = "credit", tx.to # NoAddress
      PROVE  /\ recipient = Recipient(state, tx)
             /\ Reference!ApplyTx(Before, tx, fee) =
                  IF recipient.balance + tx.value <= MAX_U128
                  THEN Reference!Paid(state, tx) ELSE Rejected
  <2>1. /\ Before \in Accounts /\ Reference!Applicable(Before, tx, fee)
        /\ state = Reference!Charged(Before, tx, fee)
    BY <1>9 DEF LedgerInv
  <2>2. recipient = Recipient(state, tx)
    BY DEF recipient, Recipient
  <2>3. Reference!Transfer(Before, tx, fee) = Reference!Paid(state, tx)
    BY <2>1 DEF Reference!Transfer
  <2>4. Reference!Paid(state, tx)[tx.to].balance = recipient.balance + tx.value
    BY <1>3, <1>9, <2>2, PaidWrites, ZenonT(60)
  <2>5. Before # Rejected
    BY <2>1, LedgerAssumption DEF Accounts
  <2> QED BY <1>9, <2>1, <2>2, <2>3, <2>4, <2>5
          DEF Reference!ApplyTx, Reference!Fits
<1>10. CASE CreditFails
  <2>1. /\ phase = "credit" /\ tx.to # NoAddress /\ phase' = "failed"
        /\ recipient.balance + tx.value > MAX_U128
    BY <1>10 DEF CreditFails, Fail
  <2>2. recipient.balance + tx.value \in Nat
    <3>1. recipient \in Account
      BY <1>3, <1>9, <2>1, PaidWrites, ZenonT(60)
    <3>2. recipient.balance \in Nat /\ tx.value \in Nat
      BY <1>3, <3>1, AccountFields, TxFields, Zenon
    <3> QED BY <3>2
  <2>3. ~(recipient.balance + tx.value <= MAX_U128)
    BY <2>1, <2>2, BoundsAssumption
  <2>4. Reference!ApplyTx(Before, tx, fee) = Rejected
    BY <1>9, <2>1, <2>3
  <2> QED BY <1>1, <1>2, <2>1, <2>4, FailureJustified
<1>11. CASE Credit
  <2>1. /\ phase = "credit" /\ tx.to # NoAddress
        /\ recipient.balance + tx.value <= MAX_U128
        /\ state' = [state EXCEPT ![tx.to] =
                       [recipient EXCEPT !.balance = @ + tx.value]]
    BY <1>11 DEF Credit, set_account
  <2>2. /\ recipient \in Account /\ tx.to \in Address
        /\ Reference!Paid(state, tx) =
             [state EXCEPT ![tx.to] = [balance |-> recipient.balance + tx.value,
                                       nonce   |-> recipient.nonce]]
    BY <1>3, <1>9, <2>1, PaidWrites
  <2>3. [recipient EXCEPT !.balance = @ + tx.value]
          = [balance |-> recipient.balance + tx.value, nonce |-> recipient.nonce]
    BY <2>2, AccountFields
  <2>4. state' = Reference!LedgersOf(PreState, block)[k + 1]
    BY <1>3, <1>9, <2>1, <2>2, <2>3, Zenon
  <2>5. CASE cumulative_gas_used + tx.gas_limit > MAX_U64
    <3>1. phase' = "failed"
      BY <1>11, <2>5 DEF Credit, Fail
    <3>2. Reference!GasOf(block)[k + 1] > MAX_U64
      BY <1>3, <1>4, <2>5
    <3> QED BY <1>1, <1>2, <3>1, <3>2, FailureJustified, Zenon
  <2>6. CASE ~(cumulative_gas_used + tx.gas_limit > MAX_U64)
    <3>1. /\ cumulative_gas_used' = cumulative_gas_used + tx.gas_limit
          /\ phase' \in {"debit", "done"}
          /\ \E r : receipts' = Append(receipts, r)
      BY <1>11, <2>6 DEF Credit
    <3>2. receipts \in Seq(Receipt) /\ receipts' \in Seq(Receipt)
      BY ExecutorStepOK DEF PipelineInv, PipelineTypeOK
    <3>3. Len(receipts') = k + 1
      BY <3>1, <3>2
    <3>4. state' = Before'
      BY <1>1, <1>2, <2>4, <3>3 DEF Before
    <3>5. cumulative_gas_used' = Reference!GasOf(block')[Len(receipts')]
      BY <1>1, <1>3, <1>4, <3>1, <3>3
    <3>6. RejectionsJustified'
      BY <3>1 DEF RejectionsJustified
    <3> QED BY <3>1, <3>4, <3>5, <3>6 DEF LedgerInv
  <2> QED BY <2>5, <2>6
<1> QED BY <1>6, <1>7, <1>8, <1>10, <1>11, Zenon DEF ExecutorStep

\* What execute returns with Ok is the reference effect of the block.
LEMMA FinishFollowsLedger ==
  ASSUME PipelineInv, LedgerInv, FinishExecute
  PROVE  /\ block \in Block
         /\ Reference!ApplyBlock(PreState, block) # Rejected
         /\ PreState' = Reference!ApplyBlock(PreState, block)
         /\ PreState' \in Accounts
<1>1. phase = "done"
  BY DEF FinishExecute, Return
<1>2. PreState' = state /\ Len(receipts) = Len(block.transactions)
  BY FinishExecuteOK
<1>3. /\ block \in Block /\ state \in Accounts
      /\ cumulative_gas_used \in 0..MAX_U64
  BY DEF PipelineInv, PipelineTypeOK, Accounts
<1>4. /\ state = Reference!LedgersOf(PreState, block)[Len(block.transactions)]
      /\ cumulative_gas_used = Reference!GasOf(block)[Len(block.transactions)]
  BY <1>1, <1>2 DEF LedgerInv, Before
<1>5. ~(Reference!GasOf(block)[Len(block.transactions)] > MAX_U64)
  BY <1>3, <1>4, BoundsAssumption
<1>6. Reference!ApplyBlock(PreState, block) = state
  BY <1>4, <1>5 DEF Reference!ApplyBlock
<1>7. state # Rejected
  BY <1>3, LedgerAssumption DEF Accounts
<1> QED BY <1>2, <1>3, <1>6, <1>7

\* execute starts from the ledger and returns to it, or to the reference
\* effect of the block.
LEMMA LedgerStep ==
  ASSUME PipelineInv, LedgerInv, PipelineAct
  PROVE  /\ LedgerInv'
         /\ \/ PreState' = PreState
            \/ /\ block \in Block
               /\ Reference!ApplyBlock(PreState, block) # Rejected
               /\ PreState' = Reference!ApplyBlock(PreState, block)
<1>1. CASE \E b \in Block : senders_recovered(b) /\ StartExecute(b)
  <2>1. PICK b \in Block : senders_recovered(b) /\ StartExecute(b)
    BY <1>1
  <2>2. PreState' = PreState
    BY <2>1, StartExecuteOK
  <2>3. /\ block' = b /\ receipts' = << >> /\ cumulative_gas_used' = 0
        /\ phase' \in {"debit", "done"} /\ state' = state
        /\ ~journal.open /\ state \in Accounts
    BY <2>1
       DEF StartExecute, begin_journal, PipelineInv, PipelineTypeOK, Accounts
  <2>4. PreState = state
    BY <2>3, Zenon DEF PreState, Accounts
  <2>5. Reference!LedgersOf(state, b)[0] = state /\ Reference!GasOf(b)[0] = 0
    BY <2>1, <2>3, LedgersOfSteps, GasOfSteps
  <2>6. Len(receipts') = 0
    BY <2>3
  <2>7. state' = Before'
    BY <2>2, <2>3, <2>4, <2>5, <2>6 DEF Before
  <2>8. cumulative_gas_used' = Reference!GasOf(block')[Len(receipts')]
    BY <2>3, <2>5, <2>6
  <2> QED BY <2>2, <2>3, <2>7, <2>8
             DEF LedgerInv, RejectionsJustified
<1>2. CASE \E b \in Block : senders_recovered(b) /\ RefuseExecute(b)
  <2>1. PreState' = PreState
    BY <1>2, RefuseExecuteOK
  <2>2. phase' = "idle"
    BY <1>2 DEF RefuseExecute
  <2> QED BY <2>1, <2>2 DEF LedgerInv, RejectionsJustified
<1>3. CASE ExecutorStep
  BY <1>3, ExecutorStepOK, ExecutorFollowsLedger
<1>4. CASE FinishExecute
  <2>1. phase' = "idle"
    BY <1>4 DEF FinishExecute, Return
  <2> QED BY <1>4, <2>1, FinishFollowsLedger
             DEF LedgerInv, RejectionsJustified
<1>5. CASE AbortExecute
  <2>1. PreState' = PreState
    BY <1>5, AbortExecuteOK
  <2>2. phase' = "idle"
    BY <1>5 DEF AbortExecute, Return
  <2> QED BY <2>1, <2>2 DEF LedgerInv, RejectionsJustified
<1>6. CASE UNCHANGED <<stateVars, execVars>>
  <2>1. PreState' = PreState
    BY <1>6 DEF stateVars, PreState
  <2>2. /\ phase' = phase /\ block' = block /\ receipts' = receipts
        /\ cumulative_gas_used' = cumulative_gas_used /\ state' = state
    BY <1>6 DEF stateVars, execVars
  <2>3. Before' = Before /\ signed_tx' = signed_tx
        /\ base_fee_per_gas' = base_fee_per_gas
    BY <2>1, <2>2 DEF Before, signed_tx, base_fee_per_gas
  <2>4. RejectionsJustified'
    BY <2>1, <2>2 DEF LedgerInv, RejectionsJustified
  <2> QED BY <2>1, <2>2, <2>3, <2>4 DEF LedgerInv
<1> QED BY <1>1, <1>2, <1>3, <1>4, <1>5, <1>6
        DEF PipelineAct

\* The executor never runs away from the reference.
LEMMA LedgerInvariant == PipelineSpec => [](PipelineInv /\ LedgerInv)
<1>1. PipelineInit => PipelineInv /\ LedgerInv
  BY PipelineInitOK DEF PipelineInit, LedgerInv, RejectionsJustified
<1>2. PipelineInv /\ LedgerInv /\ [PipelineNext]_pipelineVars
        => PipelineInv' /\ LedgerInv'
  BY PipelineStepOK, LedgerStep
     DEF PipelineNext, Unwound, pipelineVars, PipelineAct
<1> QED BY <1>1, <1>2, PTL DEF PipelineSpec

\* A block is rolled back only when the reference rejects it.
THEOREM RollbacksJustified == PipelineSpec => []RejectionsJustified
<1>1. LedgerInv => RejectionsJustified
  BY DEF LedgerInv
<1> QED BY <1>1, LedgerInvariant, PTL

\* The pipeline, with its journal and its two writes per transaction,
\* implements the ledger that applies whole blocks at once.
THEOREM PipelineImplementsLedger == PipelineSpec => ImplementsLedger
<1>1. PipelineInit => PreState = GenesisAccounts
  BY PipelineAssumption
     DEF PipelineInit, ProviderInit, NoJournal, PreState
<1>2. PipelineInv /\ LedgerInv /\ [PipelineNext]_pipelineVars
        => [Reference!LedgerNext]_PreState
  BY LedgerStep, Zenon DEF PipelineNext, Unwound, pipelineVars, PipelineAct,
     Reference!LedgerNext
<1> QED BY <1>1, <1>2, LedgerInvariant, PTL
        DEF PipelineSpec, ImplementsLedger, Reference!LedgerSpec,
            Reference!LedgerInit

-----------------------------------------------------------------------------
\* `history' holds the ledger after each of the first blocks of a store.
Remembers(history, store, top) ==
  /\ history[0] = GenesisAccounts
  /\ \A n \in 1..top :
       history[n] = Reference!ApplyBlock(history[n - 1], store[n])

\* The accounts are where the blocks of the store lead from genesis, through
\* ledgers none of which rejects its block.
Reaches(store, top, accounts) ==
  \E history \in [0..top -> Accounts] :
    Remembers(history, store, top) /\ history[top] = accounts

\* Without blocks, that is genesis.
LEMMA HistoryStarts ==
  ASSUME NEW store
  PROVE  Reaches(store, 0, GenesisAccounts)
<1> DEFINE g == [n \in 0..0 |-> GenesisAccounts]
<1>1. /\ g \in [0..0 -> Accounts] /\ g[0] = GenesisAccounts /\ 1..0 = {}
  BY PipelineAssumption DEF Accounts
<1> HIDE DEF g
<1>2. Remembers(g, store, 0)
  BY <1>1, ZenonT(30) DEF Remembers
<1> QED BY <1>1, <1>2, ZenonT(30) DEF Reaches

\* A block whose effect is a ledger extends the history by that ledger.
LEMMA HistoryGrows ==
  ASSUME NEW store, NEW top \in Nat, NEW accounts, Reaches(store, top, accounts),
         NEW longer, NEW next \in Accounts,
         next = Reference!ApplyBlock(accounts, longer[top + 1]),
         \A n \in 0..top : longer[n] = store[n]
  PROVE  Reaches(longer, top + 1, next)
<1>1. PICK g \in [0..top -> Accounts] :
        Remembers(g, store, top) /\ g[top] = accounts
  BY ZenonT(30) DEF Reaches
<1>2. /\ g[0] = GenesisAccounts
      /\ \A n \in 1..top : g[n] = Reference!ApplyBlock(g[n - 1], store[n])
  BY <1>1, ZenonT(30) DEF Remembers
<1> DEFINE h == [n \in 0..(top + 1) |-> IF n = top + 1 THEN next ELSE g[n]]
<1>3. h \in [0..(top + 1) -> Accounts]
  BY <1>1
<1>4. h[0] = GenesisAccounts /\ h[top + 1] = next
  BY <1>2
<1>5. ASSUME NEW n \in 1..(top + 1)
      PROVE  h[n] = Reference!ApplyBlock(h[n - 1], longer[n])
  <2>1. CASE n = top + 1
    <3>1. h[n] = next /\ h[n - 1] = accounts
      BY <1>1, <2>1
    <3> QED BY <2>1, <3>1, ZenonT(60)
  <2>2. CASE n # top + 1
    <3>1. /\ n \in 1..top /\ h[n] = g[n] /\ h[n - 1] = g[n - 1]
          /\ longer[n] = store[n]
      BY <2>2
    <3> QED BY <1>2, <3>1, ZenonT(60)
  <2> QED BY <2>1, <2>2, ZenonT(30)
<1> HIDE DEF h
<1>6. Remembers(h, longer, top + 1)
  BY <1>4, <1>5, ZenonT(60) DEF Remembers
<1> QED BY <1>3, <1>4, <1>6, ZenonT(60) DEF Reaches

\* Where the blocks lead is their replay.
LEMMA HistoryIsReplay ==
  ASSUME NEW store, NEW top \in Nat, NEW accounts, Reaches(store, top, accounts)
  PROVE  accounts = Replay(store, top)[top]
<1>0. PICK g \in [0..top -> Accounts] :
        Remembers(g, store, top) /\ g[top] = accounts
  BY ZenonT(30) DEF Reaches
<1> DEFINE R == Replay(store, top)
           Rec(f) == f = [n \in 0..top |->
                            IF n = 0 THEN GenesisAccounts
                            ELSE Reference!ApplyBlock(f[n - 1], store[n])]
<1>1. R = CHOOSE f : Rec(f)
  BY DEF Replay
<1>2. Rec(g)
  BY <1>0 DEF Remembers
<1> HIDE DEF R
<1>3. Rec(R)
  <2> HIDE DEF Rec
  <2> QED BY <1>1, <1>2
<1>4. \A n \in 0..top : R[n] = IF n = 0 THEN GenesisAccounts
                              ELSE Reference!ApplyBlock(R[n - 1], store[n])
  BY <1>3, Zenon
<1> DEFINE S == {n \in Nat : n <= top => R[n] = g[n]}
<1>5. 0 \in S
  BY <1>0, <1>4 DEF Remembers
<1>6. ASSUME NEW n \in Nat, n \in S
      PROVE  n + 1 \in S
  <2> SUFFICES ASSUME n + 1 <= top
               PROVE  R[n + 1] = g[n + 1]
    OBVIOUS
  <2>1. /\ R[n] = g[n] /\ n + 1 \in 1..top /\ n + 1 \in 0..top
        /\ (n + 1) - 1 = n /\ n + 1 # 0
    BY <1>6
  <2>2. R[n + 1] = Reference!ApplyBlock(R[n], store[n + 1])
    BY <1>4, <2>1, Zenon
  <2>3. g[n + 1] = Reference!ApplyBlock(g[n], store[n + 1])
    BY <1>0, <2>1, Zenon DEF Remembers
  <2> QED BY <2>1, <2>2, <2>3, Zenon
<1> HIDE DEF S
<1>7. Nat \subseteq S
  BY <1>5, <1>6, SetInduction, ZenonT(60)
<1>8. R[top] = g[top]
  BY <1>7 DEF S
<1> QED BY <1>0, <1>8, Zenon DEF R

-----------------------------------------------------------------------------
Balance(l, a) == IF l[a] = NoAccount THEN 0 ELSE l[a].balance

\* The units on the accounts but one.
CoinsBut(l, a) == {unit \in Coins(l) : unit[1] # a}

\* There are finitely many units, as there are finitely many addresses.
LEMMA CoinsFinite ==
  ASSUME NEW l \in Accounts
  PROVE  IsFiniteSet(Coins(l)) /\ Wealth(l) \in Nat
<1>1. IsFiniteSet(1..MAX_U128)
  BY BoundsAssumption, FS_Interval
<1>2. IsFiniteSet(Address \X (1..MAX_U128))
  BY <1>1, LedgerAssumption, FS_Product, ZenonT(60)
<1>3. Coins(l) \in SUBSET (Address \X (1..MAX_U128))
  BY DEF Coins
<1>4. IsFiniteSet(Coins(l))
  BY <1>2, <1>3, FS_Subset
<1> QED BY <1>4, FS_CardinalityType, Zenon DEF Wealth

\* The wealth is the balance of one account and the units on the others.
LEMMA WealthSplit ==
  ASSUME NEW l \in Accounts, NEW a \in Address
  PROVE  /\ Balance(l, a) \in 0..MAX_U128
         /\ Cardinality(CoinsBut(l, a)) \in Nat
         /\ Wealth(l) = Cardinality(CoinsBut(l, a)) + Balance(l, a)
<1> DEFINE own == {a} \X (1..Balance(l, a))
           rest == CoinsBut(l, a)
<1>1. Balance(l, a) \in 0..MAX_U128 /\ Balance(l, a) \in Nat
  BY AccountFields, BoundsAssumption DEF Accounts, Balance
<1>2. IsFiniteSet(1..Balance(l, a)) /\ Cardinality(1..Balance(l, a)) = Balance(l, a)
  BY <1>1, FS_Interval
<1>3. IsFiniteSet({a}) /\ Cardinality({a}) = 1
  BY FS_Singleton, ZenonT(60)
<1>4. IsFiniteSet(own) /\ Cardinality(own) = Balance(l, a)
  <2>1. /\ IsFiniteSet(own)
        /\ Cardinality(own) = Cardinality({a}) * Cardinality(1..Balance(l, a))
    BY <1>2, <1>3, FS_Product, Zenon
  <2>2. Cardinality({a}) * Cardinality(1..Balance(l, a)) = Balance(l, a)
    BY <1>1, <1>2, <1>3
  <2> QED BY <2>1, <2>2, Zenon
<1>5. rest \in SUBSET Coins(l)
  BY Zenon DEF CoinsBut
<1>6. IsFiniteSet(rest) /\ Cardinality(rest) \in Nat
  BY <1>5, CoinsFinite, FS_Subset, FS_CardinalityType, Zenon
<1>7. Coins(l) = rest \cup own
  <2>1. ASSUME NEW unit \in Coins(l)
        PROVE  unit \in rest \cup own
    <3>1. /\ unit \in Address \X (1..MAX_U128) /\ l[unit[1]] # NoAccount
          /\ unit[2] <= l[unit[1]].balance
      BY DEF Coins
    <3>2. CASE unit[1] # a
      BY <3>2 DEF CoinsBut
    <3>3. CASE unit[1] = a
      <4>1. unit = <<a, unit[2]>> /\ unit[2] \in 1..MAX_U128
        BY <3>1, <3>3
      <4>2. unit[2] \in 1..Balance(l, a)
        BY <1>1, <3>1, <3>3, <4>1, BoundsAssumption DEF Balance
      <4> QED BY <4>1, <4>2
    <3> QED BY <3>2, <3>3, Zenon
  <2>2. ASSUME NEW unit \in own
        PROVE  unit \in Coins(l)
    <3>1. unit[1] = a /\ unit[2] \in 1..Balance(l, a)
      OBVIOUS
    <3>2. unit[2] \in 1..MAX_U128 /\ unit[2] <= Balance(l, a) /\ Balance(l, a) # 0
      BY <1>1, <3>1, BoundsAssumption
    <3>3. l[a] # NoAccount /\ Balance(l, a) = l[a].balance
      BY <3>2, Zenon DEF Balance
    <3>4. unit = <<unit[1], unit[2]>>
      OBVIOUS
    <3>5. unit \in Address \X (1..MAX_U128)
      BY <3>1, <3>2, <3>4, Zenon
    <3> QED BY <3>1, <3>2, <3>3, <3>5 DEF Coins
  <2> QED BY <1>5, <2>1, <2>2, Zenon
<1>8. rest \cap own = {}
  BY Zenon DEF CoinsBut
<1>9. Cardinality(rest \cup own)
        = Cardinality(rest) + Cardinality(own) - Cardinality(rest \cap own)
  BY <1>4, <1>6, FS_Union, Zenon
<1>10. Cardinality(rest \cap own) = 0
  BY <1>8, FS_EmptySet, Zenon
<1> QED BY <1>1, <1>4, <1>6, <1>7, <1>9, <1>10 DEF Wealth

\* Writing one account changes the wealth by the difference of its balance.
LEMMA WealthWrite ==
  ASSUME NEW l \in Accounts, NEW a \in Address, NEW info \in Account
  PROVE  Wealth([l EXCEPT ![a] = info])
           = Wealth(l) - Balance(l, a) + info.balance
<1> DEFINE m == [l EXCEPT ![a] = info]
<1>1. m \in Accounts
  BY Zenon DEF Accounts
<1>2. Balance(m, a) = info.balance
  BY SentinelAssumption, Zenon DEF Balance, Accounts
<1>3. CoinsBut(m, a) = CoinsBut(l, a)
  <2>1. \A unit \in Address \X (1..MAX_U128) : unit[1] # a =>
          m[unit[1]] = l[unit[1]]
    BY Zenon DEF Accounts
  <2> HIDE DEF m
  <2> QED BY <2>1, Zenon DEF CoinsBut, Coins
<1> HIDE DEF m
<1>4. /\ Wealth(m) = Cardinality(CoinsBut(l, a)) + info.balance
      /\ Wealth(l) = Cardinality(CoinsBut(l, a)) + Balance(l, a)
      /\ Cardinality(CoinsBut(l, a)) \in Nat /\ Balance(l, a) \in Nat
      /\ info.balance \in Nat
  BY <1>1, <1>2, <1>3, WealthSplit, AccountFields, BoundsAssumption
<1> QED BY <1>4 DEF m

FeeOf(receipt) == receipt.effective_gas_price * receipt.gas_used

\* The fees on receipts meet their recursive equation.
LEMMA FeesSteps ==
  ASSUME NEW list \in Seq(Receipt)
  PROVE  /\ \A i \in 0..Len(list) : Fees(list)[i] \in Nat
         /\ Fees(list)[0] = 0
         /\ \A i \in 1..Len(list) : Fees(list)[i] = Fees(list)[i - 1] + FeeOf(list[i])
<1> DEFINE n == Len(list)
           fee(i) == FeeOf(list[i])
           step == [i \in 1..n |-> [v \in Nat |-> v + fee(i)]]
           Rec(f) == f = [i \in 0..n |-> IF i = 0 THEN 0 ELSE f[i - 1] + fee(i)]
           F == Fees(list)
<1>1. F = CHOOSE f : Rec(f)
  BY Zenon DEF Fees, FeeOf
<1>2. n \in Nat /\ \A i \in 1..n : fee(i) \in Nat
  <2>1. \A r \in Receipt : r.effective_gas_price \in Nat /\ r.gas_used \in Nat
    BY BoundsAssumption DEF Receipt
  <2>2. \A r \in Receipt : FeeOf(r) \in Nat
    BY <2>1, Product DEF FeeOf
  <2> QED BY <2>2
<1> HIDE DEF n, fee, F
<1>3. step \in [1..n -> [Nat -> Nat]]
  BY <1>2
<1>4. PICK f \in [0..n -> Nat] : Iterates(f, n, 0, step)
  <2> HIDE DEF step
  <2> QED BY <1>2, <1>3, IterationExists, ZenonT(60)
<1>5. Rec(f)
  <2>1. f[0] = 0 /\ \A i \in 1..n : f[i] = step[i][f[i - 1]]
    BY <1>4, Zenon DEF Iterates
  <2>2. ASSUME NEW i \in 1..n
        PROVE  f[i] = f[i - 1] + fee(i)
    <3>1. i - 1 \in 0..n /\ f[i - 1] \in Nat
      BY <1>2
    <3> QED BY <2>1, <3>1, ZenonT(60)
  <2> QED BY <1>2, <2>1, <2>2
<1>6. Rec(F)
  <2> HIDE DEF Rec
  <2> QED BY <1>1, <1>5, Zenon
<1>7. F[0] = 0 /\ \A i \in 1..n : F[i] = F[i - 1] + fee(i)
  <2>1. \A i \in 0..n : F[i] = IF i = 0 THEN 0 ELSE F[i - 1] + fee(i)
    BY <1>6, Zenon
  <2> QED BY <1>2, <2>1
<1>8. \A i \in 0..n : F[i] \in Nat
  <2>1. F[0] \in Nat /\ \A i \in 1..n : F[i - 1] \in Nat => F[i] \in Nat
    BY <1>2, <1>7
  <2> QED BY <1>2, <2>1, IterationType, ZenonT(60)
<1> QED BY <1>7, <1>8, Zenon DEF n, fee, F

\* The fees of a list do not depend on what follows it.
LEMMA FeesAppend ==
  ASSUME NEW list \in Seq(Receipt), NEW r \in Receipt
  PROVE  Fees(Append(list, r))[Len(list) + 1] = Fees(list)[Len(list)] + FeeOf(r)
<1> DEFINE n == Len(list)
           more == Append(list, r)
           S == {k \in Nat : k <= n => Fees(more)[k] = Fees(list)[k]}
<1>1. /\ n \in Nat /\ more \in Seq(Receipt) /\ Len(more) = n + 1
      /\ more[n + 1] = r /\ \A i \in 1..n : more[i] = list[i]
  OBVIOUS
<1>2. /\ Fees(list)[0] = 0
      /\ \A i \in 1..n : Fees(list)[i] = Fees(list)[i - 1] + FeeOf(list[i])
  BY FeesSteps, Zenon
<1> HIDE DEF more, n
<1>3. /\ Fees(more)[0] = 0
      /\ \A i \in 1..(n + 1) : Fees(more)[i] = Fees(more)[i - 1] + FeeOf(more[i])
  BY <1>1, FeesSteps, Zenon
<1>4. 0 \in S
  BY <1>2, <1>3, Zenon
<1>5. ASSUME NEW k \in Nat, k \in S
      PROVE  k + 1 \in S
  <2> SUFFICES ASSUME k + 1 <= n
               PROVE  Fees(more)[k + 1] = Fees(list)[k + 1]
    OBVIOUS
  <2>1. k + 1 \in 1..n /\ k + 1 \in 1..(n + 1) /\ (k + 1) - 1 = k
    BY <1>1
  <2>2. Fees(more)[k] = Fees(list)[k] /\ more[k + 1] = list[k + 1]
    BY <1>1, <1>5, <2>1
  <2> QED BY <1>2, <1>3, <2>1, <2>2, Zenon
<1> HIDE DEF S
<1>6. Nat \subseteq S
  BY <1>4, <1>5, SetInduction, Zenon
<1>7. Fees(more)[n] = Fees(list)[n]
  BY <1>1, <1>6 DEF S
<1>8. n + 1 \in 1..(n + 1) /\ (n + 1) - 1 = n
  BY <1>1
<1> QED BY <1>1, <1>3, <1>7, <1>8, Zenon DEF n, more

\* The steps of the executor move currency and burn fees, nothing else.
LEMMA ExecutorConserves ==
  ASSUME PipelineInv, Conservation, ExecutorStep
  PROVE  Conservation'
<1> DEFINE fee == base_fee_per_gas
           tx == signed_tx
<1>1. phase \in {"debit", "credit"} /\ block' = block
  BY Zenon
     DEF ExecutorStep, DebitFails, Debit, CreditPanics, CreditFails, Credit, Fail
<1>2. /\ PreState' = PreState
      /\ receipts \in Seq(Receipt) /\ receipts' \in Seq(Receipt)
  BY ExecutorStepOK DEF PipelineInv, PipelineTypeOK
<1>3. state \in Accounts /\ tx \in Signed /\ fee \in Nat
  BY <1>1, Running, Zenon
<1>4. Wealth(state) \in Nat /\ Burned \in Nat
  <2>1. Len(receipts) \in 0..Len(receipts)
    BY <1>2
  <2> QED BY <1>2, <1>3, <2>1, CoinsFinite, FeesSteps DEF Burned
<1>5. CASE DebitFails \/ CreditPanics \/ CreditFails
  <2>1. phase' \in {"failed", "panicked"}
    BY <1>5, Zenon DEF DebitFails, CreditPanics, CreditFails, Fail
  <2> QED BY <2>1, Zenon DEF Conservation
<1>6. CASE Debit
  <2> DEFINE info == [balance |-> state[tx.sender].balance - charge(tx, fee),
                      nonce   |-> state[tx.sender].nonce + 1]
  <2>1. /\ phase = "debit" /\ phase' = "credit" /\ receipts' = receipts
        /\ state' = [state EXCEPT ![tx.sender] = info]
        /\ debit_error(tx, fee) = "Ok"
    BY <1>6 DEF Debit, set_account
  <2>2. /\ tx.sender \in Address /\ state[tx.sender] \in Account
        /\ charge(tx, fee) \in Nat /\ charge(tx, fee) <= state[tx.sender].balance
        /\ state[tx.sender].nonce + 1 <= MAX_U64
    BY <1>3, <2>1, TxFields, DebitError, ChecksAgree, ChargedType, ZenonT(60)
       DEF Accounts
  <2>3. state[tx.sender].balance \in 0..MAX_U128 /\ state[tx.sender].nonce \in Nat
    BY <2>2, AccountFields, Zenon
  <2>4. info \in Account
    BY <2>2, <2>3, BoundsAssumption DEF Account
  <2>5. /\ Balance(state, tx.sender) = state[tx.sender].balance
        /\ info.balance = state[tx.sender].balance - charge(tx, fee)
    BY <2>2, SentinelAssumption, Zenon DEF Balance
  <2> HIDE DEF info
  <2>6. Wealth(state')
          = Wealth(state) - Balance(state, tx.sender) + info.balance
    BY <1>3, <2>1, <2>2, <2>4, WealthWrite, ZenonT(60)
  <2>7. Wealth(state') = Wealth(state) - charge(tx, fee)
    BY <1>4, <2>2, <2>3, <2>5, <2>6
  <2>8. Wealth(state) + Burned = Wealth(PreState)
    BY <2>1, Zenon DEF Conservation
  <2>9. Burned' = Burned /\ charge(signed_tx, base_fee_per_gas)' = charge(tx, fee)
    BY <1>1, <2>1, Zenon DEF Burned, signed_tx, base_fee_per_gas
  <2>10. Wealth(state') + Burned' + charge(signed_tx, base_fee_per_gas)'
           = Wealth(PreState')
    BY <1>2, <1>4, <2>2, <2>7, <2>8, <2>9
  <2> QED BY <2>1, <2>10 DEF Conservation
<1>7. CASE Credit
  <2> DEFINE info == [recipient EXCEPT !.balance = @ + tx.value]
  <2>1. /\ phase = "credit" /\ tx.to # NoAddress
        /\ recipient.balance + tx.value <= MAX_U128
        /\ state' = [state EXCEPT ![tx.to] = info]
    BY <1>7 DEF Credit, set_account
  <2>2. recipient = Recipient(state, tx) /\ tx.to \in Address /\ recipient \in Account
    BY <1>3, <2>1, PaidWrites, ZenonT(60) DEF recipient, Recipient
  <2>3. /\ info = [balance |-> recipient.balance + tx.value,
                   nonce   |-> recipient.nonce]
        /\ recipient.balance \in Nat /\ recipient.nonce \in 0..MAX_U64
        /\ tx.value \in Nat
    BY <1>3, <2>2, AccountFields, TxFields
  <2>4. info \in Account /\ info.balance = recipient.balance + tx.value
    BY <2>1, <2>3, BoundsAssumption DEF Account
  <2>5. Balance(state, tx.to) = recipient.balance
    BY <2>2, Zenon DEF Balance, Recipient, DefaultAccount
  <2> HIDE DEF info
  <2>6. Wealth(state') = Wealth(state) - Balance(state, tx.to) + info.balance
    BY <1>3, <2>1, <2>2, <2>4, WealthWrite, ZenonT(60)
  <2>7. Wealth(state') = Wealth(state) + tx.value
    BY <1>4, <2>3, <2>4, <2>5, <2>6
  <2>8. Wealth(state) + Burned + charge(tx, fee) = Wealth(PreState)
    BY <2>1, Zenon DEF Conservation
  <2>9. CASE cumulative_gas_used + tx.gas_limit > MAX_U64
    <3>1. phase' = "failed"
      BY <1>7, <2>9, Zenon DEF Credit, Fail
    <3> QED BY <3>1, Zenon DEF Conservation
  <2>10. CASE ~(cumulative_gas_used + tx.gas_limit > MAX_U64)
    <3> DEFINE r == [tx |-> tx,
                     effective_gas_price |-> effective_gas_price(tx, fee),
                     gas_used |-> tx.gas_limit,
                     cumulative_gas_used |-> cumulative_gas_used + tx.gas_limit]
    <3>1. receipts' = Append(receipts, r) /\ phase' \in {"debit", "done"}
      BY <1>7, <2>10, Zenon DEF Credit
    <3>2. FeeOf(r) = effective_gas_price(tx, fee) * tx.gas_limit
      BY Zenon DEF FeeOf
    <3> HIDE DEF r
    <3>3. /\ Len(receipts') = Len(receipts) + 1
          /\ receipts'[Len(receipts) + 1] = r
      BY <1>2, <3>1
    <3>4. r \in Receipt
      BY <1>2, <3>3
    <3>5. Burned' = Burned + FeeOf(r)
      BY <1>2, <3>1, <3>3, <3>4, FeesAppend, Zenon DEF Burned
    <3>6. charge(tx, fee) = FeeOf(r) + tx.value /\ FeeOf(r) \in Nat
      <4>1. effective_gas_price(tx, fee) \in Nat /\ tx.gas_limit \in Nat
        BY <1>3, TxFields DEF effective_gas_price
      <4> QED BY <3>2, <4>1, Product DEF charge
    <3>7. Wealth(state') + Burned' = Wealth(PreState')
      BY <1>2, <1>4, <2>3, <2>7, <2>8, <3>5, <3>6
    <3> QED BY <3>1, <3>7, Zenon DEF Conservation
  <2> QED BY <2>9, <2>10, Zenon
<1> QED BY <1>5, <1>6, <1>7 DEF ExecutorStep

\* A step of the pipeline conserves currency: what leaves the accounts is on
\* a receipt or in the running transaction.
LEMMA ConservationStep ==
  ASSUME PipelineInv, Conservation, [PipelineNext]_pipelineVars
  PROVE  Conservation'
<1>1. CASE \E b \in Block : senders_recovered(b) /\ StartExecute(b)
  <2>1. PICK b \in Block : senders_recovered(b) /\ StartExecute(b)
    BY <1>1, Zenon
  <2>2. PreState' = PreState
    BY <2>1, StartExecuteOK, Zenon
  <2>3. /\ receipts' = << >> /\ phase' \in {"debit", "done"} /\ state' = state
        /\ ~journal.open /\ state \in Accounts
    BY <2>1, Zenon
       DEF StartExecute, begin_journal, PipelineInv, PipelineTypeOK, Accounts
  <2>4. PreState = state /\ Wealth(state) \in Nat
    BY <2>3, CoinsFinite, Zenon DEF PreState, Accounts
  <2>5. << >> \in Seq(Receipt) /\ Len(<< >>) = 0
    OBVIOUS
  <2>6. Fees(<< >>)[0] = 0
    BY <2>5, FeesSteps, ZenonT(60)
  <2>7. Burned' = 0
    BY <2>3, <2>5, <2>6 DEF Burned
  <2>8. Wealth(state') + Burned' = Wealth(PreState')
    BY <2>2, <2>3, <2>4, <2>7
  <2> QED BY <2>3, <2>8, Zenon DEF Conservation
<1>2. CASE ExecutorStep
  BY <1>2, ExecutorConserves, Zenon
<1>3. CASE \/ \E b \in Block : RefuseExecute(b)
           \/ FinishExecute
           \/ AbortExecute
  <2>1. phase' = "idle"
    BY <1>3, Zenon DEF RefuseExecute, FinishExecute, AbortExecute, Return
  <2> QED BY <2>1, Zenon DEF Conservation
<1>4. CASE UNCHANGED <<stateVars, execVars>>
  <2>1. /\ phase' = phase /\ block' = block /\ receipts' = receipts
        /\ state' = state /\ PreState' = PreState
    BY <1>4, Zenon DEF stateVars, execVars, PreState
  <2>2. /\ Burned' = Burned
        /\ charge(signed_tx, base_fee_per_gas)' = charge(signed_tx, base_fee_per_gas)
    BY <2>1 DEF Burned, signed_tx, base_fee_per_gas
  <2> QED BY <2>1, <2>2, Zenon DEF Conservation
<1> QED BY <1>1, <1>2, <1>3, <1>4, Zenon
           DEF PipelineNext, Unwound, pipelineVars

\* Executing blocks neither creates nor loses currency, however many
\* transactions they have and wherever the executor is.
THEOREM CurrencyConserved == PipelineSpec => []Conservation
<1>1. PipelineInit => Conservation
  BY DEF PipelineInit, Conservation
<1>2. PipelineInv /\ Conservation /\ [PipelineNext]_pipelineVars => Conservation'
  BY ConservationStep
<1> QED BY <1>1, <1>2, PipelineInvariant, PTL DEF PipelineSpec
=============================================================================
