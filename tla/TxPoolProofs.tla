---------------------------- MODULE TxPoolProofs ----------------------------
(***************************************************************************)
(* The transaction pool, for any transactions and any chain: once it has   *)
(* settled, everything pending is fresh and everything executable is       *)
(* pending, and no transaction ever leaves it without a cause.             *)
(***************************************************************************)
EXTENDS TxPool, FiniteSetTheorems, TLAPS

Fresh(tx) == ~Past(tx) /\ Affordable(tx)
Executable(tx) == Nonce[tx] = StateNonce(Sender[tx]) /\ Affordable(tx)

\* What may follow a phase: resetState is validatePool, rebase and checkQueue, and
\* checkQueue under a nil managed state puts one of these before itself;
\* GetTransactions ends with a validatePool.
Ordered(ph) ==
  /\ ph \in Seq({"checkQueue", "validatePool", "rebase"})
  /\ \A i \in 1..Len(ph) :
       /\ ph[i] = "rebase" => i < Len(ph) /\ ph[i + 1] = "checkQueue"
       /\ ph[i] = "validatePool" /\ i < Len(ph) => ph[i + 1] = "rebase"
       /\ ph[i] = "checkQueue" /\ i < Len(ph) =>
            ph[i + 1] = "checkQueue" \/ (ph[i + 1] = "validatePool" /\ i + 1 = Len(ph))

\* resetState is about to validate the pool, and a checkQueue is still to come.
Resetting(ph) == Len(ph) > 1 /\ ph[1] = "validatePool"
CheckComes(ph) == \E i \in 1..Len(ph) : ph[i] = "checkQueue"

PoolType ==
  /\ chain \in [Addrs -> Seq(Txs)] /\ changes \in 0..MaxChanges
  /\ \A ev \in events : /\ ev.kind \in {"head", "removed", "price"}
                        /\ ev.txs \subseteq Txs /\ ev.price \in Nat
  /\ pending \subseteq Txs /\ queue \subseteq Txs
  /\ pendingNonce \in [Addrs -> Nat] \cup {None}
  /\ minGasPrice \in Nat

\* The phases, and none of resetState before there is a managed state.
PhaseInv ==
  /\ Ordered(phases)
  /\ pendingNonce = None /\ phases # <<>> => phases[1] = "checkQueue"

\* What is known of the pool at every step unless the event of a head change is
\* still out.  validatePool will clear pending in the middle of resetState;
\* checkQueue, if it comes, will promote what is executable.
PendingInv == HeadEvent \in events \/ Resetting(phases) \/ \A tx \in pending : Fresh(tx)
NonceInv ==
  \/ HeadEvent \in events \/ pendingNonce = None
  \/ \A a \in Addrs : pendingNonce[a] >= StateNonce(a)
QueueInv ==
  HeadEvent \in events \/ CheckComes(phases) \/ \A tx \in queue : ~Executable(tx)

PoolInv ==
  PoolType /\ PhaseInv /\ pending \cap queue = {} /\ PendingInv /\ NonceInv /\ QueueInv

-----------------------------------------------------------------------------
(* The phases.                                                             *)

Reset == <<"validatePool", "rebase", "checkQueue">>

\* validatePool is the last phase of GetTransactions, or the first of a resetState
\* that ends with checkQueue.
LEMMA TailOrdered ==
  ASSUME NEW ph, Ordered(ph), ph # <<>>
  PROVE  /\ Ordered(Tail(ph))
         /\ Head(ph) = "checkQueue" => ~Resetting(ph) /\ ~Resetting(Tail(ph))
         /\ Head(ph) = "rebase" =>
              ~Resetting(ph) /\ ~Resetting(Tail(ph)) /\ CheckComes(Tail(ph))
         /\ Head(ph) = "validatePool" =>
              /\ ~Resetting(Tail(ph))
              /\ Resetting(ph) => CheckComes(Tail(ph))
              /\ ~Resetting(ph) => ~CheckComes(ph)
<1> DEFINE t == Tail(ph)
<1>1. ph \in Seq({"checkQueue", "validatePool", "rebase"})
  BY Zenon DEF Ordered
<1>2. /\ t \in Seq({"checkQueue", "validatePool", "rebase"}) /\ Len(ph) \in Nat
      /\ Len(t) = Len(ph) - 1 /\ Len(ph) > 0 /\ Head(ph) = ph[1]
      /\ \A i \in 1..Len(t) : t[i] = ph[i + 1] /\ i + 1 \in 1..Len(ph)
  BY <1>1
<1> HIDE DEF t
<1>3. Ordered(t)
  <2> SUFFICES ASSUME NEW i \in 1..Len(t)
               PROVE  /\ t[i] = "rebase" => i < Len(t) /\ t[i + 1] = "checkQueue"
                      /\ t[i] = "validatePool" /\ i < Len(t) => t[i + 1] = "rebase"
                      /\ t[i] = "checkQueue" /\ i < Len(t) =>
                           \/ t[i + 1] = "checkQueue"
                           \/ t[i + 1] = "validatePool" /\ i + 1 = Len(t)
    BY <1>2, Zenon DEF Ordered
  <2> DEFINE j == i + 1
  <2>1. j \in 1..Len(ph) /\ t[i] = ph[j]
    BY <1>2, Zenon
  <2>2. /\ ph[j] = "rebase" => j < Len(ph) /\ ph[j + 1] = "checkQueue"
        /\ ph[j] = "validatePool" /\ j < Len(ph) => ph[j + 1] = "rebase"
        /\ ph[j] = "checkQueue" /\ j < Len(ph) =>
             ph[j + 1] = "checkQueue" \/ (ph[j + 1] = "validatePool" /\ j + 1 = Len(ph))
    BY <2>1, Zenon DEF Ordered
  <2>3. i < Len(t) <=> j < Len(ph)
    BY <1>2
  <2>4. i < Len(t) => t[i + 1] = ph[j + 1]
    BY <1>2
  <2>5. i + 1 = Len(t) <=> j + 1 = Len(ph)
    BY <1>2
  <2> HIDE DEF j
  <2> QED BY <2>1, <2>2, <2>3, <2>4, <2>5, Zenon
<1>4. /\ ph[1] = "rebase" => 1 < Len(ph) /\ ph[2] = "checkQueue"
      /\ ph[1] = "validatePool" /\ 1 < Len(ph) => ph[2] = "rebase"
      /\ ph[1] = "checkQueue" /\ 1 < Len(ph) => ph[2] = "checkQueue" \/ Len(ph) = 2
  BY <1>2 DEF Ordered
<1>5. 1 < Len(ph) => t[1] = ph[2] /\ 1 \in 1..Len(t)
  BY <1>2
<1>6. /\ t # <<>> /\ t[1] = "rebase" => 1 < Len(t) /\ t[2] = "checkQueue"
  BY <1>2, <1>3 DEF Ordered
<1>7. CASE Head(ph) = "checkQueue"
  BY <1>2, <1>3, <1>4, <1>5, <1>7, SMTT(60) DEF Resetting, t
<1>8. CASE Head(ph) = "rebase"
  <2>1. t[1] = "checkQueue" /\ 1 \in 1..Len(t)
    BY <1>2, <1>4, <1>5, <1>8, Zenon
  <2>2. CheckComes(t)
    BY <2>1, Zenon DEF CheckComes
  <2> QED BY <1>2, <1>3, <1>8, <2>1, <2>2, SMTT(60) DEF Resetting, t
<1>9. CASE Head(ph) = "validatePool"
  <2>1. CASE 1 < Len(ph)
    <3>1. t[1] = "rebase" /\ 1 < Len(t) /\ t[2] = "checkQueue"
      BY <1>2, <1>4, <1>5, <1>6, <1>9, <2>1, SMTT(60)
    <3>2. 2 \in 1..Len(t)
      BY <1>2, <3>1
    <3>3. CheckComes(t)
      BY <3>1, <3>2, Zenon DEF CheckComes
    <3> QED BY <1>2, <1>3, <1>9, <2>1, <3>1, <3>3, SMTT(60) DEF Resetting, t
  <2>2. CASE ~(1 < Len(ph))
    BY <1>2, <1>3, <1>9, <2>2, SMTT(60) DEF Resetting, CheckComes, t
  <2> QED BY <2>1, <2>2, Zenon
<1> QED BY <1>1, <1>2, <1>3, <1>7, <1>8, <1>9, SMTT(60) DEF t

\* What the operations begin with.
LEMMA StartOrdered ==
  /\ Ordered(<<>>) /\ ~Resetting(<<>>) /\ ~CheckComes(<<>>)
  /\ Ordered(<<"checkQueue">>) /\ CheckComes(<<"checkQueue">>)
  /\ Ordered(<<"checkQueue", "validatePool">>)
  /\ CheckComes(<<"checkQueue", "validatePool">>)
  /\ Ordered(Reset) /\ Resetting(Reset) /\ CheckComes(Reset)
<1>1. Ordered(<<>>) /\ ~Resetting(<<>>) /\ ~CheckComes(<<>>)
  BY DEF Ordered, Resetting, CheckComes
<1>2. Ordered(<<"checkQueue">>) /\ CheckComes(<<"checkQueue">>)
  BY DEF Ordered, CheckComes
<1>3. /\ Ordered(<<"checkQueue", "validatePool">>)
      /\ CheckComes(<<"checkQueue", "validatePool">>)
  BY DEF Ordered, CheckComes
<1>4. Ordered(Reset)
  BY DEF Ordered, Reset
<1>5. Resetting(Reset) /\ CheckComes(Reset)
  BY DEF Resetting, CheckComes, Reset
<1> QED BY <1>1, <1>2, <1>3, <1>4, <1>5, Zenon

\* checkQueue under a nil managed state puts a resetState before itself.
LEMMA ResetOrdered ==
  ASSUME NEW ph, Ordered(ph), ph # <<>>, ph[1] = "checkQueue"
  PROVE  Ordered(Reset \o ph) /\ Resetting(Reset \o ph) /\ CheckComes(Reset \o ph)
<1> DEFINE c == Reset \o ph
<1>1. /\ Reset \in Seq({"checkQueue", "validatePool", "rebase"}) /\ Len(Reset) = 3
      /\ Reset[1] = "validatePool" /\ Reset[2] = "rebase" /\ Reset[3] = "checkQueue"
  BY DEF Reset
<1>2. ph \in Seq({"checkQueue", "validatePool", "rebase"}) /\ Len(ph) \in Nat /\ Len(ph) > 0
  BY DEF Ordered
<1>3. /\ c \in Seq({"checkQueue", "validatePool", "rebase"}) /\ Len(c) = Len(ph) + 3
      /\ c[1] = "validatePool" /\ c[2] = "rebase" /\ c[3] = "checkQueue"
      /\ \A i \in 1..Len(ph) : c[i + 3] = ph[i]
  <2> DEFINE Names == {"checkQueue", "validatePool", "rebase"}
  <2>1. Reset \in Seq(Names) /\ ph \in Seq(Names)
    BY <1>1, <1>2, Zenon
  <2> HIDE DEF Names
  <2>2. /\ c \in Seq(Names) /\ Len(c) = Len(Reset) + Len(ph)
        /\ \A i \in 1..Len(c) : c[i] = IF i <= Len(Reset) THEN Reset[i] ELSE ph[i - Len(Reset)]
    BY <2>1
  <2>3. c \in Seq({"checkQueue", "validatePool", "rebase"}) /\ Len(c) = Len(ph) + 3
    BY <1>1, <1>2, <2>2 DEF Names
  <2> HIDE DEF c
  <2>4. c[1] = Reset[1] /\ c[2] = Reset[2] /\ c[3] = Reset[3]
    BY <1>1, <1>2, <2>2, <2>3, SMTT(60)
  <2>5. \A i \in 1..Len(ph) : c[i + 3] = ph[i]
    BY <1>1, <1>2, <2>2, <2>3, SMTT(60)
  <2> QED BY <1>1, <2>3, <2>4, <2>5, Zenon
<1> HIDE DEF c
<1>4. ASSUME NEW i \in 1..Len(c)
      PROVE  /\ c[i] = "rebase" => i < Len(c) /\ c[i + 1] = "checkQueue"
             /\ c[i] = "validatePool" /\ i < Len(c) => c[i + 1] = "rebase"
             /\ c[i] = "checkQueue" /\ i < Len(c) =>
                  c[i + 1] = "checkQueue" \/ (c[i + 1] = "validatePool" /\ i + 1 = Len(c))
  <2>1. CASE i \in 1..3
    <3>1. c[4] = "checkQueue"
      BY <1>2, <1>3
    <3> QED BY <1>2, <1>3, <2>1, <3>1, SMTT(60)
  <2>2. CASE i > 3
    <3> DEFINE j == i - 3
    <3>1. j \in 1..Len(ph) /\ c[i] = ph[j]
      BY <1>2, <1>3, <2>2, SMTT(60)
    <3>2. /\ ph[j] = "rebase" => j < Len(ph) /\ ph[j + 1] = "checkQueue"
          /\ ph[j] = "validatePool" /\ j < Len(ph) => ph[j + 1] = "rebase"
          /\ ph[j] = "checkQueue" /\ j < Len(ph) =>
               ph[j + 1] = "checkQueue" \/ (ph[j + 1] = "validatePool" /\ j + 1 = Len(ph))
      BY <3>1, Zenon DEF Ordered
    <3>3. (i < Len(c) <=> j < Len(ph)) /\ (i + 1 = Len(c) <=> j + 1 = Len(ph))
      BY <1>2, <1>3
    <3>4. j < Len(ph) => c[i + 1] = ph[j + 1]
      <4>1. j < Len(ph) => j + 1 \in 1..Len(ph) /\ (j + 1) + 3 = i + 1
        BY <1>2, <3>1
      <4> HIDE DEF j
      <4> QED BY <1>3, <4>1, Zenon
    <3> HIDE DEF j
    <3> QED BY <3>1, <3>2, <3>3, <3>4, Zenon
  <2> QED BY <1>2, <1>3, <2>1, <2>2, SMTT(60)
<1>5. Ordered(c)
  BY <1>3, <1>4, Zenon DEF Ordered
<1>6. Resetting(c) /\ CheckComes(c)
  BY <1>2, <1>3 DEF Resetting, CheckComes
<1> QED BY <1>5, <1>6, Zenon DEF c

-----------------------------------------------------------------------------
(* Largest nonces.                                                         *)

\* Finitely many transactions, if any, have one of largest nonce.
LEMMA LargestNonce ==
  ASSUME NEW T \in SUBSET Txs, T # {}
  PROVE  \E u \in T : \A v \in T : Nonce[v] <= Nonce[u]
<1> DEFINE Top(U) == \E u \in U : \A v \in U : Nonce[v] <= Nonce[u]
           Bad == {U \in SUBSET T : U # {} /\ ~Top(U)}
           Sizes == {Cardinality(U) : U \in Bad}
<1>1. \A U \in SUBSET T : IsFiniteSet(U) /\ Cardinality(U) \in Nat
  BY PoolAssumption, FS_Subset, FS_CardinalityType, Zenon
<1>2. \A u \in T : Nonce[u] \in Nat
  BY PoolAssumption, Zenon
<1> SUFFICES ASSUME Bad # {} PROVE FALSE
  BY Zenon
<1>3. Sizes \in SUBSET Nat /\ Sizes # {}
  BY <1>1, Zenon
<1>4. PICK n \in Sizes : \A m \in Sizes : n <= m
  <2> HIDE DEF Sizes
  <2>1. IsWellFoundedOn(OpToRel(<, Nat), Nat)
    BY NatLessThanWellFounded, Zenon
  <2>2. PICK k \in Sizes : \A y \in Sizes : ~(<<y, k>> \in OpToRel(<, Nat))
    BY <1>3, <2>1, WFMin, Zenon
  <2>3. \A y \in Sizes : ~(y < k)
    BY <1>3, <2>2, Zenon DEF OpToRel
  <2> QED BY <1>3, <2>3
<1>5. PICK U \in Bad : Cardinality(U) = n
  BY <1>4, Zenon
<1>6. PICK u \in U : TRUE
  BY <1>5, Zenon
<1> DEFINE R == U \ {u}
<1>7. R # {}
  <2> SUFFICES ASSUME R = {} PROVE FALSE
    BY Zenon
  <2>1. \A v \in U : v = u
    BY Zenon
  <2>2. Nonce[u] <= Nonce[u]
    BY <1>2, <1>5, <1>6, SMTT(60)
  <2> QED BY <1>5, <1>6, <2>1, <2>2, ZenonT(60)
<1>8. Cardinality(R) = Cardinality(U) - 1 /\ Cardinality(U) \in Nat /\ R \in SUBSET T
  BY <1>1, <1>5, <1>6, FS_RemoveElement, ZenonT(60)
<1>9. Top(R)
  <2> SUFFICES ASSUME ~Top(R) PROVE FALSE
    BY Zenon
  <2>1. R \in Bad
    BY <1>7, <1>8, Zenon
  <2>2. Cardinality(R) \in Sizes
    BY <2>1, Zenon
  <2>3. n <= Cardinality(R)
    BY <1>4, <2>2, Zenon
  <2> HIDE DEF R
  <2> QED BY <1>5, <1>8, <2>3
<1>10. PICK w \in R : \A v \in R : Nonce[v] <= Nonce[w]
  BY <1>9, Zenon
<1>11. Top(U)
  <2>1. \A v \in U : v = u \/ v \in R
    BY Zenon
  <2>2. w \in U /\ u \in U /\ U \in SUBSET T
    BY <1>5, <1>6, <1>10, Zenon
  <2> HIDE DEF R
  <2>3. CASE Nonce[u] <= Nonce[w]
    <3>1. \A v \in U : Nonce[v] <= Nonce[w]
      BY <1>10, <2>1, <2>3, Zenon
    <3> QED BY <2>2, <3>1, Zenon
  <2>4. CASE ~(Nonce[u] <= Nonce[w])
    <3>1. \A v \in U : Nonce[v] <= Nonce[u]
      BY <1>2, <1>10, <2>1, <2>2, <2>4, SMTT(60)
    <3> QED BY <2>2, <3>1, Zenon
  <2> QED BY <2>3, <2>4, Zenon
<1> QED BY <1>5, <1>11, Zenon

\* What addTx leaves as the managed nonce of a sender.
LEMMA NonceAfterFacts ==
  ASSUME NEW a \in Addrs, NEW added \in SUBSET Txs, pendingNonce \in [Addrs -> Nat]
  PROVE  /\ NonceAfter(a, added) \in Nat
         /\ \/ NonceAfter(a, added) = pendingNonce[a]
            \/ \E tx \in Of(a, added) : NonceAfter(a, added) = Nonce[tx] + 1
<1> DEFINE S == {Nonce[tx] : tx \in Of(a, added)}
<1>1. CASE Of(a, added) = {}
  BY <1>1, Zenon DEF NonceAfter
<1>2. CASE Of(a, added) # {}
  <2>1. Of(a, added) \in SUBSET Txs
    BY Zenon DEF Of
  <2>2. PICK u \in Of(a, added) : \A v \in Of(a, added) : Nonce[v] <= Nonce[u]
    BY <1>2, <2>1, LargestNonce, Zenon
  <2>3. \A v \in Of(a, added) : Nonce[v] \in Nat
    BY <2>1, PoolAssumption, Zenon
  <2>4. \E x \in S : \A y \in S : x >= y
    <3>1. \A y \in S : Nonce[u] >= y
      BY <2>2, <2>3
    <3> QED BY <2>2, <3>1, Zenon
  <2>5. Max(S) \in S
    <3> HIDE DEF S
    <3> QED BY <2>4, Zenon DEF Max
  <2>6. PICK v \in Of(a, added) : Max(S) = Nonce[v]
    BY <2>5, Zenon
  <2>7. NonceAfter(a, added) = Max(S) + 1
    BY <1>2, Zenon DEF NonceAfter
  <2> HIDE DEF S
  <2>8. NonceAfter(a, added) = Nonce[v] + 1 /\ Nonce[v] \in Nat
    BY <2>3, <2>6, <2>7, Zenon
  <2> QED BY <2>8
<1> QED BY <1>1, <1>2, Zenon

\* resetState moves the managed nonces up, never down.
LEMMA RebasedNonce ==
  ASSUME NEW a \in Addrs, pendingNonce \in [Addrs -> Nat], pending \subseteq Txs
  PROVE  /\ Max({pendingNonce[a]} \cup {Nonce[tx] + 1 : tx \in Of(a, pending)}) \in Nat
         /\ Max({pendingNonce[a]} \cup {Nonce[tx] + 1 : tx \in Of(a, pending)})
              >= pendingNonce[a]
<1> DEFINE S == {pendingNonce[a]} \cup {Nonce[tx] + 1 : tx \in Of(a, pending)}
<1>1. \A v \in Of(a, pending) : v \in Txs /\ Nonce[v] \in Nat
  BY PoolAssumption, Zenon DEF Of
<1>2. pendingNonce[a] \in Nat
  BY Zenon
<1>3. \A x \in S : x \in Nat
  BY <1>1, <1>2
<1>4. \E x \in S : \A y \in S : x >= y
  <2>1. CASE Of(a, pending) = {}
    BY <1>2, <2>1
  <2>2. CASE Of(a, pending) # {}
    <3>1. PICK u \in Of(a, pending) : \A v \in Of(a, pending) : Nonce[v] <= Nonce[u]
      BY <1>1, <2>2, LargestNonce, Zenon
    <3>2. \A v \in Of(a, pending) : Nonce[u] + 1 >= Nonce[v] + 1
      BY <1>1, <3>1
    <3>3. CASE Nonce[u] + 1 >= pendingNonce[a]
      <4>1. \A y \in S : Nonce[u] + 1 >= y
        BY <3>2, <3>3, Zenon
      <4> QED BY <3>1, <4>1, Zenon
    <3>4. CASE ~(Nonce[u] + 1 >= pendingNonce[a])
      <4>1. \A y \in S : pendingNonce[a] >= y
        BY <1>1, <1>2, <3>1, <3>2, <3>4, SMTT(60)
      <4> QED BY <4>1, Zenon
    <3> QED BY <3>3, <3>4, Zenon
  <2> QED BY <2>1, <2>2, Zenon
<1>5. pendingNonce[a] \in S
  BY Zenon
<1> HIDE DEF S
<1>6. Max(S) \in S /\ \A y \in S : Max(S) >= y
  BY <1>4, Zenon DEF Max
<1>7. Max(S) \in Nat /\ Max(S) >= pendingNonce[a]
  BY <1>3, <1>5, <1>6, Zenon
<1> QED BY <1>7, Zenon DEF S

\* A step that leaves the chain alone leaves every verdict on a transaction alone.
LEMMA ChainStable ==
  ASSUME chain' = chain
  PROVE  /\ \A tx : Past(tx)' <=> Past(tx)
         /\ \A tx : Affordable(tx)' <=> Affordable(tx)
         /\ \A tx : Fresh(tx)' <=> Fresh(tx)
         /\ \A tx : Executable(tx)' <=> Executable(tx)
         /\ \A a : StateNonce(a)' = StateNonce(a)
  BY Zenon DEF Fresh, Executable, Past, Affordable, StateNonce, Balance

\* Nonces of the chain's state.
LEMMA StateNonceType ==
  ASSUME PoolType, NEW a \in Addrs
  PROVE  StateNonce(a) \in Nat
<1>1. chain[a] \in Seq(Txs)
  BY Zenon DEF PoolType
<1> QED BY <1>1 DEF StateNonce

-----------------------------------------------------------------------------
(* Every step keeps the types.                                             *)

\* Events are well formed.
LEMMA EventFacts ==
  ASSUME NEW k, NEW T, NEW p
  PROVE  /\ Event(k, T, p).kind = k /\ Event(k, T, p).txs = T /\ Event(k, T, p).price = p
         /\ HeadEvent.kind = "head" /\ HeadEvent.txs = {} /\ HeadEvent.price = 0
  BY Zenon DEF Event, HeadEvent

EventsOK(E) ==
  \A ev \in E : /\ ev.kind \in {"head", "removed", "price"}
                /\ ev.txs \subseteq Txs /\ ev.price \in Nat

\* The chain grows by a transaction, or ends in another one.
LEMMA ChainStep ==
  ASSUME PoolType, \/ \E tx \in Txs : Extend(tx)
                   \/ \E a \in Addrs : Reorganise(a)
  PROVE  /\ chain' \in [Addrs -> Seq(Txs)] /\ changes' \in 0..MaxChanges
         /\ EventsOK(events') /\ HeadEvent \in events'
         /\ UNCHANGED <<pending, queue, pendingNonce, minGasPrice, phases>>
<1>0. chain \in [Addrs -> Seq(Txs)] /\ changes \in 0..MaxChanges /\ EventsOK(events)
  BY Zenon DEF PoolType, EventsOK
<1>1. ASSUME changes < MaxChanges, changes' = changes + 1 PROVE changes' \in 0..MaxChanges
  BY <1>0, <1>1, PoolAssumption, SMTT(60)
<1>2. HeadEvent.kind \in {"head", "removed", "price"} /\ HeadEvent.txs \subseteq Txs
        /\ HeadEvent.price \in Nat
  BY EventFacts
<1>3. ASSUME NEW tx \in Txs, Extend(tx)
      PROVE  /\ chain' \in [Addrs -> Seq(Txs)] /\ changes' \in 0..MaxChanges
             /\ EventsOK(events') /\ HeadEvent \in events'
             /\ UNCHANGED <<pending, queue, pendingNonce, minGasPrice, phases>>
  <2>1. /\ changes < MaxChanges /\ changes' = changes + 1
        /\ chain' = [chain EXCEPT ![Sender[tx]] = Append(chain[Sender[tx]], tx)]
        /\ events' = events \cup {HeadEvent}
        /\ UNCHANGED <<pending, queue, pendingNonce, minGasPrice, phases>>
    BY <1>3, Zenon DEF Extend, pool
  <2>2. Sender[tx] \in Addrs
    BY PoolAssumption, Zenon
  <2>3. Append(chain[Sender[tx]], tx) \in Seq(Txs)
    BY <1>0, <2>2
  <2>4. chain' \in [Addrs -> Seq(Txs)]
    BY <1>0, <2>1, <2>3, Zenon
  <2>5. EventsOK(events')
    BY <1>0, <1>2, <2>1, Zenon DEF EventsOK
  <2> QED BY <1>1, <2>1, <2>4, <2>5, ZenonT(60)
<1>4. ASSUME NEW a \in Addrs, Reorganise(a)
      PROVE  /\ chain' \in [Addrs -> Seq(Txs)] /\ changes' \in 0..MaxChanges
             /\ EventsOK(events') /\ HeadEvent \in events'
             /\ UNCHANGED <<pending, queue, pendingNonce, minGasPrice, phases>>
  <2> DEFINE f == Front(chain[a])
             gone == Event("removed", {Last(chain[a])}, 0)
  <2>1. /\ changes < MaxChanges /\ changes' = changes + 1 /\ chain[a] # <<>>
        /\ \E new \in {f} \cup {Append(f, tx) : tx \in {u \in Txs \ {Last(chain[a])} :
                                                          Includes(a, f, u)}} :
             chain' = [chain EXCEPT ![a] = new]
        /\ events' = events \cup {HeadEvent, gone}
        /\ UNCHANGED <<pending, queue, pendingNonce, minGasPrice, phases>>
    BY <1>4, Zenon DEF Reorganise, pool
  <2>2. chain[a] \in Seq(Txs)
    BY <1>0, Zenon
  <2>3. Last(chain[a]) \in Txs /\ f \in Seq(Txs)
    BY <2>1, <2>2 DEF Last, Front
  <2>4. gone.kind \in {"head", "removed", "price"} /\ gone.txs \subseteq Txs
          /\ gone.price \in Nat
    <3>1. gone.kind = "removed" /\ gone.txs = {Last(chain[a])} /\ gone.price = 0
      BY Zenon DEF Event
    <3> HIDE DEF gone
    <3> QED BY <2>3, <3>1
  <2> HIDE DEF f, gone
  <2>5. \A tx \in Txs : Append(f, tx) \in Seq(Txs)
    BY <2>3
  <2>6. PICK new \in Seq(Txs) : chain' = [chain EXCEPT ![a] = new]
    BY <2>1, <2>3, <2>5, Zenon
  <2>7. chain' \in [Addrs -> Seq(Txs)]
    BY <1>0, <2>6, Zenon
  <2>8. EventsOK(events')
    BY <1>0, <1>2, <2>1, <2>4, Zenon DEF EventsOK
  <2> QED BY <1>1, <2>1, <2>7, <2>8, ZenonT(60)
<1> QED BY <1>3, <1>4, Zenon

-----------------------------------------------------------------------------
(* Every step preserves the invariant.                                     *)

\* A change of the chain posts a head event, which excuses everything.
LEMMA ChainChange ==
  ASSUME PoolInv, \/ \E tx \in Txs : Extend(tx)
                  \/ \E a \in Addrs : Reorganise(a)
  PROVE  PoolInv'
<1>1. /\ chain' \in [Addrs -> Seq(Txs)] /\ changes' \in 0..MaxChanges
      /\ EventsOK(events') /\ HeadEvent \in events'
      /\ UNCHANGED <<pending, queue, pendingNonce, minGasPrice, phases>>
  BY ChainStep, Zenon DEF PoolInv
<1>2. PoolType'
  BY <1>1, Zenon DEF PoolInv, PoolType, EventsOK
<1>3. PhaseInv' /\ pending' \cap queue' = {}
  BY <1>1, Zenon DEF PoolInv, PhaseInv, Ordered
<1>4. PendingInv' /\ NonceInv' /\ QueueInv'
  BY <1>1, Zenon DEF PendingInv, NonceInv, QueueInv, HeadEvent, Event
<1> QED BY <1>2, <1>3, <1>4, ZenonT(60) DEF PoolInv

\* An operation that queues fresh arrivals or none, drops some transactions, or only
\* handles another event, and has checkQueue run if it queued any.
LEMMA OperationStep ==
  ASSUME PoolInv, Unlocked, chain' = chain, changes' \in 0..MaxChanges, EventsOK(events'),
         HeadEvent \in events => HeadEvent \in events',
         pending' \subseteq pending, queue' \subseteq Txs, pending' \cap queue' = {},
         UNCHANGED pendingNonce, minGasPrice' \in Nat,
         \/ queue' \subseteq queue /\ UNCHANGED phases
         \/ phases' = <<"checkQueue">>
         \/ phases' = <<"checkQueue", "validatePool">>
  PROVE  PoolInv'
<1>1. PoolType'
  BY Zenon DEF PoolInv, PoolType, EventsOK
<1>2. phases = <<>>
  BY Zenon DEF Unlocked
<1>3. /\ Ordered(phases')
      /\ phases' # <<>> => phases'[1] = "checkQueue"
      /\ phases' = <<>> \/ CheckComes(phases')
  BY <1>2, StartOrdered
<1>4. PhaseInv'
  BY <1>3, Zenon DEF PhaseInv, Ordered
<1>5. PendingInv'
  <2>1. HeadEvent \in events \/ \A tx \in pending : Fresh(tx)
    BY <1>2, StartOrdered, Zenon DEF PoolInv, PendingInv
  <2>2. \A tx : Fresh(tx)' <=> Fresh(tx)
    BY ChainStable, Zenon
  <2>3. HeadEvent' = HeadEvent
    BY Zenon DEF HeadEvent, Event
  <2> QED BY <2>1, <2>2, <2>3, ZenonT(60) DEF PendingInv
<1>6. NonceInv'
  <2>1. \A a : StateNonce(a)' = StateNonce(a)
    BY ChainStable, Zenon
  <2> QED BY <2>1, Zenon DEF PoolInv, NonceInv, HeadEvent, Event
<1>7. QueueInv'
  <2>1. CASE CheckComes(phases')
    BY <2>1, Zenon DEF QueueInv, CheckComes
  <2>2. CASE phases' = <<>> /\ queue' \subseteq queue
    <3>1. HeadEvent \in events \/ \A tx \in queue : ~Executable(tx)
      BY <1>2, StartOrdered, Zenon DEF PoolInv, QueueInv
    <3>2. \A tx : Executable(tx)' <=> Executable(tx)
      BY ChainStable, Zenon
    <3> QED BY <2>2, <3>1, <3>2, ZenonT(60) DEF QueueInv, HeadEvent, Event
  <2>3. phases' # <<>> \/ queue' \subseteq queue
    BY <1>2
  <2> QED BY <1>3, <2>1, <2>2, <2>3, Zenon
<1> QED BY <1>1, <1>4, <1>5, <1>6, <1>7, ZenonT(60) DEF PoolInv

\* The operations other than the handler of head events.
LEMMA Operations ==
  ASSUME PoolInv, \/ \E tx \in Txs : Add(tx)
                  \/ GetTransactions
                  \/ \E S \in SUBSET Removable : RemoveTransactions(S)
                  \/ \E ev \in events : HandleRemoved(ev) \/ HandlePrice(ev)
  PROVE  PoolInv'
<1>0. /\ changes \in 0..MaxChanges /\ EventsOK(events) /\ pending \subseteq Txs
      /\ queue \subseteq Txs /\ minGasPrice \in Nat /\ pending \cap queue = {}
  BY Zenon DEF PoolInv, PoolType, EventsOK
<1>1. ASSUME NEW tx \in Txs, Add(tx) PROVE PoolInv'
  <2>1. /\ Unlocked /\ tx \notin pending /\ queue' = queue \cup {tx}
        /\ phases' = <<"checkQueue">>
        /\ UNCHANGED <<chain, changes, events, pending, pendingNonce, minGasPrice>>
    BY <1>1, Zenon DEF Add, world
  <2>2. queue' \subseteq Txs /\ pending' \cap queue' = {}
    BY <1>0, <2>1, Zenon
  <2> QED BY <1>0, <2>1, <2>2, OperationStep, ZenonT(60)
<1>2. CASE GetTransactions
  <2>1. /\ Unlocked /\ phases' = <<"checkQueue", "validatePool">>
        /\ UNCHANGED <<chain, changes, events, pending, queue, pendingNonce, minGasPrice>>
    BY <1>2, Zenon DEF GetTransactions, world, pool
  <2> QED BY <1>0, <2>1, OperationStep, ZenonT(60)
<1>3. ASSUME NEW S \in SUBSET Removable, RemoveTransactions(S) PROVE PoolInv'
  <2>1. /\ Unlocked /\ pending' = pending \ S /\ queue' = queue \ S
        /\ UNCHANGED <<chain, changes, events, pendingNonce, minGasPrice, phases>>
    BY <1>3, Zenon DEF RemoveTransactions, world
  <2>2. /\ pending' \subseteq pending /\ queue' \subseteq queue /\ queue' \subseteq Txs
        /\ pending' \cap queue' = {}
    BY <1>0, <2>1, Zenon
  <2> QED BY <1>0, <2>1, <2>2, OperationStep, Zenon
<1>4. ASSUME NEW ev \in events, HandleRemoved(ev) PROVE PoolInv'
  <2>1. /\ Unlocked /\ ev.kind = "removed" /\ events' = events \ {ev}
        /\ queue' = queue \cup {tx \in ev.txs : tx \notin pending /\ ValidateTx(tx)}
        /\ phases' = <<"checkQueue">>
        /\ UNCHANGED <<chain, changes, pending, pendingNonce, minGasPrice>>
    BY <1>4, Zenon DEF HandleRemoved, world
  <2>2. ev.txs \subseteq Txs /\ EventsOK(events')
    BY <1>0, <2>1, Zenon DEF EventsOK
  <2>3. queue' \subseteq Txs /\ pending' \cap queue' = {}
    BY <1>0, <2>1, <2>2, ZenonT(60)
  <2>4. HeadEvent # ev
    BY <2>1 DEF HeadEvent, Event
  <2> QED BY <1>0, <2>1, <2>2, <2>3, <2>4, OperationStep, ZenonT(60)
<1>5. ASSUME NEW ev \in events, HandlePrice(ev) PROVE PoolInv'
  <2>1. /\ Unlocked /\ ev.kind = "price" /\ events' = events \ {ev} /\ minGasPrice' = ev.price
        /\ UNCHANGED <<chain, changes, pending, queue, pendingNonce, phases>>
    BY <1>5, Zenon DEF HandlePrice, world
  <2>2. ev.price \in Nat /\ EventsOK(events')
    BY <1>0, <2>1, Zenon DEF EventsOK
  <2>3. HeadEvent # ev
    BY <2>1 DEF HeadEvent, Event
  <2> QED BY <1>0, <2>1, <2>2, <2>3, OperationStep, ZenonT(60)
<1> QED BY <1>1, <1>2, <1>3, <1>4, <1>5, Zenon

\* An event that is not of a head says nothing about pending and queue.
LEMMA PriceChange ==
  ASSUME PoolInv, NEW p \in Prices, ChangePrice(p)
  PROVE  PoolInv'
<1>1. /\ changes < MaxChanges /\ changes' = changes + 1
      /\ events' = events \cup {Event("price", {}, p)}
      /\ UNCHANGED <<chain, pending, queue, pendingNonce, minGasPrice, phases>>
  BY Zenon DEF ChangePrice, pool
<1>2. changes' \in 0..MaxChanges
  BY <1>1, PoolAssumption DEF PoolInv, PoolType
<1>3. p \in Nat
  BY PoolAssumption, Zenon
<1>4. EventsOK(events')
  <2> DEFINE e == Event("price", {}, p)
  <2>1. e.kind = "price" /\ e.txs = {} /\ e.price = p
    BY Zenon DEF Event
  <2> HIDE DEF e
  <2>2. e.kind \in {"head", "removed", "price"} /\ e.txs \subseteq Txs /\ e.price \in Nat
    BY <1>3, <2>1, Zenon
  <2>3. events' = events \cup {e}
    BY <1>1, Zenon DEF e
  <2> QED BY <2>2, <2>3, Zenon DEF PoolInv, PoolType, EventsOK
<1>5. PoolType'
  BY <1>1, <1>2, <1>4, Zenon DEF PoolInv, PoolType, EventsOK
<1>6. PhaseInv' /\ pending' \cap queue' = {}
  BY <1>1, Zenon DEF PoolInv, PhaseInv, Ordered
<1>7. HeadEvent' = HeadEvent /\ (HeadEvent \in events => HeadEvent \in events')
  BY <1>1, Zenon DEF HeadEvent, Event
<1>8. /\ \A tx : Fresh(tx)' <=> Fresh(tx)
      /\ \A tx : Executable(tx)' <=> Executable(tx)
      /\ \A a : StateNonce(a)' = StateNonce(a)
  BY <1>1, ChainStable, Zenon
<1>9. PendingInv'
  BY <1>1, <1>7, <1>8, ZenonT(60) DEF PoolInv, PendingInv, Resetting
<1>10. NonceInv'
  BY <1>1, <1>7, <1>8, ZenonT(60) DEF PoolInv, NonceInv
<1>11. QueueInv'
  BY <1>1, <1>7, <1>8, Zenon DEF PoolInv, QueueInv, CheckComes
<1> QED BY <1>5, <1>6, <1>9, <1>10, <1>11, ZenonT(60) DEF PoolInv

\* The handler of a head event begins resetState.
LEMMA HeadStep ==
  ASSUME PoolInv, HandleHead
  PROVE  PoolInv'
<1>1. /\ events' = events \ {HeadEvent} /\ phases' = Reset
      /\ pendingNonce' = [a \in Addrs |-> StateNonce(a)]
      /\ UNCHANGED <<chain, changes, pending, queue, minGasPrice>>
  BY Zenon DEF HandleHead, ResetState, world, Reset
<1>2. \A a \in Addrs : StateNonce(a) \in Nat
  BY StateNonceType, Zenon DEF PoolInv
<1>3. pendingNonce' \in [Addrs -> Nat]
  BY <1>1, <1>2, Zenon
<1>4. PoolType'
  BY <1>1, <1>3, Zenon DEF PoolInv, PoolType
<1>5. pendingNonce' # None
  BY <1>3, PoolAssumption, Zenon
<1>6. Ordered(phases') /\ Resetting(phases') /\ CheckComes(phases')
  BY <1>1, StartOrdered, Zenon
<1>7. PhaseInv'
  BY <1>5, <1>6, Zenon DEF PhaseInv, Ordered
<1>8. PendingInv' /\ QueueInv'
  BY <1>6, Zenon DEF PendingInv, QueueInv, Resetting, CheckComes
<1>9. NonceInv'
  <2>1. \A a : StateNonce(a)' = StateNonce(a)
    BY <1>1, ChainStable, Zenon
  <2>2. \A a \in Addrs : pendingNonce'[a] = StateNonce(a)' /\ StateNonce(a)' \in Nat
    BY <1>1, <1>2, <2>1, Zenon
  <2>3. \A a \in Addrs : pendingNonce'[a] >= StateNonce(a)'
    BY <2>2
  <2> QED BY <2>3, Zenon DEF NonceInv
<1>10. pending' \cap queue' = {}
  BY <1>1, Zenon DEF PoolInv
<1> QED BY <1>4, <1>7, <1>8, <1>9, <1>10, ZenonT(60) DEF PoolInv

\* resetState's middle: the managed nonces are moved up past what is pending.
LEMMA RebaseStep ==
  ASSUME PoolInv, Rebase
  PROVE  PoolInv'
<1>1. /\ phases # <<>> /\ Head(phases) = "rebase" /\ phases' = Tail(phases)
      /\ pendingNonce' = [a \in Addrs |->
           Max({pendingNonce[a]} \cup {Nonce[tx] + 1 : tx \in Of(a, pending)})]
      /\ UNCHANGED <<chain, changes, events, pending, queue, minGasPrice>>
  BY Zenon DEF Rebase, world
<1>2. Ordered(phases) /\ (pendingNonce = None => phases[1] = "checkQueue")
  BY <1>1, Zenon DEF PoolInv, PhaseInv
<1>3. Head(phases) = phases[1]
  BY <1>1
<1>4. pendingNonce # None
  BY <1>1, <1>2, <1>3, SMTT(60)
<1>5. pendingNonce \in [Addrs -> Nat] /\ pending \subseteq Txs
  BY <1>4, Zenon DEF PoolInv, PoolType
<1>6. \A a \in Addrs : pendingNonce'[a] \in Nat /\ pendingNonce'[a] >= pendingNonce[a]
  BY <1>1, <1>5, RebasedNonce, Zenon
<1>7. pendingNonce' \in [Addrs -> Nat]
  BY <1>1, <1>6, ZenonT(60)
<1>8. pendingNonce' # None
  BY <1>7, PoolAssumption, Zenon
<1>9. PoolType'
  BY <1>1, <1>7, Zenon DEF PoolInv, PoolType
<1>10. /\ Ordered(phases') /\ ~Resetting(phases) /\ CheckComes(phases')
  BY <1>1, <1>2, TailOrdered, ZenonT(60)
<1>11. PhaseInv' /\ QueueInv'
  BY <1>8, <1>10, Zenon DEF PhaseInv, Ordered, QueueInv, CheckComes
<1>12. /\ \A tx : Fresh(tx)' <=> Fresh(tx)
       /\ \A a : StateNonce(a)' = StateNonce(a)
       /\ HeadEvent' = HeadEvent
  BY <1>1, ChainStable, Zenon DEF HeadEvent, Event
<1>13. PendingInv'
  BY <1>1, <1>10, <1>12, ZenonT(60) DEF PoolInv, PendingInv
<1>14. NonceInv'
  <2>1. CASE HeadEvent \in events
    BY <1>1, <1>12, <2>1, ZenonT(60) DEF NonceInv
  <2>2. CASE \A a \in Addrs : pendingNonce[a] >= StateNonce(a)
    <3>1. \A a \in Addrs : StateNonce(a) \in Nat /\ pendingNonce[a] \in Nat
      BY <1>5, StateNonceType, Zenon DEF PoolInv
    <3>2. \A a \in Addrs : pendingNonce'[a] >= StateNonce(a)
      BY <1>6, <2>2, <3>1, SMTT(60)
    <3>3. \A a \in Addrs : pendingNonce'[a] >= StateNonce(a)'
      BY <1>12, <3>2, Zenon
    <3> QED BY <3>3, Zenon DEF NonceInv
  <2> QED BY <1>4, <2>1, <2>2, ZenonT(60) DEF PoolInv, NonceInv
<1>15. pending' \cap queue' = {}
  BY <1>1, Zenon DEF PoolInv
<1> QED BY <1>9, <1>11, <1>13, <1>14, <1>15, ZenonT(60) DEF PoolInv

\* validatePool clears pending of what is not fresh.  It only queues a transaction
\* again if something pending was unaffordable, which, unless a head event is out,
\* it can only find inside resetState.
LEMMA ValidateStep ==
  ASSUME PoolInv, ValidatePool
  PROVE  PoolInv'
<1> DEFINE valid == {tx \in pending : ~Past(tx) /\ Affordable(tx)}
           poor == {tx \in pending : ~Past(tx) /\ ~Affordable(tx)}
           postponed == {tx \in valid : \E u \in Of(Sender[tx], poor) : Nonce[u] <= Nonce[tx]}
<1>1. /\ phases # <<>> /\ Head(phases) = "validatePool" /\ phases' = Tail(phases)
      /\ pending' = valid \ postponed /\ queue' = queue \cup postponed
      /\ UNCHANGED <<chain, changes, events, pendingNonce, minGasPrice>>
  BY Zenon DEF ValidatePool, world
<1>2. postponed \subseteq pending /\ \A tx \in pending' : tx \in pending /\ Fresh(tx)
  BY <1>1, Zenon DEF Fresh
<1>3. (\A tx \in pending : Fresh(tx)) => postponed = {}
  BY Zenon DEF Fresh, Of
<1>4. postponed \cap pending' = {}
  BY <1>1, Zenon
<1> HIDE DEF valid, poor, postponed
<1>5. Ordered(phases) /\ (pendingNonce = None => phases[1] = "checkQueue")
  BY <1>1, Zenon DEF PoolInv, PhaseInv
<1>6. Head(phases) = phases[1]
  BY <1>1
<1>7. pendingNonce # None
  BY <1>1, <1>5, <1>6, SMTT(60)
<1>8. /\ Ordered(phases')
      /\ Resetting(phases) => CheckComes(phases')
      /\ ~Resetting(phases) => ~CheckComes(phases)
  BY <1>1, <1>5, TailOrdered, ZenonT(60)
<1>9. PoolType'
  BY <1>1, <1>2, Zenon DEF PoolInv, PoolType
<1>10. PhaseInv'
  BY <1>1, <1>7, <1>8, Zenon DEF PhaseInv, Ordered
<1>11. /\ \A tx : Fresh(tx)' <=> Fresh(tx)
       /\ \A tx : Executable(tx)' <=> Executable(tx)
       /\ \A a : StateNonce(a)' = StateNonce(a)
       /\ HeadEvent' = HeadEvent
  BY <1>1, ChainStable, Zenon DEF HeadEvent, Event
<1>12. PendingInv'
  BY <1>2, <1>11, Zenon DEF PendingInv
<1>13. NonceInv'
  BY <1>1, <1>11, Zenon DEF PoolInv, NonceInv
<1>14. QueueInv'
  <2>1. CASE HeadEvent \in events
    BY <1>1, <1>11, <2>1, ZenonT(60) DEF QueueInv
  <2>2. CASE Resetting(phases)
    BY <1>8, <2>2, Zenon DEF QueueInv, CheckComes
  <2>3. CASE HeadEvent \notin events /\ ~Resetting(phases)
    <3>1. queue' = queue
      BY <1>1, <1>3, <2>3, ZenonT(60) DEF PoolInv, PendingInv
    <3>2. \A tx \in queue : ~Executable(tx)
      BY <1>8, <2>3, Zenon DEF PoolInv, QueueInv
    <3> QED BY <1>11, <3>1, <3>2, ZenonT(60) DEF QueueInv
  <2> QED BY <2>1, <2>2, <2>3, ZenonT(60)
<1>15. pending' \cap queue' = {}
  BY <1>1, <1>2, <1>4, ZenonT(60) DEF PoolInv
<1> QED BY <1>9, <1>10, <1>12, <1>13, <1>14, <1>15, ZenonT(60) DEF PoolInv

\* checkQueue under a nil managed state begins resetState and will come again.
LEMMA CheckNil ==
  ASSUME PoolInv, CheckQueue, pendingNonce = None
  PROVE  PoolInv'
<1>1. /\ phases # <<>> /\ phases' = Reset \o phases
      /\ pendingNonce' = [a \in Addrs |-> StateNonce(a)]
      /\ UNCHANGED <<chain, changes, events, pending, queue, minGasPrice>>
  BY Zenon DEF CheckQueue, ResetState, world, Reset
<1>2. \A a \in Addrs : StateNonce(a) \in Nat
  BY StateNonceType, Zenon DEF PoolInv
<1>3. pendingNonce' \in [Addrs -> Nat]
  BY <1>1, <1>2, Zenon
<1>4. PoolType'
  BY <1>1, <1>3, Zenon DEF PoolInv, PoolType
<1>5. pendingNonce' # None
  BY <1>3, PoolAssumption, Zenon
<1>6. Ordered(phases') /\ Resetting(phases') /\ CheckComes(phases')
  <2>1. Ordered(phases) /\ phases[1] = "checkQueue"
    BY <1>1, Zenon DEF PoolInv, PhaseInv
  <2> QED BY <1>1, <2>1, ResetOrdered, ZenonT(60)
<1>7. PhaseInv'
  BY <1>5, <1>6, Zenon DEF PhaseInv, Ordered
<1>8. PendingInv' /\ QueueInv'
  BY <1>6, Zenon DEF PendingInv, QueueInv, Resetting, CheckComes
<1>9. NonceInv'
  <2>1. \A a : StateNonce(a)' = StateNonce(a)
    BY <1>1, ChainStable, Zenon
  <2>2. \A a \in Addrs : pendingNonce'[a] = StateNonce(a)' /\ StateNonce(a)' \in Nat
    BY <1>1, <1>2, <2>1, ZenonT(60)
  <2>3. \A a \in Addrs : pendingNonce'[a] >= StateNonce(a)'
    BY <2>2
  <2> QED BY <2>3, Zenon DEF NonceInv
<1>10. pending' \cap queue' = {}
  BY <1>1, Zenon DEF PoolInv
<1> QED BY <1>4, <1>7, <1>8, <1>9, <1>10, ZenonT(60) DEF PoolInv

Live == {tx \in queue : ~Past(tx) /\ Affordable(tx)}

\* With managed nonces that are not behind the chain, whatever is executable is the
\* first of its sender's consecutive transactions.
LEMMA ExecutableConsecutive ==
  ASSUME PoolType, pendingNonce # None, NEW tx \in Live, Executable(tx),
         pendingNonce[Sender[tx]] >= StateNonce(Sender[tx])
  PROVE  tx \in Consecutive(Live)
<1> DEFINE a == Sender[tx]
<1>1. tx \in Txs /\ a \in Addrs
  BY PoolAssumption, Zenon DEF Live, PoolType
<1>2. pendingNonce[a] \in Nat /\ Nonce[tx] \in Nat /\ Nonce[tx] = StateNonce(a)
  BY <1>1, PoolAssumption, Zenon DEF PoolType, Executable
<1>3. \A n \in pendingNonce[a]..Nonce[tx] : n = Nonce[tx]
  BY <1>2
<1>4. \A n \in pendingNonce[a]..Nonce[tx] : \E u \in Live : Sender[u] = a /\ Nonce[u] = n
  BY <1>3, Zenon
<1> QED BY <1>4, Zenon DEF Consecutive

\* checkQueue drops what is not fresh, promotes what is executable, and advances the
\* managed nonces past it.
LEMMA CheckStep ==
  ASSUME PoolInv, CheckQueue, pendingNonce # None
  PROVE  PoolInv'
<1> DEFINE promoted == Consecutive(Live)
<1>1. /\ phases # <<>> /\ Head(phases) = "checkQueue" /\ phases' = Tail(phases)
      /\ queue' \subseteq Live \ promoted /\ pending' = pending \cup promoted
      /\ pendingNonce' = [a \in Addrs |-> NonceAfter(a, promoted \ pending)]
      /\ UNCHANGED <<chain, changes, events, minGasPrice>>
  BY Zenon DEF CheckQueue, world, Live
<1>2. promoted \subseteq Live
  BY Zenon DEF Consecutive
<1>3. Live \subseteq queue /\ \A tx \in Live : Fresh(tx)
  BY Zenon DEF Live, Fresh
<1>4. \A tx \in Live : Executable(tx)
                         /\ pendingNonce[Sender[tx]] >= StateNonce(Sender[tx])
                       => tx \in promoted
  BY ExecutableConsecutive, Zenon DEF PoolInv
<1> HIDE DEF promoted
<1>5. pendingNonce \in [Addrs -> Nat] /\ queue \subseteq Txs /\ pending \subseteq Txs
  BY Zenon DEF PoolInv, PoolType
<1>6. promoted \ pending \in SUBSET Txs
  BY <1>2, <1>3, <1>5, Zenon
<1>7. \A a \in Addrs :
        /\ pendingNonce'[a] \in Nat
        /\ \/ pendingNonce'[a] = pendingNonce[a]
           \/ \E tx \in Of(a, promoted \ pending) : pendingNonce'[a] = Nonce[tx] + 1
  BY <1>1, <1>5, <1>6, NonceAfterFacts, ZenonT(60)
<1>8. pendingNonce' \in [Addrs -> Nat]
  BY <1>1, <1>7, Zenon
<1>9. PoolType'
  BY <1>1, <1>2, <1>3, <1>5, <1>8, ZenonT(60) DEF PoolInv, PoolType
<1>10. pendingNonce' # None
  BY <1>8, PoolAssumption, Zenon
<1>11. Ordered(phases') /\ ~Resetting(phases) /\ ~Resetting(phases')
  BY <1>1, TailOrdered, Zenon DEF PoolInv, PhaseInv
<1>12. PhaseInv'
  BY <1>10, <1>11, Zenon DEF PhaseInv, Ordered
<1>13. /\ \A tx : Fresh(tx)' <=> Fresh(tx)
       /\ \A tx : Executable(tx)' <=> Executable(tx)
       /\ \A a : StateNonce(a)' = StateNonce(a)
       /\ HeadEvent' = HeadEvent
  BY <1>1, ChainStable, Zenon DEF HeadEvent, Event
<1>14. PendingInv'
  BY <1>1, <1>2, <1>3, <1>11, <1>13, ZenonT(60) DEF PoolInv, PendingInv
<1>15. HeadEvent \in events \/ \A a \in Addrs : pendingNonce[a] >= StateNonce(a)
  BY Zenon DEF PoolInv, NonceInv
<1>16. \A a \in Addrs : StateNonce(a) \in Nat
  BY StateNonceType, Zenon DEF PoolInv
<1>17. NonceInv'
  <2>1. CASE HeadEvent \in events
    BY <1>1, <1>13, <2>1, ZenonT(60) DEF NonceInv
  <2>2. CASE \A a \in Addrs : pendingNonce[a] >= StateNonce(a)
    <3>1. ASSUME NEW a \in Addrs PROVE pendingNonce'[a] >= StateNonce(a)
      <4>1. CASE pendingNonce'[a] = pendingNonce[a]
        BY <2>2, <4>1, Zenon
      <4>2. CASE \E tx \in Of(a, promoted \ pending) : pendingNonce'[a] = Nonce[tx] + 1
        <5>1. PICK tx \in Of(a, promoted \ pending) : pendingNonce'[a] = Nonce[tx] + 1
          BY <4>2, Zenon
        <5>2. tx \in Txs /\ Sender[tx] = a /\ ~Past(tx)
          BY <1>2, <1>3, <1>5, ZenonT(60) DEF Of, Fresh
        <5>3. ~(Nonce[tx] < StateNonce(a)) /\ Nonce[tx] \in Nat
          BY <5>2, PoolAssumption, Zenon DEF Past
        <5> QED BY <1>16, <5>1, <5>3, SMTT(60)
      <4> QED BY <1>7, <4>1, <4>2, ZenonT(60)
    <3>2. \A a \in Addrs : pendingNonce'[a] >= StateNonce(a)'
      BY <1>13, <3>1, ZenonT(60)
    <3> QED BY <3>2, Zenon DEF NonceInv
  <2> QED BY <1>15, <2>1, <2>2, ZenonT(60)
<1>18. QueueInv'
  <2>1. CASE HeadEvent \in events
    BY <1>1, <1>13, <2>1, ZenonT(60) DEF QueueInv
  <2>2. CASE \A a \in Addrs : pendingNonce[a] >= StateNonce(a)
    <3>1. \A tx \in queue' : Sender[tx] \in Addrs
      BY <1>1, <1>3, <1>5, PoolAssumption, ZenonT(60)
    <3>2. \A tx \in queue' : ~Executable(tx)
      BY <1>1, <1>4, <2>2, <3>1, ZenonT(60)
    <3> QED BY <1>13, <3>2, Zenon DEF QueueInv
  <2> QED BY <1>15, <2>1, <2>2, Zenon
<1>19. pending' \cap queue' = {}
  BY <1>1, <1>2, <1>3, ZenonT(60) DEF PoolInv
<1> QED BY <1>9, <1>12, <1>14, <1>17, <1>18, <1>19, ZenonT(60) DEF PoolInv

\* Each action preserves the invariant.
LEMMA PoolStep ==
  ASSUME PoolInv, [Next]_vars PROVE PoolInv'
<1>1. CASE UNCHANGED vars
  <2>1. UNCHANGED <<chain, changes, events, pending, queue, pendingNonce, minGasPrice,
                    phases>>
    BY <1>1, Zenon DEF vars, world, pool
  <2>2. PoolType' /\ PhaseInv' /\ pending' \cap queue' = {}
    BY <2>1, Zenon DEF PoolInv, PoolType, PhaseInv, Ordered
  <2>3. PendingInv' /\ QueueInv'
    BY <2>1, ChainStable, Zenon DEF PoolInv, PendingInv, QueueInv, HeadEvent, Event,
       Resetting, CheckComes
  <2>4. NonceInv'
    BY <2>1, ChainStable, Zenon DEF PoolInv, NonceInv, HeadEvent, Event
  <2> QED BY <2>2, <2>3, <2>4, ZenonT(60) DEF PoolInv
<1>2. CASE CheckQueue
  BY <1>2, CheckNil, CheckStep, ZenonT(60)
<1>3. CASE (\E tx \in Txs : Extend(tx)) \/ (\E a \in Addrs : Reorganise(a))
  BY <1>3, ChainChange, Zenon
<1>4. CASE \/ \E tx \in Txs : Add(tx)
           \/ GetTransactions
           \/ \E S \in SUBSET Removable : RemoveTransactions(S)
           \/ \E ev \in events : HandleRemoved(ev) \/ HandlePrice(ev)
  BY <1>4, Operations, Zenon
<1>5. CASE \E p \in Prices : ChangePrice(p)
  BY <1>5, PriceChange, Zenon
<1>6. CASE ValidatePool \/ Rebase \/ HandleHead
  BY <1>6, ValidateStep, RebaseStep, HeadStep, ZenonT(60)
<1> QED BY <1>1, <1>2, <1>3, <1>4, <1>5, <1>6, ZenonT(60) DEF Next

\* The invariant holds from the start, and for ever.
THEOREM PoolInvariant == Spec => []PoolInv
<1>1. Init => PoolInv
  <2> SUFFICES ASSUME Init PROVE PoolInv
    BY Zenon
  <2>1. /\ chain = [a \in Addrs |-> <<>>] /\ changes = 0 /\ events = {} /\ pending = {}
        /\ queue = {} /\ pendingNonce = None /\ minGasPrice = 0 /\ phases = <<>>
    BY Zenon DEF Init
  <2>2. chain \in [Addrs -> Seq(Txs)] /\ changes \in 0..MaxChanges /\ minGasPrice \in Nat
    BY <2>1, PoolAssumption
  <2>3. PoolType
    BY <2>1, <2>2, Zenon DEF PoolType
  <2>4. PhaseInv
    BY <2>1, StartOrdered, Zenon DEF PhaseInv
  <2> QED BY <2>1, <2>3, <2>4, ZenonT(60) DEF PoolInv, PendingInv, NonceInv, QueueInv
<1> QED BY <1>1, PoolStep, PTL DEF Spec

\* Once the events of the chain are handled and pool.mu is free, nothing
\* pending is past or unaffordable, and nothing is pending and queued at once,
\* for any set of transactions, senders, costs and limits (resetState,
\* checkQueue, validatePool of core/tx_pool.go).
THEOREM PoolFresh == Spec => []PendingFresh
<1>1. PoolInv => PendingFresh
  BY StartOrdered, ZenonT(60) DEF PoolInv, PendingInv, PendingFresh, Settled, Unlocked, Fresh
<1> QED BY <1>1, PoolInvariant, PTL

\* Once the events are handled, checkQueue has left no transaction queued that the
\* chain could execute next, and the managed nonces are not behind the chain, even if
\* the head changed while an operation was under way (core/tx_pool.go:401-462).
THEOREM PoolPromotes == Spec => []ExecutablePromoted
<1>1. PoolInv => ExecutablePromoted
  BY StartOrdered, Zenon DEF PoolInv, QueueInv, NonceInv, ExecutablePromoted, Settled,
     Unlocked, Executable
<1> QED BY <1>1, PoolInvariant, PTL

\* checkQueue cuts a sender's queue to the maxQueued lowest nonces and no further.
LEMMA CutForCause ==
  ASSUME NEW rest \in SUBSET Txs, NEW kept, Cut(rest, kept), NEW tx \in rest \ kept
  PROVE  /\ Cardinality(Of(Sender[tx], kept)) = MaxQueued
         /\ \A u \in Of(Sender[tx], kept) : Nonce[u] <= Nonce[tx]
<1> DEFINE a == Sender[tx]
           K == Of(a, kept)
           R == Of(a, rest)
<1>1. a \in Addrs
  BY PoolAssumption, Zenon
<1>2. /\ Cardinality(K) = Min({Cardinality(R), MaxQueued})
      /\ \A u \in K, v \in Of(a, rest \ kept) : Nonce[u] <= Nonce[v]
  BY <1>1, Zenon DEF Cut
<1>3. tx \in Of(a, rest \ kept) /\ tx \in R /\ tx \notin K /\ K \subseteq R /\ R \subseteq Txs
  BY Zenon DEF Of, Cut
<1> HIDE DEF K, R
<1>4. IsFiniteSet(R) /\ IsFiniteSet(K)
  BY <1>3, PoolAssumption, FS_Subset, ZenonT(60)
<1>5. Cardinality(R) \in Nat /\ Cardinality(K) \in Nat
  BY <1>4, FS_CardinalityType, Zenon
<1>6. Cardinality(K) <= Cardinality(R) /\ Cardinality(K) # Cardinality(R)
  <2>1. Cardinality(K) <= Cardinality(R) /\ (Cardinality(K) = Cardinality(R) => K = R)
    BY <1>3, <1>4, FS_Subset, ZenonT(60)
  <2> QED BY <1>3, <2>1, Zenon
<1>7. Min({Cardinality(R), MaxQueued}) \in {Cardinality(R), MaxQueued}
  <2>1. \E x \in {Cardinality(R), MaxQueued} : \A y \in {Cardinality(R), MaxQueued} : x <= y
    BY <1>5, PoolAssumption, SMTT(60)
  <2> QED BY <2>1, Zenon DEF Min
<1>8. Cardinality(K) = MaxQueued
  BY <1>2, <1>6, <1>7, Zenon
<1> QED BY <1>2, <1>3, <1>8, ZenonT(60) DEF K

\* No transaction is lost: it leaves the pool only when the chain is past it, its
\* sender cannot pay, the miner removes it, or its sender has maxQueued others waiting
\* in front of it (RemoveTx, checkQueue, validatePool).
THEOREM PoolLeavesForCause == Spec => LeavesForCause
<1> DEFINE Cause(tx) ==
      \/ Past(tx) \/ ~Affordable(tx) \/ tx \in Removable
      \/ /\ tx \in queue
         /\ Cardinality(Of(Sender[tx], queue')) = MaxQueued
         /\ \A u \in Of(Sender[tx], queue') : Nonce[u] <= Nonce[tx]
<1>1. ASSUME PoolInv, Next, NEW tx \in (pending \cup queue) \ (pending' \cup queue')
      PROVE  Cause(tx)
  <2>1. CASE CheckQueue
    <3>1. CASE pendingNonce = None
      <4>1. pending' = pending /\ queue' = queue
        BY <2>1, <3>1, Zenon DEF CheckQueue
      <4> QED BY <1>1, <4>1, Zenon
    <3>2. CASE pendingNonce # None
      <4> DEFINE rest == Live \ Consecutive(Live)
      <4>1. Cut(rest, queue') /\ pending' = pending \cup Consecutive(Live)
        BY <2>1, <3>2, Zenon DEF CheckQueue, Live
      <4>2. tx \in queue /\ tx \notin Consecutive(Live)
        BY <1>1, <4>1, Zenon
      <4>3. CASE tx \in Live
        <5>1. rest \in SUBSET Txs
          BY <1>1, Zenon DEF Live, PoolInv, PoolType
        <5>2. tx \in rest \ queue'
          BY <1>1, <4>2, <4>3, ZenonT(60)
        <5> HIDE DEF rest
        <5> QED BY <4>1, <4>2, <5>1, <5>2, CutForCause, ZenonT(60)
      <4>4. CASE tx \notin Live
        BY <4>2, <4>4, Zenon DEF Live
      <4> QED BY <4>3, <4>4, Zenon
    <3> QED BY <3>1, <3>2, Zenon
  <2>2. CASE ValidatePool
    BY <1>1, <2>2, Zenon DEF ValidatePool
  <2>3. CASE \E S \in SUBSET Removable : RemoveTransactions(S)
    BY <1>1, <2>3, Zenon DEF RemoveTransactions
  <2>4. CASE pending \subseteq pending' /\ queue \subseteq queue'
    BY <1>1, <2>4, Zenon
  <2>5. ASSUME ~CheckQueue, ~ValidatePool,
               ~(\E S \in SUBSET Removable : RemoveTransactions(S))
        PROVE  pending \subseteq pending' /\ queue \subseteq queue'
    BY <1>1, <2>5, Zenon DEF Next, Extend, Add, Reorganise, ChangePrice, Rebase,
       GetTransactions, HandleHead, HandleRemoved, HandlePrice, pool
  <2> QED BY <2>1, <2>2, <2>3, <2>4, <2>5, ZenonT(60)
<1>2. ASSUME PoolInv, [Next]_vars
      PROVE  [\A tx \in (pending \cup queue) \ (pending' \cup queue') : Cause(tx)]_vars
  BY <1>1, <1>2, Zenon
<1> QED BY <1>2, PoolInvariant, PTL DEF Spec, LeavesForCause
=============================================================================
