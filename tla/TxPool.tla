------------------------------- MODULE TxPool -------------------------------
(***************************************************************************)
(* The transaction pool (core/tx_pool.go) with the nonces of its managed   *)
(* state (core/state/managed_state.go), beside a chain that moves on its   *)
(* own: blocks include transactions, reorganisations take them out, and    *)
(* the events that say so arrive later and in any order.                   *)
(*                                                                         *)
(* An operation holds pool.mu and works off `phases`; each phase reads the *)
(* chain's state anew, as each call of pool.currentState() does.           *)
(***************************************************************************)
EXTENDS Integers, Sequences, FiniteSets, SequencesExt, FiniteSetsExt

CONSTANTS
  Txs, Addrs,
  Sender,       \* [Txs -> Addrs]
  Nonce,        \* [Txs -> Nat]
  Cost,         \* [Txs -> Nat]: value + gas * price
  Price,        \* [Txs -> Nat]
  Malformed,    \* fail the checks that no state changes: sender, gas, value
  Funds,        \* [Addrs -> Nat]
  Prices,       \* values of the minimal gas price
  Removable,    \* transactions the miner may find too cheap
  MaxQueued,    \* maxQueued
  MaxChanges,   \* model bound: changes of the chain
  None

ASSUME PoolAssumption ==
  /\ IsFiniteSet(Txs) /\ IsFiniteSet(Addrs)
  /\ Sender \in [Txs -> Addrs] /\ Nonce \in [Txs -> Nat]
  /\ Cost \in [Txs -> Nat] /\ Price \in [Txs -> Nat]
  /\ Malformed \subseteq Txs /\ Removable \subseteq Txs
  /\ Funds \in [Addrs -> Nat] /\ Prices \subseteq Nat
  /\ MaxQueued \in Nat /\ MaxChanges \in Nat
  /\ None \notin [Addrs -> Nat]

VARIABLES
  chain,        \* [Addrs -> sequence of its transactions in the chain]
  changes,
  events,       \* posted and not handled yet
  pending, queue,
  pendingNonce, \* nonces of pool.pendingState, None while it is nil
  minGasPrice,
  phases        \* what the operation holding pool.mu still does

pool == <<pending, queue, pendingNonce, minGasPrice>>
world == <<chain, changes>>
vars == <<world, events, pool, phases>>

StateNonce(a) == Len(chain[a])
Spent(txs) == MapThenSumSet(LAMBDA tx : Cost[tx], Range(txs))
Balance(a) == Funds[a] - Spent(chain[a])
Past(tx) == Nonce[tx] < StateNonce(Sender[tx])
Affordable(tx) == Cost[tx] <= Balance(Sender[tx])

Init ==
  /\ chain = [a \in Addrs |-> <<>>] /\ changes = 0
  /\ events = {}
  /\ pending = {} /\ queue = {}
  /\ pendingNonce = None
  /\ minGasPrice = 0
  /\ phases = <<>>

-----------------------------------------------------------------------------
(* The chain and its events.                                               *)

Event(kind, txs, price) == [kind |-> kind, txs |-> txs, price |-> price]
HeadEvent == Event("head", {}, 0)

Includes(a, prefix, tx) ==
  /\ Sender[tx] = a /\ Nonce[tx] = Len(prefix) /\ tx \notin Malformed
  /\ Cost[tx] <= Funds[a] - Spent(prefix)

\* A block with tx becomes the head.  postChainEvents posts the event of a block
\* that is still the head; if it is not, the event of the block that took its place
\* is posted, and the pool sees the same head.
Extend(tx) ==
  LET a == Sender[tx]
  IN /\ changes < MaxChanges /\ changes' = changes + 1
     /\ Includes(a, chain[a], tx)
     /\ chain' = [chain EXCEPT ![a] = Append(@, tx)]
     /\ events' = events \cup {HeadEvent}
     /\ UNCHANGED <<pool, phases>>

\* A reorganisation: a's last transaction is gone, another may be there.
Reorganise(a) ==
  /\ changes < MaxChanges /\ changes' = changes + 1
  /\ chain[a] # <<>>
  /\ \E new \in {Front(chain[a])} \cup
       {Append(Front(chain[a]), tx) :
          tx \in {u \in Txs \ {Last(chain[a])} : Includes(a, Front(chain[a]), u)}} :
       chain' = [chain EXCEPT ![a] = new]
  /\ events' = events \cup {HeadEvent, Event("removed", {Last(chain[a])}, 0)}
  /\ UNCHANGED <<pool, phases>>

\* The gas price option is changed.
ChangePrice(p) ==
  /\ changes < MaxChanges /\ changes' = changes + 1
  /\ p # minGasPrice
  /\ events' = events \cup {Event("price", {}, p)}
  /\ UNCHANGED <<chain, pool, phases>>

-----------------------------------------------------------------------------
(* The phases.                                                             *)

\* validateTx
ValidateTx(tx) ==
  /\ Price[tx] >= minGasPrice
  /\ tx \notin Malformed
  /\ ~Past(tx)
  /\ Affordable(tx)

\* Mutant of Consecutive: the nonce kept by the pool itself is skipped.
ConsecutiveAfter(live) ==
  {tx \in live : Nonce[tx] < pendingNonce[Sender[tx]]}

\* The queued transactions of one sender that follow without a gap.
Consecutive(live) ==
  {tx \in live :
     \A n \in pendingNonce[Sender[tx]]..Nonce[tx] :
       \E u \in live : Sender[u] = Sender[tx] /\ Nonce[u] = n}

Of(a, S) == {tx \in S : Sender[tx] = a}

\* kept is rest, for each sender cut to the maxQueued lowest nonces.
Cut(rest, kept) ==
  /\ kept \subseteq rest
  /\ \A a \in Addrs :
       /\ Cardinality(Of(a, kept)) = Min({Cardinality(Of(a, rest)), MaxQueued})
       /\ \A u \in Of(a, kept), v \in Of(a, rest \ kept) : Nonce[u] <= Nonce[v]

\* addTx, once for each promoted transaction in the order of their nonces.
NonceAfter(a, added) ==
  IF Of(a, added) = {} THEN pendingNonce[a]
                       ELSE Max({Nonce[tx] : tx \in Of(a, added)}) + 1

\* resetState up to validatePool.
ResetState == pendingNonce' = [a \in Addrs |-> StateNonce(a)]

\* Mutant of CheckQueue: the nil pending state is not replaced first.
CheckQueueStillNil ==
  /\ phases # <<>> /\ Head(phases) = "checkQueue"
  /\ IF pendingNonce = None
       THEN UNCHANGED <<pool, phases>>
       ELSE LET live == {tx \in queue : ~Past(tx) /\ Affordable(tx)}
                promoted == Consecutive(live)
            IN /\ queue' = live \ promoted
               /\ pending' = pending \cup promoted
               /\ pendingNonce' = [a \in Addrs |-> NonceAfter(a, promoted \ pending)]
               /\ phases' = Tail(phases)
               /\ UNCHANGED minGasPrice
  /\ UNCHANGED <<world, events>>

CheckQueue ==
  /\ phases # <<>> /\ Head(phases) = "checkQueue"
  /\ IF pendingNonce = None
       THEN /\ ResetState
            /\ phases' = <<"validatePool", "rebase", "checkQueue">> \o phases
            /\ UNCHANGED <<pending, queue>>
       ELSE LET live == {tx \in queue : ~Past(tx) /\ Affordable(tx)}
                promoted == Consecutive(live)
            IN /\ \E kept \in SUBSET (live \ promoted) :
                    Cut(live \ promoted, kept) /\ queue' = kept
               /\ pending' = pending \cup promoted
               /\ pendingNonce' = [a \in Addrs |-> NonceAfter(a, promoted \ pending)]
               /\ phases' = Tail(phases)
  /\ UNCHANGED <<world, events, minGasPrice>>

\* Mutant of ValidatePool: what follows a gap is queued and stays pending.
ValidatePoolCopies ==
  LET valid == {tx \in pending : ~Past(tx) /\ Affordable(tx)}
      poor == {tx \in pending : ~Past(tx) /\ ~Affordable(tx)}
      postponed == {tx \in valid :
                      \E u \in Of(Sender[tx], poor) : Nonce[u] <= Nonce[tx]}
  IN /\ phases # <<>> /\ Head(phases) = "validatePool"
     /\ pending' = valid
     /\ queue' = queue \cup postponed
     /\ phases' = Tail(phases)
     /\ UNCHANGED <<world, events, pendingNonce, minGasPrice>>

\* Mutant of ValidatePool: what follows a gap is dropped.
ValidatePoolDrops ==
  LET valid == {tx \in pending : ~Past(tx) /\ Affordable(tx)}
      poor == {tx \in pending : ~Past(tx) /\ ~Affordable(tx)}
      postponed == {tx \in valid :
                      \E u \in Of(Sender[tx], poor) : Nonce[u] <= Nonce[tx]}
  IN /\ phases # <<>> /\ Head(phases) = "validatePool"
     /\ pending' = valid \ postponed
     /\ phases' = Tail(phases)
     /\ UNCHANGED <<world, events, queue, pendingNonce, minGasPrice>>

ValidatePool ==
  LET valid == {tx \in pending : ~Past(tx) /\ Affordable(tx)}
      poor == {tx \in pending : ~Past(tx) /\ ~Affordable(tx)}
      postponed == {tx \in valid :
                      \E u \in Of(Sender[tx], poor) : Nonce[u] <= Nonce[tx]}
  IN /\ phases # <<>> /\ Head(phases) = "validatePool"
     /\ pending' = valid \ postponed
     /\ queue' = queue \cup postponed
     /\ phases' = Tail(phases)
     /\ UNCHANGED <<world, events, pendingNonce, minGasPrice>>

\* resetState: the nonces follow the pending transactions.
Rebase ==
  /\ phases # <<>> /\ Head(phases) = "rebase"
  /\ pendingNonce' = [a \in Addrs |->
       Max({pendingNonce[a]} \cup {Nonce[tx] + 1 : tx \in Of(a, pending)})]
  /\ phases' = Tail(phases)
  /\ UNCHANGED <<world, events, pending, queue, minGasPrice>>

-----------------------------------------------------------------------------
(* The operations, each under pool.mu.                                     *)

Unlocked == phases = <<>>

Add(tx) ==
  /\ Unlocked
  /\ tx \notin pending /\ ValidateTx(tx)
  /\ queue' = queue \cup {tx}
  /\ phases' = <<"checkQueue">>
  /\ UNCHANGED <<world, events, pending, pendingNonce, minGasPrice>>

\* GetTransactions: the miner, a new peer's transaction sync, RPC.
GetTransactions ==
  /\ Unlocked
  /\ phases' = <<"checkQueue", "validatePool">>
  /\ UNCHANGED <<world, events, pool>>

\* RemoveTransactions: the miner's transactions below its gas price.
RemoveTransactions(S) ==
  /\ Unlocked /\ S # {}
  /\ pending' = pending \ S /\ queue' = queue \ S
  /\ UNCHANGED <<world, events, pendingNonce, minGasPrice, phases>>

\* eventLoop: ChainHeadEvent
HandleHead ==
  /\ Unlocked /\ HeadEvent \in events
  /\ events' = events \ {HeadEvent}
  /\ ResetState
  /\ phases' = <<"validatePool", "rebase", "checkQueue">>
  /\ UNCHANGED <<world, pending, queue, minGasPrice>>

\* eventLoop: RemovedTransactionEvent, AddTransactions
HandleRemoved(ev) ==
  /\ Unlocked /\ ev.kind = "removed"
  /\ events' = events \ {ev}
  /\ queue' = queue \cup {tx \in ev.txs : tx \notin pending /\ ValidateTx(tx)}
  /\ phases' = <<"checkQueue">>
  /\ UNCHANGED <<world, pending, pendingNonce, minGasPrice>>

\* eventLoop: GasPriceChanged
HandlePrice(ev) ==
  /\ Unlocked /\ ev.kind = "price"
  /\ events' = events \ {ev}
  /\ minGasPrice' = ev.price
  /\ UNCHANGED <<world, pending, queue, pendingNonce, phases>>

Next ==
  \/ \E tx \in Txs : Extend(tx) \/ Add(tx)
  \/ \E a \in Addrs : Reorganise(a)
  \/ \E p \in Prices : ChangePrice(p)
  \/ CheckQueue \/ ValidatePool \/ Rebase
  \/ GetTransactions
  \/ \E S \in SUBSET Removable : RemoveTransactions(S)
  \/ HandleHead
  \/ \E ev \in events : HandleRemoved(ev) \/ HandlePrice(ev)

Spec == Init /\ [][Next]_vars

\* The event loop runs and whoever holds pool.mu goes on.
LiveSpec ==
  /\ Spec
  /\ WF_vars(CheckQueue) /\ WF_vars(ValidatePool) /\ WF_vars(Rebase)
  /\ SF_vars(HandleHead) /\ SF_vars(\E ev \in events : HandleRemoved(ev) \/ HandlePrice(ev))

-----------------------------------------------------------------------------
(* Properties.                                                             *)

\* Types of the variables.
TypeOK ==
  /\ chain \in [Addrs -> Seq(Txs)] /\ changes \in 0..MaxChanges
  /\ \A ev \in events : /\ ev.kind \in {"head", "removed", "price"}
                        /\ ev.txs \subseteq Txs /\ ev.price \in Nat
  /\ pending \subseteq Txs /\ queue \subseteq Txs
  /\ pendingNonce \in [Addrs -> Nat] \cup {None}
  /\ minGasPrice \in Nat
  /\ \A i \in DOMAIN phases : phases[i] \in {"checkQueue", "validatePool", "rebase"}

\* The pool is idle and has heard of everything that happened to the chain.
Settled == Unlocked /\ events = {} /\ pendingNonce # None

\* Once the events of a head change are handled, every pending transaction
\* is affordable and has a nonce not below the account's, whatever ran
\* between the change and its event; and no transaction is ever both pending
\* and queued (resetState, checkQueue, validatePool).
PendingFresh ==
  /\ Settled => \A tx \in pending : ~Past(tx) /\ Affordable(tx)
  /\ pending \cap queue = {}

\* Once the events are handled, no queued transaction has the account's very
\* next nonce and the funds for it: checkQueue has promoted it.  The managed nonce,
\* which local senders use for their next transaction, is not below the account's.
ExecutablePromoted ==
  Settled =>
    /\ \A tx \in queue : Nonce[tx] = StateNonce(Sender[tx]) => ~Affordable(tx)
    /\ \A a \in Addrs : pendingNonce[a] >= StateNonce(a)

\* A transaction leaves the pool only when the chain is past its nonce, its
\* sender cannot pay for it, the miner removes it, or the sender has more
\* than maxQueued transactions waiting (checkQueue, validatePool).
LeavesForCause ==
  [][\A tx \in (pending \cup queue) \ (pending' \cup queue') :
       \/ Past(tx) \/ ~Affordable(tx) \/ tx \in Removable
       \/ /\ tx \in queue
          /\ Cardinality(Of(Sender[tx], queue')) = MaxQueued
          /\ \A u \in Of(Sender[tx], queue') : Nonce[u] <= Nonce[tx]]_vars

\* A head event posted is handled in the end, by Go's fair select and the
\* release of pool.mu by every operation, however many others want it.
HeadHandled == (HeadEvent \in events) ~> (HeadEvent \notin events)

\* Implied by core/tx_pool.go:282: the managed nonce only grows by one with
\* each transaction added, so it is above every pending nonce.
PendingNonceAhead ==
  Settled => \A tx \in pending : Nonce[tx] < pendingNonce[Sender[tx]]

\* Documented at core/tx_pool.go:464: what follows an invalid transaction goes
\* back to the queue; pending transactions of a sender have no gap.
NoGaps ==
  Settled => \A tx \in pending : \A n \in StateNonce(Sender[tx])..Nonce[tx] :
               \E u \in Of(Sender[tx], pending) : Nonce[u] = n

\* Documented at core/tx_pool.go:49: maxQueued is the limit of queued
\* transactions of an address.
QueueLimit ==
  Unlocked => \A a \in Addrs : Cardinality(Of(a, queue)) <= MaxQueued
=============================================================================
