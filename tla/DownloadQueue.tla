---------------------------- MODULE DownloadQueue ----------------------------
(***************************************************************************)
(* One cycle of the block download (exp/downloader/queue.go, peer.go and   *)
(* fetchParts and process of downloader.go): headers are scheduled, body   *)
(* and receipt fetchers reserve them for peers, replies fill the result    *)
(* cache, and process takes finished results off its front in order.       *)
(*                                                                         *)
(* The headers of a cycle are one chain (Schedule checks it), so a header  *)
(* is its number.  A request is the set of headers asked for; a reply is   *)
(* what the peer has of them, in the same order.                           *)
(***************************************************************************)
EXTENDS Integers, Sequences, FiniteSets, FiniteSetsExt

CONSTANTS
  Peers,
  N,            \* headers of the cycle: 1..N
  CacheSize,    \* blockCacheLimit
  MaxCount,     \* largest capacity of a peer
  Fast,         \* FastSync rather than FullSync
  Pivot,
  ForceVerify,  \* fsHeaderForceVerify
  Noop,         \* [Kinds -> SUBSET 1..N]: parts known to be empty
  StateBatches, \* state deliveries until the pivot's state is complete
  Gaps,         \* a peer may lack one item of a request and have a later one
  MaxExpiries,  \* model bound: requests that time out before their reply comes
  MaxLost,      \* model bound: replies that never come
  MaxDrops      \* model bound: peers lost in a behaviour

Kinds == {"body", "receipt"}
Headers == 1..N

ASSUME QueueAssumption ==
  /\ IsFiniteSet(Peers)
  /\ {N, CacheSize, MaxCount, Pivot} \subseteq Nat \ {0}
  /\ ForceVerify \in Nat /\ StateBatches \in Nat
  /\ Fast \in BOOLEAN /\ Gaps \in BOOLEAN
  /\ Noop \in [Kinds -> SUBSET Headers]
  /\ {MaxExpiries, MaxLost, MaxDrops} \subseteq Nat

None == -1

VARIABLES
  sched,      \* headers scheduled so far
  ended,      \* fetchHeaders has sent its last wake signal
  queue,      \* [Kinds -> task queue]
  pend,       \* [Kinds -> [Peers -> request in flight, or {}]]
  done,       \* [Kinds -> done pool]
  result,     \* result cache by number: parts pending, or None
  offset,     \* resultOffset
  lacking,    \* [Peers -> headers the peer did not have]
  busy,       \* [Kinds -> [Peers -> BOOLEAN]]: blockIdle, receiptIdle
  net,        \* [Kinds -> [Peers -> requests the peer has not answered yet]]
  registered, \* the downloader's peer set
  revoking,   \* peers unregistered whose requests are still to be revoked
  fpc,        \* [Kinds -> control point of the fetcher]
  round,      \* [Kinds -> the round of reservations it is in]
  stateLeft,  \* state deliveries the pivot still waits for
  wpc,        \* control point of process in WaitResults
  closed,     \* the queue is closed
  expiries, lost, drops

tasks == <<queue, pend, done, result, offset>>
links == <<net, registered, revoking, lost, drops>>
peers == <<lacking, busy, links>>
fetchers == <<fpc, round>>
vars == <<sched, ended, tasks, peers, fetchers, stateLeft, wpc, closed, expiries>>

Needs(k, n) == k = "body" \/ (Fast /\ n <= Pivot)
NoRound == [idles |-> {}, all |-> FALSE, progress |-> FALSE, throttled |-> FALSE,
            running |-> FALSE]

Init ==
  /\ sched = 0 /\ ended = FALSE
  /\ queue = [k \in Kinds |-> {}]
  /\ pend = [k \in Kinds |-> [p \in Peers |-> {}]]
  /\ done = [k \in Kinds |-> {}]
  /\ result = [n \in Headers |-> None]
  /\ offset = 1
  /\ lacking = [p \in Peers |-> {}]
  /\ busy = [k \in Kinds |-> [p \in Peers |-> FALSE]]
  /\ net = [k \in Kinds |-> [p \in Peers |-> <<>>]]
  /\ registered = Peers /\ revoking = {}
  /\ fpc = [k \in Kinds |-> "select"]
  /\ round = [k \in Kinds |-> NoRound]
  /\ stateLeft = 0
  /\ wpc = "check" /\ closed = FALSE
  /\ expiries = 0 /\ lost = 0 /\ drops = 0

\* q.lock is free: process holds it between its check and its wait.
LockFree == wpc # "park"

\* Mutant of Signal: nobody is woken.
SignalNever == UNCHANGED wpc

\* q.active.Signal and Broadcast; process is the only one that waits.
Signal == wpc' = IF wpc = "wait" THEN "check" ELSE wpc

-----------------------------------------------------------------------------
(* fetchHeaders: Schedule, and the last wake signal.                       *)

Schedule(m) ==
  /\ LockFree /\ ~ended /\ ~closed /\ m >= 1 /\ sched + m <= N
  /\ sched' = sched + m
  /\ queue' = [k \in Kinds |->
       queue[k] \cup {n \in (sched + 1)..(sched + m) : Needs(k, n)}]
  /\ stateLeft' = IF Fast /\ Pivot \in (sched + 1)..(sched + m)
                    THEN StateBatches ELSE stateLeft
  /\ UNCHANGED <<ended, pend, done, result, offset, peers, fetchers, wpc, closed,
                 expiries>>

HeadersEnd ==
  /\ ~ended /\ ~closed
  /\ ended' = TRUE
  /\ UNCHANGED <<sched, tasks, peers, fetchers, stateLeft, wpc, closed, expiries>>

-----------------------------------------------------------------------------
(* fetchParts, one round of reservations.                                  *)

Go(k, where) == fpc' = [fpc EXCEPT ![k] = where]

\* The ticker, a wake signal or a delivery; without peers the fetcher fails.
Tick(k) ==
  /\ fpc[k] = "select"
  /\ Go(k, IF registered = {} THEN "failed" ELSE "update")
  /\ UNCHANGED <<sched, ended, tasks, peers, round, stateLeft, wpc, closed, expiries>>

\* Mutant of Idle: the peer is not made idle again.
IdleNever(k, p) == UNCHANGED busy

\* setIdle, at the end of a request.
Idle(k, p) == busy' = [busy EXCEPT ![k][p] = FALSE]

\* A request has timed out: its headers go back into the queue.  The peer is
\* idle again, or dropped if it was asked for a single item.
Expire(k, p) ==
  /\ LockFree /\ fpc[k] = "update" /\ pend[k][p] # {}
  /\ IF net[k][p] = <<>> THEN UNCHANGED expiries
     ELSE expiries < MaxExpiries /\ expiries' = expiries + 1
  /\ queue' = [queue EXCEPT ![k] = @ \cup pend[k][p]]
  /\ pend' = [pend EXCEPT ![k][p] = {}]
  /\ IF p \notin registered THEN UNCHANGED <<busy, registered, revoking>>
     ELSE IF Cardinality(pend[k][p]) > 1 THEN Idle(k, p) /\ UNCHANGED <<registered, revoking>>
     ELSE /\ registered' = registered \ {p} /\ revoking' = revoking \cup {p}
          /\ UNCHANGED busy
  /\ UNCHANGED <<sched, ended, done, result, offset, lacking, net, lost, drops, fetchers,
                 stateLeft, wpc, closed>>

InFlight(k) == \E p \in Peers : pend[k][p] # {}

\* Nothing is pending.  The fetcher waits for more, or goes on to ask what is in
\* flight, having released q.lock.
NothingPending(k) ==
  /\ LockFree /\ fpc[k] = "update" /\ queue[k] = {}
  /\ Go(k, IF ended THEN "drained" ELSE "select")
  /\ UNCHANGED <<sched, ended, tasks, peers, round, stateLeft, wpc, closed, expiries>>

\* Mutant of NothingLeft: requests in flight are not waited for.
NothingLeftEarly(k) ==
  /\ LockFree /\ fpc[k] = "drained"
  /\ Go(k, "done")
  /\ UNCHANGED <<sched, ended, tasks, peers, round, stateLeft, wpc, closed, expiries>>

\* Nothing is in flight either: the fetcher ends.  What was pending is not looked
\* at again, although a request may have been revoked in between.
NothingLeft(k) ==
  /\ LockFree /\ fpc[k] = "drained"
  /\ Go(k, IF InFlight(k) THEN "select" ELSE "done")
  /\ UNCHANGED <<sched, ended, tasks, peers, round, stateLeft, wpc, closed, expiries>>

\* Something is pending: the idle peers are listed, and a round goes through them.
\* What is pending stays so, and a revocation between the looks at the requests and
\* at the peers might as well come after both.
StartRound(k) ==
  LET idles == {p \in Peers : p \in registered /\ ~busy[k][p]}
  IN /\ LockFree /\ fpc[k] = "update" /\ queue[k] # {}
     /\ round' = [round EXCEPT ![k] =
          [NoRound EXCEPT !.idles = idles, !.all = (idles = registered),
                          !.running = InFlight(k)]]
     /\ Go(k, "round")
     /\ UNCHANGED <<sched, ended, tasks, peers, stateLeft, wpc, closed, expiries>>

Requested(k) == Cardinality({t \in Peers \X Headers : t[2] \in pend[k][t[1]]})
Space(k) == CacheSize - Cardinality(done[k]) - Requested(k)

\* ShouldThrottleBlocks, ShouldThrottleReceipts.
Throttle(k) ==
  /\ LockFree /\ fpc[k] = "round" /\ round[k].idles # {} /\ Space(k) <= 0
  /\ round' = [round EXCEPT ![k].idles = {}, ![k].throttled = TRUE]
  /\ UNCHANGED <<sched, ended, tasks, peers, fpc, stateLeft, wpc, closed, expiries>>

\* Mutant of Popped: the cache space is not looked at.
PoppedUnbounded(k, p, count) ==
  {n \in queue[k] :
     Cardinality({m \in queue[k] : m < n /\ m \notin Noop[k] /\ m \notin lacking[p]}) < count}

\* What reserveHeaders pops, lowest first: it stops when the cache is full or
\* count headers can be asked for.
Popped(k, p, count) ==
  {n \in queue[k] :
     /\ Cardinality({m \in queue[k] : m < n}) < Space(k)
     /\ Cardinality({m \in queue[k] : m < n /\ m \notin Noop[k] /\ m \notin lacking[p]}) < count}

InCache(n) == n >= offset /\ n < offset + CacheSize

\* The parts of a new result.
Components(n) == IF Needs("receipt", n) THEN 2 ELSE 1

\* reserveHeaders for peer p, and the request that follows.  A header beyond the
\* result cache ("index allocation went beyond available resultCache space") and
\* a request to a peer that still has one ("hard panic") are "corrupt".
Reserve(k, p, count) ==
  LET popped == Popped(k, p, count)
      empty == popped \cap Noop[k]
      send == popped \ (Noop[k] \cup lacking[p])
  IN /\ LockFree /\ fpc[k] = "round" /\ p \in round[k].idles /\ Space(k) > 0
     /\ IF pend[k][p] # {}                    \* already downloading
          THEN /\ round' = [round EXCEPT ![k].idles = @ \ {p}]
               /\ UNCHANGED <<tasks, busy, net, fpc, wpc>>
        ELSE IF (\E n \in popped : ~InCache(n)) \/ (send # {} /\ busy[k][p])
          THEN Go(k, "corrupt") /\ UNCHANGED <<tasks, busy, net, round, wpc>>
        ELSE /\ queue' = [queue EXCEPT ![k] = @ \ (empty \cup send)]
             /\ result' = [n \in Headers |->
                  IF n \in popped
                    THEN (IF result[n] = None THEN Components(n) ELSE result[n])
                           - (IF n \in empty THEN 1 ELSE 0)
                    ELSE result[n]]
             /\ done' = [done EXCEPT ![k] = @ \cup empty]
             /\ pend' = [pend EXCEPT ![k][p] = send]
             /\ IF send = {} THEN UNCHANGED <<busy, net>>
                ELSE /\ busy' = [busy EXCEPT ![k][p] = TRUE]
                     /\ net' = [net EXCEPT ![k][p] = Append(@, send)]
             /\ round' = [round EXCEPT ![k].idles = @ \ {p},
                                       ![k].progress = @ \/ empty # {},
                                       ![k].running = @ \/ send # {}]
             /\ IF empty # {} THEN Signal ELSE UNCHANGED wpc
             /\ UNCHANGED <<offset, fpc>>
     /\ UNCHANGED <<sched, ended, lacking, registered, revoking, lost, drops, stateLeft,
                    closed, expiries>>

\* Every idle peer was tried.  If nobody had anything to give, the fetcher
\* fails (errPeersUnavailable).
EndRound(k) ==
  LET r == round[k]
  IN /\ LockFree /\ fpc[k] = "round" /\ r.idles = {}
     /\ Go(k, IF ~r.progress /\ ~r.throttled /\ ~r.running /\ r.all /\ queue[k] # {}
                THEN "failed" ELSE "select")
     /\ UNCHANGED <<sched, ended, tasks, peers, round, stateLeft, wpc, closed, expiries>>

-----------------------------------------------------------------------------
(* Replies, and peers that come and go.                                    *)

\* What deliver accepts of a reply: the i-th item must be that of the i-th
\* header of the request, and the loop stops at the first that is not.
Accepted(request, reply) ==
  {n \in request \cap reply : {m \in request : m < n} = {m \in reply : m < n}}

\* Mutant of Requeued: the tail that was not delivered is forgotten.
RequeuedNone(request, accepted) == {}

\* Headers of the request that go back into the task queue.
Requeued(request, accepted) == request \ accepted

\* deliver, and what fetchParts makes of its result.  The request the reply was
\* for may have expired, and another one taken its place.  An empty reply marks
\* the headers as lacking; a stale delivery leaves the peer as it is.
DeliverReply(k, p, reply) ==
  LET request == pend[k][p]
      accepted == Accepted(request, reply)
      failed == accepted # request /\ accepted # reply
  IN /\ pend' = [pend EXCEPT ![k][p] = {}]
     /\ IF \E n \in accepted : ~InCache(n) \/ result[n] = None
          THEN /\ Go(k, "corrupt")                   \* errInvalidChain
               /\ UNCHANGED <<queue, done, result, lacking, busy, wpc>>
          ELSE /\ queue' = [queue EXCEPT ![k] = @ \cup Requeued(request, accepted)]
               /\ done' = [done EXCEPT ![k] = @ \cup accepted]
               /\ result' = [n \in Headers |->
                    IF n \in accepted THEN result[n] - 1 ELSE result[n]]
               /\ lacking' = IF reply # {} THEN lacking
                             ELSE [lacking EXCEPT ![p] = @ \cup request]
               /\ IF failed /\ accepted = {} THEN UNCHANGED busy ELSE Idle(k, p)
               /\ IF accepted # {} THEN Signal ELSE UNCHANGED wpc
               /\ UNCHANGED fpc

\* The replies to a request: the peer leaves out what it does not have, and
\* stops when the reply is large enough.
Replies(request) ==
  IF Gaps THEN SUBSET request
  ELSE {{m \in request : m < n} : n \in request} \cup {request}

\* A reply to the oldest request that p has not answered.
Deliver(k, p, reply) ==
  /\ LockFree /\ fpc[k] = "select"
  /\ net' = [net EXCEPT ![k][p] = Tail(@)]
  /\ IF p \notin registered
       THEN UNCHANGED <<queue, pend, done, result, lacking, busy, fpc, wpc>>
       ELSE DeliverReply(k, p, reply)
  /\ UNCHANGED <<sched, ended, offset, registered, revoking, lost, drops, round,
                 stateLeft, closed, expiries>>

\* The oldest request of p is never answered.
Lose(k, p) ==
  /\ net[k][p] # <<>> /\ lost < MaxLost
  /\ net' = [net EXCEPT ![k][p] = Tail(@)] /\ lost' = lost + 1
  /\ UNCHANGED <<sched, ended, tasks, lacking, busy, registered, revoking, drops,
                 fetchers, stateLeft, wpc, closed, expiries>>

\* UnregisterPeer when p disconnects: first the peer set ...
Unregister(p) ==
  /\ p \in registered /\ drops < MaxDrops
  /\ registered' = registered \ {p} /\ revoking' = revoking \cup {p} /\ drops' = drops + 1
  /\ UNCHANGED <<sched, ended, tasks, lacking, busy, net, lost, fetchers, stateLeft,
                 wpc, closed, expiries>>

\* ... then the queue takes its requests back.
Revoke(p) ==
  /\ LockFree /\ p \in revoking
  /\ revoking' = revoking \ {p}
  /\ queue' = [k \in Kinds |-> queue[k] \cup pend[k][p]]
  /\ pend' = [k \in Kinds |-> [pend[k] EXCEPT ![p] = {}]]
  /\ UNCHANGED <<sched, ended, done, result, offset, lacking, busy, net, registered, lost,
                 drops, fetchers, stateLeft, wpc, closed, expiries>>

-----------------------------------------------------------------------------
(* process: WaitResults, and the end of the cycle.                         *)

Ready(n) == n \in Headers /\ result[n] = 0
Allocated(n) == n \in Headers /\ InCache(n) /\ result[n] # None

\* Mutant of StopsAt: the results after the pivot go with it.
StopsAtNotAfter(n) ==
  \/ ~Ready(n)
  \/ /\ Fast /\ n = Pivot
     /\ n > offset \/ stateLeft > 0 \/ \E j \in 1..ForceVerify : ~Allocated(n + j)

\* countProcessableItems returns at n.
StopsAt(n) ==
  \/ ~Ready(n)
  \/ /\ Fast /\ n = Pivot
     /\ n > offset \/ stateLeft > 0 \/ \E j \in 1..ForceVerify : ~Allocated(n + j)
  \/ Fast /\ n = Pivot + 1 /\ n > offset

\* The results offset..upto-1 can be processed, and no more.
Processable(upto) ==
  /\ \A n \in offset..(upto - 1) : ~StopsAt(n)
  /\ upto = offset + CacheSize \/ StopsAt(upto)

\* Results are taken off the front of the cache.
TakeResults(upto) ==
  /\ wpc = "check" /\ upto > offset /\ upto <= offset + CacheSize
  /\ Processable(upto)
  /\ offset' = upto
  /\ done' = [k \in Kinds |-> done[k] \ (offset..(upto - 1))]
  /\ result' = [n \in Headers |-> IF n < upto THEN None ELSE result[n]]
  /\ UNCHANGED <<sched, ended, queue, pend, peers, fetchers, stateLeft, wpc, closed,
                 expiries>>

\* Nothing to take: process returns once the queue is closed, and otherwise is
\* about to wait; it has the lock until it does.
NoResults ==
  /\ wpc = "check" /\ StopsAt(offset)
  /\ wpc' = IF closed THEN "done" ELSE "park"
  /\ UNCHANGED <<sched, ended, tasks, peers, fetchers, stateLeft, closed, expiries>>

Wait ==
  /\ wpc = "park" /\ wpc' = "wait"
  /\ UNCHANGED <<sched, ended, tasks, peers, fetchers, stateLeft, closed, expiries>>

\* The asynchronous state processor writes what was delivered and signals; it
\* does not hold q.lock.
StateProcessed ==
  /\ stateLeft > 0 /\ ~closed
  /\ stateLeft' = stateLeft - 1
  /\ Signal
  /\ UNCHANGED <<sched, ended, tasks, peers, fetchers, closed, expiries>>

Failed == \E k \in Kinds : fpc[k] \in {"failed", "corrupt"}
AllDone == ended /\ stateLeft = 0 /\ \A k \in Kinds : fpc[k] = "done"

\* spawnSync closes the queue on the first error and when all fetchers are done.
Close ==
  /\ LockFree /\ ~closed /\ (Failed \/ AllDone)
  /\ closed' = TRUE
  /\ Signal
  /\ UNCHANGED <<sched, ended, tasks, peers, fetchers, stateLeft, expiries>>

\* A fetcher finds the cycle cancelled.
Cancelled(k) ==
  /\ fpc[k] = "select" /\ closed
  /\ Go(k, "done")
  /\ UNCHANGED <<sched, ended, tasks, peers, round, stateLeft, wpc, closed, expiries>>

Fetch(k) ==
  \/ Tick(k) \/ NothingPending(k) \/ NothingLeft(k) \/ StartRound(k) \/ Throttle(k)
  \/ EndRound(k) \/ Cancelled(k)

Reservation(k) == \E p \in Peers, count \in 1..MaxCount : Reserve(k, p, count)
Delivery(k, p) == net[k][p] # <<>> /\ \E reply \in Replies(Head(net[k][p])) : Deliver(k, p, reply)
Process == (\E upto \in 1..(N + 1) : TakeResults(upto)) \/ NoResults \/ Wait

Next ==
  \/ \E m \in 1..N : Schedule(m)
  \/ HeadersEnd
  \/ \E k \in Kinds : Fetch(k) \/ Reservation(k)
  \/ \E k \in Kinds, p \in Peers : Expire(k, p) \/ Delivery(k, p) \/ Lose(k, p)
  \/ \E p \in Peers : Unregister(p) \/ Revoke(p)
  \/ Process \/ StateProcessed \/ Close

Spec == Init /\ [][Next]_vars

\* Every goroutine runs; a ready case of fetchParts' select is taken in the end,
\* and a request without a reply times out.
Fairness ==
  /\ WF_vars(HeadersEnd) /\ WF_vars(Process) /\ WF_vars(StateProcessed) /\ WF_vars(Close)
  /\ \A k \in Kinds :
       /\ WF_vars(Fetch(k) \/ Reservation(k)) /\ SF_vars(Cancelled(k))
       /\ \A p \in Peers :
            /\ SF_vars(Delivery(k, p))
            /\ SF_vars(Expire(k, p) /\ net[k][p] = <<>>)
  /\ \A p \in Peers : WF_vars(Revoke(p))

LiveSpec == Spec /\ Fairness

-----------------------------------------------------------------------------
TypeOK ==
  /\ sched \in 0..N /\ ended \in BOOLEAN /\ closed \in BOOLEAN
  /\ queue \in [Kinds -> SUBSET Headers] /\ done \in [Kinds -> SUBSET Headers]
  /\ pend \in [Kinds -> [Peers -> SUBSET Headers]]
  /\ result \in [Headers -> -1..2] /\ offset \in 1..(N + 1)
  /\ lacking \in [Peers -> SUBSET Headers]
  /\ busy \in [Kinds -> [Peers -> BOOLEAN]]
  /\ net \in [Kinds -> [Peers -> Seq(SUBSET Headers)]]
  /\ registered \subseteq Peers /\ revoking \subseteq Peers
  /\ fpc \in [Kinds -> {"select", "update", "drained", "round", "done", "failed", "corrupt"}]
  /\ round \in [Kinds -> [idles : SUBSET Peers, all : BOOLEAN, progress : BOOLEAN,
                          throttled : BOOLEAN, running : BOOLEAN]]
  /\ stateLeft \in 0..StateBatches
  /\ wpc \in {"check", "park", "wait", "done"}
  /\ expiries \in 0..MaxExpiries /\ lost \in 0..MaxLost /\ drops \in 0..MaxDrops

InFlightSet(k) == UNION {pend[k][p] : p \in Peers}

\* Every part that is scheduled and not yet handed to process is in exactly one
\* place: the task queue, the request of exactly one peer, or the done pool,
\* whatever expires, is revoked, answered late or answered in part.
ExactlyOnePlace ==
  \A k \in Kinds :
    /\ queue[k] \cup InFlightSet(k) \cup done[k]
         = {n \in offset..sched : Needs(k, n)}
    /\ queue[k] \cap InFlightSet(k) = {} /\ done[k] \cap (queue[k] \cup InFlightSet(k)) = {}
    /\ \A p, q \in Peers : p # q => pend[k][p] \cap pend[k][q] = {}

Missing(k, n) == IF Needs(k, n) /\ n \notin done[k] THEN 1 ELSE 0

\* A result counts exactly the parts of its header that are not done, so it is
\* complete exactly when body and, up to the pivot, receipts are there.
PendingCounts ==
  \A n \in Headers : result[n] # None =>
    InCache(n) /\ result[n] = Missing("body", n) + Missing("receipt", n)

\* The queue's internal errors never occur: no reservation goes beyond the result
\* cache, no delivery finds its slot missing, no busy peer is asked again.
NeverCorrupt == \A k \in Kinds : fpc[k] # "corrupt"

\* process sleeps only while the queue is open and its next result cannot be taken
\* yet: no delivery, empty part or Close leaves it asleep.  The pivot is left out:
\* the state processor signals for it without q.lock, and that signal can fall
\* between the check and the wait.
NoLostWakeup ==
  wpc = "wait" => ~closed /\ (StopsAt(offset) \/ (Fast /\ offset = Pivot))

\* A peer marked busy has a request that can still be answered or time out:
\* "If the delivery's stale, the peer should have already been idled."
BusyHasRequest ==
  \A k \in Kinds, p \in registered : busy[k][p] => pend[k][p] # {}

\* A cycle ends: process returns.
CycleEnds == <>(wpc = "done")

\* When no fetcher failed, all that was scheduled is handed out in the end, the
\* pivot and what follows included if enough headers follow it.  Only if a peer has
\* left may a cycle end short of that: Revoke gave its request back between the
\* fetcher's looks at what is pending and at what is in flight.  What is missing
\* is in the task queue then; no request is left behind.
AllHandedOut ==
  wpc = "done" /\ ~Failed /\ (~Fast \/ sched >= Pivot + ForceVerify) =>
    \/ offset = sched + 1
    \/ /\ registered # Peers
       /\ \E k \in Kinds : queue[k] # {}
       /\ \A k \in Kinds : ~InFlight(k)

\* Documented at exp/downloader/downloader.go:1447: a fetcher terminates when there
\* is nothing more to fetch.
EndsWhenEmpty == \A k \in Kinds : fpc[k] = "done" /\ ~closed => queue[k] = {}

Apart(n) == Fast /\ n = Pivot

Stream == INSTANCE ResultStream
  WITH Parts <- Kinds, Required <- Needs, Window <- CacheSize,
       known <- sched, have <- done, next <- offset

\* To process the queue is a stream of complete blocks in order, each exactly
\* once and the pivot alone, whatever expires, is revoked or comes late; and the
\* parts taken in never run ahead of process by more than the result cache.
ImplementsStream == Stream!Spec

=============================================================================
