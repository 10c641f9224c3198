---------------------------- MODULE FetcherProofs ----------------------------
(* Safety of the fetcher for every set of peers and blocks and all limits.  *)
EXTENDS Fetcher, FiniteSetTheorems, TLAPS

Inv == TypeOK /\ ImportedOnce /\ QueueAccounting /\ OnePhase /\ TimersArmed

-----------------------------------------------------------------------------
(* The announcement maps.                                                   *)

CountersType ==
  /\ announces \in [Peers -> Int]
  /\ announced \in [Hashes -> [Announces -> Nat]]
  /\ fetching \in [Hashes -> Announces \cup {None}]
  /\ fetched \in [Hashes -> Announces \cup {None}]
  /\ completing \in [Hashes -> Announces \cup {None}]

\* What forgetHash takes off a peer's announce count is a natural number.
LEMMA TrackedType ==
  ASSUME CountersType, NEW h \in Hashes, NEW p \in Peers
  PROVE  Tracked(h, p) \in Nat
<1>1. /\ [origin |-> p, claim |-> "none"] \in Announces
      /\ [origin |-> p, claim |-> "right"] \in Announces
      /\ [origin |-> p, claim |-> "wrong"] \in Announces
  BY Zenon DEF Announces, Claims
<1>2. /\ announced[h][[origin |-> p, claim |-> "none"]] \in Nat
      /\ announced[h][[origin |-> p, claim |-> "right"]] \in Nat
      /\ announced[h][[origin |-> p, claim |-> "wrong"]] \in Nat
  BY <1>1, Zenon DEF CountersType
<1>3. \A a : OneIf(a, p) \in Nat
  BY Zenon DEF OneIf
<1>4. QED
  BY <1>2, <1>3 DEF Tracked

\* forgetHash keeps the maps well typed, keeps the phases of every hash
\* apart, and adds nothing to what waits for a timer.
LEMMA ForgetThenLemma ==
  ASSUME CountersType, OnePhase, NEW h \in Hashes,
         NEW f \in Announces \cup {None}, NEW c \in Announces \cup {None},
         ForgetThen(h, f, c)
  PROVE  CountersType' /\ OnePhase' /\ Announced' \subseteq Announced
           /\ Fetched' \subseteq Fetched
<1>1. NoBag \in [Announces -> Nat] /\ \A a \in Announces : ~(NoBag[a] > 0)
  BY DEF NoBag
<1>2. announces' \in [Peers -> Int]
  BY TrackedType DEF ForgetThen, CountersType
<1>3. CountersType'
  BY <1>1, <1>2, Zenon DEF ForgetThen, CountersType
<1>4. /\ h \notin Announced' /\ h \notin Fetched'
      /\ \A g \in Hashes \ {h} :
           /\ announced'[g] = announced[g] /\ fetching'[g] = fetching[g]
           /\ fetched'[g] = fetched[g] /\ completing'[g] = completing[g]
  BY <1>1, Zenon DEF ForgetThen, CountersType, Announced, Fetched
<1>5. Announced' \subseteq Announced /\ Fetched' \subseteq Fetched
  BY <1>4, Zenon DEF Announced, Fetched
<1>6. OnePhase'
  BY <1>4, <1>5, Zenon DEF OnePhase
<1>7. QED
  BY <1>3, <1>5, <1>6, Zenon

-----------------------------------------------------------------------------
(* The import queue.                                                        *)

BlocksType ==
  /\ queue \subseteq Hashes
  /\ queued \in [Hashes -> Peers \cup {None}]
  /\ queues \in [Peers -> Nat]

From(q, p) == {h \in Hashes : q[h] = p}

\* forgetBlock releases exactly one block of one peer.
LEMMA ForgetBlockLemma ==
  ASSUME BlocksType, QueueAccounting, NEW h \in Hashes, queued[h] # None,
         forgetBlock(h)
  PROVE  /\ queued' = [queued EXCEPT ![h] = None]
         /\ queued' \in [Hashes -> Peers \cup {None}]
         /\ queues' \in [Peers -> Nat]
         /\ QueueAccounting'
<1> DEFINE q == queued[h]
<1>1. q \in Peers /\ None \notin Peers
  BY NoneAssumption, Zenon DEF BlocksType
<1>2. queued' = [queued EXCEPT ![h] = None] /\ queues' = [queues EXCEPT ![q] = @ - 1]
  BY Zenon DEF forgetBlock
<1>3. From(queued', q) = From(queued, q) \ {h} /\ h \in From(queued, q)
  BY <1>1, <1>2, Zenon DEF From, BlocksType
<1>4. \A p \in Peers \ {q} : From(queued', p) = From(queued, p)
  BY <1>1, <1>2, Zenon DEF From, BlocksType
<1>5. \A p \in Peers : IsFiniteSet(From(queued, p))
  BY FetcherAssumption, FS_Subset, Zenon DEF From
<1>6. /\ Cardinality(From(queued', q)) = Cardinality(From(queued, q)) - 1
      /\ Cardinality(From(queued, q)) \in Nat
      /\ Cardinality(From(queued', q)) \in Nat
  BY <1>1, <1>3, <1>5, FS_RemoveElement, FS_CardinalityType
<1>7. \A p \in Peers : queues[p] = Cardinality(From(queued, p)) /\ queues[p] <= BlockLimit
  BY Zenon DEF QueueAccounting, From
<1>8. \A p \in Peers : queues'[p] = Cardinality(From(queued', p)) /\ queues'[p] <= BlockLimit
                         /\ queues'[p] \in Nat
  <2> SUFFICES ASSUME NEW p \in Peers
               PROVE  /\ queues'[p] = Cardinality(From(queued', p))
                      /\ queues'[p] <= BlockLimit
                      /\ queues'[p] \in Nat
    BY Zenon
  <2> HIDE DEF q
  <2>1. BlockLimit \in Nat /\ queues \in [Peers -> Nat]
    BY FetcherAssumption, Zenon DEF BlocksType
  <2>2. CASE p = q
    <3>1. queues'[p] = queues[p] - 1
      BY <1>1, <1>2, <2>1, <2>2, Zenon
    <3>2. QED
      BY <1>6, <1>7, <2>1, <2>2, <3>1
  <2>3. CASE p # q
    <3>1. queues'[p] = queues[p] /\ From(queued', p) = From(queued, p)
      BY <1>2, <1>4, <2>1, <2>3, ZenonT(30)
    <3>2. QED
      BY <1>7, <2>1, <3>1, Zenon
  <2>4. QED
    BY <2>2, <2>3, Zenon
<1>9. QueueAccounting'
  BY <1>8, Zenon DEF QueueAccounting, From
<1>10. queued' \in [Hashes -> Peers \cup {None}] /\ queues' \in [Peers -> Nat]
  BY <1>1, <1>2, <1>8, Zenon DEF BlocksType
<1>11. QED
  BY <1>2, <1>9, <1>10, Zenon

\* A block that enqueue accepts is new, and counted once for its peer.
LEMMA EnqueueBlocksLemma ==
  ASSUME BlocksType, QueueAccounting, ImportedOnce, UNCHANGED imports,
         NEW p \in Peers, NEW h \in Hashes, enqueue(p, h)
  PROVE  BlocksType' /\ QueueAccounting' /\ ImportedOnce'
<1>1. CASE UNCHANGED blocks
  BY <1>1 DEF BlocksType, QueueAccounting, ImportedOnce, Importing, blocks
<1>2. CASE /\ queues[p] + 1 <= BlockLimit
           /\ queued[h] = None
           /\ queues' = [queues EXCEPT ![p] = @ + 1]
           /\ queued' = [queued EXCEPT ![h] = p]
           /\ queue' = queue \cup {h}
  <2>1. None \notin Peers
    BY NoneAssumption, Zenon
  <2>2. BlocksType'
    BY <1>2 DEF BlocksType
  <2>3. From(queued', p) = From(queued, p) \cup {h} /\ h \notin From(queued, p)
    BY <1>2, <2>1, Zenon DEF From, BlocksType
  <2>4. \A r \in Peers \ {p} : From(queued', r) = From(queued, r)
    BY <1>2, <2>1, Zenon DEF From, BlocksType
  <2>5. IsFiniteSet(From(queued, p))
    BY FetcherAssumption, FS_Subset, Zenon DEF From
  <2>6. Cardinality(From(queued', p)) = Cardinality(From(queued, p)) + 1
    BY <2>3, <2>5, FS_AddElement, Zenon
  <2>7. \A r \in Peers : queues[r] = Cardinality(From(queued, r)) /\ queues[r] <= BlockLimit
    BY Zenon DEF QueueAccounting, From
  <2>8. \A r \in Peers : queues'[r] = Cardinality(From(queued', r)) /\ queues'[r] <= BlockLimit
    BY <1>2, <2>4, <2>6, <2>7, ZenonT(30) DEF BlocksType
  <2>9. QueueAccounting'
    BY <2>8, Zenon DEF QueueAccounting, From
  <2>10. Importing' = Importing /\ h \notin Importing /\ h \notin queue
    BY <1>2, Zenon DEF ImportedOnce, Importing
  <2>11. {g \in Hashes : queued'[g] # None} = {g \in Hashes : queued[g] # None} \cup {h}
    BY <1>2, <2>1, Zenon DEF BlocksType
  <2>12. ImportedOnce'
    BY <1>2, <2>10, <2>11, Zenon DEF ImportedOnce
  <2>13. QED
    BY <2>2, <2>9, <2>12, Zenon
<1>3. QED
  BY <1>1, <1>2, Zenon DEF enqueue

-----------------------------------------------------------------------------
(* One lemma for the steps that leave a group of variables alone.           *)

RestType ==
  /\ fetchArmed \in BOOLEAN /\ completeArmed \in BOOLEAN
  /\ pc \in {"top", "import", "select", "fetch", "complete", "blocks",
             "bodies", "enqueue61", "enqueue62", "stopped"}
  /\ height \in Nat
  /\ todo \subseteq Hashes /\ explicit \subseteq Hashes
  /\ imports \subseteq [hash : Hashes, origin : Peers, stage : Stages]
  /\ known \subseteq Hashes \cup {Genesis}
  /\ chainHeight \in Nat
  /\ dropped \subseteq Peers
  /\ notified \in Nat

\* The type invariant, split by the variables the helpers change.
LEMMA TypeParts == TypeOK <=> CountersType /\ BlocksType /\ RestType
  BY Zenon DEF TypeOK, CountersType, BlocksType, RestType

\* Untouched announcement maps stay well typed and in phase.
LEMMA CountersKept ==
  ASSUME CountersType, OnePhase, UNCHANGED counters
  PROVE  CountersType' /\ OnePhase' /\ Announced' \subseteq Announced
           /\ Fetched' \subseteq Fetched
  BY Zenon DEF CountersType, OnePhase, Announced, Fetched, counters

BlocksInv == BlocksType /\ QueueAccounting /\ ImportedOnce

\* An untouched import queue stays consistent.
LEMMA BlocksKept ==
  ASSUME BlocksInv, UNCHANGED blocks, Importing' = Importing,
         \A r, s \in imports' : r.hash = s.hash => r = s
  PROVE  BlocksInv'
  BY DEF BlocksInv, BlocksType, QueueAccounting, ImportedOnce, blocks

\* The timers stay armed when no entry is added and they are left alone.
LEMMA TimersKept ==
  ASSUME TimersArmed, Announced' \subseteq Announced, Fetched' \subseteq Fetched,
         UNCHANGED timers, pc \notin {"fetch", "complete"} \/ pc' = pc
  PROVE  TimersArmed'
  BY Zenon DEF TimersArmed, timers

\* A goroutine that moves on keeps its hash.
LEMMA BecomeLemma ==
  ASSUME RestType, ImportedOnce, NEW r \in imports, NEW stage \in Stages,
         Become(r, stage)
  PROVE  /\ imports' \subseteq [hash : Hashes, origin : Peers, stage : Stages]
         /\ Importing' = Importing
         /\ \A u, v \in imports' : u.hash = v.hash => u = v
<1> DEFINE n == [r EXCEPT !.stage = stage]
<1>1. r \in [hash : Hashes, origin : Peers, stage : Stages]
  BY Zenon DEF RestType
<1>2. n \in [hash : Hashes, origin : Peers, stage : Stages] /\ n.hash = r.hash
  BY <1>1, Zenon
<1>3. imports' = (imports \ {r}) \cup {n}
  BY Zenon DEF Become
<1> HIDE DEF n
<1>4. \A u, v \in imports : u.hash = v.hash => u = v
  BY Zenon DEF ImportedOnce
<1>5. \A u, v \in imports' : u.hash = v.hash => u = v
  BY <1>2, <1>3, <1>4
<1>6. Importing' = Importing
  BY <1>2, <1>3, Zenon DEF Importing
<1>7. QED
  BY <1>2, <1>3, <1>5, <1>6, Zenon DEF RestType

CountersInv == CountersType /\ OnePhase /\ TimersArmed

\* enqueue keeps both groups of maps consistent.
LEMMA EnqueueLemma ==
  ASSUME CountersInv, BlocksInv, NEW p \in Peers, NEW h \in Hashes,
         enqueue(p, h), UNCHANGED <<imports, timers>>,
         pc \notin {"fetch", "complete"}
  PROVE  CountersInv' /\ BlocksInv'
<1>1. BlocksInv'
  BY EnqueueBlocksLemma, Zenon DEF BlocksInv
<1>2. forgetHash(h) \/ UNCHANGED counters
  BY Zenon DEF enqueue
<1>3. CountersType' /\ OnePhase' /\ Announced' \subseteq Announced
        /\ Fetched' \subseteq Fetched
  <2>1. CASE forgetHash(h)
    BY <2>1, ForgetThenLemma, Zenon DEF forgetHash, CountersInv
  <2>2. CASE UNCHANGED counters
    BY <2>2, CountersKept, Zenon DEF CountersInv
  <2>3. QED
    BY <1>2, <2>1, <2>2, Zenon
<1>4. QED
  BY <1>1, <1>3, TimersKept, Zenon DEF CountersInv

-----------------------------------------------------------------------------
(* Every step preserves the invariant.                                      *)

Parts == CountersInv /\ BlocksInv /\ RestType

\* The invariant, regrouped by the variables the steps change.
LEMMA InvParts == Inv <=> Parts
  BY TypeParts, Zenon DEF Inv, Parts, CountersInv, BlocksInv

\* A step that only forgets a hash, or touches no map at all.
LEMMA ForgetStep ==
  ASSUME Parts, UNCHANGED <<blocks, imports, timers>>, RestType',
         NEW h \in Hashes, forgetHash(h) \/ UNCHANGED counters,
         pc \notin {"fetch", "complete"} \/ pc' = pc
  PROVE  Parts'
<1>1. CountersType' /\ OnePhase' /\ Announced' \subseteq Announced
        /\ Fetched' \subseteq Fetched
  <2>1. CASE forgetHash(h)
    BY <2>1, ForgetThenLemma, Zenon DEF forgetHash, CountersInv, Parts
  <2>2. CASE UNCHANGED counters
    BY <2>2, CountersKept, Zenon DEF CountersInv, Parts
  <2>3. QED
    BY <2>1, <2>2, Zenon
<1>2. BlocksInv'
  BY BlocksKept, Zenon DEF Parts, BlocksInv, ImportedOnce, Importing
<1>3. QED
  BY <1>1, <1>2, TimersKept, Zenon DEF Parts, CountersInv

\* The same for a step that changes no map.
LEMMA IdleStep ==
  ASSUME Parts, UNCHANGED <<counters, blocks, imports, timers>>, RestType',
         pc \notin {"fetch", "complete"} \/ pc' = pc
  PROVE  Parts'
<1>1. CountersType' /\ OnePhase' /\ Announced' \subseteq Announced
        /\ Fetched' \subseteq Fetched
  BY CountersKept, Zenon DEF Parts, CountersInv
<1>2. BlocksInv'
  BY BlocksKept, Zenon DEF Parts, BlocksInv, ImportedOnce, Importing
<1>3. QED
  BY <1>1, <1>2, TimersKept, Zenon DEF Parts, CountersInv

\* Popping the import queue: requeue, discard or spawn an import.
LEMMA PopQueueStep ==
  ASSUME Parts, NEW h \in Hashes, PopQueue(h)
  PROVE  Parts'
<1> USE DEF Parts
<1>1. pc = "import" /\ h \in queue /\ UNCHANGED <<counters, timers>>
  BY Zenon DEF PopQueue, First
<1>2. CountersInv'
  BY <1>1, CountersKept, TimersKept, Zenon DEF CountersInv
<1>3. queued[h] \in Peers /\ queued[h] # None /\ h \notin Importing /\ None \notin Peers
  BY <1>1, NoneAssumption, Zenon DEF BlocksInv, BlocksType, ImportedOnce
<1>4. CASE UNCHANGED <<blocks, imports>> /\ pc' = "select"
  <2>1. BlocksInv'
    BY <1>4, BlocksKept, Zenon DEF BlocksInv, ImportedOnce, Importing
  <2>2. RestType'
    BY <1>4, Zenon DEF PopQueue, RestType, chain, timers
  <2>3. QED
    BY <1>2, <2>1, <2>2, Zenon
<1>5. CASE queue' = queue \ {h} /\ forgetBlock(h) /\ UNCHANGED <<imports, pc>>
  <2>1. /\ queued' = [queued EXCEPT ![h] = None]
        /\ BlocksType' /\ QueueAccounting'
    BY <1>3, <1>5, ForgetBlockLemma, Zenon DEF BlocksInv, BlocksType
  <2>2. {g \in Hashes : queued'[g] # None} = {g \in Hashes : queued[g] # None} \ {h}
    BY <2>1, Zenon DEF BlocksInv, BlocksType
  <2>3. Importing' = Importing
    BY <1>5, Zenon DEF Importing
  <2>4. ImportedOnce'
    BY <1>3, <1>5, <2>2, <2>3, SMTT(60) DEF BlocksInv, ImportedOnce
  <2>5. RestType'
    BY <1>5, Zenon DEF PopQueue, RestType, chain, timers
  <2>6. QED
    BY <1>2, <2>1, <2>4, <2>5, Zenon DEF BlocksInv
<1>6. CASE /\ queue' = queue \ {h}
           /\ imports' = imports \cup
                {[hash |-> h, origin |-> queued[h], stage |-> "check"]}
           /\ UNCHANGED <<queued, queues, pc>>
  <2> DEFINE n == [hash |-> h, origin |-> queued[h], stage |-> "check"]
  <2>1. n \in [hash : Hashes, origin : Peers, stage : Stages] /\ n.hash = h
    BY <1>3, Zenon DEF Stages
  <2>2. imports' = imports \cup {n}
    BY <1>6, Zenon
  <2> HIDE DEF n
  <2>3. Importing' = Importing \cup {h}
    BY <2>1, <2>2, Zenon DEF Importing
  <2>4. \A r \in imports : r.hash # h
    BY <1>3, Zenon DEF Importing
  <2>5. \A r, u \in imports' : r.hash = u.hash => r = u
    BY <2>1, <2>2, <2>4, Zenon DEF BlocksInv, ImportedOnce
  <2>6. ImportedOnce'
    BY <1>1, <1>3, <1>6, <2>3, <2>5 DEF BlocksInv, ImportedOnce
  <2>7. BlocksType' /\ QueueAccounting'
    BY <1>6, Zenon DEF BlocksInv, BlocksType, QueueAccounting
  <2>8. RestType'
    BY <1>6, <2>1, <2>2, Zenon DEF PopQueue, RestType, chain, timers
  <2>9. QED
    BY <1>2, <2>6, <2>7, <2>8, Zenon DEF BlocksInv
<1>7. QED
  BY <1>4, <1>5, <1>6, Zenon DEF PopQueue

\* An import has reported: its hash, its block and its goroutine go.
LEMMA DoneStep ==
  ASSUME Parts, NEW r \in imports, Done(r)
  PROVE  Parts'
<1> USE DEF Parts
<1> DEFINE h == r.hash
<1>1. h \in Hashes /\ h \in Importing /\ pc = "select"
  BY Zenon DEF RestType, Importing, Done
<1>2. queued[h] # None /\ h \notin queue
  BY <1>1, Zenon DEF BlocksInv, ImportedOnce
<1>3. forgetBlock(h) /\ forgetHash(h) /\ queue' = queue /\ imports' = imports \ {r}
  BY Zenon DEF Done
<1>4. /\ queued' = [queued EXCEPT ![h] = None]
      /\ BlocksType' /\ QueueAccounting'
  BY <1>1, <1>2, <1>3, ForgetBlockLemma, Zenon DEF BlocksInv, BlocksType
<1>5. {g \in Hashes : queued'[g] # None} = {g \in Hashes : queued[g] # None} \ {h}
  BY <1>1, <1>4, Zenon DEF BlocksInv, BlocksType
<1>6. Importing' = Importing \ {h}
  BY <1>3, Zenon DEF BlocksInv, ImportedOnce, Importing
<1>7. ImportedOnce'
  BY <1>2, <1>3, <1>5, <1>6 DEF BlocksInv, ImportedOnce
<1>8. CountersInv'
  BY <1>1, <1>3, ForgetThenLemma, TimersKept, Zenon DEF CountersInv, forgetHash, Done
<1>9. RestType'
  BY Zenon DEF Done, RestType, chain, timers
<1>10. QED
  BY <1>4, <1>7, <1>8, <1>9, Zenon DEF BlocksInv

\* The passes over announced and fetched hashes, and the timer resets.
LEMMA TimerStep ==
  ASSUME Parts, NEW h,
         \/ FetchTimer \/ CompleteTimer
         \/ h \in Hashes /\ (FetchExpired(h) \/ FetchLater(h) \/ Complete(h))
         \/ rescheduleFetch \/ rescheduleComplete
  PROVE  Parts'
<1> USE DEF Parts
<1>1. UNCHANGED <<blocks, imports>>
  BY Zenon DEF FetchTimer, CompleteTimer, FetchExpired, FetchLater, Complete,
         rescheduleFetch, rescheduleComplete
<1>2. BlocksInv'
  BY <1>1, BlocksKept, Zenon DEF BlocksInv, ImportedOnce, Importing
<1>3. RestType'
  BY ZenonT(30) DEF FetchTimer, CompleteTimer, FetchExpired, FetchLater, Complete,
         rescheduleFetch, rescheduleComplete, RestType, chain, timers,
         Announced, Fetched
<1>4. CountersType' /\ OnePhase' /\ Announced' \subseteq Announced
        /\ Fetched' \subseteq Fetched
  <2>1. CASE UNCHANGED counters
    BY <2>1, CountersKept, Zenon DEF CountersInv
  <2>2. CASE h \in Hashes /\ FetchExpired(h)
    <3>1. PICK a \in Announces : ForgetThen(h, IF h \in known THEN None ELSE a, None)
      BY <2>2, Zenon DEF FetchExpired
    <3>2. QED
      BY <2>2, <3>1, ForgetThenLemma, Zenon DEF CountersInv
  <2>3. CASE h \in Hashes /\ Complete(h)
    <3>1. fetched[h] \in Announces \cup {None}
      BY <2>3, Zenon DEF CountersInv, CountersType
    <3>2. ForgetThen(h, None, IF h \in known THEN None ELSE fetched[h])
      BY <2>3, Zenon DEF Complete
    <3>3. QED
      BY <2>3, <3>1, <3>2, ForgetThenLemma, Zenon DEF CountersInv
  <2>4. QED
    BY <2>1, <2>2, <2>3, Zenon DEF FetchTimer, CompleteTimer, FetchLater,
       rescheduleFetch, rescheduleComplete
<1>5. TimersArmed'
  <2>1. CASE FetchTimer \/ CompleteTimer
    BY <1>4, <2>1, Zenon DEF CountersInv, TimersArmed, FetchTimer, CompleteTimer
  <2>2. CASE FetchExpired(h) \/ FetchLater(h) \/ Complete(h)
    BY <1>4, <2>2, TimersKept, Zenon DEF CountersInv, FetchExpired, FetchLater, Complete
  <2>3. CASE rescheduleFetch
    <3>1. Announced' = Announced /\ Fetched' = Fetched
      BY <2>3, Zenon DEF rescheduleFetch, counters, Announced, Fetched
    <3>2. QED
      BY <2>3, <3>1, ZenonT(30) DEF CountersInv, TimersArmed, rescheduleFetch
  <2>4. CASE rescheduleComplete
    <3>1. Announced' = Announced /\ Fetched' = Fetched
      BY <2>4, Zenon DEF rescheduleComplete, counters, Announced, Fetched
    <3>2. QED
      BY <2>4, <3>1, ZenonT(30) DEF CountersInv, TimersArmed, rescheduleComplete
  <2>5. QED
    BY <2>1, <2>2, <2>3, <2>4, Zenon
<1>6. QED
  BY <1>2, <1>3, <1>4, <1>5, Zenon DEF CountersInv

\* Batches of blocks and bodies, and the explicit enqueues that follow.
LEMMA FilterStep ==
  ASSUME Parts, NEW h \in Hashes,
         FilterBlock(h) \/ FilterBody(h) \/ FilterDone \/ EnqueueExplicit(h)
           \/ EnqueueDone
  PROVE  Parts'
<1> USE DEF Parts
<1>1. CASE FilterBlock(h) \/ FilterBody(h)
  <2>1. RestType'
    BY <1>1, Zenon DEF FilterBlock, FilterBody, RestType, chain, timers
  <2>2. forgetHash(h) \/ UNCHANGED counters
    BY <1>1, ZenonT(30) DEF FilterBlock, FilterBody
  <2>3. UNCHANGED <<blocks, imports, timers, pc>>
    BY <1>1, Zenon DEF FilterBlock, FilterBody
  <2>4. QED
    BY <2>1, <2>2, <2>3, ForgetStep, Zenon
<1>2. CASE FilterDone \/ EnqueueDone
  <2>1. RestType'
    BY <1>2, Zenon DEF FilterDone, EnqueueDone, RestType, chain, timers
  <2>2. QED
    BY <1>2, <2>1, IdleStep, Zenon DEF FilterDone, EnqueueDone
<1>3. CASE EnqueueExplicit(h)
  <2> DEFINE announce == IF pc = "enqueue61" THEN fetching[h] ELSE completing[h]
  <2>1. RestType'
    BY <1>3, Zenon DEF EnqueueExplicit, RestType, chain, timers
  <2>2. /\ pc \notin {"fetch", "complete"} /\ UNCHANGED <<imports, timers, pc>>
        /\ IF announce # None THEN enqueue(announce.origin, h)
                              ELSE UNCHANGED <<counters, blocks>>
    BY <1>3, Zenon DEF EnqueueExplicit
  <2>3. announce # None => announce.origin \in Peers
    BY Zenon DEF CountersInv, CountersType, Announces
  <2> HIDE DEF announce
  <2>4. CASE announce # None
    BY <2>1, <2>2, <2>3, <2>4, EnqueueLemma, Zenon
  <2>5. CASE announce = None
    BY <2>1, <2>2, <2>5, IdleStep, Zenon
  <2>6. QED
    BY <2>4, <2>5, Zenon
<1>4. QED
  BY <1>1, <1>2, <1>3, Zenon

\* An accepted announcement arms the fetch timer if it is the first.
LEMMA NotifyStep ==
  ASSUME Parts, NEW p \in Peers, NEW h \in Hashes, NEW c \in Claims, Notify(p, h, c)
  PROVE  Parts'
<1> USE DEF Parts
<1>1. BlocksInv'
  BY BlocksKept, Zenon DEF Notify, BlocksInv, ImportedOnce, Importing
<1>2. RestType'
  <2>1. fetchArmed' \in BOOLEAN
    BY Zenon DEF Notify, RestType
  <2>2. UNCHANGED <<completeArmed, height, todo, explicit, imports, known,
                    chainHeight, dropped>> /\ pc' = "top" /\ notified' = notified + 1
    BY Zenon DEF Notify, chain
  <2>3. QED
    BY <2>1, <2>2 DEF RestType
<1>3. CASE Accepted(p, h, c)
  <2> DEFINE a == [origin |-> p, claim |-> c]
  <2>1. a \in Announces
    BY Zenon DEF Announces
  <2> HIDE DEF a
  <2>2. /\ announces' = [announces EXCEPT ![p] = @ + 1]
        /\ announced' = [announced EXCEPT ![h][a] = @ + 1]
        /\ fetchArmed' = (fetchArmed \/ Announced \subseteq {h})
        /\ UNCHANGED <<fetching, fetched, completing, completeArmed>>
        /\ pc = "select"
    BY <1>3, Zenon DEF Notify, a
  <2>3. CountersType'
    BY <2>1, <2>2, SMTT(60) DEF CountersInv, CountersType
  <2>4. \A g \in Hashes \ {h} : announced'[g] = announced[g]
    BY <2>2, Zenon DEF CountersInv, CountersType
  <2>5. Announced' \subseteq Announced \cup {h} /\ Fetched' = Fetched
    BY <2>2, <2>4, Zenon DEF Announced, Fetched
  <2>6. fetching[h] = None /\ completing[h] = None
    BY <1>3, Zenon DEF Accepted
  <2>7. OnePhase'
    BY <2>2, <2>5, <2>6, Zenon DEF CountersInv, OnePhase
  <2>8. TimersArmed'
    <3>1. fetchArmed'
      <4>1. CASE Announced \subseteq {h}
        BY <2>2, <4>1, ZenonT(30)
      <4>2. CASE ~(Announced \subseteq {h})
        <5>1. fetchArmed
          BY <2>2, <4>2, Zenon DEF CountersInv, TimersArmed
        <5>2. QED
          BY <2>2, <5>1, ZenonT(30)
      <4>3. QED
        BY <4>1, <4>2, Zenon
    <3>2. QED
      BY <2>2, <2>5, <3>1, Zenon DEF CountersInv, TimersArmed
  <2>9. QED
    BY <1>1, <1>2, <2>3, <2>7, <2>8, Zenon DEF CountersInv
<1>4. CASE ~Accepted(p, h, c)
  <2>1. UNCHANGED <<counters, timers>> /\ pc = "select"
    BY <1>4, Zenon DEF Notify, counters, timers
  <2>2. QED
    BY <1>1, <1>2, <2>1, CountersKept, TimersKept, Zenon DEF CountersInv
<1>5. QED
  BY <1>3, <1>4, Zenon

\* A header is matched with the announcement that asked for it.
LEMMA FilterHeadersStep ==
  ASSUME Parts, NEW h \in Hashes, FilterHeaders(h)
  PROVE  Parts'
<1> USE DEF Parts
<1>1. BlocksInv' /\ pc = "select"
  BY BlocksKept, Zenon DEF FilterHeaders, BlocksInv, ImportedOnce, Importing
<1>2. Requested(h) => fetching[h] \in Announces /\ fetching[h].origin \in Peers
  BY Zenon DEF Requested, CountersInv, CountersType, Announces
<1>3. RestType'
  BY <1>2, ZenonT(30) DEF FilterHeaders, RestType, chain
<1>4. CASE (forgetHash(h) \/ UNCHANGED counters) /\ UNCHANGED completeArmed
  <2>1. UNCHANGED <<blocks, imports, timers>>
    BY <1>4, Zenon DEF FilterHeaders, timers
  <2>2. QED
    BY <1>1, <1>3, <1>4, <2>1, ForgetStep, Zenon
<1>5. CASE /\ Requested(h)
           /\ completing' = [completing EXCEPT ![h] = fetching[h]]
           /\ UNCHANGED <<announces, announced, fetching, fetched, fetchArmed,
                          completeArmed>>
  <2>1. CountersType' /\ Announced' = Announced /\ Fetched' = Fetched
    BY <1>2, <1>5, Zenon DEF CountersInv, CountersType, Announced, Fetched
  <2>2. h \notin Announced /\ h \notin Fetched
    BY <1>5, Zenon DEF CountersInv, OnePhase, Requested, Fetched
  <2>3. OnePhase'
    BY <1>5, <2>1, <2>2, Zenon DEF CountersInv, CountersType, OnePhase
  <2>4. TimersArmed'
    BY <1>1, <1>5, <2>1, Zenon DEF CountersInv, TimersArmed
  <2>5. QED
    BY <1>1, <1>3, <2>1, <2>3, <2>4, Zenon DEF CountersInv
<1>6. CASE /\ Requested(h)
           /\ fetched' = [fetched EXCEPT ![h] = fetching[h]]
           /\ completeArmed' = (completeArmed \/ Fetched = {})
           /\ UNCHANGED <<announces, announced, fetching, completing, fetchArmed>>
  <2>1. CountersType' /\ Announced' = Announced
    BY <1>2, <1>6, Zenon DEF CountersInv, CountersType, Announced
  <2>2. Fetched' \subseteq Fetched \cup {h} /\ completing[h] = None
    BY <1>6, Zenon DEF CountersInv, CountersType, Fetched, Requested
  <2>3. OnePhase'
    BY <1>6, <2>1, <2>2, Zenon DEF CountersInv, CountersType, OnePhase, Fetched
  <2>4. TimersArmed'
    BY <1>1, <1>6, <2>1, <2>2, ZenonT(30) DEF CountersInv, TimersArmed
  <2>5. QED
    BY <1>1, <1>3, <2>1, <2>3, <2>4, Zenon DEF CountersInv
<1>7. QED
  BY <1>4, <1>5, <1>6, Zenon DEF FilterHeaders

\* The import goroutines and imports by other parts of the node.
LEMMA ImportStep ==
  ASSUME Parts, Import \/ \E h \in Hashes : OtherImport(h)
  PROVE  Parts'
<1> USE DEF Parts
<1>1. UNCHANGED <<counters, blocks, timers, pc>>
  BY ZenonT(30) DEF Import, ImportCheck, ImportInsert, OtherImport
<1>2. CountersInv'
  BY <1>1, CountersKept, TimersKept, Zenon DEF CountersInv
<1>3. CASE Import
  <2>1. PICK r \in imports : ImportCheck(r) \/ ImportInsert(r)
    BY <1>3, Zenon DEF Import
  <2>2. r.hash \in Hashes /\ r.origin \in Peers /\ Number[r.hash] \in Nat
    BY FetcherAssumption, ZenonT(30) DEF RestType
  <2>3. Become(r, "done") \/ Become(r, "insert")
    BY <2>1, Zenon DEF ImportCheck, ImportInsert
  <2>4. /\ imports' \subseteq [hash : Hashes, origin : Peers, stage : Stages]
        /\ Importing' = Importing
        /\ \A u, v \in imports' : u.hash = v.hash => u = v
    BY <2>3, BecomeLemma, Zenon DEF Stages, BlocksInv
  <2>5. BlocksInv'
    BY <1>1, <2>4, BlocksKept, Zenon
  <2>6. RestType'
    BY <2>1, <2>2, <2>4, Zenon DEF ImportCheck, ImportInsert, RestType, chain, timers
  <2>7. QED
    BY <1>2, <2>5, <2>6, Zenon
<1>4. CASE \E h \in Hashes : OtherImport(h)
  <2>1. RestType'
    BY <1>4, FetcherAssumption, SMTT(60) DEF OtherImport, RestType, timers
  <2>2. UNCHANGED imports
    BY <1>4, ZenonT(30) DEF OtherImport
  <2>3. QED
    BY <1>1, <2>1, <2>2, IdleStep, Zenon
<1>5. QED
  BY <1>3, <1>4, Zenon

\* Every step of the fetcher preserves the invariant.
LEMMA NextStep ==
  ASSUME Parts, [Next]_vars
  PROVE  Parts'
<1>1. CASE UNCHANGED vars
  <2>1. RestType'
    BY <1>1, Zenon DEF Parts, RestType, vars, chain, timers
  <2>2. QED
    BY <1>1, <2>1, IdleStep, Zenon DEF vars
<1>2. CASE Loop
  <2>1. CASE \E h \in Hashes : ExpireOne(h)
    <3>1. PICK h \in Hashes : ExpireOne(h)
      BY <2>1, Zenon
    <3>2. RestType'
      BY <3>1, Zenon DEF ExpireOne, Parts, RestType, chain, timers
    <3>3. QED
      BY <3>1, <3>2, ForgetStep, Zenon DEF ExpireOne
  <2>2. CASE \E h \in Hashes : PopQueue(h)
    BY <2>2, PopQueueStep, Zenon
  <2>3. CASE ReadHeight \/ QueueEmpty
    <3>1. RestType'
      BY <2>3, Zenon DEF ReadHeight, QueueEmpty, Parts, RestType, chain, timers
    <3>2. QED
      BY <2>3, <3>1, IdleStep, Zenon DEF ReadHeight, QueueEmpty
  <2>4. CASE \E h \in Hashes : FetchExpired(h) \/ FetchLater(h) \/ Complete(h)
    BY <2>4, TimerStep, Zenon
  <2>5. CASE \E h \in Hashes : FilterBlock(h) \/ FilterBody(h) \/ EnqueueExplicit(h)
    BY <2>5, FilterStep, Zenon
  <2>6. CASE FilterDone \/ EnqueueDone
    <3>1. RestType'
      BY <2>6, Zenon DEF FilterDone, EnqueueDone, Parts, RestType, chain, timers
    <3>2. QED
      BY <2>6, <3>1, IdleStep, Zenon DEF FilterDone, EnqueueDone
  <2>7. CASE rescheduleFetch \/ rescheduleComplete
    BY <2>7, TimerStep, Zenon
  <2>8. QED
    BY <1>2, <2>1, <2>2, <2>3, <2>4, <2>5, <2>6, <2>7, Zenon DEF Loop
<1>3. CASE Timer
  BY <1>3, TimerStep, Zenon DEF Timer
<1>4. CASE Network
  <2>1. CASE \E p \in Peers, h \in Hashes, c \in Claims : Notify(p, h, c)
    BY <2>1, NotifyStep, Zenon
  <2>2. CASE \E p \in Peers, h \in Hashes : Inject(p, h)
    <3>1. PICK p \in Peers, h \in Hashes : Inject(p, h)
      BY <2>2, Zenon
    <3>2. RestType'
      BY <3>1, Zenon DEF Inject, Parts, RestType, chain, timers
    <3>3. QED
      BY <3>1, <3>2, EnqueueLemma, Zenon DEF Inject, Parts
  <2>3. CASE \/ \E batch \in (SUBSET Hashes) \ {{}} : FilterBlocks(batch)
             \/ \E bodies \in (SUBSET {Body[h] : h \in Hashes}) \ {{}} :
                  FilterBodies(bodies)
    <3>1. RestType'
      BY <2>3, Zenon DEF FilterBlocks, FilterBodies, Parts, RestType, chain, timers
    <3>2. QED
      BY <2>3, <3>1, IdleStep, Zenon DEF FilterBlocks, FilterBodies
  <2>4. CASE \E h \in Hashes : FilterHeaders(h)
    BY <2>4, FilterHeadersStep, Zenon
  <2>5. QED
    BY <1>4, <2>1, <2>2, <2>3, <2>4, Zenon DEF Network
<1>5. CASE Import \/ \E h \in Hashes : OtherImport(h)
  BY <1>5, ImportStep, Zenon
<1>6. CASE \E r \in imports : Done(r)
  BY <1>6, DoneStep, Zenon
<1>7. CASE Stop
  <2>1. RestType'
    BY <1>7, Zenon DEF Stop, Parts, RestType, chain, timers
  <2>2. QED
    BY <1>7, <2>1, IdleStep, Zenon DEF Stop
<1>8. QED
  BY <1>1, <1>2, <1>3, <1>4, <1>5, <1>6, <1>7, Zenon DEF Next

\* The fetcher starts in a consistent state.
LEMMA InitInv == Init => Inv
<1> SUFFICES ASSUME Init PROVE Inv
  BY Zenon
<1>1. NoBag \in [Announces -> Nat] /\ \A a \in Announces : ~(NoBag[a] > 0)
  BY SMTT(60) DEF NoBag
<1>2. Announced = {} /\ Fetched = {} /\ Importing = {}
  BY <1>1, Zenon DEF Init, Announced, Fetched, Importing
<1>3. \A p \in Peers : {h \in Hashes : queued[h] = p} = {}
  BY NoneAssumption, Zenon DEF Init
<1>4. QueueAccounting
  BY <1>3, FS_EmptySet, FetcherAssumption, SMTT(60) DEF QueueAccounting, Init
<1>5. OnePhase /\ TimersArmed /\ ImportedOnce
  BY <1>2, Zenon DEF OnePhase, TimersArmed, ImportedOnce, Init
<1>6. TypeOK
  BY <1>1, SMTT(60) DEF TypeOK, Init
<1>7. QED
  BY <1>4, <1>5, <1>6, Zenon DEF Inv

\* The inductive invariant holds in every reachable state.
THEOREM Invariance == Spec => []Inv
<1>1. Inv /\ [Next]_vars => Inv'
  <2>1. Inv' <=> Parts'
    BY InvParts, PTL
  <2>2. QED
    BY <2>1, InvParts, NextStep, Zenon
<1>2. QED
  BY <1>1, InitInv, PTL DEF Spec

\* f.queued really deduplicates imports: whatever peers deliver and however
\* the import goroutines interleave, no block is imported twice at a time
\* (fetcher.go:719, 739).
THEOREM FetcherImportedOnce == Spec => []ImportedOnce
  BY Invariance, PTL DEF Inv

\* f.queues counts the blocks of every peer exactly, so that blockLimit is
\* a real bound (fetcher.go:704, 829).
THEOREM FetcherQueueAccounting == Spec => []QueueAccounting
  BY Invariance, PTL DEF Inv

\* A hash is in one phase of its retrieval at a time (fetcher.go:374, 548).
THEOREM FetcherOnePhase == Spec => []OnePhase
  BY Invariance, PTL DEF Inv

\* No announcement and no header is left without a running timer
\* (fetcher.go:385, 451, 487, 596).
THEOREM FetcherTimersArmed == Spec => []TimersArmed
  BY Invariance, PTL DEF Inv

\* Every variable keeps its type; in particular no block count is negative.
THEOREM FetcherTypeOK == Spec => []TypeOK
  BY Invariance, PTL DEF Inv

-----------------------------------------------------------------------------
(* Honest peers.  What an honest eth/62 peer says is true, and the maps     *)
(* carry it from the announcement to the import without mixing it up with   *)
(* what another peer said of the same block.                                *)

\* Nothing that ann says of block h could be held against an honest peer.
Truthful(ann, h) ==
  ann.origin \in Honest => ann.claim = "right" /\ Verdict[h] # "bad"

TruthfulMaps ==
  \A h \in Hashes :
    /\ \A a \in Announces : announced[h][a] > 0 => Truthful(a, h)
    /\ fetching[h] # None => Truthful(fetching[h], h)
    /\ fetched[h] # None => Truthful(fetched[h], h)
    /\ completing[h] # None => Truthful(completing[h], h)

TruthfulQueue == \A h \in Hashes : queued[h] \in Honest => Verdict[h] # "bad"

TruthfulImports == \A r \in imports : r.origin \in Honest => Verdict[r.hash] # "bad"

HInv == TruthfulMaps /\ TruthfulQueue /\ TruthfulImports /\ HonestKept

\* Forgetting a hash forgets what was said of it; what is put in its place is true.
LEMMA TruthForget ==
  ASSUME CountersType, TruthfulMaps, NEW h \in Hashes, NEW f, NEW c,
         ForgetThen(h, f, c),
         f # None => Truthful(f, h), c # None => Truthful(c, h)
  PROVE  TruthfulMaps'
<1>1. \A a \in Announces : ~(NoBag[a] > 0)
  BY DEF NoBag
<1>2. /\ announced'[h] = NoBag /\ fetching'[h] = f /\ fetched'[h] = None
      /\ completing'[h] = c
  BY Zenon DEF ForgetThen, CountersType
<1>3. \A g \in Hashes \ {h} :
        /\ announced'[g] = announced[g] /\ fetching'[g] = fetching[g]
        /\ fetched'[g] = fetched[g] /\ completing'[g] = completing[g]
  BY Zenon DEF ForgetThen, CountersType
<1> SUFFICES ASSUME NEW g \in Hashes
             PROVE  /\ \A a \in Announces : announced'[g][a] > 0 => Truthful(a, g)
                    /\ fetching'[g] # None => Truthful(fetching'[g], g)
                    /\ fetched'[g] # None => Truthful(fetched'[g], g)
                    /\ completing'[g] # None => Truthful(completing'[g], g)
  BY Zenon DEF TruthfulMaps, Truthful
<1>4. CASE g = h
  BY <1>1, <1>2, <1>4, Zenon
<1>5. CASE g # h
  BY <1>3, <1>5, Zenon DEF TruthfulMaps
<1> QED BY <1>4, <1>5, Zenon

\* A block that enqueue accepts from an honest peer is a valid one.
LEMMA TruthEnqueue ==
  ASSUME CountersType, BlocksType, TruthfulMaps, TruthfulQueue, NEW p \in Peers,
         NEW h \in Hashes, enqueue(p, h), p \in Honest => Verdict[h] # "bad"
  PROVE  TruthfulMaps' /\ TruthfulQueue'
<1>1. TruthfulMaps'
  <2>1. CASE forgetHash(h)
    BY <2>1, TruthForget, Zenon DEF forgetHash
  <2>2. CASE UNCHANGED counters
    BY <2>2, Zenon DEF TruthfulMaps, Truthful, counters
  <2> QED BY <2>1, <2>2, Zenon DEF enqueue
<1>2. TruthfulQueue'
  <2>1. queued' = queued \/ queued' = [queued EXCEPT ![h] = p]
    BY Zenon DEF enqueue, blocks
  <2>2. \A g \in Hashes : queued'[g] = queued[g] \/ (g = h /\ queued'[g] = p)
    BY <2>1, Zenon DEF BlocksType
  <2> QED BY <2>2, Zenon DEF TruthfulQueue
<1> QED BY <1>1, <1>2, Zenon

\* Dropping a block from f.queued takes no peer's truthfulness away.
LEMMA TruthForgetBlock ==
  ASSUME BlocksType, TruthfulQueue, NEW h \in Hashes, forgetBlock(h)
  PROVE  TruthfulQueue'
<1>1. queued' = queued \/ queued' = [queued EXCEPT ![h] = None]
  BY Zenon DEF forgetBlock
<1>2. None \notin Honest
  BY NoneAssumption, FetcherAssumption, Zenon
<1>3. \A g \in Hashes : queued'[g] = queued[g] \/ queued'[g] = None
  BY <1>1, Zenon DEF BlocksType
<1> QED BY <1>2, <1>3, Zenon DEF TruthfulQueue

\* Steps that forget hashes or nothing, and leave the queue and the imports alone.
LEMMA TruthKept ==
  ASSUME CountersType, HInv, NEW h \in Hashes, forgetHash(h) \/ UNCHANGED counters,
         UNCHANGED <<queued, imports, dropped>>
  PROVE  HInv'
<1>1. TruthfulMaps'
  <2>1. CASE forgetHash(h)
    BY <2>1, TruthForget, Zenon DEF forgetHash, HInv
  <2>2. CASE UNCHANGED counters
    BY <2>2, Zenon DEF TruthfulMaps, Truthful, counters, HInv
  <2> QED BY <2>1, <2>2, Zenon
<1>2. TruthfulQueue' /\ TruthfulImports' /\ HonestKept'
  BY Zenon DEF HInv, TruthfulQueue, TruthfulImports, HonestKept
<1> QED BY <1>1, <1>2, Zenon DEF HInv

\* The same for a step that touches no map.
LEMMA TruthIdle ==
  ASSUME HInv, UNCHANGED <<counters, queued, imports, dropped>>
  PROVE  HInv'
  BY Zenon DEF HInv, TruthfulMaps, Truthful, counters, TruthfulQueue, TruthfulImports,
     HonestKept

\* A popped block keeps the origin it was queued with.
LEMMA TruthPop ==
  ASSUME Parts, HInv, NEW h \in Hashes, PopQueue(h)
  PROVE  HInv'
<1>1. UNCHANGED <<counters, dropped>>
  BY Zenon DEF PopQueue
<1>2. TruthfulMaps' /\ HonestKept'
  BY <1>1, Zenon DEF HInv, TruthfulMaps, Truthful, counters, HonestKept
<1>3. CASE UNCHANGED <<queued, imports>>
  BY <1>1, <1>3, TruthIdle, Zenon
<1>4. CASE forgetBlock(h) /\ UNCHANGED imports
  <2>1. TruthfulQueue'
    BY <1>4, TruthForgetBlock, Zenon DEF Parts, BlocksInv, HInv
  <2>2. TruthfulImports'
    BY <1>4, Zenon DEF HInv, TruthfulImports
  <2> QED BY <1>2, <2>1, <2>2, Zenon DEF HInv
<1>5. CASE /\ imports' = imports \cup
                {[hash |-> h, origin |-> queued[h], stage |-> "check"]}
           /\ UNCHANGED queued
  <2> DEFINE n == [hash |-> h, origin |-> queued[h], stage |-> "check"]
  <2>1. n.hash = h /\ n.origin = queued[h]
    BY Zenon
  <2>2. imports' = imports \cup {n}
    BY <1>5, Zenon
  <2> HIDE DEF n
  <2>3. TruthfulQueue'
    BY <1>5, Zenon DEF HInv, TruthfulQueue
  <2>4. n.origin \in Honest => Verdict[n.hash] # "bad"
    BY <2>1, Zenon DEF HInv, TruthfulQueue
  <2>5. TruthfulImports'
    BY <2>2, <2>4, Zenon DEF HInv, TruthfulImports
  <2> QED BY <1>2, <2>3, <2>5, Zenon DEF HInv
<1> QED BY <1>3, <1>4, <1>5, Zenon DEF PopQueue, blocks

\* An honest peer that does not run eth/61 gives the right number of a valid block.
LEMMA TruthNotify ==
  ASSUME Parts, HInv, Honest \cap Eth61 = {}, NEW p \in Peers, NEW h \in Hashes,
         NEW c \in Claims, Notify(p, h, c)
  PROVE  HInv'
<1>1. UNCHANGED <<queued, imports, dropped, fetching, fetched, completing>>
  BY Zenon DEF Notify, blocks
<1>2. CASE ~Accepted(p, h, c)
  <2>1. UNCHANGED counters
    BY <1>1, <1>2, Zenon DEF Notify, counters
  <2> QED BY <1>1, <2>1, TruthIdle, Zenon
<1>3. CASE Accepted(p, h, c)
  <2> DEFINE n == [origin |-> p, claim |-> c]
  <2>1. n \in Announces /\ n.origin = p /\ n.claim = c
    BY Zenon DEF Announces
  <2>2. announced' = [announced EXCEPT ![h][n] = @ + 1]
    BY <1>3, Zenon DEF Notify
  <2> HIDE DEF n
  <2>3. Truthful(n, h)
    <3>1. p \in Honest => p \notin Eth61 /\ Verdict[h] # "bad" /\ c # "wrong"
      BY Zenon DEF Notify, MaySay
    <3>2. c = "none" => p \in Eth61
      BY Zenon DEF Notify, MaySay
    <3>3. c \in {"none", "right", "wrong"}
      BY Zenon DEF Claims
    <3> QED BY <2>1, <3>1, <3>2, <3>3, Zenon DEF Truthful
  <2>4. announced \in [Hashes -> [Announces -> Nat]]
    BY Zenon DEF Parts, CountersInv, CountersType
  <2>5. \A g \in Hashes : \A a \in Announces :
          announced'[g][a] = announced[g][a] \/ (g = h /\ a = n)
    BY <2>1, <2>2, <2>4, Zenon
  <2>6. \A g \in Hashes : \A a \in Announces : announced'[g][a] > 0 => Truthful(a, g)
    BY <2>3, <2>5, Zenon DEF HInv, TruthfulMaps
  <2>7. TruthfulMaps'
    BY <1>1, <2>6, Zenon DEF HInv, TruthfulMaps, Truthful
  <2>8. TruthfulQueue' /\ TruthfulImports' /\ HonestKept'
    BY <1>1, Zenon DEF HInv, TruthfulQueue, TruthfulImports, HonestKept
  <2> QED BY <2>7, <2>8, Zenon DEF HInv
<1> QED BY <1>2, <1>3, Zenon

\* A header with another number than announced costs its announcer the connection,
\* and what it leads to otherwise is said by the same announcer.
LEMMA TruthHeaders ==
  ASSUME Parts, HInv, NEW h \in Hashes, FilterHeaders(h)
  PROVE  HInv'
<1>1. UNCHANGED <<queued, imports>> /\ CountersType
  BY Zenon DEF FilterHeaders, blocks, Parts, CountersInv
<1>2. TruthfulQueue' /\ TruthfulImports'
  BY <1>1, Zenon DEF HInv, TruthfulQueue, TruthfulImports
<1>3. CASE UNCHANGED <<counters, dropped>>
  BY <1>1, <1>3, TruthIdle, Zenon
<1>4. CASE /\ Requested(h) /\ fetching[h].claim # "right"
           /\ dropped' = dropped \cup {fetching[h].origin} /\ forgetHash(h)
  <2>1. fetching[h].origin \notin Honest
    BY <1>4, Zenon DEF Requested, HInv, TruthfulMaps, Truthful
  <2>2. HonestKept'
    BY <1>4, <2>1, Zenon DEF HInv, HonestKept
  <2>3. TruthfulMaps'
    BY <1>1, <1>4, TruthForget, Zenon DEF forgetHash, HInv
  <2> QED BY <1>2, <2>2, <2>3, Zenon DEF HInv
<1>5. CASE forgetHash(h) /\ UNCHANGED dropped
  BY <1>1, <1>5, TruthKept, Zenon
<1>6. CASE /\ Requested(h) /\ UNCHANGED <<announced, fetching, dropped>>
           /\ \/ completing' = [completing EXCEPT ![h] = fetching[h]] /\ UNCHANGED fetched
              \/ fetched' = [fetched EXCEPT ![h] = fetching[h]] /\ UNCHANGED completing
  <2>1. Truthful(fetching[h], h)
    BY <1>6, Zenon DEF Requested, HInv, TruthfulMaps
  <2>2. \A g \in Hashes :
          /\ fetched'[g] = fetched[g] \/ (g = h /\ fetched'[g] = fetching[h])
          /\ completing'[g] = completing[g] \/ (g = h /\ completing'[g] = fetching[h])
    BY <1>1, <1>6, Zenon DEF CountersType
  <2>3. \A g \in Hashes : /\ fetched'[g] # None => Truthful(fetched'[g], g)
                          /\ completing'[g] # None => Truthful(completing'[g], g)
    BY <2>1, <2>2, Zenon DEF HInv, TruthfulMaps
  <2>4. TruthfulMaps'
    BY <1>6, <2>3, Zenon DEF HInv, TruthfulMaps, Truthful
  <2>5. HonestKept'
    BY <1>6, Zenon DEF HInv, HonestKept
  <2> QED BY <1>2, <2>4, <2>5, Zenon DEF HInv
<1> QED BY <1>3, <1>4, <1>5, <1>6, Zenon DEF FilterHeaders

\* An import drops the peer of an invalid block, which no honest peer sent.
LEMMA TruthImport ==
  ASSUME Parts, HInv, NEW r \in imports, ImportCheck(r) \/ ImportInsert(r)
  PROVE  HInv'
<1>1. UNCHANGED <<counters, queued>>
  BY Zenon DEF ImportCheck, ImportInsert, blocks
<1>2. TruthfulMaps' /\ TruthfulQueue'
  BY <1>1, Zenon DEF HInv, TruthfulMaps, Truthful, counters, TruthfulQueue
<1>3. PICK s \in Stages : imports' = (imports \ {r}) \cup {[r EXCEPT !.stage = s]}
  BY Zenon DEF ImportCheck, ImportInsert, Become, Stages
<1>4. r \in [hash : Hashes, origin : Peers, stage : Stages]
  BY Zenon DEF Parts, RestType
<1>5. [r EXCEPT !.stage = s].hash = r.hash /\ [r EXCEPT !.stage = s].origin = r.origin
  BY <1>4, Zenon
<1>6. TruthfulImports'
  BY <1>3, <1>5, Zenon DEF HInv, TruthfulImports
<1>7. HonestKept'
  <2>1. CASE UNCHANGED dropped
    BY <2>1, Zenon DEF HInv, HonestKept
  <2>2. CASE Verdict[r.hash] = "bad" /\ dropped' = dropped \cup {r.origin}
    <3>1. r.origin \notin Honest
      BY <2>2, Zenon DEF HInv, TruthfulImports
    <3> QED BY <2>2, <3>1, Zenon DEF HInv, HonestKept
  <2> QED BY <2>1, <2>2, Zenon DEF ImportCheck, ImportInsert
<1> QED BY <1>2, <1>6, <1>7, Zenon DEF HInv

\* Fetching and completing go on with one of the announcements of the hash.
LEMMA TruthTimers ==
  ASSUME Parts, HInv, NEW h \in Hashes, FetchExpired(h) \/ Complete(h)
  PROVE  HInv'
<1>1. UNCHANGED <<queued, imports, dropped>> /\ CountersType
  BY Zenon DEF FetchExpired, Complete, blocks, Parts, CountersInv
<1>2. TruthfulQueue' /\ TruthfulImports' /\ HonestKept'
  BY <1>1, Zenon DEF HInv, TruthfulQueue, TruthfulImports, HonestKept
<1>3. CASE FetchExpired(h)
  <2>1. PICK a \in Announces :
          announced[h][a] > 0 /\ ForgetThen(h, IF h \in known THEN None ELSE a, None)
    BY <1>3, Zenon DEF FetchExpired
  <2>2. Truthful(a, h)
    BY <2>1, Zenon DEF HInv, TruthfulMaps
  <2> DEFINE f == IF h \in known THEN None ELSE a
  <2>3. f # None => Truthful(f, h)
    BY <2>2, Zenon
  <2>4. ForgetThen(h, f, None)
    BY <2>1, Zenon
  <2> HIDE DEF f
  <2>5. TruthfulMaps'
    BY <1>1, <2>3, <2>4, TruthForget, Zenon DEF HInv
  <2> QED BY <1>2, <2>5, Zenon DEF HInv
<1>4. CASE Complete(h)
  <2> DEFINE c == IF h \in known THEN None ELSE fetched[h]
  <2>1. c # None => Truthful(c, h)
    BY Zenon DEF HInv, TruthfulMaps
  <2>2. ForgetThen(h, None, c)
    BY <1>4, Zenon DEF Complete
  <2> HIDE DEF c
  <2>3. TruthfulMaps'
    BY <1>1, <2>1, <2>2, TruthForget, Zenon DEF HInv
  <2> QED BY <1>2, <2>3, Zenon DEF HInv
<1> QED BY <1>3, <1>4, Zenon

\* Blocks that were asked for are enqueued for the peer that announced them, pushed
\* ones for the peer that sent them.
LEMMA TruthBlocks ==
  ASSUME Parts, HInv, NEW h \in Hashes,
         EnqueueExplicit(h) \/ \E p \in Peers : Inject(p, h)
  PROVE  HInv'
<1>1. UNCHANGED <<imports, dropped>>
  BY Zenon DEF EnqueueExplicit, Inject
<1>2. TruthfulImports' /\ HonestKept'
  BY <1>1, Zenon DEF HInv, TruthfulImports, HonestKept
<1>3. CountersType /\ BlocksType
  BY Zenon DEF Parts, CountersInv, BlocksInv
<1>4. ASSUME NEW p \in Peers, enqueue(p, h), p \in Honest => Verdict[h] # "bad"
      PROVE  HInv'
  <2>1. TruthfulMaps' /\ TruthfulQueue'
    BY <1>3, <1>4, TruthEnqueue, Zenon DEF HInv
  <2> QED BY <1>2, <2>1, Zenon DEF HInv
<1>5. CASE EnqueueExplicit(h)
  <2> DEFINE announce == IF pc = "enqueue61" THEN fetching[h] ELSE completing[h]
  <2>1. IF announce # None THEN enqueue(announce.origin, h)
                           ELSE UNCHANGED <<counters, blocks>>
    BY <1>5, Zenon DEF EnqueueExplicit
  <2>2. announce # None => announce \in Announces /\ Truthful(announce, h)
    BY <1>3, Zenon DEF CountersType, HInv, TruthfulMaps
  <2> HIDE DEF announce
  <2>3. CASE announce # None
    <3>1. announce.origin \in Peers
      BY <2>2, <2>3, Zenon DEF Announces
    <3>2. announce.origin \in Honest => Verdict[h] # "bad"
      BY <2>2, <2>3, Zenon DEF Truthful
    <3> QED BY <1>4, <2>1, <2>3, <3>1, <3>2, Zenon
  <2>4. CASE announce = None
    BY <1>1, <2>1, <2>4, TruthIdle, Zenon DEF blocks
  <2> QED BY <2>3, <2>4, Zenon
<1>6. CASE \E p \in Peers : Inject(p, h)
  BY <1>4, <1>6, Zenon DEF Inject
<1> QED BY <1>5, <1>6, Zenon

\* A reported import leaves nothing of its block behind.
LEMMA TruthDone ==
  ASSUME Parts, HInv, NEW r \in imports, Done(r)
  PROVE  HInv'
<1>1. /\ imports' = imports \ {r} /\ forgetHash(r.hash) /\ forgetBlock(r.hash)
      /\ UNCHANGED dropped
  BY Zenon DEF Done
<1>2. r.hash \in Hashes
  BY Zenon DEF Parts, RestType
<1>3. TruthfulMaps'
  BY <1>1, <1>2, TruthForget, Zenon DEF forgetHash, HInv, Parts, CountersInv
<1>4. TruthfulQueue'
  BY <1>1, <1>2, TruthForgetBlock, Zenon DEF HInv, Parts, BlocksInv
<1>5. TruthfulImports' /\ HonestKept'
  BY <1>1, Zenon DEF HInv, TruthfulImports, HonestKept
<1> QED BY <1>3, <1>4, <1>5, Zenon DEF HInv

\* Every step of the fetcher keeps what is said in honest peers' names true.
LEMMA TruthStep ==
  ASSUME Parts, HInv, Honest \cap Eth61 = {}, [Next]_vars
  PROVE  HInv'
<1>1. CASE UNCHANGED vars
  BY <1>1, TruthIdle, Zenon DEF vars, blocks
<1>2. CASE Loop
  <2>1. CASE \E h \in Hashes : ExpireOne(h) \/ FilterBlock(h) \/ FilterBody(h)
    <3>1. PICK h \in Hashes : ExpireOne(h) \/ FilterBlock(h) \/ FilterBody(h)
      BY <2>1, Zenon
    <3>2. forgetHash(h) \/ UNCHANGED counters
      BY <3>1, Zenon DEF ExpireOne, FilterBlock, FilterBody
    <3>3. UNCHANGED <<queued, imports, dropped>>
      BY <3>1, Zenon DEF ExpireOne, FilterBlock, FilterBody, blocks
    <3> QED BY <3>2, <3>3, TruthKept, Zenon DEF Parts, CountersInv
  <2>2. CASE \E h \in Hashes : PopQueue(h)
    BY <2>2, TruthPop, Zenon
  <2>3. CASE \E h \in Hashes : FetchExpired(h) \/ Complete(h)
    BY <2>3, TruthTimers, Zenon
  <2>4. CASE \E h \in Hashes : EnqueueExplicit(h)
    BY <2>4, TruthBlocks, Zenon
  <2>5. CASE \/ ReadHeight \/ QueueEmpty \/ \E h \in Hashes : FetchLater(h)
             \/ FilterDone \/ EnqueueDone \/ rescheduleFetch \/ rescheduleComplete
    <3>1. UNCHANGED <<counters, queued, imports, dropped>>
      BY <2>5, Zenon DEF ReadHeight, QueueEmpty, FetchLater, FilterDone, EnqueueDone,
         rescheduleFetch, rescheduleComplete, blocks
    <3> QED BY <3>1, TruthIdle, Zenon
  <2> QED BY <1>2, <2>1, <2>2, <2>3, <2>4, <2>5, Zenon DEF Loop
<1>3. CASE Timer
  <2>1. UNCHANGED <<counters, queued, imports, dropped>>
    BY <1>3, Zenon DEF Timer, FetchTimer, CompleteTimer, blocks
  <2> QED BY <2>1, TruthIdle, Zenon
<1>4. CASE Network
  <2>1. CASE \E p \in Peers, h \in Hashes, c \in Claims : Notify(p, h, c)
    BY <2>1, TruthNotify, Zenon
  <2>2. CASE \E p \in Peers, h \in Hashes : Inject(p, h)
    BY <2>2, TruthBlocks, Zenon
  <2>3. CASE \/ \E batch \in (SUBSET Hashes) \ {{}} : FilterBlocks(batch)
             \/ \E bodies \in (SUBSET {Body[h] : h \in Hashes}) \ {{}} :
                  FilterBodies(bodies)
    <3>1. UNCHANGED <<counters, queued, imports, dropped>>
      BY <2>3, Zenon DEF FilterBlocks, FilterBodies, blocks
    <3> QED BY <3>1, TruthIdle, Zenon
  <2>4. CASE \E h \in Hashes : FilterHeaders(h)
    BY <2>4, TruthHeaders, Zenon
  <2> QED BY <1>4, <2>1, <2>2, <2>3, <2>4, Zenon DEF Network
<1>5. CASE Import
  BY <1>5, TruthImport, Zenon DEF Import
<1>6. CASE \E r \in imports : Done(r)
  BY <1>6, TruthDone, Zenon
<1>7. CASE Stop \/ \E h \in Hashes : OtherImport(h)
  <2>1. UNCHANGED <<counters, queued, imports, dropped>>
    BY <1>7, Zenon DEF Stop, OtherImport, blocks
  <2> QED BY <2>1, TruthIdle, Zenon
<1> QED BY <1>1, <1>2, <1>3, <1>4, <1>5, <1>6, <1>7, Zenon DEF Next

\* No peer that tells the truth is dropped, whatever the others say of the same
\* blocks and whichever announcement the fetch picks (fetcher.go:552, 766): every
\* map remembers who said what.  An eth/61 peer cannot tell the truth, it has no
\* number to give.
THEOREM FetcherHonestKept ==
  ASSUME Honest \cap Eth61 = {}
  PROVE  Spec => []HonestKept
<1>1. Init => HInv
  <2> SUFFICES ASSUME Init PROVE HInv
    BY Zenon
  <2>1. \A h \in Hashes : \A a \in Announces : ~(announced[h][a] > 0)
    BY DEF Init, NoBag
  <2>2. \A h \in Hashes : fetching[h] = None /\ fetched[h] = None /\ completing[h] = None
                            /\ queued[h] = None
    BY Zenon DEF Init
  <2>3. None \notin Honest /\ imports = {} /\ dropped = {}
    BY NoneAssumption, FetcherAssumption, Zenon DEF Init
  <2> QED BY <2>1, <2>2, <2>3, Zenon DEF HInv, TruthfulMaps, TruthfulQueue,
            TruthfulImports, HonestKept
<1>2. Inv /\ HInv /\ [Next]_vars => HInv'
  BY InvParts, TruthStep, Zenon
<1>3. HInv => HonestKept
  BY Zenon DEF HInv
<1> QED BY <1>1, <1>2, <1>3, Invariance, PTL DEF Spec

=============================================================================
