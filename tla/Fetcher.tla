------------------------------ MODULE Fetcher ------------------------------
(***************************************************************************)
(* The block fetcher (exp/fetcher/fetcher.go): gathers hash announcements  *)
(* and propagated blocks from peers, retrieves the announced blocks and    *)
(* schedules them for import.                                              *)
(*                                                                         *)
(* One goroutine, loop(), owns every map.  A select case that walks a map  *)
(* or a batch is a small program of its own (pc, todo, explicit below),    *)
(* because each of its iterations reads the chain, which the import        *)
(* goroutines and the rest of the node change concurrently.  time.Since()  *)
(* comparisons are nondeterministic: an entry may or may not have expired. *)
(***************************************************************************)
EXTENDS Integers, FiniteSets, TLC

CONSTANTS
  Hashes,        \* block hashes peers can talk about
  Genesis,       \* the block everybody has
  Peers,
  Eth61,         \* the peers that run eth/61 (whole blocks, no numbers)
  Honest,        \* peers that only talk about valid blocks, truthfully
  Parent,        \* [Hashes -> Hashes \cup {Genesis, Unknown}]
  Number,        \* [Hashes -> Nat]
  Body,          \* [Hashes -> body]: blocks may share a body
  EmptyBody,     \* the body of a header-only block
  Verdict,       \* [Hashes -> {"ok", "future", "bad"}]: validateBlock
  Unknown,
  None,
  HashLimit, BlockLimit, MaxUncleDist, MaxQueueDist,
  MaxNotify      \* model bound: announcements delivered in a behaviour

ASSUME FetcherAssumption ==
  /\ IsFiniteSet(Hashes) /\ IsFiniteSet(Peers)
  /\ Eth61 \subseteq Peers /\ Honest \subseteq Peers
  /\ Number \in [Hashes -> Nat]
  /\ Verdict \in [Hashes -> {"ok", "future", "bad"}]
  /\ DOMAIN Parent = Hashes /\ DOMAIN Body = Hashes
  /\ HashLimit \in Nat \ {0} /\ BlockLimit \in Nat \ {0}
  /\ MaxUncleDist \in Nat /\ MaxQueueDist \in Nat /\ MaxNotify \in Nat
  /\ Genesis \notin Hashes /\ Unknown \notin Hashes \cup {Genesis}

\* What an announcement promises about the block's number; eth/61 peers
\* promise nothing (number 0).
Claims == {"none", "right", "wrong"}

Announces == [origin : Peers, claim : Claims]

ASSUME NoneAssumption == None \notin Announces \cup Peers

VARIABLES
  announces,     \* per peer announce counts (absent = 0)
  announced,     \* [Hashes -> bag of announcements], scheduled for fetching
  fetching,      \* announcement being fetched, or None
  fetched,       \* header arrived, scheduled for body retrieval, or None
  completing,    \* body being retrieved, or None
  queue,         \* blocks waiting in the import priority queue
  queued,        \* origin of every block queued or being imported, or None
  queues,        \* per peer block counts (absent = 0)
  fetchArmed,    \* fetchTimer is running or has fired
  completeArmed, \* completeTimer is running or has fired
  pc,            \* where loop() is
  height,        \* loop()'s local copy of the chain height
  todo,          \* what the current select case has still to visit
  explicit,      \* blocks the current select case has still to enqueue
  imports,       \* goroutines spawned by insert()
  known,         \* blocks f.getBlock finds
  chainHeight,   \* what f.chainHeight() returns
  dropped,       \* peers handed to f.dropPeer
  notified       \* number of announcements so far (model bound)

counters == <<announces, announced, fetching, fetched, completing>>
blocks   == <<queue, queued, queues>>
chain    == <<known, chainHeight>>
timers   == <<fetchArmed, completeArmed>>
vars == <<counters, blocks, timers, pc, height, todo, explicit, imports,
          chain, dropped, notified>>

Stages == {"check", "insert", "done"}

NoBag == [a \in Announces |-> 0]

Init ==
  /\ announces = [p \in Peers |-> 0]
  /\ announced = [h \in Hashes |-> NoBag]
  /\ fetching = [h \in Hashes |-> None]
  /\ fetched = [h \in Hashes |-> None]
  /\ completing = [h \in Hashes |-> None]
  /\ queue = {}
  /\ queued = [h \in Hashes |-> None]
  /\ queues = [p \in Peers |-> 0]
  /\ fetchArmed = TRUE
  /\ completeArmed = TRUE
  /\ pc = "top"
  /\ height = 0
  /\ todo = {}
  /\ explicit = {}
  /\ imports = {}
  /\ known = {Genesis}
  /\ chainHeight = 0
  /\ dropped = {}
  /\ notified = 0

-----------------------------------------------------------------------------
(* Helpers of the loop.                                                    *)

\* Hashes that are keys of the announced / fetched maps.
Announced == {h \in Hashes : \E a \in Announces : announced[h][a] > 0}
Fetched   == {h \in Hashes : fetched[h] # None}

OneIf(ann, p) == IF ann # None /\ ann.origin = p THEN 1 ELSE 0

\* How often forgetHash(h) decrements the announce count of p.
Tracked(h, p) ==
  announced[h][[origin |-> p, claim |-> "none"]]
    + announced[h][[origin |-> p, claim |-> "right"]]
    + announced[h][[origin |-> p, claim |-> "wrong"]]
    + OneIf(fetching[h], p) + OneIf(fetched[h], p) + OneIf(completing[h], p)

\* forgetHash(h), then fetching[h] = f and completing[h] = c.
ForgetThen(h, f, c) ==
  /\ announces' = [p \in Peers |-> announces[p] - Tracked(h, p)]
  /\ announced' = [announced EXCEPT ![h] = NoBag]
  /\ fetching' = [fetching EXCEPT ![h] = f]
  /\ fetched' = [fetched EXCEPT ![h] = None]
  /\ completing' = [completing EXCEPT ![h] = c]

forgetHash(h) == ForgetThen(h, None, None)

\* Mutant of forgetBlock: the peer's count is not decremented.
forgetBlockKeepsCount(h) ==
  queued' = [queued EXCEPT ![h] = None] /\ UNCHANGED queues

forgetBlock(h) ==
  IF queued[h] = None
    THEN UNCHANGED <<queues, queued>>
    ELSE /\ queues' = [queues EXCEPT ![queued[h]] = @ - 1]
         /\ queued' = [queued EXCEPT ![h] = None]

TooFar(n) == \/ n - chainHeight < -MaxUncleDist
             \/ n - chainHeight > MaxQueueDist

\* Mutant of enqueue: f.queued is not consulted.
enqueueTwice(p, h) ==
  \/ /\ queues[p] + 1 > BlockLimit \/ TooFar(Number[h])
     /\ forgetHash(h)
     /\ UNCHANGED blocks
  \/ /\ queues[p] + 1 <= BlockLimit /\ ~TooFar(Number[h])
     /\ UNCHANGED counters
     /\ queues' = [queues EXCEPT ![p] = @ + 1]
     /\ queued' = [queued EXCEPT ![h] = p]
     /\ queue' = queue \cup {h}

enqueue(p, h) ==
  \/ /\ queues[p] + 1 > BlockLimit \/ TooFar(Number[h])
     /\ forgetHash(h)
     /\ UNCHANGED blocks
  \/ /\ queues[p] + 1 <= BlockLimit /\ ~TooFar(Number[h])
     /\ UNCHANGED counters
     /\ IF queued[h] # None
          THEN UNCHANGED blocks
          ELSE /\ queues' = [queues EXCEPT ![p] = @ + 1]
               /\ queued' = [queued EXCEPT ![h] = p]
               /\ queue' = queue \cup {h}

-----------------------------------------------------------------------------
(* The top of the loop.                                                    *)

\* Some fetches have expired; then the import pass reads the height.
ExpireOne(h) ==
  /\ pc = "top"
  /\ fetching[h] # None
  /\ forgetHash(h)
  /\ UNCHANGED <<blocks, timers, pc, height, todo, explicit, imports, chain,
                 dropped, notified>>

ReadHeight ==
  /\ pc = "top"
  /\ height' = chainHeight
  /\ pc' = "import"
  /\ UNCHANGED <<counters, blocks, timers, todo, explicit, imports, chain,
                 dropped, notified>>

First(h) == h \in queue /\ \A g \in queue : Number[h] <= Number[g]

\* Pop the lowest block: too high, stale or already known, or importable.
PopQueue(h) ==
  /\ pc = "import"
  /\ First(h)
  /\ \/ /\ Number[h] > height + 1
        /\ pc' = "select"
        /\ UNCHANGED <<blocks, imports>>
     \/ /\ Number[h] <= height + 1
        /\ pc' = pc
        /\ queue' = queue \ {h}
        /\ IF Number[h] + MaxUncleDist < height \/ h \in known
             THEN forgetBlock(h) /\ UNCHANGED imports
             ELSE /\ imports' = imports \cup
                       {[hash |-> h, origin |-> queued[h], stage |-> "check"]}
                  /\ UNCHANGED <<queued, queues>>
  /\ UNCHANGED <<counters, timers, height, todo, explicit, chain, dropped,
                 notified>>

QueueEmpty ==
  /\ pc = "import"
  /\ queue = {}
  /\ pc' = "select"
  /\ UNCHANGED <<counters, blocks, timers, height, todo, explicit, imports,
                 chain, dropped, notified>>

-----------------------------------------------------------------------------
(* The select cases.                                                       *)

\* Stop is noticed in a select, the ones inside the filter cases included.
Stop ==
  /\ pc = "select" \/ (pc \in {"blocks", "bodies"} /\ todo = {})
  /\ pc' = "stopped"
  /\ UNCHANGED <<counters, blocks, timers, height, todo, explicit, imports,
                 chain, dropped, notified>>

\* What peer p may say of h: eth/61 peers give no number, honest peers
\* announce blocks that exist and give the right one.
MaySay(p, h, claim) ==
  /\ claim = "none" <=> p \in Eth61
  /\ p \in Honest => Verdict[h] # "bad" /\ claim # "wrong"

\* A wrong number that is also too far away is dropped like a right one, so
\* "wrong" stands for the wrong numbers that pass the distance check.
Accepted(p, h, claim) ==
  /\ announces[p] + 1 <= HashLimit
  /\ claim = "right" => ~TooFar(Number[h])
  /\ fetching[h] = None
  /\ completing[h] = None

Notify(p, h, claim) ==
  /\ pc = "select"
  /\ notified < MaxNotify
  /\ MaySay(p, h, claim)
  /\ notified' = notified + 1
  /\ IF Accepted(p, h, claim)
       THEN /\ announces' = [announces EXCEPT ![p] = @ + 1]
            /\ announced' = [announced EXCEPT
                 ![h][[origin |-> p, claim |-> claim]] = @ + 1]
            /\ fetchArmed' = (fetchArmed \/ Announced \subseteq {h})
       ELSE UNCHANGED <<announces, announced, fetchArmed>>
  /\ pc' = "top"
  /\ UNCHANGED <<fetching, fetched, completing, blocks, completeArmed, height,
                 todo, explicit, imports, chain, dropped>>

Inject(p, h) ==
  /\ pc = "select"
  /\ p \in Honest => Verdict[h] # "bad"
  /\ enqueue(p, h)
  /\ pc' = "top"
  /\ UNCHANGED <<timers, height, todo, explicit, imports, chain, dropped,
                 notified>>

Done(r) ==
  /\ pc = "select"
  /\ r.stage = "done"
  /\ imports' = imports \ {r}
  /\ forgetHash(r.hash)
  /\ forgetBlock(r.hash)
  /\ pc' = "top"
  /\ UNCHANGED <<queue, timers, height, todo, explicit, chain, dropped,
                 notified>>

\* fetchTimer: visit every announced hash, then rescheduleFetch.
FetchTimer ==
  /\ pc = "select"
  /\ fetchArmed
  /\ fetchArmed' = FALSE
  /\ todo' = Announced
  /\ pc' = "fetch"
  /\ UNCHANGED <<counters, blocks, completeArmed, height, explicit, imports,
                 chain, dropped, notified>>

FetchExpired(h) ==
  /\ pc = "fetch"
  /\ h \in todo
  /\ todo' = todo \ {h}
  /\ \E a \in Announces :
       /\ announced[h][a] > 0
       /\ ForgetThen(h, IF h \in known THEN None ELSE a, None)
  /\ UNCHANGED <<blocks, timers, pc, height, explicit, imports, chain,
                 dropped, notified>>

FetchLater(h) ==
  /\ pc = "fetch"
  /\ h \in todo
  /\ todo' = todo \ {h}
  /\ UNCHANGED <<counters, blocks, timers, pc, height, explicit, imports,
                 chain, dropped, notified>>

\* Mutant of rescheduleFetch: the timer is left alone.
rescheduleFetchNever ==
  /\ pc = "fetch"
  /\ todo = {}
  /\ pc' = "top"
  /\ UNCHANGED <<counters, blocks, timers, height, todo, explicit, imports,
                 chain, dropped, notified>>

rescheduleFetch ==
  /\ pc = "fetch"
  /\ todo = {}
  /\ fetchArmed' = (fetchArmed \/ Announced # {})
  /\ pc' = "top"
  /\ UNCHANGED <<counters, blocks, completeArmed, height, todo, explicit,
                 imports, chain, dropped, notified>>

\* completeTimer: ask for the bodies of every fetched header.
CompleteTimer ==
  /\ pc = "select"
  /\ completeArmed
  /\ completeArmed' = FALSE
  /\ todo' = Fetched
  /\ pc' = "complete"
  /\ UNCHANGED <<counters, blocks, fetchArmed, height, explicit, imports,
                 chain, dropped, notified>>

Complete(h) ==
  /\ pc = "complete"
  /\ h \in todo
  /\ todo' = todo \ {h}
  /\ ForgetThen(h, None, IF h \in known THEN None ELSE fetched[h])
  /\ UNCHANGED <<blocks, timers, pc, height, explicit, imports, chain,
                 dropped, notified>>

rescheduleComplete ==
  /\ pc = "complete"
  /\ todo = {}
  /\ completeArmed' = (completeArmed \/ Fetched # {})
  /\ pc' = "top"
  /\ UNCHANGED <<counters, blocks, fetchArmed, height, todo, explicit,
                 imports, chain, dropped, notified>>

\* FilterBlocks (eth/61): keep the explicitly requested blocks of a batch.
FilterBlocks(batch) ==
  /\ pc = "select"
  /\ todo' = batch
  /\ pc' = "blocks"
  /\ UNCHANGED <<counters, blocks, timers, height, explicit, imports, chain,
                 dropped, notified>>

FilterBlock(h) ==
  /\ pc = "blocks"
  /\ h \in todo
  /\ todo' = todo \ {h}
  /\ IF fetching[h] # None /\ queued[h] = None
       THEN IF h \in known
              THEN forgetHash(h) /\ UNCHANGED explicit
              ELSE explicit' = explicit \cup {h} /\ UNCHANGED counters
       ELSE UNCHANGED <<counters, explicit>>
  /\ UNCHANGED <<blocks, timers, pc, height, imports, chain, dropped,
                 notified>>

\* FilterBodies (eth/62): every completing block one of the bodies fits.
FilterBodies(bodies) ==
  /\ pc = "select"
  /\ todo' = {h \in Hashes : completing[h] # None /\ Body[h] \in bodies}
  /\ pc' = "bodies"
  /\ UNCHANGED <<counters, blocks, timers, height, explicit, imports, chain,
                 dropped, notified>>

FilterBody(h) ==
  /\ pc = "bodies"
  /\ h \in todo
  /\ todo' = todo \ {h}
  /\ IF queued[h] = None
       THEN IF h \in known
              THEN forgetHash(h) /\ UNCHANGED explicit
              ELSE explicit' = explicit \cup {h} /\ UNCHANGED counters
       ELSE UNCHANGED <<counters, explicit>>
  /\ UNCHANGED <<blocks, timers, pc, height, imports, chain, dropped,
                 notified>>

FilterDone ==
  /\ pc \in {"blocks", "bodies"}
  /\ todo = {}
  /\ pc' = IF pc = "blocks" THEN "enqueue61" ELSE "enqueue62"
  /\ UNCHANGED <<counters, blocks, timers, height, todo, explicit, imports,
                 chain, dropped, notified>>

\* Enqueue what was explicitly fetched, unless its announcement is gone.
EnqueueExplicit(h) ==
  LET announce == IF pc = "enqueue61" THEN fetching[h] ELSE completing[h]
  IN /\ pc \in {"enqueue61", "enqueue62"}
     /\ h \in explicit
     /\ explicit' = explicit \ {h}
     /\ IF announce # None
          THEN enqueue(announce.origin, h)
          ELSE UNCHANGED <<counters, blocks>>
     /\ UNCHANGED <<timers, pc, height, todo, imports, chain, dropped,
                    notified>>

EnqueueDone ==
  /\ pc \in {"enqueue61", "enqueue62"}
  /\ explicit = {}
  /\ pc' = "top"
  /\ UNCHANGED <<counters, blocks, timers, height, todo, explicit, imports,
                 chain, dropped, notified>>

\* A header was asked for, and nothing further along exists for its hash.
Requested(h) ==
  /\ fetching[h] # None /\ fetched[h] = None
  /\ completing[h] = None /\ queued[h] = None

\* FilterHeaders (eth/62).  The protocol handler only filters replies of one
\* header (handler.go:443).
FilterHeaders(h) ==
  /\ pc = "select"
  /\ \/ /\ ~Requested(h)
        /\ pc' = "top"
        /\ UNCHANGED <<counters, completeArmed, explicit, dropped>>
     \/ /\ Requested(h) /\ fetching[h].claim # "right"
        /\ dropped' = dropped \cup {fetching[h].origin}
        /\ forgetHash(h)
        /\ pc' = "top"
        /\ UNCHANGED <<completeArmed, explicit>>
     \/ /\ Requested(h) /\ fetching[h].claim = "right" /\ h \in known
        /\ forgetHash(h)
        /\ pc' = "top"
        /\ UNCHANGED <<completeArmed, explicit, dropped>>
     \/ /\ Requested(h) /\ fetching[h].claim = "right" /\ h \notin known
        /\ IF Body[h] = EmptyBody
             THEN /\ completing' = [completing EXCEPT ![h] = fetching[h]]
                  /\ explicit' = {h}
                  /\ pc' = "enqueue62"
                  /\ UNCHANGED <<fetched, completeArmed>>
             ELSE /\ fetched' = [fetched EXCEPT ![h] = fetching[h]]
                  /\ completeArmed' = (completeArmed \/ Fetched = {})
                  /\ pc' = "top"
                  /\ UNCHANGED <<completing, explicit>>
        /\ UNCHANGED <<announces, announced, fetching, dropped>>
  /\ UNCHANGED <<blocks, fetchArmed, height, todo, imports, chain, notified>>

-----------------------------------------------------------------------------
(* The goroutine spawned by insert(), and the rest of the node.            *)

Become(r, stage) ==
  imports' = (imports \ {r}) \cup {[r EXCEPT !.stage = stage]}

\* Mutant of ImportCheck: no case for BlockFutureErr.
ImportCheckNoFuture(r) ==
  /\ r.stage = "check"
  /\ \/ /\ Parent[r.hash] \notin known \/ Verdict[r.hash] # "ok"
        /\ Become(r, "done")
        /\ dropped' = dropped \cup
             (IF Parent[r.hash] \in known THEN {r.origin} ELSE {})
     \/ /\ Parent[r.hash] \in known /\ Verdict[r.hash] = "ok"
        /\ Become(r, "insert")
        /\ UNCHANGED dropped
  /\ UNCHANGED <<counters, blocks, timers, pc, height, todo, explicit, chain,
                 notified>>

\* Mutant of ImportCheck: with an invalid header it returns without a report.
ImportCheckSilent(r) ==
  /\ r.stage = "check"
  /\ \/ /\ Parent[r.hash] \notin known
        /\ Become(r, "done")
        /\ UNCHANGED dropped
     \/ /\ Parent[r.hash] \in known /\ Verdict[r.hash] = "bad"
        /\ Become(r, "returned")
        /\ dropped' = dropped \cup {r.origin}
     \/ /\ Parent[r.hash] \in known /\ Verdict[r.hash] # "bad"
        /\ Become(r, "insert")
        /\ UNCHANGED dropped
  /\ UNCHANGED <<counters, blocks, timers, pc, height, todo, explicit, chain,
                 notified>>

ImportCheck(r) ==
  /\ r.stage = "check"
  /\ \/ /\ Parent[r.hash] \notin known
        /\ Become(r, "done")
        /\ UNCHANGED dropped
     \/ /\ Parent[r.hash] \in known /\ Verdict[r.hash] = "bad"
        /\ Become(r, "done")
        /\ dropped' = dropped \cup {r.origin}
     \/ /\ Parent[r.hash] \in known /\ Verdict[r.hash] # "bad"
        /\ Become(r, "insert")
        /\ UNCHANGED dropped
  /\ UNCHANGED <<counters, blocks, timers, pc, height, todo, explicit, chain,
                 notified>>

\* insertChain: the block is stored (as the new head or not), put aside as
\* a future block, or refused.
ImportInsert(r) ==
  /\ r.stage = "insert"
  /\ Become(r, "done")
  /\ \/ /\ known' = known \cup {r.hash}
        /\ chainHeight' \in {chainHeight, Number[r.hash]}
     \/ UNCHANGED chain
  /\ UNCHANGED <<counters, blocks, timers, pc, height, todo, explicit,
                 dropped, notified>>

\* The downloader or the miner imports a block.
OtherImport(h) ==
  /\ h \notin known /\ Parent[h] \in known /\ Verdict[h] # "bad"
  /\ known' = known \cup {h}
  /\ chainHeight' \in {chainHeight, Number[h]}
  /\ UNCHANGED <<counters, blocks, timers, pc, height, todo, explicit,
                 imports, dropped, notified>>

-----------------------------------------------------------------------------
Loop ==
  \/ \E h \in Hashes : ExpireOne(h) \/ PopQueue(h)
  \/ ReadHeight
  \/ QueueEmpty
  \/ \E h \in Hashes : FetchExpired(h) \/ FetchLater(h) \/ Complete(h)
  \/ \E h \in Hashes : FilterBlock(h) \/ FilterBody(h) \/ EnqueueExplicit(h)
  \/ FilterDone
  \/ EnqueueDone
  \/ rescheduleFetch
  \/ rescheduleComplete

Timer == FetchTimer \/ CompleteTimer

Network ==
  \/ \E p \in Peers, h \in Hashes, c \in Claims : Notify(p, h, c)
  \/ \E p \in Peers, h \in Hashes : Inject(p, h)
  \/ \E batch \in (SUBSET Hashes) \ {{}} : FilterBlocks(batch)
  \/ \E h \in Hashes : FilterHeaders(h)
  \/ \E bodies \in (SUBSET {Body[h] : h \in Hashes}) \ {{}} :
       FilterBodies(bodies)

Import == \E r \in imports : ImportCheck(r) \/ ImportInsert(r)

Next ==
  \/ Loop
  \/ Timer
  \/ Network
  \/ Import
  \/ \E r \in imports : Done(r)
  \/ \E h \in Hashes : OtherImport(h)
  \/ Stop

Spec == Init /\ [][Next]_vars

\* The runtime keeps scheduling the loop and every import goroutine, an armed
\* fetch timer fires, and an announcement that stays long enough is found due.
\* Timer and done compete with other ready select cases, among which Go
\* chooses at random, and senders on done are served in turn: hence strong
\* fairness.
Fairness ==
  /\ WF_vars(Loop)
  /\ SF_vars(FetchTimer)
  /\ \A h \in Hashes :
       /\ SF_vars(FetchExpired(h))
       /\ WF_vars(\E r \in imports : r.hash = h /\ (ImportCheck(r) \/ ImportInsert(r)))
       /\ SF_vars(\E r \in imports : r.hash = h /\ Done(r))

LiveSpec == Spec /\ Fairness

-----------------------------------------------------------------------------
(* Properties.                                                             *)

TypeOK ==
  /\ announces \in [Peers -> Int]
  /\ announced \in [Hashes -> [Announces -> Nat]]
  /\ fetching \in [Hashes -> Announces \cup {None}]
  /\ fetched \in [Hashes -> Announces \cup {None}]
  /\ completing \in [Hashes -> Announces \cup {None}]
  /\ queue \subseteq Hashes
  /\ queued \in [Hashes -> Peers \cup {None}]
  /\ queues \in [Peers -> Nat]
  /\ fetchArmed \in BOOLEAN /\ completeArmed \in BOOLEAN
  /\ pc \in {"top", "import", "select", "fetch", "complete", "blocks",
             "bodies", "enqueue61", "enqueue62", "stopped"}
  /\ height \in Nat
  /\ todo \subseteq Hashes /\ explicit \subseteq Hashes
  /\ imports \subseteq [hash : Hashes, origin : Peers, stage : Stages]
  /\ known \subseteq Hashes \cup {Genesis}
  /\ chainHeight \in Nat
  /\ dropped \subseteq Peers
  /\ notified \in Nat

Importing == {r.hash : r \in imports}

\* fetcher.go:719, "has not yet been seen": a block waits in the import queue
\* or is being imported, never both, no two goroutines import the same
\* block, and the dedup map f.queued holds exactly these blocks.
ImportedOnce ==
  /\ queue \cap Importing = {}
  /\ \A r, s \in imports : r.hash = s.hash => r = s
  /\ {h \in Hashes : queued[h] # None} = queue \cup Importing

\* f.queues counts, for every peer, the blocks it has queued or in import,
\* and so blockLimit bounds them.
QueueAccounting ==
  \A p \in Peers :
    /\ queues[p] = Cardinality({h \in Hashes : queued[h] = p})
    /\ queues[p] <= BlockLimit

\* A hash is scheduled for fetching, or being retrieved, never both, and a
\* header that waits for its body still has its fetch registered (so that
\* the fetch timeout covers it).
OnePhase ==
  \A h \in Hashes :
    /\ h \in Announced => fetching[h] = None /\ completing[h] = None
    /\ h \in Fetched => fetching[h] = fetched[h] /\ completing[h] = None

\* Whenever something waits for a timer, the timer runs: the reset on the
\* first entry (lines 385, 596) and the one after each pass (lines 451, 487)
\* together leave no announcement and no header behind.
TimersArmed ==
  /\ Announced # {} => fetchArmed \/ pc = "fetch"
  /\ Fetched # {} => completeArmed \/ pc = "complete"

\* No peer that only relays valid blocks with their true numbers is dropped.
HonestKept == dropped \cap Honest = {}

\* hashLimit, "Maximum number of unique blocks a peer may have announced".
AnnounceLimit ==
  \A p \in Peers :
    Cardinality({h \in Hashes : \E c \in Claims :
                   announced[h][[origin |-> p, claim |-> c]] > 0}) <= HashLimit

\* Every announcement is eventually acted on: fetched, or forgotten.
AnnouncedFetched ==
  \A h \in Hashes : h \in Announced ~> (h \notin Announced \/ pc = "stopped")

\* Every import that was started is eventually cleaned up.
ImportForgotten ==
  \A h \in Hashes :
    h \in Importing ~> (queued[h] = None \/ pc = "stopped")

\* fetchTimeout, "Maximum alloted time to return an explicitly requested
\* block": a block whose body was asked for does not stay pending for ever.
CompletionTimesOut ==
  \A h \in Hashes :
    completing[h] # None ~> (completing[h] = None \/ pc = "stopped")
=============================================================================
