------------------------------ MODULE StateSync ------------------------------
(***************************************************************************)
(* The state download of fast sync: the trie scheduler of TrieSync, the    *)
(* state part of the download queue (exp/downloader/queue.go), fetchNodeData *)
(* with its fetchParts loop (downloader.go), and the processors, goroutines *)
(* that DeliverNodeData starts and nobody waits for.  A cycle ends with the *)
(* download, with an error elsewhere, or with a crash; the next cycle wants *)
(* the state of another pivot block and finds the database, the late       *)
(* replies and, without a crash, the processors of the earlier one.        *)
(*                                                                         *)
(* Peers are honest: a reply holds requested entries, all those the peer   *)
(* has or some of them.  Priorities are left out: any entries are popped.  *)
(***************************************************************************)
EXTENDS TrieSync

CONSTANTS
  Peers,
  Have,          \* [Peers -> SUBSET Nodes]: the state entries a peer has
  Roots,         \* the state root of each cycle's pivot block
  MaxCount,      \* largest NodeDataCapacity
  MaxProcs,      \* model bound: processors running at once
  MaxUpsets,     \* model bound: requests that time out, and cycles after the first
  MaxFailures    \* model bound: batches the database fails to write

ASSUME StateAssumption ==
  /\ Have \in [Peers -> SUBSET Nodes]
  /\ Roots \in Seq(Nodes) /\ Len(Roots) > 0
  /\ {MaxCount, MaxProcs} \subseteq Nat \ {0}
  /\ {MaxUpsets, MaxFailures} \subseteq Nat

VARIABLES
  database,   \* entries on disk
  sched,      \* stateScheduler, or NoSched
  tasks,      \* stateTaskQueue
  pend,       \* statePendPool: [Peers -> entries asked for, or {}]
  busy,       \* [Peers -> BOOLEAN]: stateIdle
  lacking,    \* [Peers -> entries the peer did not have]
  registered, \* the downloader's peers
  net,        \* [Peers -> requests without an answer yet]
  procs,      \* [1..MaxProcs -> a running processor, or Idle]
  cycle,      \* number of this cycle
  fpc,        \* control point of fetchParts
  round,      \* its round of reservations
  cancelled,  \* cancelCh is closed
  expiries, failures

download == <<sched, tasks, pend>>
peers == <<busy, lacking, registered, net>>
fetcher == <<fpc, round>>
vars == <<database, download, peers, procs, cycle, fetcher, cancelled, expiries,
          failures>>

NoSched == [none |-> TRUE]
Idle == [cycle |-> 0, left |-> {}]
NoRound == [idles |-> {}, all |-> FALSE, running |-> FALSE]
Cycles == 1..Len(Roots)

Init ==
  /\ database = {} /\ sched = NoSched /\ tasks = {}
  /\ pend = [p \in Peers |-> {}]
  /\ busy = [p \in Peers |-> FALSE]
  /\ lacking = [p \in Peers |-> {}]
  /\ registered \in SUBSET Peers \ {{}}
  /\ net = [p \in Peers |-> << >>]
  /\ procs = [i \in 1..MaxProcs |-> Idle]
  /\ cycle = 1 /\ fpc = "select" /\ round = NoRound
  /\ cancelled = FALSE /\ expiries = 0 /\ failures = 0

Upsets == expiries + cycle - 1

Requests == IF sched = NoSched THEN {} ELSE DOMAIN sched.reqs
Pending == Cardinality(Requests)

InFlight == (\E p \in Peers : pend[p] # {}) \/ (\E i \in DOMAIN procs : procs[i] # Idle)

\* Mutant of SchedulePivot: the root of the first cycle's pivot is kept.
SchedulePivotOld ==
  /\ sched = NoSched /\ ~cancelled /\ fpc # "done"
  /\ sched' = NewTrieSync(database, Roots[1])
  /\ UNCHANGED <<database, tasks, pend, peers, procs, cycle, fetcher, cancelled,
                 expiries, failures>>

\* fetchHeaders hands the pivot header to queue.Schedule.
SchedulePivot ==
  /\ sched = NoSched /\ ~cancelled /\ fpc # "done"
  /\ sched' = NewTrieSync(database, Roots[cycle])
  /\ UNCHANGED <<database, tasks, pend, peers, procs, cycle, fetcher, cancelled,
                 expiries, failures>>

-----------------------------------------------------------------------------
(* fetchParts.                                                             *)

Select == fpc = "select" /\ ~cancelled

\* A request of p times out.  More than one entry: the peer is idle again; a
\* single one: the peer is dropped.
Expire(p) ==
  /\ Select /\ pend[p] # {} /\ Upsets < MaxUpsets
  /\ tasks' = tasks \cup pend[p]
  /\ pend' = [pend EXCEPT ![p] = {}]
  /\ IF Cardinality(pend[p]) > 1
       THEN busy' = [busy EXCEPT ![p] = FALSE] /\ UNCHANGED registered
       ELSE registered' = registered \ {p} /\ UNCHANGED busy
  /\ expiries' = expiries + 1
  /\ UNCHANGED <<database, sched, lacking, net, procs, cycle, fetcher, cancelled,
                 failures>>

NothingLeft == Pending = 0 /\ ~InFlight /\ sched # NoSched

\* All headers were handed over, and nothing is pending or in flight.
Finish ==
  /\ Select /\ registered # {} /\ NothingLeft
  /\ fpc' = "done"
  /\ UNCHANGED <<database, download, peers, procs, cycle, round, cancelled, expiries,
                 failures>>

NoPeers ==
  /\ Select /\ registered = {}
  /\ fpc' = "failed" /\ cancelled' = TRUE
  /\ UNCHANGED <<database, download, peers, procs, cycle, round, expiries, failures>>

\* A round begins: what is in flight and who is idle is read once.
StartRound ==
  /\ Select /\ registered # {} /\ Pending > 0
  /\ round' = [idles   |-> {p \in registered : ~busy[p]},
               all     |-> \A p \in registered : ~busy[p],
               running |-> InFlight]
  /\ fpc' = "round"
  /\ UNCHANGED <<database, download, peers, procs, cycle, cancelled, expiries,
                 failures>>

InFlightCount == MapThenSumSet(LAMBDA p : Cardinality(pend[p]), Peers)

Least(a, b) == IF a < b THEN a ELSE b

\* What Missing(max) may return.
Missing(max) ==
  {M \in SUBSET sched.queue : Cardinality(M) = Least(max, Cardinality(sched.queue))}

\* The sets of entries that reserveHashes may send to p: it pops until it popped as
\* many as allowed, found as many as the peer can take, or the queue is empty.
Sendable(p, queued, count, allowance) ==
  {popped \ lacking[p] : popped \in {P \in SUBSET queued :
     /\ Cardinality(P \ lacking[p]) <= count
     /\ allowance = 0 \/ Cardinality(P) <= allowance \/ P = {}
     /\ \/ P = queued
        \/ Cardinality(P \ lacking[p]) = count
        \/ allowance # 0 /\ Cardinality(P) >= allowance}}

\* The entries to ask the scheduler for.
Wanted(allowance) == allowance - Cardinality(tasks)

\* ReserveNodeData and FetchNodeData for one idle peer.
Reserve(p, count) ==
  /\ fpc = "round" /\ p \in round.idles
  /\ LET allowance == count - InFlightCount
         wanted == Wanted(allowance)
     IN \E M \in IF wanted > 0 /\ sched # NoSched THEN Missing(wanted) ELSE {{}} :
        \E send \in Sendable(p, tasks \cup M, count, allowance) :
          /\ sched' = IF M = {} THEN sched ELSE [sched EXCEPT !.queue = @ \ M]
          /\ tasks' = (tasks \cup M) \ send
          /\ pend' = [pend EXCEPT ![p] = send]
          /\ busy' = [busy EXCEPT ![p] = send # {}]
          /\ net' = IF send = {} THEN net ELSE [net EXCEPT ![p] = Append(@, send)]
          /\ round' = [round EXCEPT !.idles = @ \ {p}, !.running = @ \/ send # {}]
  /\ UNCHANGED <<database, lacking, registered, procs, cycle, fpc, cancelled,
                 expiries, failures>>

\* Mutant of Exhausted: what is in flight is looked up again at the end.
ExhaustedLate == ~InFlight /\ round.all /\ Pending > 0

\* Every peer was tried, none could be asked, and nothing was in flight.
Exhausted == ~round.running /\ round.all /\ Pending > 0

EndRound ==
  /\ fpc = "round" /\ round.idles = {}
  /\ fpc' = IF Exhausted THEN "failed" ELSE "select"
  /\ cancelled' = (cancelled \/ Exhausted)
  /\ round' = NoRound
  /\ UNCHANGED <<database, download, peers, procs, cycle, expiries, failures>>

-----------------------------------------------------------------------------
(* Replies, and the processors they start.                                 *)

\* The peer answers the oldest request with all it has of it, or a part.
Replies(p) ==
  LET found == Head(net[p]) \cap Have[p]
  IN {R \in SUBSET found : R # {} \/ found = {}}

\* DeliverNodeData's verdict: as many unexpected entries as entries still missing.
Stale(reply, asked) ==
  /\ reply \ asked # {}
  /\ Cardinality(reply \ asked) = Cardinality(asked \ reply)

FreeProc == CHOOSE i \in DOMAIN procs : procs[i] = Idle

\* Mutant of Missed: entries a reply did not hold are not asked for again.
MissedNone(reply, asked) == {}

\* The entries that go back to the task queue.
Missed(reply, asked) == asked \ reply

\* DeliverNodeData for a peer that has a request.
Accept(p, reply) ==
  /\ \E i \in DOMAIN procs : procs[i] = Idle
  /\ procs' = [procs EXCEPT ![FreeProc] =
                 [cycle |-> cycle, left |-> reply \cap pend[p]]]
  /\ pend' = [pend EXCEPT ![p] = {}]
  /\ tasks' = tasks \cup Missed(reply, pend[p])
  /\ lacking' = IF reply = {} THEN [lacking EXCEPT ![p] = @ \cup pend[p]] ELSE lacking
  /\ busy' = [busy EXCEPT ![p] = @ /\ Stale(reply, pend[p])]

Deliver(p) ==
  /\ Select /\ net[p] # << >>
  /\ net' = [net EXCEPT ![p] = Tail(@)]
  /\ \E reply \in Replies(p) :
       \/ /\ p \notin registered
          /\ UNCHANGED <<procs, pend, tasks, lacking, busy>>
       \/ /\ p \in registered /\ pend[p] = {}
          /\ busy' = [busy EXCEPT ![p] = FALSE]
          /\ UNCHANGED <<procs, pend, tasks, lacking>>
       \/ p \in registered /\ pend[p] # {} /\ Accept(p, reply)
  /\ UNCHANGED <<database, sched, registered, cycle, fetcher, cancelled, expiries,
                 failures>>

\* No cycle takes the reply (errNoSyncActive, or the channel's cancel case).
Discard(p) ==
  /\ net[p] # << >> /\ (cancelled \/ fpc = "done")
  /\ net' = [net EXCEPT ![p] = Tail(@)]
  /\ UNCHANGED <<database, download, busy, lacking, registered, procs, cycle, fetcher,
                 cancelled, expiries, failures>>

\* deliverNodeData finds no scheduler, or one that did not ask for h: the callback
\* of fetchNodeData cancels whatever cycle is running.
ProcessFails(i, h) ==
  /\ h \in procs[i].left
  /\ h \notin Requests
  /\ procs' = [procs EXCEPT ![i] = Idle]
  /\ cancelled' = TRUE
  /\ UNCHANGED <<database, download, peers, cycle, fetcher, expiries, failures>>

\* What the database may hold of a batch it was asked to write: all, or, when the
\* write fails, nothing.  commit's error is dropped by Process.
Written(batch) ==
  IF batch # {} /\ failures < MaxFailures THEN {batch, {}} ELSE {batch}

\* One item, under stateSchedLock.
ProcessItem(i, h) ==
  /\ h \in procs[i].left /\ h \in Requests
  /\ LET done == Process(sched, database, h)
     IN /\ sched' = [reqs |-> done.reqs, queue |-> done.queue]
        /\ \E W \in Written(done.batch) :
             /\ database' = database \cup W
             /\ failures' = IF W = done.batch THEN failures ELSE failures + 1
  /\ procs' = [procs EXCEPT ![i].left = @ \ {h}]
  /\ UNCHANGED <<tasks, pend, peers, cycle, fetcher, cancelled, expiries>>

ProcessorEnds(i) ==
  /\ procs[i] # Idle /\ procs[i].left = {}
  /\ procs' = [procs EXCEPT ![i] = Idle]
  /\ UNCHANGED <<database, download, peers, cycle, fetcher, cancelled, expiries,
                 failures>>

-----------------------------------------------------------------------------
(* Cycles.                                                                 *)

\* Another part of the cycle fails (spawnSync), or the node is told to stop.
Abort ==
  /\ ~cancelled /\ cycle < Len(Roots) /\ Upsets < MaxUpsets
  /\ cancelled' = TRUE
  /\ UNCHANGED <<database, download, peers, procs, cycle, fetcher, expiries, failures>>

\* What Reset of the queue and of the peer set leaves.
Fresh ==
  /\ cycle < Len(Roots) /\ cycle' = cycle + 1 /\ Upsets < MaxUpsets
  /\ sched' = NoSched /\ tasks' = {}
  /\ pend' = [p \in Peers |-> {}]
  /\ busy' = [p \in Peers |-> FALSE]
  /\ lacking' = [p \in Peers |-> {}]
  /\ fpc' = "select" /\ round' = NoRound /\ cancelled' = FALSE

NewCycle ==
  /\ cancelled /\ fpc # "round"
  /\ Fresh
  /\ UNCHANGED <<database, registered, net, procs, expiries, failures>>

\* The process dies; batches are atomic, so the database is what it was.
Crash ==
  /\ Fresh
  /\ registered' = Peers /\ net' = [p \in Peers |-> << >>]
  /\ procs' = [i \in DOMAIN procs |-> Idle]
  /\ UNCHANGED <<database, expiries, failures>>

\* Every cycle is over and no goroutine is left.
Over ==
  /\ cycle = Len(Roots) \/ Upsets = MaxUpsets
  /\ (fpc = "done" \/ cancelled) /\ fpc # "round"
  /\ \A i \in DOMAIN procs : procs[i] = Idle
  /\ \A p \in Peers : net[p] = << >>
  /\ UNCHANGED vars

Next ==
  \/ SchedulePivot \/ Finish \/ NoPeers \/ StartRound \/ EndRound
  \/ \E p \in Peers : Expire(p) \/ Deliver(p) \/ Discard(p)
  \/ \E p \in Peers : \E count \in 1..MaxCount : Reserve(p, count)
  \/ \E i \in DOMAIN procs : ProcessorEnds(i)
  \/ \E i \in DOMAIN procs : \E h \in Nodes : ProcessFails(i, h) \/ ProcessItem(i, h)
  \/ Abort \/ NewCycle \/ Crash \/ Over

Spec == Init /\ [][Next]_vars

-----------------------------------------------------------------------------
(* Properties.                                                             *)

\* Every variable has the type its comment gives.
TypeOK ==
  /\ database \subseteq Nodes /\ tasks \subseteq Nodes
  /\ sched # NoSched =>
       /\ \A h \in DOMAIN sched.reqs :
            sched.reqs[h] \in [parents : Seq(Nodes), deps : Nat, data : BOOLEAN]
       /\ sched.queue \subseteq Nodes /\ DOMAIN sched.reqs \subseteq Nodes
  /\ pend \in [Peers -> SUBSET Nodes] /\ lacking \in [Peers -> SUBSET Nodes]
  /\ busy \in [Peers -> BOOLEAN] /\ registered \subseteq Peers
  /\ procs \in [1..MaxProcs -> [cycle : 0..Len(Roots), left : SUBSET Nodes]]
  /\ cycle \in Cycles /\ fpc \in {"select", "round", "done", "failed"}
  /\ cancelled \in BOOLEAN

\* A node is in the database only with everything it refers to, sub-tries, storage
\* tries and code: AddSubTrie and children take a node they find on disk for a
\* complete subtree.  It survives crashes and changes of the pivot.
DatabaseClosed == \A n \in database : Kids(n) \subseteq database

\* References of request p in the parent lists of the pending requests.
References(p) ==
  MapThenSumSet(LAMBDA h :
    Cardinality({i \in DOMAIN sched.reqs[h].parents : sched.reqs[h].parents[i] = p}),
    Requests)

\* deps counts exactly the references to a request in the parent lists of the
\* others, so no commit waits for ever and none comes too early; every parent is
\* itself pending, and what a processed node still misses is requested.
DepsExact ==
  \A p \in Requests :
    /\ sched.reqs[p].deps = References(p)
    /\ ToSet(sched.reqs[p].parents) \subseteq Requests
    /\ sched.reqs[p].data => Kids(p) \subseteq database \cup Requests

\* Pending returns 0 only when the whole state of the pivot is on disk: it is what
\* lets WaitResults hand out the pivot block.
CompleteWhenIdle ==
  sched # NoSched /\ Pending = 0 => Roots[cycle] \in database

InProcessor(h) == \E i \in DOMAIN procs : procs[i].cycle = cycle /\ h \in procs[i].left

\* Places an entry can wait in to be fetched or processed.
Places(h) ==
  Cardinality({p \in Peers : h \in pend[p]}) + (IF h \in tasks THEN 1 ELSE 0)
  + (IF h \in sched.queue THEN 1 ELSE 0) + (IF InProcessor(h) THEN 1 ELSE 0)

\* An entry without data is in exactly one place: the scheduler's queue, the task
\* queue, one peer's request or a processor; replies that are partial, late or
\* empty and requests that time out neither lose nor double it.  A processor that
\* outlives its cycle writes into the next one's scheduler, so this is the first's.
EntryOnePlace ==
  sched # NoSched /\ cycle = 1 => \A h \in Requests :
    Places(h) = (IF sched.reqs[h].data THEN 0 ELSE 1)

\* The fetcher gives up for want of peers only if every registered peer is known to
\* lack an entry that waits: a processor at work on the entries that lead to more
\* counts as progress, even if it ends in the middle of the round.
UnavailableHasCause ==
  [][fpc = "round" /\ fpc' = "failed" =>
       \A p \in registered : (tasks \cup sched.queue) \cap lacking[p] # {}]_vars

\* "If all peers have been tried and all failed throw an error": the fetcher gives up
\* only if no registered peer could be asked for any entry that waits.
UnavailableIsTrue ==
  [][fpc = "round" /\ fpc' = "failed" =>
       \A p \in registered : (tasks \cup sched.queue) \subseteq lacking[p]]_vars

\* "If the node data processing failed, the root hash is very wrong, abort": with
\* honest peers no processor cancels a cycle.
ProcessorNeverCancels ==
  [][cancelled' /\ ~cancelled =>
       \A i \in DOMAIN procs : procs'[i] = procs[i]]_vars

\* "If none of the data items were good, it's a stale delivery": a delivery that had
\* entries accepted leaves the peer idle.
UsefulPeerIdle ==
  [][\A p \in Peers : pend[p] # {} /\ pend'[p] = {} /\ tasks' # tasks \cup pend[p]
       /\ cycle' = cycle => ~busy'[p]]_vars

Fairness ==
  /\ WF_vars(SchedulePivot) /\ SF_vars(Finish) /\ WF_vars(NoPeers)
  /\ SF_vars(StartRound) /\ WF_vars(EndRound)
  /\ WF_vars(\E p \in Peers : \E count \in 1..MaxCount : Reserve(p, count))
  /\ \A p \in Peers : SF_vars(Deliver(p)) /\ WF_vars(Discard(p))
  /\ \A i \in 1..MaxProcs :
       WF_vars(\E h \in Nodes : ProcessItem(i, h) \/ ProcessFails(i, h))
         /\ WF_vars(ProcessorEnds(i))

LiveSpec == Spec /\ Fairness

\* The download comes to an end: the fetcher gives up, or is done with the whole state
\* of the pivot on disk.
StateArrives ==
  <>[](fpc = "failed" \/ cancelled \/ (fpc = "done" /\ Roots[cycle] \in database))
====
