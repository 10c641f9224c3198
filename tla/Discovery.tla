----------------------------- MODULE Discovery -----------------------------
(***************************************************************************)
(* Table of p2p/discover/table.go over the transport of Udp: bond with its  *)
(* bondproc map and its slots, add with the contested oldest entry, the     *)
(* refresh (doRefresh and the lookups it makes), refreshLoop and Close.     *)
(*                                                                         *)
(* The nodes share one bucket.  Each step of a goroutine between two        *)
(* blocking points, or under one hold of mutex or bondmu, is one action.    *)
(* Remote nodes are external: they ping, answer, answer late or never, and  *)
(* name any nodes as neighbours.  A lookup has one query out at a time (of  *)
(* alpha = 3), and its distances are left out: it asks in any order.        *)
(***************************************************************************)
EXTENDS Udp

CONSTANTS
  Pinging,      \* bound: the nodes that ping us
  Expiring,     \* bound: the nodes that the database may forget
  Neighbours,   \* bound: the node sets that a findnode may return
  Seeds,        \* nodes in the database at the start
  Nursery,      \* Table.nursery
  BucketSize,   \* bucketSize
  MaxBonding,   \* maxBondingPingPongs
  MaxFails,     \* maxFindnodeFailures
  None

ASSUME DiscoveryAssumption ==
  /\ Pinging \cup Expiring \cup Seeds \cup Nursery \subseteq Nodes /\ Neighbours \subseteq SUBSET Nodes
  /\ {BucketSize, MaxBonding, MaxFails} \subseteq Nat \ {0} /\ MaxWarps \in Nat
  /\ None \notin Nodes \cup Bonders /\ "doRefresh" \notin Nodes

VARIABLES
  db,           \* the nodes that nodeDB holds
  fails,        \* nodeDB's findFails, counted up to MaxFails
  bucket,       \* bucket.entries, the most recently active first
  contested,    \* [Nodes -> Bonders \cup {None}]: who contests the entry's Node object
  bonding,      \* Table.bonding: the bond that runs the node's bondproc
  slots,        \* tokens in bondslots
  bond,         \* [Bonders -> Bond]: the running calls of bond
  look,         \* doRefresh and its Lookup: entries still to ask, asked, the node being
                \* asked, the bonds that bondall awaits and what they returned
  refresh,      \* refreshLoop's done: "nil", "running", "finished" (closed)
  tab,          \* "open", "closing" (refreshLoop waits for done), "closed"
  ponged        \* history: nodes that have answered a ping

tableVars == <<db, fails, bucket, contested, bonding, slots, bond, look, refresh, tab, ponged>>
vars == <<udpVars, tableVars>>

NoBond == [pc |-> "none", node |-> FALSE, ok |-> FALSE, oldest |-> None]
NoLook == [pc |-> "none", phase |-> 1, todo |-> {}, asked |-> {}, from |-> None,
           awaited |-> {}, got |-> {}]

Init ==
  /\ UdpInit
  /\ db = Seeds /\ fails = [n \in Nodes |-> 0]
  /\ bucket = << >> /\ contested = [n \in Nodes |-> None]
  /\ bonding = [n \in Nodes |-> None] /\ slots = MaxBonding
  /\ bond = [b \in Bonders |-> NoBond] /\ look = NoLook
  /\ refresh = "nil" /\ tab = "open" /\ ponged = {}

Step(b, pc) == bond' = [bond EXCEPT ![b].pc = pc]

\* Mutant of Return: only a bond that succeeded reports to bondall.
ReturnNode(b) ==
  /\ bond' = [bond EXCEPT ![b] = NoBond]
  /\ look' = IF b[2] = "lookup" /\ bond[b].node
               THEN [look EXCEPT !.awaited = @ \ {b[1]}, !.got = @ \cup {b[1]}]
               ELSE look

\* bond returns; bondall collects what its calls return.
Return(b) ==
  /\ bond' = [bond EXCEPT ![b] = NoBond]
  /\ look' = IF b[2] = "lookup"
               THEN [look EXCEPT !.awaited = @ \ {b[1]},
                                 !.got = IF bond[b].node THEN @ \cup {b[1]} ELSE @]
               ELSE look

\* A closed database reads as empty and takes no write.
Stored(n) == IF tab = "closed" THEN db ELSE db \cup {n}
StoredFails(n, count) == IF tab = "closed" THEN fails ELSE [fails EXCEPT ![n] = count]
-----------------------------------------------------------------------------
(* bond and pingpong.                                                      *)

\* ping.handle: a ping that no waitping expects starts a bond; so does the last
\* one that readLoop handles while the transport closes.
PingReceived(n) ==
  /\ Matches(n, "ping") = {} \/ closing
  /\ bond[<<n, "ping">>].pc = "none"
  /\ Step(<<n, "ping">>, "start")
  /\ UNCHANGED <<udpVars, db, fails, bucket, contested, bonding, slots, look, refresh, tab, ponged>>

\* bond reads the database; a node whose last pong is too old is bonded afresh.
BondReads(b) ==
  LET n == b[1]
      known == n \in db
  IN  /\ bond[b].pc = "start"
      /\ \E old \in BOOLEAN :
           bond' = [bond EXCEPT ![b].node = known,
                                ![b].pc = IF ~known \/ fails[n] > 0 \/ old THEN "lookup" ELSE "add"]
      /\ UNCHANGED <<udpVars, db, fails, bucket, contested, bonding, slots, look, refresh, tab, ponged>>

\* Where a bond goes on once it has read the result of a bondproc.
After(known, ok) == IF ok \/ known THEN "add" ELSE "return"

\* Mutant of BondRegisters: a second bond does not look for the first one.
BondRegistersAlways(b) ==
  /\ bond[b].pc = "lookup"
  /\ bonding' = [bonding EXCEPT ![b[1]] = b]
  /\ Step(b, "slot")
  /\ UNCHANGED <<udpVars, db, fails, bucket, contested, slots, look, refresh, tab, ponged>>

\* Under bondmu: join the bondproc of the node, whose result may be there
\* already, or register one.
BondRegisters(b) ==
  LET w == bonding[b[1]]
  IN  /\ bond[b].pc = "lookup"
      /\ \/ /\ w = None
            /\ bonding' = [bonding EXCEPT ![b[1]] = b]
            /\ Step(b, "slot")
         \/ /\ w # None /\ bond[w].pc # "unregister"
            /\ Step(b, "wait")
            /\ UNCHANGED bonding
         \/ /\ w # None /\ bond[w].pc = "unregister"
            /\ bond' = [bond EXCEPT ![b].pc = After(bond[b].node, bond[w].ok),
                                    ![b].node = @ \/ bond[w].ok]
            /\ UNCHANGED bonding
      /\ UNCHANGED <<udpVars, db, fails, bucket, contested, slots, look, refresh, tab, ponged>>

\* pingpong takes a slot and queues its request with the transport.
BondPings(b) ==
  /\ bond[b].pc = "slot" /\ slots > 0
  /\ slots' = slots - 1
  /\ Pending(b, b[1], "pong")
  /\ Step(b, "pinging")
  /\ UNCHANGED <<db, fails, bucket, contested, bonding, look, refresh, tab, ponged>>

BondWaitsPing(b) ==
  /\ bond[b].pc = "waitping"
  /\ Pending(b, b[1], "ping")
  /\ Step(b, "waiting")
  /\ UNCHANGED <<db, fails, bucket, contested, bonding, slots, look, refresh, tab, ponged>>

\* pingpong ends: w.done is closed, which releases the bonds that joined, and the
\* slot goes back.
Finish(b, ok) ==
  /\ slots' = slots + 1
  /\ bond' = [c \in Bonders |->
       IF c = b THEN [bond[b] EXCEPT !.pc = "unregister", !.ok = ok]
       ELSE IF c[1] = b[1] /\ bond[c].pc = "wait"
            THEN [bond[c] EXCEPT !.pc = After(bond[c].node, ok), !.node = @ \/ ok]
       ELSE bond[c]]

\* Mutant of BondPinged: an unanswered ping counts like an answered one.
BondPingedAnyway(b) ==
  /\ bond[b].pc = "pinging" /\ errc[b] # "none"
  /\ Received(b)
  /\ Finish(b, TRUE) /\ db' = Stored(b[1])
  /\ UNCHANGED <<fails, bucket, contested, bonding, look, refresh, tab, ponged>>

\* The ping of pingpong is answered or has failed.
BondPinged(b) ==
  /\ bond[b].pc = "pinging" /\ errc[b] # "none"
  /\ Received(b)
  /\ ponged' = IF errc[b] = "ok" THEN ponged \cup {b[1]} ELSE ponged
  /\ \/ /\ errc[b] \in Failures
        /\ Finish(b, FALSE) /\ UNCHANGED db
     \/ /\ errc[b] = "ok" /\ b[2] = "ping"
        /\ Finish(b, TRUE) /\ db' = Stored(b[1])
     \/ /\ errc[b] = "ok" /\ b[2] # "ping"
        /\ Step(b, "waitping") /\ UNCHANGED <<slots, db>>
  /\ UNCHANGED <<fails, bucket, contested, bonding, look, refresh, tab>>

\* Whatever waitping returns, the bond has succeeded.
BondWaited(b) ==
  /\ bond[b].pc = "waiting" /\ errc[b] # "none"
  /\ Received(b)
  /\ Finish(b, TRUE) /\ db' = Stored(b[1])
  /\ UNCHANGED <<fails, bucket, contested, bonding, look, refresh, tab, ponged>>

BondUnregisters(b) ==
  /\ bond[b].pc = "unregister"
  /\ bonding' = [bonding EXCEPT ![b[1]] = None]
  /\ bond' = [bond EXCEPT ![b].pc = After(bond[b].node, bond[b].ok),
                          ![b].node = @ \/ bond[b].ok, ![b].ok = FALSE]
  /\ UNCHANGED <<udpVars, db, fails, bucket, contested, slots, look, refresh, tab, ponged>>
-----------------------------------------------------------------------------
(* add, stuff, delete and the bucket.                                      *)

\* delete and bump; a node has at most one entry.
Without(n) ==
  IF n \notin Range(bucket) THEN bucket
  ELSE Removed(bucket, CHOOSE i \in DOMAIN bucket : bucket[i] = n)
Bumped(n) == <<n>> \o Without(n)

Oldest == bucket[Len(bucket)]

\* replace: the bucket with n in front, in the place of oldest when it is full.
Replaced(n, oldest) ==
  IF n \in Range(bucket) THEN bucket
  ELSE IF Len(bucket) < BucketSize THEN <<n>> \o bucket
  ELSE IF Oldest # oldest THEN bucket
  ELSE <<n>> \o SubSeq(bucket, 1, BucketSize - 1)

\* add, up to the point where it lets go of the mutex: bump, contest the oldest
\* entry of a full bucket, or replace.  bump puts its Node object in the place of
\* the old one and so drops the contested flag, unless it is the same object (two
\* bonds that shared a bondproc).
BondAdds(b) ==
  LET n == b[1]
      full == Len(bucket) = BucketSize
      oldest == Oldest
  IN  /\ bond[b].pc = "add"
      /\ \/ /\ n \in Range(bucket)
            /\ bucket' = Bumped(n)
            /\ contested' \in {contested, [contested EXCEPT ![n] = None]}
            /\ Step(b, "added")
         \/ /\ n \notin Range(bucket) /\ full /\ contested[oldest] # None
            /\ Step(b, "added")
            /\ UNCHANGED <<bucket, contested>>
         \/ /\ n \notin Range(bucket) /\ full /\ contested[oldest] = None
            /\ contested' = [contested EXCEPT ![oldest] = b]
            /\ bond' = [bond EXCEPT ![b].pc = "contest", ![b].oldest = oldest]
            /\ UNCHANGED bucket
         \/ /\ n \notin Range(bucket) /\ ~full
            /\ bucket' = Replaced(n, None)
            /\ Step(b, "added")
            /\ UNCHANGED contested
      /\ UNCHANGED <<udpVars, db, fails, bonding, slots, look, refresh, tab, ponged>>

\* The oldest entry is pinged without the mutex.
BondContests(b) ==
  /\ bond[b].pc = "contest"
  /\ Pending(b, bond[b].oldest, "pong")
  /\ Step(b, "contesting")
  /\ UNCHANGED <<db, fails, bucket, contested, bonding, slots, look, refresh, tab, ponged>>

\* Mutant of BondContested: the answer of the oldest entry makes no difference.
BondContestedAnyway(b) ==
  LET oldest == bond[b].oldest
      next == Replaced(b[1], oldest)
  IN  /\ bond[b].pc = "contesting" /\ errc[b] # "none"
      /\ Received(b)
      /\ ponged' = IF errc[b] = "ok" THEN ponged \cup {oldest} ELSE ponged
      /\ bucket' = next
      /\ contested' = [n \in Nodes |->
           IF contested[n] = b \/ n \notin Range(next) THEN None ELSE contested[n]]
      /\ bond' = [bond EXCEPT ![b].pc = "added", ![b].oldest = None]
      /\ UNCHANGED <<db, fails, bonding, slots, look, refresh, tab>>

\* With the mutex again: the flag of that Node object is cleared, and unless it
\* answered it makes room.
BondContested(b) ==
  LET oldest == bond[b].oldest
      next == IF errc[b] = "ok" THEN bucket ELSE Replaced(b[1], oldest)
  IN  /\ bond[b].pc = "contesting" /\ errc[b] # "none"
      /\ Received(b)
      /\ ponged' = IF errc[b] = "ok" THEN ponged \cup {oldest} ELSE ponged
      /\ bucket' = next
      /\ contested' = [n \in Nodes |->
           IF contested[n] = b \/ n \notin Range(next) THEN None ELSE contested[n]]
      /\ bond' = [bond EXCEPT ![b].pc = "added", ![b].oldest = None]
      /\ UNCHANGED <<db, fails, bonding, slots, look, refresh, tab>>

\* updateFindFails(id, 0), and bond returns.
BondReturns(b) ==
  /\ bond[b].pc \in {"added", "return"}
  /\ fails' = IF bond[b].pc = "added" THEN StoredFails(b[1], 0) ELSE fails
  /\ Return(b)
  /\ UNCHANGED <<udpVars, db, bucket, contested, bonding, slots, refresh, tab, ponged>>

BondStep(b) ==
  \/ BondReads(b) \/ BondRegisters(b) \/ BondPings(b)
  \/ BondWaitsPing(b) \/ BondPinged(b) \/ BondWaited(b) \/ BondUnregisters(b)
  \/ BondAdds(b) \/ BondContests(b) \/ BondContested(b) \/ BondReturns(b)
-----------------------------------------------------------------------------
(* Lookup and doRefresh.                                                   *)

\* bondall starts a bond for each node and waits for all of them.
BondAll(nodes, pc) ==
  /\ bond' = [b \in Bonders |-> IF b[2] = "lookup" /\ b[1] \in nodes
                                 THEN [NoBond EXCEPT !.pc = "start"] ELSE bond[b]]
  /\ look' = [look EXCEPT !.pc = pc, !.awaited = nodes, !.got = {}, !.from = None]

\* Lookup reads the table; when that is empty it asks for a refresh.
LookupStarts ==
  /\ look.pc = "start"
  /\ look' = IF bucket = << >> THEN [look EXCEPT !.pc = "request"]
             ELSE [look EXCEPT !.pc = "ask", !.todo = Range(bucket), !.asked = {}]
  /\ UNCHANGED <<udpVars, db, fails, bucket, contested, bonding, slots, bond, refresh, tab, ponged>>

LookupAsks ==
  /\ look.pc = "ask"
  /\ \E n \in look.todo :
       /\ Pending(Looker, n, "neighbors")
       /\ look' = [look EXCEPT !.pc = "asking", !.todo = @ \ {n}, !.asked = @ \cup {n}, !.from = n]
  /\ UNCHANGED <<db, fails, bucket, contested, bonding, slots, bond, refresh, tab, ponged>>

\* findnode returns, with the nodes received so far even when it fails; a failure
\* is counted, and the node leaves the table when it has failed too often.
LookupAnswered ==
  LET n == look.from
      count == IF fails[n] + 1 < MaxFails THEN fails[n] + 1 ELSE MaxFails
      failed == errc[Looker] \in Failures
  IN  /\ look.pc = "asking" /\ errc[Looker] # "none"
      /\ Received(Looker)
      /\ fails' = IF failed THEN StoredFails(n, count) ELSE fails
      /\ bucket' = IF failed /\ count = MaxFails THEN Without(n) ELSE bucket
      /\ contested' = IF failed /\ count = MaxFails
                         THEN [contested EXCEPT ![n] = None] ELSE contested
      /\ \E reply \in Neighbours : BondAll(reply, "bonding")
      /\ UNCHANGED <<db, bonding, slots, refresh, tab, ponged>>

\* What bondall returned is asked next, unless it has been asked.
LookupBonded ==
  /\ look.pc = "bonding" /\ look.awaited = {}
  /\ look' = [look EXCEPT !.pc = "ask", !.todo = @ \cup (look.got \ look.asked), !.got = {}]
  /\ UNCHANGED <<udpVars, db, fails, bucket, contested, bonding, slots, bond, refresh, tab, ponged>>

\* doRefresh ends: a lookup that had entries ends it, and so does the second one.
RefreshEnds ==
  /\ look.pc = "ask" /\ look.todo = {}
  /\ look' = NoLook /\ refresh' = "finished"
  /\ UNCHANGED <<udpVars, db, fails, bucket, contested, bonding, slots, bond, tab, ponged>>

\* requestRefresh: refreshLoop takes the request at its select, and ignores it as a
\* refresh is running.  After the first lookup the seeds and the nursery follow.
RefreshRequested ==
  /\ look.pc = "request" /\ tab # "closing"
  /\ \/ /\ look.phase = 1
        /\ \E seeds \in SUBSET db : BondAll(seeds \cup Nursery, "seeding")
        /\ UNCHANGED refresh
     \/ /\ look.phase = 2
        /\ look' = NoLook /\ refresh' = "finished"
        /\ UNCHANGED bond
  /\ UNCHANGED <<udpVars, db, fails, bucket, contested, bonding, slots, tab, ponged>>

\* The sequences with each element of set once.
Orders(set) ==
  {order \in [1..Cardinality(set) -> set] : \A i, j \in DOMAIN order : order[i] = order[j] => i = j}

\* stuff: the seeds that bonded go to the end of the bucket while there is room.
RefreshSeeded ==
  /\ look.pc = "seeding" /\ look.awaited = {}
  /\ \E order \in Orders(look.got \ Range(bucket)) :
       bucket' = SubSeq(bucket \o order, 1, Min({BucketSize, Len(bucket) + Len(order)}))
  /\ look' = [NoLook EXCEPT !.pc = "start", !.phase = 2]
  /\ UNCHANGED <<udpVars, db, fails, contested, bonding, slots, bond, refresh, tab, ponged>>

LookStep ==
  \/ LookupStarts \/ LookupAsks \/ LookupAnswered \/ LookupBonded
  \/ RefreshEnds \/ RefreshRequested \/ RefreshSeeded
-----------------------------------------------------------------------------
(* refreshLoop, Close and the database's expirer.                          *)

\* The ticker, or a request by Bootstrap or by a lookup of the dialer.
RefreshBegins ==
  /\ tab = "open" /\ refresh = "nil"
  /\ refresh' = "running" /\ look' = [NoLook EXCEPT !.pc = "start"]
  /\ UNCHANGED <<udpVars, db, fails, bucket, contested, bonding, slots, bond, tab, ponged>>

RefreshDone ==
  /\ tab = "open" /\ refresh = "finished"
  /\ refresh' = "nil"
  /\ UNCHANGED <<udpVars, db, fails, bucket, contested, bonding, slots, bond, look, tab, ponged>>

\* Close reaches refreshLoop, which waits for the refresh in progress.
CloseRequested ==
  /\ tab = "open"
  /\ tab' = "closing"
  /\ UNCHANGED <<udpVars, db, fails, bucket, contested, bonding, slots, bond, look, refresh, ponged>>

\* refreshLoop returns: the database and the transport are closed.
RefreshLoopEnds ==
  /\ tab = "closing" /\ refresh # "running"
  /\ tab' = "closed" /\ closing' = TRUE
  /\ db' = {} /\ fails' = [n \in Nodes |-> 0]
  /\ UNCHANGED <<plist, headTimed, timer, errc, looping, warps,
                 bucket, contested, bonding, slots, bond, look, refresh, ponged>>

\* The expirer, which the first pong starts, drops all that is stored of a node.
Expire(n) ==
  /\ ponged # {} /\ n \in db
  /\ db' = db \ {n} /\ fails' = [fails EXCEPT ![n] = 0]
  /\ UNCHANGED <<udpVars, bucket, contested, bonding, slots, bond, look, refresh, tab, ponged>>
-----------------------------------------------------------------------------
LoopStep == (Fire \/ TimedOut \/ LoopCloses) /\ UNCHANGED tableVars
Answer(n) == (\E ptype \in {"ping", "pong", "neighbors"} : GotReply(n, ptype)) /\ UNCHANGED tableVars

Next ==
  \/ LoopStep \/ LookStep
  \/ RefreshBegins \/ RefreshDone \/ CloseRequested \/ RefreshLoopEnds
  \/ \E n \in Nodes : Answer(n)
  \/ \E n \in Pinging : PingReceived(n)
  \/ \E n \in Expiring : Expire(n)
  \/ \E b \in Bonders : BondStep(b)

Spec == Init /\ [][Next]_vars

\* Every goroutine is scheduled, the channel of slots serves its waiters in turn,
\* an armed timer fires, and the loop gets to each case that stays ready.
Fairness ==
  /\ \A b \in Bonders : SF_vars(BondStep(b))
  /\ WF_vars(LookStep) /\ WF_vars(RefreshLoopEnds)
  /\ WF_vars(LoopStep)

LiveSpec == Spec /\ Fairness
-----------------------------------------------------------------------------
Awaits(p) == IF p = Looker THEN look.pc = "asking"
           ELSE bond[p].pc \in {"pinging", "waiting", "contesting"}

\* A goroutine that waits on its errc has exactly one entry in the pending list or
\* one value in the channel, and no one else has either: no reply, timeout, clock
\* jump or shutdown loses a caller of ping, waitping or findnode or serves it twice
\* (udp.loop).
PendingExact ==
  \A p \in Callers :
    Cardinality({i \in DOMAIN plist : plist[i].proc = p}) + (IF errc[p] # "none" THEN 1 ELSE 0)
      = IF Awaits(p) THEN 1 ELSE 0

Owns(b) == bond[b].pc \in {"slot", "pinging", "waitping", "waiting", "unregister"}

\* At most one ping/pong runs for a node, the bonding map names it, a bond waits
\* only for one that is still to finish, and the slots in use are those of the
\* running exchanges (bond, pingpong).
BondsExact ==
  /\ \A n \in Nodes :
       {b \in Bonders : b[1] = n /\ Owns(b)} = IF bonding[n] = None THEN {} ELSE {bonding[n]}
  /\ \A b \in Bonders : bond[b].pc = "wait" =>
       /\ bonding[b[1]] # None
       /\ bond[bonding[b[1]]].pc # "unregister"
  /\ slots = MaxBonding
       - Cardinality({b \in Bonders : bond[b].pc \in {"pinging", "waitping", "waiting"}})

\* The table holds, and a findnode goes to, only nodes that have answered a ping, in
\* this run or before it ("a bond is must be established before sending findnode
\* requests"), whatever bonds, expiries and lookups overlap (bond, add, Lookup).
BondedBeforeFind ==
  Range(bucket) \cup ({look.from} \ {None}) \cup look.todo \subseteq Seeds \cup ponged

\* A node leaves the table only when it has left a ping unanswered that was sent
\* while it was the oldest entry, or has failed too many findnode requests (add,
\* replace, delete).
EvictedForCause ==
  [][\A n \in Range(bucket) \ Range(bucket') :
       \/ \E b \in Bonders : bond[b].oldest = n /\ errc[b] \in Failures
       \/ look.from = n /\ errc[Looker] \in Failures /\ fails[n] + 1 >= MaxFails]_vars

\* A bond that a ping started returns, whoever it waits for: a slot, another bond, a
\* reply that never comes or a transport that closes.  A clock jump may leave replies
\* pending without a timer, until another packet or request comes (bond).
BondEnds ==
  \A n \in Pinging :
    bond[<<n, "ping">>].pc # "none" ~> (bond[<<n, "ping">>].pc = "none" \/ warps > 0)

\* A refresh ends, with all the queries and bonds it waits for, and so does a Close
\* that waits for it; unless it finds the table empty and asks refreshLoop, which
\* Close has stopped, for a refresh (doRefresh, bondall, requestRefresh, Close).
RefreshReturns ==
  refresh = "running" ~>
    (refresh # "running" \/ (tab = "closing" /\ look.pc = "request") \/ warps > 0)
=============================================================================
