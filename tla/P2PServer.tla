----------------------------- MODULE P2PServer -----------------------------
(***************************************************************************)
(* Server and dialstate of p2p/server.go and p2p/dial.go: the run loop that *)
(* owns the peer set, the listener with its handshake slots, one setupConn  *)
(* per connection, one runPeer per peer, the dial, lookup and wait tasks,   *)
(* and Stop.                                                                *)
(*                                                                         *)
(* A channel operation of two goroutines is one action.  The handshakes and *)
(* the protocols of a peer are external: they succeed, fail or end at any   *)
(* time.  The id of a connection is known once it is dialled or has passed  *)
(* the encryption handshake.                                                *)
(***************************************************************************)
EXTENDS Integers, Sequences, FiniteSets, FiniteSetsExt

CONSTANTS
  Nodes,        \* the remote nodes
  Me,           \* srv.Self(), which may be one of them
  Conns,        \* model bound: connections at one time
  Static,       \* Server.StaticNodes
  Trusted,      \* Server.TrustedNodes
  PeerLimits,   \* values of Server.MaxPeers
  Discovery,    \* Server.Discovery
  MaxActive,    \* maxActiveDialTasks
  Slots,        \* MaxPendingPeers
  MaxResults,   \* model bound: nodes that a lookup returns
  None

ASSUME ServerAssumption ==
  /\ IsFiniteSet(Nodes) /\ Static \cup Trusted \subseteq Nodes /\ None \notin Nodes \cup Conns
  /\ PeerLimits \cup {MaxActive, Slots} \subseteq Nat \ {0}
  /\ Discovery \in BOOLEAN /\ MaxResults \in Nat

VARIABLES
  MaxPeers,     \* Server.MaxPeers
  loop,         \* run: [pc, conn, stage, ok], the connection it looks at and the verdict
  peers,        \* run's peers: [Nodes -> Conns \cup {None}]
  conns,        \* [Conns -> Conn]: setupConn's step, and runPeer's
  dialing,      \* dialstate.dialing: "no" or the flag
  static,       \* dialstate.static
  hist,         \* dialstate.hist, the ids in the order they expire
  ripe,         \* how many entries of hist have expired by now
  lookup,       \* dialstate's [running, bootstrapped, buf]
  tasks,        \* run's tasks: launched, taskdone not yet received
  finished,     \* those in the taskdone channel
  pending,      \* run's pendingTasks
  awaited,      \* the entry that the wait task sleeps for
  stranded,     \* history: nodes whose dial scheduleTasks lost, None for a lookup
  listener,     \* listenLoop's [done, slots]
  stop          \* Stop: "no", "waiting" with srv.lock held, "returned"

dialer == <<MaxPeers, dialing, static, hist, lookup, awaited, stranded>>
vars == <<loop, peers, conns, dialer, ripe, tasks, finished, pending, listener, stop>>

MaxDyn == IF Discovery THEN MaxPeers \div 2 ELSE 0

NoConn == [pc |-> "none", peer |-> "none", kind |-> "inbound", id |-> None]

Dial(n) == [do |-> "dial", node |-> n]
Lookup == [do |-> "lookup", node |-> None]
Bootstrap == [do |-> "bootstrap", node |-> None]
WaitExpire == [do |-> "wait", node |-> None]

Top == [pc |-> "top", conn |-> None, stage |-> "none", ok |-> FALSE]

Quit == stop # "no"
LockFree == stop # "waiting"

Init ==
  /\ MaxPeers \in PeerLimits
  /\ loop = Top /\ peers = [n \in Nodes |-> None]
  /\ conns = [c \in Conns |-> NoConn]
  /\ dialing = [n \in Nodes |-> "no"] /\ static = Static
  /\ hist = << >> /\ ripe = 0 /\ awaited = None /\ stranded = {}
  /\ lookup = [running |-> FALSE, bootstrapped |-> FALSE, buf |-> << >>]
  /\ tasks = {} /\ finished = {} /\ pending = {}
  /\ listener = [done |-> FALSE, slots |-> Slots]
  /\ stop = "no"

-----------------------------------------------------------------------------
(* dialstate.                                                              *)

Flagged(flag) == {n \in Nodes : dialing[n] = flag}
DynPeers == {n \in Nodes : peers[n] # None /\ conns[peers[n]].kind = "dyn"}

\* Mutant of NeedDyn: the dials under way are not counted.
NeedDynPeers == MaxDyn - Cardinality(DynPeers)

\* The dynamic dials that are necessary.
NeedDyn == MaxDyn - Cardinality(DynPeers) - Cardinality(Flagged("dyn"))

\* The length of the prefix of lookupBuf that is tried for need dials, when only
\* the nodes of Free can be dialled.
Tried(need, Free) ==
  Min({i \in 0..Len(lookup.buf) :
        \/ i = Len(lookup.buf)
        \/ Cardinality(Free \cap Range(SubSeq(lookup.buf, 1, i))) >= need})

\* Mutant of WaitTasks: no timer.
WaitTasksNever(running, past) == {}

\* The timer that keeps run ticking.
WaitTasks(running, past) ==
  IF running = 0 /\ past # << >> THEN {WaitExpire} ELSE {}

\* scheduleTasks: the tasks that wait are launched, those that wait longest first.
\* When no task can be, the new ones are forgotten.
Schedule(new) ==
  LET room == MaxActive - Cardinality(tasks)
      all == pending \cup new
  IN IF room <= 0 \/ all = {}
     THEN /\ stranded' = stranded \cup {t.node : t \in new}
          /\ UNCHANGED <<tasks, pending>>
     ELSE \E S \in SUBSET all :
            /\ Cardinality(S) = Min({room, Cardinality(all)})
            /\ pending \subseteq S \/ S \subseteq pending
            /\ tasks' = tasks \cup S /\ pending' = all \ S
            /\ UNCHANGED stranded

\* The top of run's loop: newTasks and scheduleTasks.  random is what the table
\* returns from ReadRandomNodes.
Tick(random) ==
  /\ loop.pc = "top"
  /\ LET past == SubSeq(hist, ripe + 1, Len(hist))
         free == {n \in Nodes : dialing[n] = "no" /\ peers[n] = None /\ n \notin Range(past)}
         need == NeedDyn
         S == static \cap free
         R == random \cap (free \ S)
         left == need - Cardinality(R)
         i == Tried(left, free \ (S \cup R))
         L == (free \ (S \cup R)) \cap Range(SubSeq(lookup.buf, 1, i))
         buf == SubSeq(lookup.buf, i + 1, Len(lookup.buf))
         search == Len(buf) < left - Cardinality(L) /\ ~lookup.running
         some == {Dial(n) : n \in S \cup R \cup L}
                   \cup (IF ~search THEN {} ELSE IF lookup.bootstrapped THEN {Lookup} ELSE {Bootstrap})
         new == IF some # {} THEN some
                ELSE WaitTasks(Cardinality(tasks) + Cardinality(pending), past)
     IN /\ Cardinality(random) <=
             IF lookup.bootstrapped /\ need > 1 THEN Min({need \div 2, MaxDyn \div 2}) ELSE 0
        /\ dialing' = [n \in Nodes |-> IF n \in S THEN "static"
                                       ELSE IF n \in R \cup L THEN "dyn" ELSE dialing[n]]
        /\ lookup' = [lookup EXCEPT !.buf = buf, !.running = @ \/ search]
        /\ hist' = past /\ ripe' = 0
        /\ awaited' = IF new = {WaitExpire} THEN Head(past)
                      ELSE IF awaited \in Range(past) THEN awaited ELSE None
        /\ Schedule(new)
  /\ loop' = [loop EXCEPT !.pc = "select"]
  /\ UNCHANGED <<MaxPeers, peers, conns, static, finished, listener, stop>>

\* Time passes: the oldest entry of the history that has not expired expires.
Expire ==
  /\ ripe < Len(hist) /\ ripe' = ripe + 1
  /\ UNCHANGED <<loop, peers, conns, dialer, tasks, finished, pending, listener, stop>>

\* The goroutine of a lookup, a bootstrap or a wait task sends on taskdone.
TaskEnds(t) ==
  /\ t \in tasks \ finished /\ t.do # "dial"
  /\ t = WaitExpire /\ awaited # None => awaited \in Range(SubSeq(hist, 1, ripe))
  /\ finished' = finished \cup {t}
  /\ UNCHANGED <<loop, peers, conns, dialer, ripe, tasks, pending, listener, stop>>

\* Mutant of Delete: the node stays among those that are dialled.
DeleteNot(n) == dialing

\* delete(s.dialing, id).
Delete(n) == [dialing EXCEPT ![n] = "no"]

\* run receives from taskdone: taskDone and delTask.
TaskDone(t, results) ==
  /\ loop.pc = "select" /\ t \in finished
  /\ t # Lookup => results = << >>
  /\ IF t.do = "dial" THEN hist' = Append(hist, t.node) /\ dialing' = Delete(t.node)
                      ELSE UNCHANGED <<hist, dialing>>
  /\ lookup' = IF t \in {Lookup, Bootstrap}
               THEN [running |-> FALSE, bootstrapped |-> TRUE, buf |-> lookup.buf \o results]
               ELSE lookup
  /\ tasks' = tasks \ {t} /\ finished' = finished \ {t}
  /\ loop' = Top
  /\ UNCHANGED <<MaxPeers, peers, conns, ripe, pending, static, awaited, stranded, listener, stop>>

-----------------------------------------------------------------------------
(* The listener and setupConn.                                             *)

\* listenLoop takes a slot and accepts a connection.
Accept(c) ==
  /\ ~listener.done /\ listener.slots > 0 /\ ~Quit /\ conns[c] = NoConn
  /\ conns' = [conns EXCEPT ![c].pc = "lock"]
  /\ listener' = [listener EXCEPT !.slots = @ - 1]
  /\ UNCHANGED <<loop, peers, dialer, ripe, tasks, finished, pending, stop>>

\* Stop has closed the listener: listenLoop, with a slot in hand, returns.
AcceptFails ==
  /\ ~listener.done /\ listener.slots > 0 /\ Quit
  /\ listener' = [listener EXCEPT !.done = TRUE]
  /\ UNCHANGED <<loop, peers, conns, dialer, ripe, tasks, finished, pending, stop>>

\* The task of n is before setupConn.
Dialled(n) ==
  /\ Dial(n) \in tasks \ finished
  /\ ~\E c \in Conns : conns[c].pc # "none" /\ conns[c].id = n /\ conns[c].kind # "inbound"

\* dialTask.Do: the dial fails, or setupConn begins.
DialFails(n) ==
  /\ Dialled(n)
  /\ finished' = finished \cup {Dial(n)}
  /\ UNCHANGED <<loop, peers, conns, dialer, ripe, tasks, pending, listener, stop>>

DialConnects(n, c) ==
  /\ Dialled(n) /\ conns[c] = NoConn
  /\ conns' = [conns EXCEPT ![c] = [NoConn EXCEPT !.pc = "lock", !.id = n, !.kind = dialing[n]]]
  /\ UNCHANGED <<loop, peers, dialer, ripe, tasks, finished, pending, listener, stop>>

\* setupConn returns.  Its caller gives the slot back or sends on taskdone.  The
\* connection is in use still if it is a peer or run looks at it.
Return(c, inUse) ==
  /\ conns' = [conns EXCEPT ![c] = IF @.peer = "none" /\ ~inUse
                                   THEN NoConn ELSE [@ EXCEPT !.pc = "none"]]
  /\ IF conns[c].kind = "inbound"
     THEN listener' = [listener EXCEPT !.slots = @ + 1] /\ UNCHANGED finished
     ELSE finished' = finished \cup {Dial(conns[c].id)} /\ UNCHANGED listener

Goto(c, pc) ==
  conns' = [conns EXCEPT ![c].pc = pc] /\ UNCHANGED <<finished, listener>>

\* setupConn reads srv.running under srv.lock.
Enter(c) ==
  /\ conns[c].pc = "lock" /\ LockFree
  /\ IF Quit THEN Return(c, FALSE) ELSE Goto(c, "enc")
  /\ UNCHANGED <<loop, peers, dialer, ripe, tasks, pending, stop>>

\* The encryption handshake.  A dialled node that is not the one wanted fails it.
EncHandshake(c, id) ==
  /\ conns[c].pc = "enc"
  /\ conns[c].kind # "inbound" => id = conns[c].id
  /\ conns' = [conns EXCEPT ![c].pc = "post", ![c].id = id]
  /\ UNCHANGED <<loop, peers, dialer, ripe, tasks, finished, pending, listener, stop>>

ProtoHandshake(c) ==
  /\ conns[c].pc = "proto"
  /\ conns' = [conns EXCEPT ![c].pc = "add"]
  /\ UNCHANGED <<loop, peers, dialer, ripe, tasks, finished, pending, listener, stop>>

HandshakeFails(c) ==
  /\ conns[c].pc \in {"enc", "proto"}
  /\ Return(c, FALSE)
  /\ UNCHANGED <<loop, peers, dialer, ripe, tasks, pending, stop>>

\* A checkpoint ends by srv.quit, in either of its two selects.
GiveUp(c) ==
  /\ conns[c].pc \in {"post", "postWait", "add", "addWait"} /\ Quit
  /\ Return(c, loop.conn = c)
  /\ UNCHANGED <<loop, peers, dialer, ripe, tasks, pending, stop>>

-----------------------------------------------------------------------------
(* The run loop and the peers.                                             *)

\* run receives c from posthandshake or addpeer.
Checkpoint(c) ==
  /\ loop.pc = "select" /\ conns[c].pc \in {"post", "add"}
  /\ loop' = [pc |-> "check", conn |-> c, stage |-> conns[c].pc, ok |-> FALSE]
  /\ conns' = [conns EXCEPT ![c].pc = IF @ = "post" THEN "postWait" ELSE "addWait"]
  /\ UNCHANGED <<peers, dialer, ripe, tasks, finished, pending, listener, stop>>

NumPeers == Cardinality({n \in Nodes : peers[n] # None})
Exempt(r) == r.id \in Trusted \/ r.kind = "static"

\* len(peers) >= srv.MaxPeers, for a connection that is neither trusted nor static.
TooMany(r) == ~Exempt(r) /\ NumPeers >= MaxPeers

\* Mutant of Connected: only the first checkpoint looks.
ConnectedFirst(r) == loop.stage = "post" /\ peers[r.id] # None

\* peers[c.id] != nil.
Connected(r) == peers[r.id] # None

\* encHandshakeChecks or protoHandshakeChecks, and after the latter the new peer.
\* useful: there are matching protocols.  The last check needs srv.Self(), which
\* takes srv.lock.
Check(useful) ==
  /\ loop.pc = "check"
  /\ LET r == conns[loop.conn]
         refused == (loop.stage = "add" /\ ~useful) \/ TooMany(r) \/ Connected(r)
         ok == ~refused /\ r.id # Me
     IN /\ refused \/ LockFree
        /\ loop' = [loop EXCEPT !.pc = "cont", !.ok = ok]
        /\ IF ok /\ loop.stage = "add"
           THEN /\ peers' = [peers EXCEPT ![r.id] = loop.conn]
                /\ conns' = [conns EXCEPT ![loop.conn].peer = "run"]
           ELSE UNCHANGED <<peers, conns>>
  /\ UNCHANGED <<dialer, ripe, tasks, finished, pending, listener, stop>>

\* c.cont <- err, if setupConn still waits for it.
Cont ==
  /\ loop.pc = "cont" /\ conns[loop.conn].pc \in {"postWait", "addWait"}
  /\ loop' = Top
  /\ IF loop.ok /\ loop.stage = "post"
     THEN Goto(loop.conn, "proto")
     ELSE Return(loop.conn, FALSE)
  /\ UNCHANGED <<peers, dialer, ripe, tasks, pending, stop>>

\* AddPeer.
AddStatic(n) ==
  /\ loop.pc = "select" /\ static' = static \cup {n}
  /\ loop' = Top
  /\ UNCHANGED <<MaxPeers, peers, conns, dialing, hist, lookup, awaited, stranded, ripe, tasks,
                 finished, pending, listener, stop>>

\* Peers or PeerCount, from the API or from runPeer.
PeerOp ==
  /\ loop.pc = "select" /\ loop' = Top
  /\ UNCHANGED <<peers, conns, dialer, ripe, tasks, finished, pending, listener, stop>>

\* Peer.run returns: an error, the remote side, or run's Disconnect.
PeerEnds(c) ==
  /\ conns[c].peer = "run"
  /\ conns' = [conns EXCEPT ![c].peer = "leave"]
  /\ UNCHANGED <<loop, peers, dialer, ripe, tasks, finished, pending, listener, stop>>

\* run receives from delpeer, in its loop or when it spins down.
DelPeer(c) ==
  /\ loop.pc \in {"select", "spin"} /\ conns[c].peer = "leave"
  /\ peers' = [peers EXCEPT ![conns[c].id] = None]
  /\ conns' = [conns EXCEPT ![c] = IF @.pc = "none" THEN NoConn ELSE [@ EXCEPT !.peer = "none"]]
  /\ loop' = IF loop.pc = "select" THEN Top ELSE loop
  /\ UNCHANGED <<dialer, ripe, tasks, finished, pending, listener, stop>>

-----------------------------------------------------------------------------
(* Stop.                                                                   *)

\* Stop takes srv.lock, closes the listener and srv.quit, and waits.
Stop ==
  /\ stop = "no" /\ stop' = "waiting"
  /\ UNCHANGED <<loop, peers, conns, dialer, ripe, tasks, finished, pending, listener>>

\* run sees srv.quit.
SpinDown ==
  /\ loop.pc = "select" /\ Quit
  /\ loop' = [loop EXCEPT !.pc = "spin"]
  /\ UNCHANGED <<peers, conns, dialer, ripe, tasks, finished, pending, listener, stop>>

RunReturns ==
  /\ loop.pc = "spin" /\ \A n \in Nodes : peers[n] = None
  /\ loop' = [loop EXCEPT !.pc = "done"]
  /\ UNCHANGED <<peers, conns, dialer, ripe, tasks, finished, pending, listener, stop>>

StopReturns ==
  /\ stop = "waiting" /\ loop.pc = "done" /\ listener.done
  /\ stop' = "returned"
  /\ UNCHANGED <<loop, peers, conns, dialer, ripe, tasks, finished, pending, listener>>

Results == UNION {[1..k -> Nodes] : k \in 0..MaxResults}

Next ==
  \/ \E random \in SUBSET Nodes : Tick(random)
  \/ Expire
  \/ \E t \in tasks : TaskEnds(t)
  \/ \E t \in finished : \E results \in Results : TaskDone(t, results)
  \/ AcceptFails
  \/ \E c \in Conns : Accept(c)
  \/ \E n \in Nodes : DialFails(n) \/ AddStatic(n)
  \/ \E n \in Nodes, c \in Conns : DialConnects(n, c) \/ EncHandshake(c, n)
  \/ \E c \in Conns : Enter(c) \/ ProtoHandshake(c) \/ HandshakeFails(c) \/ GiveUp(c)
  \/ \E c \in Conns : Checkpoint(c) \/ PeerEnds(c) \/ DelPeer(c)
  \/ \E useful \in BOOLEAN : Check(useful)
  \/ Cont \/ PeerOp
  \/ Stop \/ SpinDown \/ RunReturns \/ StopReturns

Spec == Init /\ [][Next]_vars

-----------------------------------------------------------------------------
(* Properties.                                                             *)

TypeOK ==
  /\ loop \in [pc : {"top", "select", "check", "cont", "spin", "done"}, ok : BOOLEAN,
               conn : Conns \cup {None}, stage : {"none", "post", "add"}]
  /\ peers \in [Nodes -> Conns \cup {None}]
  /\ conns \in [Conns -> [pc : {"none", "lock", "enc", "post", "postWait", "proto", "add",
                                "addWait"},
                          peer : {"none", "run", "leave"},
                          kind : {"inbound", "static", "dyn"}, id : Nodes \cup {None}]]
  /\ dialing \in [Nodes -> {"no", "static", "dyn"}] /\ static \subseteq Nodes
  /\ hist \in Seq(Nodes) /\ ripe \in 0..Len(hist) /\ awaited \in Nodes \cup {None}
  /\ finished \subseteq tasks /\ Cardinality(tasks) <= MaxActive
  /\ listener.slots \in 0..Slots
  /\ stop \in {"no", "waiting", "returned"}

\* run's peers are exactly the connections that have a runPeer goroutine, each
\* under its own id: no node is connected twice, and no peer that has left, or that
\* nobody will remove, stays in the map, whatever other connections came between
\* the two checkpoints of each.
PeersExact ==
  \A c \in Conns, n \in Nodes : peers[n] = c <=> conns[c].peer # "none" /\ conns[c].id = n

\* Of the peers that are neither trusted nor dialled as static, at most MaxPeers
\* are connected at a time, and at most half of MaxPeers are dialled dynamically, the
\* dials under way, pending or lost included (encHandshakeChecks, newTasks).
WithinBudget ==
  /\ Cardinality({n \in Nodes : peers[n] # None /\ ~Exempt(conns[peers[n]])}) <= MaxPeers
  /\ Cardinality(DynPeers \cup Flagged("dyn")) <= MaxDyn

\* A node counts as being dialled exactly while it has one dial task, launched or
\* pending, or its task was lost by scheduleTasks; and so does the lookup.
DialingExact ==
  LET all == tasks \cup pending
  IN /\ {n \in Nodes : dialing[n] # "no"} = {t.node : t \in {u \in all : u.do = "dial"}}
                                               \cup (stranded \ {None})
     /\ lookup.running <=> (all \cap {Lookup, Bootstrap} # {} \/ None \in stranded)
     /\ \A n \in stranded : Dial(n) \notin all

\* run never sleeps on a dial history without a task that will wake it, so that a
\* node in it is dialled again ("prevent cases where the dialer logic is not ticked").
TickComing == loop.pc = "select" /\ hist # << >> => tasks # {}
=============================================================================
