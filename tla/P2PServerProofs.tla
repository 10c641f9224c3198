-------------------------- MODULE P2PServerProofs --------------------------
(***************************************************************************)
(* Proofs about p2p/server.go and p2p/dial.go, for any nodes, connections,  *)
(* slots and limits: run's map of peers and the runPeer goroutines always   *)
(* agree; the dialer's books match the tasks; run never sleeps on a dial    *)
(* history without a task; the peers and dials stay within the budget.      *)
(***************************************************************************)
EXTENDS P2PServer, FiniteSetTheorems, TLAPS

ConnRecords ==
  [pc : {"none", "lock", "enc", "post", "postWait", "proto", "add", "addWait"},
   peer : {"none", "run", "leave"},
   kind : {"inbound", "no", "static", "dyn"}, id : Nodes \cup {None}]

LoopRecords ==
  [pc : {"top", "select", "check", "cont", "spin", "done"}, ok : BOOLEAN,
   conn : Conns \cup {None}, stage : {"none", "post", "add"}]

\* The types that the argument rests on.
Types ==
  /\ loop \in LoopRecords
  /\ peers \in [Nodes -> Conns \cup {None}]
  /\ conns \in [Conns -> ConnRecords]
  /\ dialing \in [Nodes -> {"no", "static", "dyn"}]

\* A connection that has passed the encryption handshake has an id, and is a peer
\* only at the end of its setup or after it.
Identified ==
  \A c \in Conns :
    /\ conns[c].pc \in {"post", "postWait", "proto", "add", "addWait"} => conns[c].id \in Nodes
    /\ conns[c].peer # "none" => conns[c].id \in Nodes /\ conns[c].pc \in {"addWait", "none"}

\* The connection that run looks at waits for the verdict, or has left by srv.quit;
\* it is not used for another one meanwhile, and not a peer before the verdict.
LookedAt ==
  loop.pc \in {"check", "cont"} =>
    /\ loop.conn \in Conns
    /\ conns[loop.conn].pc \in {"postWait", "addWait", "none"}
    /\ conns[loop.conn].id \in Nodes
    /\ loop.pc = "check" => conns[loop.conn].peer = "none"
    /\ loop.stage = "post" => conns[loop.conn].pc # "addWait"
    /\ loop.stage = "add" => conns[loop.conn].pc # "postWait"

IInv == Types /\ Identified /\ LookedAt /\ PeersExact

-----------------------------------------------------------------------------
\* The end of setupConn for a connection that is a peer, or that run does not look
\* at or has just answered, keeps the agreement.
LEMMA ReturnKeeps ==
  ASSUME IInv, NEW c \in Conns, NEW inUse \in BOOLEAN, Return(c, inUse),
         UNCHANGED <<peers, dialing>>
  PROVE  /\ conns' \in [Conns -> ConnRecords]
         /\ Identified' /\ PeersExact'
         /\ \A d \in Conns \ {c} : conns'[d] = conns[d]
         /\ inUse => conns'[c] = [conns[c] EXCEPT !.pc = "none"]
<1> DEFINE r == IF conns[c].peer = "none" /\ ~inUse
                THEN NoConn ELSE [conns[c] EXCEPT !.pc = "none"]
<1>1. conns \in [Conns -> ConnRecords] /\ conns[c] \in ConnRecords
  BY Zenon DEF IInv, Types
<1>2. r \in ConnRecords /\ r.peer = conns[c].peer /\ r.pc = "none"
      /\ (r.peer # "none" => r.id = conns[c].id)
  BY <1>1, Zenon DEF ConnRecords, NoConn
<1>3. conns' = [conns EXCEPT ![c] = r]
  BY Zenon DEF Return
<1> HIDE DEF r
<1>4. conns' \in [Conns -> ConnRecords] /\ conns'[c] = r
      /\ \A d \in Conns \ {c} : conns'[d] = conns[d]
  BY <1>1, <1>2, <1>3, Zenon
<1>5. Identified'
  <2> SUFFICES ASSUME NEW d \in Conns
               PROVE  /\ conns'[d].pc \in {"post", "postWait", "proto", "add", "addWait"}
                           => conns'[d].id \in Nodes
                      /\ conns'[d].peer # "none"
                           => conns'[d].id \in Nodes /\ conns'[d].pc \in {"addWait", "none"}
    BY Zenon DEF Identified
  <2>1. CASE d = c
    BY <2>1, <1>2, <1>4, Zenon DEF IInv, Identified
  <2>2. CASE d # c
    BY <2>2, <1>4, Zenon DEF IInv, Identified
  <2> QED BY <2>1, <2>2, Zenon
<1>6. PeersExact'
  <2> SUFFICES ASSUME NEW d \in Conns, NEW n \in Nodes
               PROVE  peers'[n] = d <=> conns'[d].peer # "none" /\ conns'[d].id = n
    BY Zenon DEF PeersExact
  <2>1. peers'[n] = d <=> conns[d].peer # "none" /\ conns[d].id = n
    BY Zenon DEF IInv, PeersExact
  <2>2. CASE d = c
    BY <2>1, <2>2, <1>2, <1>4, Zenon
  <2>3. CASE d # c
    BY <2>1, <2>3, <1>4, Zenon
  <2> QED BY <2>2, <2>3, Zenon
<1>7. inUse => conns'[c] = [conns[c] EXCEPT !.pc = "none"]
  BY <1>4, Zenon DEF r
<1> QED BY <1>4, <1>5, <1>6, <1>7, Zenon

\* A step of setupConn that moves one connection on, which run does not look at.
LEMMA MoveKeeps ==
  ASSUME IInv, NEW c \in Conns, NEW r \in ConnRecords,
         conns' = [conns EXCEPT ![c] = r], UNCHANGED <<peers, dialing>>,
         conns[c].peer = "none", r.peer = "none",
         r.pc \in {"post", "postWait", "proto", "add", "addWait"} => r.id \in Nodes
  PROVE  /\ conns' \in [Conns -> ConnRecords]
         /\ Identified' /\ PeersExact'
         /\ conns'[c] = r /\ \A d \in Conns \ {c} : conns'[d] = conns[d]
<1>1. conns' \in [Conns -> ConnRecords]
      /\ conns'[c] = r /\ \A d \in Conns \ {c} : conns'[d] = conns[d]
  BY Zenon DEF IInv, Types
<1>2. Identified'
  BY <1>1, Zenon DEF IInv, Identified
<1>3. PeersExact'
  <2> SUFFICES ASSUME NEW d \in Conns, NEW n \in Nodes
               PROVE  peers'[n] = d <=> conns'[d].peer # "none" /\ conns'[d].id = n
    BY Zenon DEF PeersExact
  <2>1. peers'[n] = d <=> conns[d].peer # "none" /\ conns[d].id = n
    BY DEF IInv, PeersExact
  <2>2. CASE d = c
    BY <2>1, <2>2, <1>1, Zenon
  <2>3. CASE d # c
    BY <2>1, <2>3, <1>1, Zenon
  <2> QED BY <2>2, <2>3, Zenon
<1> QED BY <1>1, <1>2, <1>3, Zenon

\* A step that leaves the peers and the connections alone, and after which run
\* looks at none or at the same one as before.
LEMMA QuietKeeps ==
  ASSUME IInv, UNCHANGED <<peers, conns>>,
         loop' = loop \/ (loop' \in LoopRecords /\ loop'.pc \notin {"check", "cont"}),
         dialing' \in [Nodes -> {"no", "static", "dyn"}]
  PROVE  IInv'
<1>1. Types'
  BY Zenon DEF IInv, Types
<1>2. Identified'
  BY Zenon DEF IInv, Identified
<1>3. PeersExact'
  BY Zenon DEF IInv, PeersExact
<1>4. LookedAt'
  BY Zenon DEF IInv, LookedAt
<1> QED BY <1>1, <1>2, <1>3, <1>4, Zenon DEF IInv

\* There are no connections and no peers when Start returns.
LEMMA InitHolds == Init => IInv
<1> SUFFICES ASSUME Init PROVE IInv
  BY Zenon
<1> USE ServerAssumption
<1>1. Types
  BY Zenon DEF Init, Types, LoopRecords, ConnRecords, Top, NoConn
<1>2. Identified /\ LookedAt
  BY Zenon DEF Init, Identified, LookedAt, Top, NoConn
<1>3. PeersExact
  BY Zenon DEF Init, PeersExact, NoConn
<1> QED BY <1>1, <1>2, <1>3, Zenon DEF IInv

\* The dialer's steps, the timer's, the listener's end and those of Stop.
LEMMA QuietSteps ==
  ASSUME IInv,
         \/ \E random \in SUBSET Nodes : Tick(random)
         \/ Expire
         \/ \E t \in tasks : TaskEnds(t)
         \/ \E t \in finished : \E results \in Results : TaskDone(t, results)
         \/ AcceptFails
         \/ \E n \in Nodes : DialFails(n) \/ AddStatic(n)
         \/ PeerOp \/ Stop \/ SpinDown \/ RunReturns \/ StopReturns
  PROVE  IInv'
<1>0. loop \in LoopRecords /\ dialing \in [Nodes -> {"no", "static", "dyn"}]
  BY Zenon DEF IInv, Types
<1>1. Top \in LoopRecords /\ Top.pc \notin {"check", "cont"}
  BY Zenon DEF Top, LoopRecords
<1>2. \A pc \in {"select", "spin", "done"} :
        [loop EXCEPT !.pc = pc] \in LoopRecords /\ [loop EXCEPT !.pc = pc].pc = pc
  BY <1>0, Zenon DEF LoopRecords
<1>3. ASSUME NEW random \in SUBSET Nodes, Tick(random) PROVE IInv'
  <2>1. UNCHANGED <<peers, conns>> /\ loop' = [loop EXCEPT !.pc = "select"]
    BY <1>3, ZenonT(60) DEF Tick
  <2>2. \E S, D \in SUBSET Nodes :
          dialing' = [n \in Nodes |-> IF n \in S THEN "static"
                                      ELSE IF n \in D THEN "dyn" ELSE dialing[n]]
    <3> DEFINE past == SubSeq(hist, ripe + 1, Len(hist))
               free == {n \in Nodes : dialing[n] = "no" /\ peers[n] = None
                                        /\ n \notin Range(past)}
               S == static \cap free
               R == random \cap (free \ S)
               i == Tried(NeedDyn - Cardinality(R), free \ (S \cup R))
               L == (free \ (S \cup R)) \cap Range(SubSeq(lookup.buf, 1, i))
    <3>1. dialing' = [n \in Nodes |-> IF n \in S THEN "static"
                                      ELSE IF n \in R \cup L THEN "dyn" ELSE dialing[n]]
      BY <1>3, ZenonT(60) DEF Tick
    <3>2. free \subseteq Nodes
      BY Zenon
    <3> HIDE DEF free, i
    <3>3. S \in SUBSET Nodes /\ (R \cup L) \in SUBSET Nodes
      BY <3>2, Zenon
    <3> QED BY <3>1, <3>3, ZenonT(60)
  <2>3. dialing' \in [Nodes -> {"no", "static", "dyn"}]
    BY <2>2, <1>0, Zenon
  <2> QED BY <2>1, <2>3, <1>2, QuietKeeps, Zenon
<1>4. ASSUME NEW t \in finished, NEW results \in Results, TaskDone(t, results) PROVE IInv'
  <2>1. UNCHANGED <<peers, conns>> /\ loop' = Top
    BY <1>4, Zenon DEF TaskDone
  <2>2. dialing' \in [Nodes -> {"no", "static", "dyn"}]
    BY <1>4, <1>0, Zenon DEF TaskDone, Delete
  <2> QED BY <2>1, <2>2, <1>1, QuietKeeps, Zenon
<1>5. ASSUME NEW n \in Nodes, DialFails(n) \/ AddStatic(n) PROVE IInv'
  BY <1>5, <1>0, <1>1, QuietKeeps, Zenon DEF DialFails, AddStatic, dialer
<1>6. ASSUME NEW t \in tasks, TaskEnds(t) PROVE IInv'
  BY <1>6, <1>0, QuietKeeps, Zenon DEF TaskEnds, dialer
<1>7. CASE Expire \/ AcceptFails \/ Stop \/ StopReturns
  BY <1>7, <1>0, QuietKeeps, Zenon DEF Expire, AcceptFails, Stop, StopReturns, dialer
<1>8. CASE PeerOp \/ SpinDown \/ RunReturns
  BY <1>8, <1>0, <1>1, <1>2, QuietKeeps, ZenonT(60) DEF PeerOp, SpinDown, RunReturns, dialer
<1> QED BY <1>3, <1>4, <1>5, <1>6, <1>7, <1>8, Zenon

\* A step of one connection's setup: run keeps looking at the connection it looks
\* at, which is another one or only has its setup ended.
LEMMA SetupKeeps ==
  ASSUME IInv, NEW c \in Conns, UNCHANGED <<loop, peers, dialing>>,
         conns' \in [Conns -> ConnRecords], Identified', PeersExact',
         \A d \in Conns \ {c} : conns'[d] = conns[d],
         loop.pc \in {"check", "cont"} /\ loop.conn = c
           => conns'[c] = [conns[c] EXCEPT !.pc = "none"]
  PROVE  IInv'
<1>1. Types'
  BY Zenon DEF IInv, Types
<1>2. LookedAt'
  <2> SUFFICES ASSUME loop.pc \in {"check", "cont"}
               PROVE  /\ loop.conn \in Conns
                      /\ conns'[loop.conn].pc \in {"postWait", "addWait", "none"}
                      /\ conns'[loop.conn].id \in Nodes
                      /\ loop.pc = "check" => conns'[loop.conn].peer = "none"
                      /\ loop.stage = "post" => conns'[loop.conn].pc # "addWait"
                      /\ loop.stage = "add" => conns'[loop.conn].pc # "postWait"
    BY Zenon DEF LookedAt
  <2>1. /\ loop.conn \in Conns /\ conns[loop.conn] \in ConnRecords
        /\ conns[loop.conn].pc \in {"postWait", "addWait", "none"}
        /\ conns[loop.conn].id \in Nodes
        /\ loop.pc = "check" => conns[loop.conn].peer = "none"
        /\ loop.stage = "post" => conns[loop.conn].pc # "addWait"
        /\ loop.stage = "add" => conns[loop.conn].pc # "postWait"
    BY Zenon DEF IInv, LookedAt, Types
  <2>2. CASE loop.conn = c
    <3>1. conns'[loop.conn] = [conns[loop.conn] EXCEPT !.pc = "none"]
      BY <2>2, Zenon
    <3> QED BY <3>1, <2>1, Zenon DEF ConnRecords
  <2>3. CASE loop.conn # c
    BY <2>1, <2>3, Zenon
  <2> QED BY <2>2, <2>3, Zenon
<1> QED BY <1>1, <1>2, Zenon DEF IInv

\* The steps of setupConn and the ways into it.
LEMMA SetupSteps ==
  ASSUME IInv, NEW c \in Conns,
         \/ Accept(c) \/ Enter(c) \/ ProtoHandshake(c) \/ HandshakeFails(c) \/ GiveUp(c)
         \/ \E n \in Nodes : DialConnects(n, c) \/ EncHandshake(c, n)
  PROVE  IInv'
<1> USE ServerAssumption
<1>0. conns \in [Conns -> ConnRecords] /\ conns[c] \in ConnRecords
  BY Zenon DEF IInv, Types
<1>a. conns[c] = NoConn \/ conns[c].pc \in {"lock", "enc", "post", "proto", "add"}
        => ~(loop.pc \in {"check", "cont"} /\ loop.conn = c) /\ conns[c].peer = "none"
  BY DEF IInv, LookedAt, Identified, NoConn
<1>1. CASE Accept(c)
  <2> DEFINE r == [conns[c] EXCEPT !.pc = "lock"]
  <2>1. conns[c] = NoConn /\ conns' = [conns EXCEPT ![c] = r]
        /\ UNCHANGED <<loop, peers, dialing>>
    BY <1>1, <1>0, Zenon DEF Accept, dialer
  <2>2. r \in ConnRecords /\ r.peer = "none" /\ r.pc = "lock"
    BY <2>1 DEF ConnRecords, NoConn
  <2> HIDE DEF r
  <2> QED BY <2>1, <2>2, <1>a, MoveKeeps, SetupKeeps, ZenonT(60)
<1>2. ASSUME NEW n \in Nodes, DialConnects(n, c) PROVE IInv'
  <2> DEFINE r == [NoConn EXCEPT !.pc = "lock", !.id = n, !.kind = dialing[n]]
  <2>1. conns[c] = NoConn /\ conns' = [conns EXCEPT ![c] = r]
        /\ UNCHANGED <<loop, peers, dialing>>
    BY <1>2, ZenonT(60) DEF DialConnects, dialer
  <2>2. dialing[n] \in {"no", "static", "dyn"}
    BY Zenon DEF IInv, Types
  <2>3. r \in ConnRecords /\ r.peer = "none" /\ r.pc = "lock"
    BY <2>2, ZenonT(60) DEF ConnRecords, NoConn
  <2> HIDE DEF r
  <2> QED BY <2>1, <2>3, <1>a, MoveKeeps, SetupKeeps, ZenonT(60)
<1>3. ASSUME NEW n \in Nodes, EncHandshake(c, n) PROVE IInv'
  <2> DEFINE r == [conns[c] EXCEPT !.pc = "post", !.id = n]
  <2>1. conns[c].pc = "enc" /\ conns' = [conns EXCEPT ![c] = r]
        /\ UNCHANGED <<loop, peers, dialing>>
    BY <1>3, <1>0, ZenonT(60) DEF EncHandshake, dialer
  <2>2. r \in ConnRecords /\ r.peer = "none" /\ r.id \in Nodes
    BY <2>1, <1>0, <1>a, ZenonT(60) DEF ConnRecords
  <2> HIDE DEF r
  <2> QED BY <2>1, <2>2, <1>a, MoveKeeps, SetupKeeps, ZenonT(60)
<1>4. CASE ProtoHandshake(c)
  <2> DEFINE r == [conns[c] EXCEPT !.pc = "add"]
  <2>1. conns[c].pc = "proto" /\ conns' = [conns EXCEPT ![c] = r]
        /\ UNCHANGED <<loop, peers, dialing>>
    BY <1>4, <1>0, Zenon DEF ProtoHandshake, dialer
  <2>2. conns[c].id \in Nodes
    BY <2>1, Zenon DEF IInv, Identified
  <2>3. r \in ConnRecords /\ r.peer = "none" /\ r.id \in Nodes
    BY <2>1, <2>2, <1>0, <1>a, Zenon DEF ConnRecords
  <2> HIDE DEF r
  <2> QED BY <2>1, <2>3, <1>a, MoveKeeps, SetupKeeps, ZenonT(60)
<1>5. CASE HandshakeFails(c)
  <2>1. conns[c].pc \in {"enc", "proto"} /\ Return(c, FALSE)
        /\ UNCHANGED <<loop, peers, dialing>>
    BY <1>5, ZenonT(60) DEF HandshakeFails, dialer
  <2> QED BY <2>1, <1>a, ReturnKeeps, SetupKeeps, ZenonT(60)
<1>6. CASE GiveUp(c)
  <2>1. Return(c, loop.conn = c) /\ UNCHANGED <<loop, peers, dialing>>
    BY <1>6, Zenon DEF GiveUp, dialer
  <2> DEFINE inUse == loop.conn = c
  <2>2. inUse \in BOOLEAN /\ Return(c, inUse)
    BY <2>1, Zenon
  <2>3. inUse => conns'[c] = [conns[c] EXCEPT !.pc = "none"]
    BY <2>1, <2>2, ReturnKeeps, ZenonT(60)
  <2>4. conns' \in [Conns -> ConnRecords] /\ Identified' /\ PeersExact'
        /\ \A d \in Conns \ {c} : conns'[d] = conns[d]
    BY <2>1, <2>2, ReturnKeeps, ZenonT(60)
  <2> QED BY <2>1, <2>3, <2>4, SetupKeeps, Zenon
<1>7. CASE Enter(c)
  <2>1. conns[c].pc = "lock" /\ UNCHANGED <<loop, peers, dialing>>
    BY <1>7, Zenon DEF Enter, dialer
  <2>2. CASE Return(c, FALSE)
    BY <2>1, <2>2, <1>a, ReturnKeeps, SetupKeeps, ZenonT(60)
  <2>3. CASE Goto(c, "enc")
    <3> DEFINE r == [conns[c] EXCEPT !.pc = "enc"]
    <3>1. conns' = [conns EXCEPT ![c] = r]
      BY <2>3, <1>0, Zenon DEF Goto
    <3>2. r \in ConnRecords /\ r.peer = "none" /\ r.pc = "enc"
      BY <2>1, <1>0, <1>a, Zenon DEF ConnRecords
    <3> HIDE DEF r
    <3> QED BY <2>1, <3>1, <3>2, <1>a, MoveKeeps, SetupKeeps, ZenonT(60)
  <2> QED BY <1>7, <2>2, <2>3, ZenonT(60) DEF Enter
<1> QED BY <1>1, <1>2, <1>3, <1>4, <1>5, <1>6, <1>7, Zenon

\* run receives a connection at a checkpoint, and answers it.
LEMMA CheckpointStep ==
  ASSUME IInv, NEW c \in Conns, Checkpoint(c) PROVE IInv'
<1>0. conns[c] \in ConnRecords /\ loop \in LoopRecords
  BY Zenon DEF IInv, Types
<1> DEFINE r == [conns[c] EXCEPT !.pc = IF @ = "post" THEN "postWait" ELSE "addWait"]
<1>1. /\ conns[c].pc \in {"post", "add"} /\ conns' = [conns EXCEPT ![c] = r]
      /\ loop' = [pc |-> "check", conn |-> c, stage |-> conns[c].pc, ok |-> FALSE]
      /\ UNCHANGED <<peers, dialing>>
  BY Zenon DEF Checkpoint, dialer, IInv, Types
<1>2. conns[c].peer = "none" /\ conns[c].id \in Nodes
  BY <1>1, Zenon DEF IInv, Identified
<1>3. /\ r \in ConnRecords /\ r.peer = "none" /\ r.id \in Nodes
      /\ r.pc \in {"postWait", "addWait"} /\ (conns[c].pc = "post" <=> r.pc = "postWait")
  BY <1>0, <1>1, <1>2, Zenon DEF ConnRecords
<1> HIDE DEF r
<1>4. conns' \in [Conns -> ConnRecords] /\ Identified' /\ PeersExact' /\ conns'[c] = r
  BY <1>1, <1>2, <1>3, MoveKeeps, ZenonT(60)
<1>5. loop' \in LoopRecords /\ loop'.conn = c /\ loop'.stage = conns[c].pc
  BY <1>1, Zenon DEF LoopRecords
<1>6. Types'
  BY <1>1, <1>4, <1>5, Zenon DEF IInv, Types
<1>7. LookedAt'
  BY <1>3, <1>4, <1>5, Zenon DEF LookedAt
<1> QED BY <1>4, <1>6, <1>7, Zenon DEF IInv

\* run's verdict reaches the connection it looked at, which goes on with its setup or
\* ends it.
LEMMA ContStep ==
  ASSUME IInv, Cont PROVE IInv'
<1> DEFINE c == loop.conn
<1>1. /\ loop.pc = "cont" /\ c \in Conns /\ conns[c].id \in Nodes
      /\ conns[c].pc \in {"postWait", "addWait"}
      /\ loop' = Top /\ UNCHANGED <<peers, dialing>>
  BY Zenon DEF Cont, dialer, IInv, LookedAt
<1>2. conns[c] \in ConnRecords
  BY <1>1, Zenon DEF IInv, Types
<1>3. Top \in LoopRecords /\ Top.pc = "top"
  BY Zenon DEF Top, LoopRecords
<1>4. conns' \in [Conns -> ConnRecords] /\ Identified' /\ PeersExact'
  <2>1. CASE Return(c, FALSE)
    BY <2>1, <1>1, ReturnKeeps, ZenonT(60)
  <2>2. CASE Goto(c, "proto") /\ conns[c].pc = "postWait"
    <3> DEFINE r == [conns[c] EXCEPT !.pc = "proto"]
    <3>1. conns' = [conns EXCEPT ![c] = r]
      BY <2>2, <1>1, Zenon DEF Goto, IInv, Types
    <3>2. conns[c].peer = "none"
      BY <2>2, <1>1, Zenon DEF IInv, Identified
    <3>3. r \in ConnRecords /\ r.peer = "none" /\ r.id \in Nodes
      BY <3>2, <1>1, <1>2, Zenon DEF ConnRecords
    <3> HIDE DEF r
    <3> QED BY <1>1, <3>1, <3>2, <3>3, MoveKeeps, ZenonT(60)
  <2>3. loop.ok /\ loop.stage = "post" => conns[c].pc = "postWait"
    BY <1>1, Zenon DEF IInv, LookedAt
  <2> QED BY <2>1, <2>2, <2>3, ZenonT(60) DEF Cont
<1>5. Types'
  BY <1>1, <1>3, <1>4, Zenon DEF IInv, Types
<1>6. LookedAt'
  BY <1>1, <1>3, Zenon DEF LookedAt
<1> QED BY <1>4, <1>5, <1>6, Zenon DEF IInv

\* The verdict: a connection becomes the peer of its id only if there is none.
LEMMA CheckStep ==
  ASSUME IInv, NEW useful \in BOOLEAN, Check(useful) PROVE IInv'
<1> DEFINE c == loop.conn
           m == conns[c].id
<1> USE ServerAssumption
<1>1. /\ loop.pc = "check" /\ c \in Conns /\ m \in Nodes
      /\ conns[c].pc \in {"postWait", "addWait", "none"} /\ conns[c].peer = "none"
      /\ loop.stage = "post" => conns[c].pc # "addWait"
      /\ loop.stage = "add" => conns[c].pc # "postWait"
  BY Zenon DEF Check, IInv, LookedAt
<1>2. /\ conns \in [Conns -> ConnRecords] /\ conns[c] \in ConnRecords
      /\ loop \in LoopRecords /\ peers \in [Nodes -> Conns \cup {None}]
  BY <1>1, Zenon DEF IInv, Types
<1>3. PICK ok \in BOOLEAN : loop' = [loop EXCEPT !.pc = "cont", !.ok = ok]
  BY ZenonT(60) DEF Check
<1>4. /\ loop' \in LoopRecords /\ loop'.pc = "cont" /\ loop'.conn = c
      /\ loop'.stage = loop.stage
  BY <1>2, <1>3, ZenonT(60) DEF LoopRecords
<1>5. UNCHANGED dialing
  BY Zenon DEF Check, dialer
<1>6. CASE UNCHANGED <<peers, conns>>
  <2>1. Types' /\ Identified' /\ PeersExact'
    BY <1>4, <1>5, <1>6, SMTT(60) DEF IInv, Types, Identified, PeersExact
  <2>2. LookedAt'
    BY <1>1, <1>4, <1>6, Zenon DEF LookedAt
  <2> QED BY <2>1, <2>2, Zenon DEF IInv
<1>7. CASE /\ loop.stage = "add" /\ peers[m] = None
           /\ peers' = [peers EXCEPT ![m] = c]
           /\ conns' = [conns EXCEPT ![c].peer = "run"]
  <2> DEFINE r == [conns[c] EXCEPT !.peer = "run"]
  <2>1. r \in ConnRecords /\ r.peer = "run" /\ r.id = m /\ r.pc = conns[c].pc
    BY <1>2, Zenon DEF ConnRecords
  <2>2. conns' = [conns EXCEPT ![c] = r]
    BY <1>1, <1>2, <1>7, Zenon
  <2> HIDE DEF r
  <2>3. conns' \in [Conns -> ConnRecords] /\ conns'[c] = r
        /\ \A d \in Conns \ {c} : conns'[d] = conns[d]
    BY <1>1, <1>2, <2>1, <2>2, Zenon
  <2>4. peers' \in [Nodes -> Conns \cup {None}] /\ peers'[m] = c
        /\ \A n \in Nodes \ {m} : peers'[n] = peers[n]
    BY <1>1, <1>2, <1>7, Zenon
  <2>5. conns[c].pc \in {"addWait", "none"}
    BY <1>1, <1>7, Zenon
  <2>6. Types'
    BY <1>4, <1>5, <2>3, <2>4, Zenon DEF IInv, Types
  <2>7. Identified'
    BY <1>1, <2>1, <2>3, <2>5, Zenon DEF IInv, Identified
  <2>8. LookedAt'
    BY <1>1, <1>4, <1>7, <2>1, <2>3, Zenon DEF LookedAt
  <2>9. PeersExact'
    <3> SUFFICES ASSUME NEW d \in Conns, NEW n \in Nodes
                 PROVE  peers'[n] = d <=> conns'[d].peer # "none" /\ conns'[d].id = n
      BY Zenon DEF PeersExact
    <3>1. peers[n] = d <=> conns[d].peer # "none" /\ conns[d].id = n
      BY Zenon DEF IInv, PeersExact
    <3>2. CASE d = c
      BY <3>1, <3>2, <1>1, <2>1, <2>3, <2>4, Zenon
    <3>3. CASE d # c
      BY <3>1, <3>3, <1>1, <1>7, <2>3, <2>4
    <3> QED BY <3>2, <3>3, Zenon
  <2> QED BY <2>6, <2>7, <2>8, <2>9, Zenon DEF IInv
<1> QED BY <1>6, <1>7, Zenon DEF Check, Connected

\* runPeer ends.
LEMMA PeerEndsStep ==
  ASSUME IInv, NEW c \in Conns, PeerEnds(c) PROVE IInv'
<1> DEFINE r == [conns[c] EXCEPT !.peer = "leave"]
<1>1. /\ conns \in [Conns -> ConnRecords] /\ conns[c] \in ConnRecords
      /\ conns[c].peer = "run" /\ conns' = [conns EXCEPT ![c] = r]
      /\ UNCHANGED <<loop, peers, dialing>>
  BY Zenon DEF PeerEnds, dialer, IInv, Types
<1>2. /\ r \in ConnRecords /\ r.peer = "leave" /\ r.id = conns[c].id
      /\ r.pc = conns[c].pc
  BY <1>1, Zenon DEF ConnRecords
<1> HIDE DEF r
<1>3. conns' \in [Conns -> ConnRecords] /\ conns'[c] = r
      /\ \A d \in Conns \ {c} : conns'[d] = conns[d]
  BY <1>1, <1>2, Zenon
<1>4. Types'
  BY <1>1, <1>3, Zenon DEF IInv, Types
<1>5. Identified'
  BY <1>1, <1>2, <1>3, Zenon DEF IInv, Identified
<1>6. LookedAt'
  BY <1>1, <1>2, <1>3, Zenon DEF IInv, LookedAt
<1>7. PeersExact'
  BY <1>1, <1>2, <1>3 DEF IInv, PeersExact
<1> QED BY <1>4, <1>5, <1>6, <1>7, Zenon DEF IInv

\* run takes a peer that has left out of the map.
LEMMA DelPeerStep ==
  ASSUME IInv, NEW c \in Conns, DelPeer(c) PROVE IInv'
<1> USE ServerAssumption
<1> DEFINE m == conns[c].id
           r == IF conns[c].pc = "none" THEN NoConn ELSE [conns[c] EXCEPT !.peer = "none"]
<1>1. /\ conns \in [Conns -> ConnRecords] /\ conns[c] \in ConnRecords
      /\ peers \in [Nodes -> Conns \cup {None}] /\ loop \in LoopRecords
  BY Zenon DEF IInv, Types
<1>2. /\ loop.pc \in {"select", "spin"} /\ conns[c].peer = "leave"
      /\ peers' = [peers EXCEPT ![m] = None] /\ conns' = [conns EXCEPT ![c] = r]
      /\ loop' = (IF loop.pc = "select" THEN Top ELSE loop) /\ UNCHANGED dialing
  BY Zenon DEF DelPeer, dialer
<1>3. m \in Nodes /\ peers[m] = c
  BY <1>2, Zenon DEF IInv, Identified, PeersExact
<1>4. /\ r \in ConnRecords /\ r.peer = "none"
      /\ r.pc # "none" => r.id = m
  BY <1>1, <1>3, Zenon DEF ConnRecords, NoConn
<1> HIDE DEF r
<1>5. conns' \in [Conns -> ConnRecords] /\ conns'[c] = r
      /\ \A d \in Conns \ {c} : conns'[d] = conns[d]
  BY <1>1, <1>2, <1>4, Zenon
<1>6. peers' \in [Nodes -> Conns \cup {None}] /\ peers'[m] = None
      /\ \A n \in Nodes \ {m} : peers'[n] = peers[n]
  BY <1>1, <1>2, <1>3, Zenon
<1>7. loop' \in LoopRecords /\ loop'.pc \notin {"check", "cont"}
  BY <1>1, <1>2, Zenon DEF Top, LoopRecords
<1>8. Types'
  BY <1>2, <1>5, <1>6, <1>7, Zenon DEF IInv, Types
<1>9. Identified'
  BY <1>3, <1>4, <1>5, Zenon DEF IInv, Identified
<1>10. LookedAt'
  BY <1>7, Zenon DEF LookedAt
<1>11. PeersExact'
  <2> SUFFICES ASSUME NEW d \in Conns, NEW n \in Nodes
               PROVE  peers'[n] = d <=> conns'[d].peer # "none" /\ conns'[d].id = n
    BY Zenon DEF PeersExact
  <2>1. peers[n] = d <=> conns[d].peer # "none" /\ conns[d].id = n
    BY Zenon DEF IInv, PeersExact
  <2>2. CASE d = c
    BY <2>1, <2>2, <1>2, <1>3, <1>4, <1>5, <1>6, SMTT(60)
  <2>3. CASE d # c
    BY <2>1, <2>3, <1>3, <1>5, <1>6, Zenon
  <2> QED BY <2>2, <2>3, Zenon
<1> QED BY <1>8, <1>9, <1>10, <1>11, Zenon DEF IInv

\* Every step of run, setups, peers, tasks and Stop keeps the inductive invariant.
LEMMA StepHolds == IInv /\ [Next]_vars => IInv'
<1> SUFFICES ASSUME IInv, [Next]_vars PROVE IInv'
  BY Zenon
<1>1. CASE UNCHANGED vars
  BY <1>1, QuietKeeps, Zenon DEF vars, dialer, IInv, Types
<1>2. CASE Next
  <2>1. ASSUME NEW useful \in BOOLEAN, Check(useful) PROVE IInv'
    BY <2>1, CheckStep, Zenon
  <2>2. ASSUME NEW c \in Conns, Checkpoint(c) \/ PeerEnds(c) \/ DelPeer(c) PROVE IInv'
    BY <2>2, CheckpointStep, PeerEndsStep, DelPeerStep, Zenon
  <2>3. ASSUME NEW c \in Conns,
               \/ Accept(c) \/ Enter(c) \/ ProtoHandshake(c) \/ HandshakeFails(c) \/ GiveUp(c)
               \/ \E n \in Nodes : DialConnects(n, c) \/ EncHandshake(c, n)
        PROVE  IInv'
    BY <2>3, SetupSteps, Zenon
  <2>4. CASE Cont
    BY <2>4, ContStep, Zenon
  <2> QED BY <1>2, <2>1, <2>2, <2>3, <2>4, QuietSteps, Zenon DEF Next
<1> QED BY <1>1, <1>2, Zenon

\* run's peers are exactly the connections that have a runPeer goroutine, each under
\* its own id: no node is connected twice, whatever else is set up between the two
\* checkpoints of a connection and whenever Stop comes (Server.run, setupConn).
THEOREM PeersAlwaysExact == Spec => []PeersExact
<1>1. Init => IInv
  BY InitHolds, Zenon
<1>2. IInv /\ [Next]_vars => IInv'
  BY StepHolds, Zenon
<1>3. IInv => PeersExact
  BY Zenon DEF IInv
<1> QED BY <1>1, <1>2, <1>3, PTL DEF Spec

-----------------------------------------------------------------------------
(* The invariant about the dialer.                                         *)

AllTasks == {Dial(n) : n \in Nodes} \cup {Lookup, Bootstrap, WaitExpire}

\* Types; a task is launched or pending, not both, and only a launched one ends.
Tasks ==
  /\ tasks \subseteq AllTasks /\ pending \subseteq AllTasks /\ tasks \cap pending = {}
  /\ finished \subseteq tasks /\ stranded \subseteq Nodes \cup {None}
  /\ lookup \in [running : BOOLEAN, bootstrapped : BOOLEAN, buf : Seq(Nodes)]
  /\ MaxPeers \in Nat

\* run looks at connection c.
Looks(c) == loop.pc \in {"check", "cont"} /\ loop.conn = c

\* Connection c is being set up for a dial task.
Dials(c) == conns[c].kind # "inbound" /\ conns[c].pc # "none"

\* The task of a dialled connection has not ended while the connection is set up, and
\* stays with run while run looks at it; it has no other connection.
Outbound ==
  \A c \in Conns :
    /\ conns[c].kind # "inbound" /\ (conns[c].pc # "none" \/ Looks(c)) =>
         Dial(conns[c].id) \in tasks /\ dialing[conns[c].id] = conns[c].kind
    /\ Dials(c) => Dial(conns[c].id) \notin finished
    /\ \A d \in Conns : Dials(c) /\ Dials(d) /\ conns[c].id = conns[d].id => c = d

\* There is at most one lookup or bootstrap, lost ones included.
OneLookup ==
  LET all == tasks \cup pending
  IN /\ ~(Lookup \in all /\ Bootstrap \in all)
     /\ Lookup \in all \/ Bootstrap \in all => None \notin stranded

\* DialingExact, node by node.
Dialing ==
  LET all == tasks \cup pending
  IN /\ \A n \in Nodes : /\ dialing[n] # "no" <=> Dial(n) \in all \/ n \in stranded
                        /\ ~(Dial(n) \in all /\ n \in stranded)
     /\ lookup.running <=> Lookup \in all \/ Bootstrap \in all \/ None \in stranded

DInv == Tasks /\ Outbound /\ OneLookup /\ Dialing


\* The tasks are told apart by what they do and for whom.
LEMMA TaskFacts ==
  /\ \A n : Dial(n).do = "dial" /\ Dial(n).node = n
  /\ \A n, m : Dial(n) = Dial(m) => n = m
  /\ \A n : Dial(n) # Lookup /\ Dial(n) # Bootstrap /\ Dial(n) # WaitExpire
  /\ Lookup # Bootstrap /\ Lookup # WaitExpire /\ Bootstrap # WaitExpire
  /\ Lookup.node = None /\ Bootstrap.node = None /\ WaitExpire.node = None
  /\ Lookup.do # "dial" /\ Bootstrap.do # "dial" /\ WaitExpire.do # "dial"
<1>1. /\ \A n : Dial(n).do = "dial" /\ Dial(n).node = n
      /\ Lookup.do = "lookup" /\ Bootstrap.do = "bootstrap" /\ WaitExpire.do = "wait"
      /\ Lookup.node = None /\ Bootstrap.node = None /\ WaitExpire.node = None
  BY Zenon DEF Dial, Lookup, Bootstrap, WaitExpire
<1>2. "dial" # "lookup" /\ "dial" # "bootstrap" /\ "dial" # "wait" /\ "lookup" # "bootstrap"
      /\ "lookup" # "wait" /\ "bootstrap" # "wait"
  BY Zenon
<1>3. ASSUME NEW n, NEW m, Dial(n) = Dial(m) PROVE n = m
  <2>1. Dial(n).node = n /\ Dial(m).node = m
    BY <1>1, Zenon
  <2> QED BY <1>3, <2>1, Zenon
<1>4. \A n : Dial(n) # Lookup /\ Dial(n) # Bootstrap /\ Dial(n) # WaitExpire
  BY <1>1, <1>2, Zenon
<1>5. Lookup # Bootstrap /\ Lookup # WaitExpire /\ Bootstrap # WaitExpire
  BY <1>1, <1>2, Zenon
<1> QED BY <1>1, <1>2, <1>3, <1>4, <1>5, Zenon

\* A step that starts no task and no dial: run and the connections go on.
Settled == UNCHANGED <<MaxPeers, dialing, lookup, stranded, tasks, pending>> /\ finished' \subseteq tasks

\* A connection that is set up or looked at for a dial already was.
Faithful ==
  /\ \A c \in Conns :
       conns'[c].kind # "inbound" /\ (conns'[c].pc # "none" \/ Looks(c)') =>
         /\ conns'[c].kind = conns[c].kind /\ conns'[c].id = conns[c].id
         /\ conns[c].pc # "none" \/ Looks(c)
  /\ \A c \in Conns : Dials(c)' => Dials(c) /\ Dial(conns[c].id) \notin finished'

\* Such a step keeps the dialer's books.
LEMMA FaithfulKeeps == DInv /\ Settled /\ Faithful => DInv'
<1> SUFFICES ASSUME DInv, Settled, Faithful PROVE DInv'
  BY Zenon
<1>1. Tasks'
  BY Zenon DEF DInv, Tasks, Settled
<1>2. OneLookup' /\ Dialing'
  BY Zenon DEF DInv, OneLookup, Dialing, Settled
<1>3. Outbound'
  <2> SUFFICES ASSUME NEW c \in Conns
               PROVE  /\ conns'[c].kind # "inbound" /\ (conns'[c].pc # "none" \/ Looks(c)') =>
                           Dial(conns'[c].id) \in tasks' /\ dialing'[conns'[c].id] = conns'[c].kind
                      /\ Dials(c)' => Dial(conns'[c].id) \notin finished'
                      /\ \A d \in Conns : Dials(c)' /\ Dials(d)' /\ conns'[c].id = conns'[d].id
                                          => c = d
    BY Zenon DEF Outbound
  <2>1. \A d \in Conns : Dials(d)' => Dials(d) /\ conns'[d].id = conns[d].id
    BY Zenon DEF Faithful, Dials
  <2>2. tasks' = tasks /\ dialing' = dialing
    BY Zenon DEF Settled
  <2>3. conns'[c].kind # "inbound" /\ (conns'[c].pc # "none" \/ Looks(c)') =>
          Dial(conns'[c].id) \in tasks' /\ dialing'[conns'[c].id] = conns'[c].kind
    BY <2>2, Zenon DEF Faithful, DInv, Outbound
  <2>4. Dials(c)' => Dial(conns'[c].id) \notin finished'
    BY <2>1, Zenon DEF Faithful
  <2>5. \A d \in Conns : Dials(c)' /\ Dials(d)' /\ conns'[c].id = conns'[d].id => c = d
    BY <2>1, Zenon DEF DInv, Outbound
  <2> QED BY <2>3, <2>4, <2>5, Zenon
<1> QED BY <1>1, <1>2, <1>3, Zenon DEF DInv

\* The connections are as they were, and run looks at none or at the same one.
LEMMA CalmKeeps ==
  ASSUME DInv, Settled, conns' = conns,
         \A c \in Conns : Dials(c) => Dial(conns[c].id) \notin finished',
         loop' = loop \/ loop'.pc \notin {"check", "cont"}
  PROVE  DInv'
<1>1. \A c \in Conns : Looks(c)' => Looks(c)
  BY Zenon DEF Looks
<1>2. Faithful
  BY <1>1, Zenon DEF Faithful, Dials
<1> QED BY <1>2, FaithfulKeeps, Zenon

\* One connection is moved on; it is inbound, or stays what it was.
LEMMA MoveFaithful ==
  ASSUME DInv, Settled, finished' = finished, NEW c \in Conns, NEW r,
         conns \in [Conns -> ConnRecords], conns' = [conns EXCEPT ![c] = r],
         \/ r.kind = "inbound"
         \/ /\ r.kind = conns[c].kind /\ r.id = conns[c].id
            /\ r.pc # "none" => conns[c].pc # "none",
         \A d \in Conns : Looks(d)' => Looks(d) \/ conns[d].pc # "none"
  PROVE  DInv'
<1>1. conns'[c] = r /\ \A d \in Conns : d # c => conns'[d] = conns[d]
  BY Zenon
<1>2. \A d \in Conns : Dials(d) => Dial(conns[d].id) \notin finished'
  BY Zenon DEF DInv, Outbound
<1>3. \A d \in Conns : Dials(d)' => Dials(d)
  BY <1>1, Zenon DEF Dials
<1>4. \A d \in Conns :
        conns'[d].kind # "inbound" => conns'[d].kind = conns[d].kind /\ conns'[d].id = conns[d].id
  BY <1>1, Zenon
<1>5. \A d \in Conns :
        conns'[d].kind # "inbound" /\ conns'[d].pc # "none" => conns[d].pc # "none"
  BY <1>1, Zenon
<1>6. Faithful
  BY <1>2, <1>3, <1>4, <1>5, Zenon DEF Faithful
<1> QED BY <1>6, FaithfulKeeps, Zenon

\* setupConn returns: a dial task has ended, that of this connection only.
LEMMA ReturnFaithful ==
  ASSUME DInv, UNCHANGED <<MaxPeers, dialing, lookup, stranded, tasks, pending>>,
         NEW c \in Conns, NEW inUse \in BOOLEAN, Return(c, inUse), conns[c].pc # "none",
         conns \in [Conns -> ConnRecords],
         \A d \in Conns : Looks(d)' => Looks(d)
  PROVE  DInv'
<1> DEFINE r == IF conns[c].peer = "none" /\ ~inUse
                THEN NoConn ELSE [conns[c] EXCEPT !.pc = "none"]
           t == Dial(conns[c].id)
<1>1. /\ conns' = [conns EXCEPT ![c] = r]
      /\ conns[c].kind = "inbound" => finished' = finished
      /\ conns[c].kind # "inbound" => finished' = finished \cup {t}
  BY Zenon DEF Return
<1>2. conns[c] \in ConnRecords
  BY Zenon
<1>3. r.pc = "none" /\ (r.kind = "inbound" \/ (r.kind = conns[c].kind /\ r.id = conns[c].id))
  BY <1>2, Zenon DEF ConnRecords, NoConn
<1> HIDE DEF r
<1>4. conns'[c] = r /\ \A d \in Conns : d # c => conns'[d] = conns[d]
  BY <1>1, Zenon
<1>5. conns[c].kind # "inbound" => Dials(c) /\ t \in tasks
  BY Zenon DEF DInv, Outbound, Dials
<1>6. Settled
  BY <1>1, <1>5, Zenon DEF Settled, DInv, Tasks
<1>7. \A d \in Conns : Dials(d)' => Dials(d) /\ d # c
  BY <1>3, <1>4, Zenon DEF Dials
<1>8. \A d \in Conns : Dials(d) /\ d # c => Dial(conns[d].id) \notin finished'
  <2> SUFFICES ASSUME NEW d \in Conns, Dials(d), d # c PROVE Dial(conns[d].id) \notin finished'
    BY Zenon
  <2>1. Dial(conns[d].id) \notin finished
    BY Zenon DEF DInv, Outbound
  <2>2. conns[c].kind # "inbound" => conns[d].id # conns[c].id
    BY <1>5, Zenon DEF DInv, Outbound
  <2>3. conns[c].kind # "inbound" => Dial(conns[d].id) # t
    BY <2>2, TaskFacts, Zenon
  <2> QED BY <1>1, <2>1, <2>3, Zenon
<1>9. \A d \in Conns :
        conns'[d].kind # "inbound" => conns'[d].kind = conns[d].kind /\ conns'[d].id = conns[d].id
  BY <1>3, <1>4, Zenon
<1>10. \A d \in Conns : conns'[d].pc # "none" => conns[d].pc # "none"
  BY <1>3, <1>4, Zenon
<1>11. Faithful
  BY <1>7, <1>8, <1>9, <1>10, Zenon DEF Faithful
<1> QED BY <1>6, <1>11, FaithfulKeeps, Zenon

\* The steps that leave the connections alone, but for those of the dialer.
LEMMA CalmSteps ==
  ASSUME DInv,
         \/ Expire \/ AcceptFails \/ PeerOp \/ Stop \/ SpinDown \/ RunReturns \/ StopReturns
         \/ \E t \in tasks : TaskEnds(t)
         \/ \E n \in Nodes : DialFails(n) \/ AddStatic(n),
         loop \in LoopRecords
  PROVE  DInv'
<1>0. /\ finished \subseteq tasks
      /\ \A c \in Conns : Dials(c) => Dial(conns[c].id) \notin finished
  BY Zenon DEF DInv, Tasks, Outbound
<1>1. Top.pc \notin {"check", "cont"} /\ [loop EXCEPT !.pc = "spin"].pc \notin {"check", "cont"}
      /\ [loop EXCEPT !.pc = "done"].pc \notin {"check", "cont"}
  BY Zenon DEF Top, LoopRecords
<1>2. CASE Expire \/ AcceptFails \/ PeerOp \/ Stop \/ SpinDown \/ RunReturns \/ StopReturns
           \/ \E n \in Nodes : AddStatic(n)
  <2>1. /\ UNCHANGED <<MaxPeers, dialing, lookup, stranded, tasks, pending>>
        /\ finished' = finished /\ conns' = conns
    BY <1>2, Zenon DEF Expire, AcceptFails, PeerOp, Stop, SpinDown, RunReturns, StopReturns,
         AddStatic, dialer
  <2>2. \/ loop' = loop \/ loop' = Top
        \/ loop' = [loop EXCEPT !.pc = "spin"] \/ loop' = [loop EXCEPT !.pc = "done"]
    BY <1>2, Zenon DEF Expire, AcceptFails, PeerOp, Stop, SpinDown, RunReturns, StopReturns,
         AddStatic
  <2>3. Settled
    BY <1>0, <2>1, Zenon DEF Settled
  <2>4. loop' = loop \/ loop'.pc \notin {"check", "cont"}
    BY <1>1, <2>2, Zenon
  <2>5. \A c \in Conns : Dials(c) => Dial(conns[c].id) \notin finished'
    BY <1>0, <2>1, Zenon
  <2> QED BY <2>1, <2>3, <2>4, <2>5, CalmKeeps, Zenon
<1>3. ASSUME NEW t \in tasks, TaskEnds(t) PROVE DInv'
  <2>1. /\ UNCHANGED <<MaxPeers, dialing, lookup, stranded, tasks, pending>>
        /\ finished' = finished \cup {t} /\ conns' = conns /\ loop' = loop /\ t.do # "dial"
    BY <1>3, Zenon DEF TaskEnds, dialer
  <2>2. Settled
    BY <1>0, <2>1, Zenon DEF Settled
  <2>3. \A n : Dial(n) # t
    BY <2>1, TaskFacts, Zenon
  <2>4. \A c \in Conns : Dials(c) => Dial(conns[c].id) \notin finished'
    BY <1>0, <2>1, <2>3, Zenon
  <2> QED BY <2>1, <2>2, <2>4, CalmKeeps, Zenon
<1>4. ASSUME NEW n \in Nodes, DialFails(n) PROVE DInv'
  <2>1. /\ UNCHANGED <<MaxPeers, dialing, lookup, stranded, tasks, pending>>
        /\ finished' = finished \cup {Dial(n)} /\ conns' = conns /\ loop' = loop
        /\ Dialled(n)
    BY <1>4, Zenon DEF DialFails, dialer
  <2>2. Dial(n) \in tasks /\ \A c \in Conns : Dials(c) => conns[c].id # n
    BY <2>1, Zenon DEF Dialled, Dials
  <2>3. Settled
    BY <1>0, <2>1, <2>2, Zenon DEF Settled
  <2>4. \A c \in Conns : Dials(c) => Dial(conns[c].id) # Dial(n)
    BY <2>2, TaskFacts, Zenon
  <2>5. \A c \in Conns : Dials(c) => Dial(conns[c].id) \notin finished'
    BY <1>0, <2>1, <2>4, Zenon
  <2> QED BY <2>1, <2>3, <2>5, CalmKeeps, Zenon
<1> QED BY <1>2, <1>3, <1>4, Zenon

\* A step that moves a connection on, and the run loop at most to that connection.
LEMMA MovingSteps ==
  ASSUME IInv, DInv, NEW c \in Conns,
         \/ Accept(c) \/ ProtoHandshake(c) \/ Checkpoint(c) \/ PeerEnds(c) \/ DelPeer(c)
         \/ \E n \in Nodes : EncHandshake(c, n)
  PROVE  DInv'
<1>0. /\ conns \in [Conns -> ConnRecords] /\ conns[c] \in ConnRecords /\ loop \in LoopRecords
      /\ finished \subseteq tasks
  BY Zenon DEF IInv, Types, DInv, Tasks
<1>1. /\ UNCHANGED <<MaxPeers, dialing, lookup, stranded, tasks, pending>>
      /\ finished' = finished
  BY Zenon DEF Accept, ProtoHandshake, Checkpoint, PeerEnds, DelPeer, EncHandshake, dialer
<1>2. Settled
  BY <1>0, <1>1, Zenon DEF Settled
<1>3. PICK r :
        /\ conns' = [conns EXCEPT ![c] = r]
        /\ \/ r.kind = "inbound"
           \/ /\ r.kind = conns[c].kind /\ r.id = conns[c].id
              /\ r.pc # "none" => conns[c].pc # "none"
  <2>1. CASE Accept(c)
    <3>1. conns[c] = NoConn /\ conns' = [conns EXCEPT ![c] = [conns[c] EXCEPT !.pc = "lock"]]
      BY <1>0, <2>1, Zenon DEF Accept
    <3>2. [conns[c] EXCEPT !.pc = "lock"].kind = "inbound"
      BY <3>1 DEF NoConn
    <3> QED BY <3>1, <3>2, Zenon
  <2>2. CASE ProtoHandshake(c)
    <3> DEFINE r == [conns[c] EXCEPT !.pc = "add"]
    <3>1. conns[c].pc = "proto" /\ conns' = [conns EXCEPT ![c] = r]
      BY <1>0, <2>2, Zenon DEF ProtoHandshake
    <3>2. r.kind = conns[c].kind /\ r.id = conns[c].id /\ conns[c].pc # "none"
      BY <1>0, <3>1, Zenon DEF ConnRecords
    <3> HIDE DEF r
    <3> QED BY <3>1, <3>2, Zenon
  <2>3. CASE Checkpoint(c)
    <3> DEFINE r == [conns[c] EXCEPT !.pc = IF @ = "post" THEN "postWait" ELSE "addWait"]
    <3>1. conns[c].pc \in {"post", "add"} /\ conns' = [conns EXCEPT ![c] = r]
      BY <1>0, <2>3, Zenon DEF Checkpoint
    <3>2. r.kind = conns[c].kind /\ r.id = conns[c].id /\ conns[c].pc # "none"
      BY <1>0, <3>1, Zenon DEF ConnRecords
    <3> HIDE DEF r
    <3> QED BY <3>1, <3>2, Zenon
  <2>4. CASE PeerEnds(c)
    <3> DEFINE r == [conns[c] EXCEPT !.peer = "leave"]
    <3>1. conns' = [conns EXCEPT ![c] = r]
      BY <1>0, <2>4, Zenon DEF PeerEnds
    <3>2. r.kind = conns[c].kind /\ r.id = conns[c].id /\ r.pc = conns[c].pc
      BY <1>0, <3>1, Zenon DEF ConnRecords
    <3> HIDE DEF r
    <3> QED BY <3>1, <3>2, Zenon
  <2>5. CASE DelPeer(c)
    <3> DEFINE r == IF conns[c].pc = "none" THEN NoConn ELSE [conns[c] EXCEPT !.peer = "none"]
    <3>1. conns' = [conns EXCEPT ![c] = r]
      BY <1>0, <2>5, Zenon DEF DelPeer
    <3>2. r.kind = "inbound"
          \/ (r.kind = conns[c].kind /\ r.id = conns[c].id /\ r.pc = conns[c].pc)
      BY <1>0, <3>1, Zenon DEF ConnRecords, NoConn
    <3> HIDE DEF r
    <3> QED BY <3>1, <3>2, Zenon
  <2>6. ASSUME NEW n \in Nodes, EncHandshake(c, n)
        PROVE  \E r : /\ conns' = [conns EXCEPT ![c] = r]
                      /\ \/ r.kind = "inbound"
                         \/ /\ r.kind = conns[c].kind /\ r.id = conns[c].id
                            /\ r.pc # "none" => conns[c].pc # "none"
    <3> DEFINE r == [conns[c] EXCEPT !.pc = "post", !.id = n]
    <3>1. conns[c].pc = "enc" /\ conns' = [conns EXCEPT ![c] = r]
          /\ (conns[c].kind # "inbound" => n = conns[c].id)
      BY <1>0, <2>6, ZenonT(60) DEF EncHandshake
    <3>2. r.kind = conns[c].kind /\ r.id = n /\ conns[c].pc # "none"
      BY <1>0, <3>1, Zenon DEF ConnRecords
    <3> HIDE DEF r
    <3> QED BY <3>1, <3>2, Zenon
  <2> QED BY <2>1, <2>2, <2>3, <2>4, <2>5, <2>6, Zenon
<1>4. \A d \in Conns : Looks(d)' => Looks(d) \/ conns[d].pc # "none"
  <2>1. CASE Checkpoint(c)
    <3>1. conns[c].pc # "none" /\ loop'.conn = c
      BY <2>1, Zenon DEF Checkpoint
    <3> QED BY <3>1, Zenon DEF Looks
  <2>2. CASE ~Checkpoint(c)
    <3>1. Top.pc \notin {"check", "cont"}
      BY Zenon DEF Top
    <3>2. loop' = loop \/ loop' = Top
      BY <2>2, Zenon DEF Accept, ProtoHandshake, PeerEnds, DelPeer, EncHandshake
    <3> QED BY <3>1, <3>2, Zenon DEF Looks
  <2> QED BY <2>1, <2>2, Zenon
<1> QED BY <1>0, <1>1, <1>2, <1>3, <1>4, MoveFaithful, Zenon

\* setupConn goes on, ends, or hears run's verdict; run looks at no other connection.
LEMMA EndingSteps ==
  ASSUME IInv, DInv,
         \/ \E c \in Conns : Enter(c) \/ HandshakeFails(c) \/ GiveUp(c)
         \/ Cont
  PROVE  DInv'
<1>0. conns \in [Conns -> ConnRecords] /\ finished \subseteq tasks
  BY Zenon DEF IInv, Types, DInv, Tasks
<1>1. UNCHANGED <<MaxPeers, dialing, lookup, stranded, tasks, pending>>
  BY Zenon DEF Enter, HandshakeFails, GiveUp, Cont, dialer
<1>2. \A d \in Conns : Looks(d)' => Looks(d)
  <2>1. Top.pc \notin {"check", "cont"}
    BY Zenon DEF Top
  <2>2. loop' = loop \/ loop' = Top
    BY Zenon DEF Enter, HandshakeFails, GiveUp, Cont
  <2> QED BY <2>1, <2>2, Zenon DEF Looks
<1>3. ASSUME NEW c \in Conns, conns[c].pc # "none", NEW pc, Goto(c, pc) PROVE DInv'
  <2> DEFINE r == [conns[c] EXCEPT !.pc = pc]
  <2>1. conns' = [conns EXCEPT ![c] = r] /\ finished' = finished
    BY <1>0, <1>3, Zenon DEF Goto
  <2>2. conns[c] \in ConnRecords
    BY <1>0, Zenon
  <2>3. r.kind = conns[c].kind /\ r.id = conns[c].id
    BY <2>2, Zenon DEF ConnRecords
  <2> HIDE DEF r
  <2>4. Settled
    BY <1>0, <1>1, <2>1, Zenon DEF Settled
  <2> QED BY <1>0, <1>2, <1>3, <2>1, <2>3, <2>4, MoveFaithful, Zenon
<1>4. ASSUME NEW c \in Conns, conns[c].pc # "none", NEW inUse \in BOOLEAN, Return(c, inUse)
      PROVE  DInv'
  BY <1>0, <1>1, <1>2, <1>4, ReturnFaithful, Zenon
<1>5. ASSUME NEW c \in Conns, Enter(c) PROVE DInv'
  <2>1. conns[c].pc # "none" /\ (Return(c, FALSE) \/ Goto(c, "enc"))
    BY <1>5, Zenon DEF Enter
  <2> QED BY <1>3, <1>4, <2>1, Zenon
<1>6. ASSUME NEW c \in Conns, HandshakeFails(c) PROVE DInv'
  <2>1. conns[c].pc # "none" /\ Return(c, FALSE)
    BY <1>6, Zenon DEF HandshakeFails
  <2> QED BY <1>4, <2>1, Zenon
<1>7. ASSUME NEW c \in Conns, GiveUp(c) PROVE DInv'
  <2>1. conns[c].pc # "none" /\ Return(c, loop.conn = c)
    BY <1>7, Zenon DEF GiveUp
  <2>2. (loop.conn = c) \in BOOLEAN
    BY Zenon
  <2> QED BY <1>4, <2>1, <2>2, Zenon
<1>8. CASE Cont
  <2>1. loop.conn \in Conns
    BY <1>8, Zenon DEF Cont, IInv, LookedAt
  <2>2. conns[loop.conn].pc # "none" /\ (Return(loop.conn, FALSE) \/ Goto(loop.conn, "proto"))
    BY <1>8, Zenon DEF Cont
  <2> QED BY <1>3, <1>4, <2>1, <2>2, Zenon
<1> QED BY <1>5, <1>6, <1>7, <1>8, Zenon

\* A dial succeeds, and setupConn begins with the flag of the dial.
LEMMA ConnectsStep ==
  ASSUME IInv, DInv, NEW n \in Nodes, NEW c \in Conns, DialConnects(n, c)
  PROVE  DInv'
<1> DEFINE r == [NoConn EXCEPT !.pc = "lock", !.id = n, !.kind = dialing[n]]
<1>1. /\ conns' = [conns EXCEPT ![c] = r] /\ Dialled(n)
      /\ UNCHANGED <<MaxPeers, dialing, lookup, stranded, tasks, pending, finished, loop>>
  BY Zenon DEF DialConnects, dialer
<1>2. r.id = n /\ r.kind = dialing[n]
  BY Zenon DEF NoConn
<1> HIDE DEF r
<1>3. conns'[c] = r /\ \A d \in Conns : d # c => conns'[d] = conns[d]
  BY <1>1, Zenon DEF IInv, Types
<1>4. /\ Dial(n) \in tasks /\ Dial(n) \notin finished
      /\ \A d \in Conns : Dials(d) => conns[d].id # n
  BY <1>1, Zenon DEF Dialled, Dials
<1>5. Tasks' /\ OneLookup' /\ Dialing'
  BY <1>1, Zenon DEF DInv, Tasks, OneLookup, Dialing
<1>6. \A d \in Conns : d # c => (Dials(d)' <=> Dials(d)) /\ (Looks(d)' <=> Looks(d))
  BY <1>1, <1>3, Zenon DEF Dials, Looks
<1>7. ASSUME NEW d \in Conns
      PROVE  /\ conns'[d].kind # "inbound" /\ (conns'[d].pc # "none" \/ Looks(d)') =>
                  Dial(conns'[d].id) \in tasks' /\ dialing'[conns'[d].id] = conns'[d].kind
             /\ Dials(d)' => Dial(conns'[d].id) \notin finished'
  <2>1. CASE d = c
    <3>1. conns'[d].id = n /\ conns'[d].kind = dialing[n]
      BY <1>2, <1>3, <2>1, Zenon
    <3> QED BY <1>1, <1>4, <3>1, Zenon
  <2>2. CASE d # c
    <3>1. conns'[d] = conns[d] /\ (Dials(d)' <=> Dials(d)) /\ (Looks(d)' <=> Looks(d))
      BY <1>3, <1>6, <2>2, Zenon
    <3>2. /\ conns[d].kind # "inbound" /\ (conns[d].pc # "none" \/ Looks(d)) =>
               Dial(conns[d].id) \in tasks /\ dialing[conns[d].id] = conns[d].kind
          /\ Dials(d) => Dial(conns[d].id) \notin finished
      BY Zenon DEF DInv, Outbound
    <3>3. tasks' = tasks /\ dialing' = dialing /\ finished' = finished
      BY <1>1, Zenon
    <3>4. conns'[d].kind # "inbound" /\ (conns'[d].pc # "none" \/ Looks(d)') =>
            Dial(conns'[d].id) \in tasks' /\ dialing'[conns'[d].id] = conns'[d].kind
      BY <3>1, <3>2, <3>3, Zenon
    <3>5. Dials(d)' => Dial(conns'[d].id) \notin finished'
      BY <3>1, <3>2, <3>3, Zenon
    <3> QED BY <3>4, <3>5, Zenon
  <2> QED BY <2>1, <2>2, Zenon
<1>9. \A d \in Conns : Dials(d)' /\ d # c => conns'[d].id # n
  BY <1>3, <1>4, <1>6, Zenon
<1>10. \A d, e \in Conns : Dials(d)' /\ Dials(e)' /\ conns'[d].id = conns'[e].id => d = e
  <2> SUFFICES ASSUME NEW d \in Conns, NEW e \in Conns, Dials(d)', Dials(e)',
                      conns'[d].id = conns'[e].id, d # e
               PROVE  FALSE
    BY Zenon
  <2>1. CASE d = c
    BY <1>2, <1>3, <1>9, <2>1, Zenon
  <2>2. CASE e = c
    BY <1>2, <1>3, <1>9, <2>2, Zenon
  <2>3. CASE d # c /\ e # c
    BY <1>3, <1>6, <2>3, Zenon DEF DInv, Outbound
  <2> QED BY <2>1, <2>2, <2>3, Zenon
<1>11. Outbound'
  BY <1>7, <1>10, Zenon DEF Outbound
<1> QED BY <1>5, <1>11, Zenon DEF DInv

\* The verdict on a connection.
LEMMA VerdictStep ==
  ASSUME IInv, DInv, NEW useful \in BOOLEAN, Check(useful)
  PROVE  DInv'
<1> DEFINE c == loop.conn
<1>1. /\ UNCHANGED <<MaxPeers, dialing, lookup, stranded, tasks, pending, finished>>
      /\ loop.pc = "check"
      /\ conns' = conns \/ conns' = [conns EXCEPT ![c].peer = "run"]
  BY Zenon DEF Check, dialer
<1>2. conns \in [Conns -> ConnRecords] /\ c \in Conns /\ conns[c] \in ConnRecords
      /\ loop \in LoopRecords
  BY <1>1, Zenon DEF IInv, Types, LookedAt
<1>3. loop'.conn = c
  <2>1. PICK ok : loop' = [loop EXCEPT !.pc = "cont", !.ok = ok]
    BY Zenon DEF Check
  <2> QED BY <1>2, <2>1, Zenon DEF LoopRecords
<1>4. \A d \in Conns : Looks(d)' => Looks(d)
  BY <1>1, <1>3, Zenon DEF Looks
<1>5. \A d \in Conns : /\ conns'[d].kind = conns[d].kind /\ conns'[d].id = conns[d].id
                       /\ conns'[d].pc = conns[d].pc
  <2> SUFFICES ASSUME NEW d \in Conns, conns' = [conns EXCEPT ![c].peer = "run"]
               PROVE  /\ conns'[d].kind = conns[d].kind /\ conns'[d].id = conns[d].id
                      /\ conns'[d].pc = conns[d].pc
    BY <1>1, Zenon
  <2>1. conns[d] \in ConnRecords
    BY <1>2, Zenon
  <2> QED BY <1>2, <2>1, Zenon DEF ConnRecords
<1>6. Settled
  BY <1>1, Zenon DEF Settled, DInv, Tasks
<1>7. \A d \in Conns : Dials(d)' => Dials(d) /\ Dial(conns[d].id) \notin finished'
  BY <1>1, <1>5, Zenon DEF Dials, DInv, Outbound
<1>8. Faithful
  BY <1>4, <1>5, <1>7, Zenon DEF Faithful
<1> QED BY <1>6, <1>8, FaithfulKeeps, Zenon

\* The node of a dialled connection.
LEMMA DialledNode == DInv => \A c \in Conns : Dials(c) => conns[c].id \in Nodes
<1> SUFFICES ASSUME DInv, NEW c \in Conns, Dials(c) PROVE conns[c].id \in Nodes
  BY Zenon
<1>1. Dial(conns[c].id) \in AllTasks
  BY Zenon DEF DInv, Tasks, Outbound, Dials
<1>2. \E m \in Nodes : Dial(conns[c].id) = Dial(m)
  BY <1>1, TaskFacts, Zenon DEF AllTasks
<1> QED BY <1>2, TaskFacts, Zenon

\* run hears that a task is done.
LEMMA DoneStep ==
  ASSUME IInv, DInv, NEW t \in finished, NEW results \in Results, TaskDone(t, results)
  PROVE  DInv'
<1>1. /\ loop.pc = "select" /\ loop' = Top /\ conns' = conns
      /\ tasks' = tasks \ {t} /\ finished' = finished \ {t}
      /\ UNCHANGED <<MaxPeers, pending, stranded>>
      /\ t.do = "dial" => dialing' = [dialing EXCEPT ![t.node] = "no"]
      /\ t.do # "dial" => dialing' = dialing
      /\ lookup' = IF t \in {Lookup, Bootstrap}
                   THEN [running |-> FALSE, bootstrapped |-> TRUE, buf |-> lookup.buf \o results]
                   ELSE lookup
  BY Zenon DEF TaskDone, Delete
<1>2. /\ tasks \subseteq AllTasks /\ pending \subseteq AllTasks /\ tasks \cap pending = {}
      /\ finished \subseteq tasks /\ stranded \subseteq Nodes \cup {None}
      /\ lookup \in [running : BOOLEAN, bootstrapped : BOOLEAN, buf : Seq(Nodes)]
      /\ MaxPeers \in Nat /\ t \in tasks /\ t \notin pending
      /\ dialing \in [Nodes -> {"no", "static", "dyn"}]
  BY Zenon DEF DInv, Tasks, IInv, Types
<1>3. \/ t.do # "dial" /\ t \in {Lookup, Bootstrap, WaitExpire}
      \/ \E m \in Nodes : t = Dial(m)
  BY <1>2, TaskFacts, Zenon DEF AllTasks
<1>4. results \in Seq(Nodes)
  BY DEF Results
<1>5. lookup' \in [running : BOOLEAN, bootstrapped : BOOLEAN, buf : Seq(Nodes)]
  <2>1. lookup.buf \o results \in Seq(Nodes)
    BY <1>2, <1>4
  <2>2. [running |-> FALSE, bootstrapped |-> TRUE, buf |-> lookup.buf \o results]
          \in [running : BOOLEAN, bootstrapped : BOOLEAN, buf : Seq(Nodes)]
    BY <2>1, Zenon
  <2> QED BY <1>1, <1>2, <2>2, Zenon
<1>6. Tasks'
  BY <1>1, <1>2, <1>5, Zenon DEF Tasks
<1>7. OneLookup'
  BY <1>1, Zenon DEF DInv, OneLookup
<1>8. \A n \in Nodes : dialing'[n] = IF t = Dial(n) THEN "no" ELSE dialing[n]
  <2> SUFFICES ASSUME NEW n \in Nodes PROVE dialing'[n] = IF t = Dial(n) THEN "no" ELSE dialing[n]
    BY Zenon
  <2>1. CASE t.do # "dial"
    BY <1>1, <2>1, TaskFacts, Zenon
  <2>2. ASSUME NEW m \in Nodes, t = Dial(m)
        PROVE  dialing'[n] = IF t = Dial(n) THEN "no" ELSE dialing[n]
    <3>1. dialing' = [dialing EXCEPT ![m] = "no"]
      BY <1>1, <2>2, TaskFacts, Zenon
    <3>2. t = Dial(n) <=> m = n
      BY <2>2, TaskFacts, Zenon
    <3> QED BY <1>2, <3>1, <3>2, Zenon
  <2> QED BY <1>3, <2>1, <2>2, Zenon
<1>9. Outbound'
  <2>1. \A c \in Conns : ~Looks(c)' /\ (Dials(c)' <=> Dials(c))
    BY <1>1, Zenon DEF Looks, Dials, Top
  <2>2. \A c \in Conns : Dials(c) => /\ Dial(conns[c].id) \in tasks
                                     /\ dialing[conns[c].id] = conns[c].kind
                                     /\ Dial(conns[c].id) # t
                                     /\ Dial(conns[c].id) \notin finished
    BY Zenon DEF DInv, Outbound, Dials
  <2>3. \A c \in Conns : Dials(c) => conns[c].id \in Nodes
    BY DialledNode, Zenon
  <2>4. \A c \in Conns : Dials(c) => dialing'[conns[c].id] = conns[c].kind
    BY <1>8, <2>2, <2>3, Zenon
  <2>5. \A c \in Conns : conns'[c].kind # "inbound" /\ (conns'[c].pc # "none" \/ Looks(c)') =>
          Dial(conns'[c].id) \in tasks' /\ dialing'[conns'[c].id] = conns'[c].kind
    BY <1>1, <2>1, <2>2, <2>4, Zenon DEF Dials
  <2>6. \A c \in Conns : Dials(c)' => Dial(conns'[c].id) \notin finished'
    BY <1>1, <2>1, <2>2, Zenon
  <2>7. \A c, d \in Conns : Dials(c)' /\ Dials(d)' /\ conns'[c].id = conns'[d].id => c = d
    BY <1>1, <2>1, Zenon DEF DInv, Outbound
  <2> QED BY <2>5, <2>6, <2>7, Zenon DEF Outbound
<1>10. \A n \in Nodes :
         /\ dialing'[n] # "no" <=> Dial(n) \in tasks' \cup pending' \/ n \in stranded'
         /\ ~(Dial(n) \in tasks' \cup pending' /\ n \in stranded')
  <2> SUFFICES ASSUME NEW n \in Nodes
               PROVE  /\ dialing'[n] # "no" <=> Dial(n) \in tasks' \cup pending' \/ n \in stranded'
                      /\ ~(Dial(n) \in tasks' \cup pending' /\ n \in stranded')
    BY Zenon
  <2>1. /\ dialing[n] # "no" <=> Dial(n) \in tasks \cup pending \/ n \in stranded
        /\ ~(Dial(n) \in tasks \cup pending /\ n \in stranded)
    BY Zenon DEF DInv, Dialing
  <2>2. CASE t = Dial(n)
    <3>1. dialing'[n] = "no"
      BY <1>8, <2>2, Zenon
    <3>2. Dial(n) \notin tasks' \cup pending' /\ n \notin stranded'
      BY <1>1, <1>2, <2>1, <2>2, Zenon
    <3> QED BY <3>1, <3>2, Zenon
  <2>3. CASE t # Dial(n)
    <3>1. dialing'[n] = dialing[n]
      BY <1>8, <2>3, Zenon
    <3> QED BY <1>1, <2>1, <2>3, <3>1, Zenon
  <2> QED BY <2>2, <2>3, Zenon
<1>11. lookup'.running <=> \/ Lookup \in tasks' \cup pending' \/ Bootstrap \in tasks' \cup pending'
                           \/ None \in stranded'
  <2>1. CASE t \in {Lookup, Bootstrap}
    <3>1. ~lookup'.running
      BY <1>1, <2>1, Zenon
    <3>2. /\ Lookup \notin tasks' \cup pending' /\ Bootstrap \notin tasks' \cup pending'
          /\ None \notin stranded'
      BY <1>1, <1>2, <2>1, Zenon DEF DInv, OneLookup
    <3> QED BY <3>1, <3>2, Zenon
  <2>2. CASE t \notin {Lookup, Bootstrap}
    BY <1>1, <2>2, Zenon DEF DInv, Dialing
  <2> QED BY <2>1, <2>2, Zenon
<1>12. Dialing'
  BY <1>10, <1>11, Zenon DEF Dialing
<1> QED BY <1>6, <1>7, <1>9, <1>12, Zenon DEF DInv

-----------------------------------------------------------------------------
(* The dialer's tick.                                                      *)

\* A set of naturals that is not empty has a least element.
LEMMA LeastNatural ==
  ASSUME NEW A \in SUBSET Nat, A # {}
  PROVE  \E n \in A : \A m \in A : n <= m
<1>1. IsWellFoundedOn(OpToRel(<, Nat), Nat)
  BY NatLessThanWellFounded, Zenon
<1>2. PICK n \in A : \A y \in A : ~(<<y, n>> \in OpToRel(<, Nat))
  BY <1>1, WFMin, Zenon
<1>3. \A y \in A : ~(y < n)
  BY <1>2, Zenon DEF OpToRel
<1> QED BY <1>3

\* What Min returns.
LEMMA MinFacts ==
  ASSUME NEW A \in SUBSET Nat, A # {}
  PROVE  Min(A) \in A /\ \A m \in A : Min(A) <= m
<1>1. \E n \in A : \A m \in A : n <= m
  BY LeastNatural, Zenon
<1> QED BY <1>1, Zenon DEF Min

\* There are finitely many tasks.
LEMMA TasksFinite == IsFiniteSet(AllTasks)
<1>1. IsFiniteSet({Dial(n) : n \in Nodes})
  <2> DEFINE f == [n \in Nodes |-> Dial(n)]
  <2>1. f \in Surjection(Nodes, {Dial(n) : n \in Nodes})
    BY Zenon DEF Surjection
  <2> HIDE DEF f
  <2> QED BY <2>1, ServerAssumption, FS_Surjection, Zenon
<1>2. IsFiniteSet({Lookup}) /\ IsFiniteSet({Bootstrap}) /\ IsFiniteSet({WaitExpire})
  BY FS_Singleton, Zenon
<1>3. IsFiniteSet({Lookup} \cup ({Bootstrap} \cup {WaitExpire}))
  BY <1>2, FS_Union, Zenon
<1>4. IsFiniteSet({Dial(n) : n \in Nodes} \cup ({Lookup} \cup ({Bootstrap} \cup {WaitExpire})))
  BY <1>1, <1>3, FS_Union, Zenon
<1>5. AllTasks \subseteq {Dial(n) : n \in Nodes} \cup ({Lookup} \cup ({Bootstrap} \cup {WaitExpire}))
  BY Zenon DEF AllTasks
<1> QED BY <1>4, <1>5, FS_Subset, Zenon

\* The parts of newTasks, as Tick has them: the history that has not expired, the
\* nodes that may be dialled, the static, random and looked-up dials, and the tasks.
Past == SubSeq(hist, ripe + 1, Len(hist))
Free == {n \in Nodes : dialing[n] = "no" /\ peers[n] = None /\ n \notin Range(Past)}
StaticDials == static \cap Free
RandomDials(random) == random \cap (Free \ StaticDials)
Left(random) == NeedDyn - Cardinality(RandomDials(random))
Others(random) == Free \ (StaticDials \cup RandomDials(random))
Prefix(random) == Tried(Left(random), Others(random))
BufferDials(random) == Others(random) \cap Range(SubSeq(lookup.buf, 1, Prefix(random)))
Rest(random) == SubSeq(lookup.buf, Prefix(random) + 1, Len(lookup.buf))
Search(random) ==
  Len(Rest(random)) < Left(random) - Cardinality(BufferDials(random)) /\ ~lookup.running
NewDials(random) == StaticDials \cup RandomDials(random) \cup BufferDials(random)
Some(random) ==
  {Dial(n) : n \in NewDials(random)}
    \cup (IF ~Search(random) THEN {} ELSE IF lookup.bootstrapped THEN {Lookup} ELSE {Bootstrap})
New(random) ==
  IF Some(random) # {} THEN Some(random)
  ELSE WaitTasks(Cardinality(tasks) + Cardinality(pending), Past)

\* Tick, in terms of these.
LEMMA TickIs ==
  ASSUME NEW random, Tick(random)
  PROVE  /\ loop.pc = "top" /\ loop' = [loop EXCEPT !.pc = "select"]
         /\ Cardinality(random) <= IF lookup.bootstrapped /\ NeedDyn > 1
                                   THEN Min({NeedDyn \div 2, MaxDyn \div 2}) ELSE 0
         /\ dialing' = [n \in Nodes |-> IF n \in StaticDials THEN "static"
                                        ELSE IF n \in RandomDials(random) \cup BufferDials(random)
                                        THEN "dyn" ELSE dialing[n]]
         /\ lookup' = [lookup EXCEPT !.buf = Rest(random), !.running = @ \/ Search(random)]
         /\ hist' = Past
         /\ Schedule(New(random))
         /\ UNCHANGED <<MaxPeers, peers, conns, static, finished>>
BY ZenonT(60) DEF Tick, Past, Free, StaticDials, RandomDials, Left, Others, Prefix, BufferDials, Rest,
     Search, NewDials, Some, New

\* The prefix of the lookup buffer that is tried is one, and no longer than needed.
LEMMA PrefixFacts ==
  ASSUME lookup.buf \in Seq(Nodes), NEW need, NEW F
  PROVE  /\ Tried(need, F) \in 0..Len(lookup.buf)
         /\ \A i \in 0..Len(lookup.buf) :
              Cardinality(F \cap Range(SubSeq(lookup.buf, 1, i))) >= need => Tried(need, F) <= i
<1> DEFINE Enough(i) == Cardinality(F \cap Range(SubSeq(lookup.buf, 1, i))) >= need
           A == {i \in 0..Len(lookup.buf) : i = Len(lookup.buf) \/ Enough(i)}
<1>1. Tried(need, F) = Min(A)
  BY Zenon DEF Tried
<1>2. Len(lookup.buf) \in Nat
  BY SMT
<1> HIDE DEF Enough
<1>3. A \subseteq 0..Len(lookup.buf) /\ Len(lookup.buf) \in A
      /\ \A i \in 0..Len(lookup.buf) : Enough(i) => i \in A
  BY <1>2, SMT
<1>4. A \in SUBSET Nat /\ A # {}
  BY <1>2, <1>3, SMT
<1> HIDE DEF A
<1>5. Min(A) \in A /\ \A m \in A : Min(A) <= m
  BY <1>4, MinFacts, Zenon
<1>6. Tried(need, F) \in 0..Len(lookup.buf)
  BY <1>1, <1>3, <1>5, Zenon
<1>7. \A i \in 0..Len(lookup.buf) : Enough(i) => Tried(need, F) <= i
  BY <1>1, <1>3, <1>5, Zenon
<1> QED BY <1>6, <1>7, Zenon DEF Enough

\* The new tasks: dials of nodes that are not being dialled, a lookup if none runs,
\* the timer if there is no other task.
LEMMA NewFacts ==
  ASSUME IInv, DInv, NEW random
  PROVE  /\ NewDials(random) \subseteq Nodes /\ \A n \in NewDials(random) : dialing[n] = "no"
         /\ New(random) \subseteq AllTasks
         /\ \A n : Dial(n) \in New(random) <=> n \in NewDials(random)
         /\ Lookup \in New(random) \/ Bootstrap \in New(random) <=> Search(random)
         /\ ~(Lookup \in New(random) /\ Bootstrap \in New(random))
         /\ Search(random) => ~lookup.running
         /\ WaitExpire \in New(random) => tasks = {} /\ pending = {}
         /\ New(random) = {} => Cardinality(tasks) + Cardinality(pending) # 0 \/ Past = << >>
<1> DEFINE D == NewDials(random)
           W == WaitTasks(Cardinality(tasks) + Cardinality(pending), Past)
           Q == IF ~Search(random) THEN {} ELSE IF lookup.bootstrapped THEN {Lookup} ELSE {Bootstrap}
<1>1. D \subseteq Nodes /\ \A n \in D : dialing[n] = "no"
  BY Zenon DEF NewDials, StaticDials, RandomDials, BufferDials, Others, Free
<1>2. Some(random) = {Dial(n) : n \in D} \cup Q
      /\ New(random) = IF Some(random) # {} THEN Some(random) ELSE W
  BY Zenon DEF Some, New
<1>3. W \subseteq {WaitExpire}
      /\ (W # {} <=> Cardinality(tasks) + Cardinality(pending) = 0 /\ Past # << >>)
  BY Zenon DEF WaitTasks
<1>4. /\ Q \subseteq {Lookup, Bootstrap} /\ ~(Lookup \in Q /\ Bootstrap \in Q)
      /\ Lookup \in Q \/ Bootstrap \in Q <=> Search(random)
  BY TaskFacts, Zenon
<1>5. Search(random) => ~lookup.running
  BY Zenon DEF Search
<1> HIDE DEF D, W, Q
<1>6. /\ \A n : Dial(n) \in Some(random) <=> n \in D
      /\ Lookup \in Some(random) <=> Lookup \in Q
      /\ Bootstrap \in Some(random) <=> Bootstrap \in Q
      /\ WaitExpire \notin Some(random)
      /\ Some(random) \subseteq AllTasks
  <2>1. \A n : Dial(n) \notin Q
    BY <1>4, TaskFacts, Zenon
  <2>2. \A n : Dial(n) \in {Dial(m) : m \in D} <=> n \in D
    BY TaskFacts, Zenon
  <2>3. /\ Lookup \notin {Dial(n) : n \in D} /\ Bootstrap \notin {Dial(n) : n \in D}
        /\ WaitExpire \notin {Dial(n) : n \in D} /\ WaitExpire \notin Q
    BY <1>4, TaskFacts, Zenon
  <2>4. {Dial(n) : n \in D} \subseteq AllTasks /\ Q \subseteq AllTasks
    BY <1>1, <1>4, Zenon DEF AllTasks
  <2> QED BY <1>2, <2>1, <2>2, <2>3, <2>4, Zenon
<1>7. CASE Some(random) # {}
  <2>1. New(random) = Some(random)
    BY <1>2, <1>7, Zenon
  <2> QED BY <1>1, <1>4, <1>5, <1>6, <1>7, <2>1, Zenon DEF D
<1>8. CASE Some(random) = {}
  <2>1. New(random) = W
    BY <1>2, <1>8, Zenon
  <2>2. D = {} /\ ~Search(random)
    BY <1>4, <1>6, <1>8, Zenon
  <2>3. WaitExpire \in AllTasks
    BY Zenon DEF AllTasks
  <2>4. W \subseteq AllTasks /\ (\A n : Dial(n) \notin W) /\ Lookup \notin W /\ Bootstrap \notin W
    BY <1>3, <2>3, TaskFacts, Zenon
  <2>5. IsFiniteSet(tasks) /\ IsFiniteSet(pending)
    BY TasksFinite, FS_Subset, Zenon DEF DInv, Tasks
  <2>6. Cardinality(tasks) \in Nat /\ Cardinality(pending) \in Nat
    BY <2>5, FS_CardinalityType, Zenon
  <2>7. Cardinality(tasks) + Cardinality(pending) = 0
          => Cardinality(tasks) = 0 /\ Cardinality(pending) = 0
    BY <2>6, SMT
  <2>8. WaitExpire \in W => tasks = {} /\ pending = {}
    BY <1>3, <2>5, <2>7, FS_EmptySet, Zenon
  <2> QED BY <1>1, <1>3, <1>5, <2>1, <2>2, <2>4, <2>8, Zenon DEF D
<1> QED BY <1>7, <1>8, Zenon

\* scheduleTasks launches or keeps every new task, or launches none and loses them;
\* it does not lose the timer.
LEMMA ScheduleFacts ==
  ASSUME DInv, NEW new \in SUBSET AllTasks, Schedule(new),
         WaitExpire \in new => tasks = {} /\ pending = {}
  PROVE  \/ /\ UNCHANGED <<tasks, pending>> /\ stranded' = stranded \cup {t.node : t \in new}
            /\ WaitExpire \notin new
            /\ tasks = {} => pending \cup new = {}
         \/ /\ UNCHANGED stranded /\ tasks' # {}
            /\ \E S \in SUBSET (pending \cup new) :
                 tasks' = tasks \cup S /\ pending' = (pending \cup new) \ S
<1> DEFINE room == MaxActive - Cardinality(tasks)
           all == pending \cup new
<1>1. tasks \subseteq AllTasks /\ pending \subseteq AllTasks
  BY Zenon DEF DInv, Tasks
<1>2. IsFiniteSet(tasks) /\ IsFiniteSet(all) /\ Cardinality(tasks) \in Nat /\ Cardinality(all) \in Nat
  <2>1. all \subseteq AllTasks
    BY <1>1, Zenon
  <2>2. IsFiniteSet(tasks) /\ IsFiniteSet(all)
    BY <1>1, <2>1, TasksFinite, FS_Subset, Zenon
  <2> QED BY <2>2, FS_CardinalityType, Zenon
<1>3. MaxActive \in Nat /\ MaxActive # 0
  BY ServerAssumption, Zenon
<1>4. tasks = {} => room > 0
  <2>1. tasks = {} => Cardinality(tasks) = 0
    BY FS_EmptySet, Zenon
  <2> QED BY <1>3, <2>1, SMT
<1>5. CASE room <= 0 \/ all = {}
  <2>1. UNCHANGED <<tasks, pending>> /\ stranded' = stranded \cup {t.node : t \in new}
    BY <1>5, Zenon DEF Schedule
  <2>2. room \in Int
    BY <1>2, <1>3, SMT
  <2>3. tasks = {} => all = {}
    <3>1. room > 0 => ~(room <= 0)
      BY <2>2, SMT
    <3> QED BY <1>4, <1>5, <3>1, Zenon
  <2>4. WaitExpire \notin new
    BY <2>3, Zenon
  <2> QED BY <2>1, <2>3, <2>4, Zenon
<1>6. CASE ~(room <= 0) /\ all # {}
  <2>1. PICK S \in SUBSET all : /\ Cardinality(S) = Min({room, Cardinality(all)})
                                /\ tasks' = tasks \cup S /\ pending' = all \ S
                                /\ UNCHANGED stranded
    BY <1>6, Zenon DEF Schedule
  <2>2. Cardinality(all) # 0
    BY <1>2, <1>6, FS_EmptySet, Zenon
  <2>3. room \in Nat /\ room # 0
    BY <1>2, <1>3, <1>6, SMT
  <2>4. {room, Cardinality(all)} \in SUBSET Nat /\ {room, Cardinality(all)} # {}
    BY <1>2, <2>3, Zenon
  <2>5. Min({room, Cardinality(all)}) \in {room, Cardinality(all)}
    BY <2>4, MinFacts, Zenon
  <2>6. Cardinality(S) # 0
    BY <2>1, <2>2, <2>3, <2>5, Zenon
  <2>7. S # {}
    BY <2>6, FS_EmptySet, Zenon
  <2> QED BY <2>1, <2>7, Zenon
<1> QED BY <1>5, <1>6, Zenon

\* What is being dialled after a tick.
LEMMA TickDialing ==
  ASSUME IInv, NEW random, Tick(random)
  PROVE  \A n \in Nodes : /\ n \notin NewDials(random) => dialing'[n] = dialing[n]
                          /\ n \in NewDials(random) => dialing'[n] # "no"
                          /\ dialing'[n] = "dyn" <=>
                               \/ dialing[n] = "dyn" /\ n \notin StaticDials
                               \/ n \in RandomDials(random) \cup BufferDials(random)
<1> SUFFICES ASSUME NEW n \in Nodes
             PROVE  /\ n \notin NewDials(random) => dialing'[n] = dialing[n]
                    /\ n \in NewDials(random) => dialing'[n] # "no"
                    /\ dialing'[n] = "dyn" <=>
                         \/ dialing[n] = "dyn" /\ n \notin StaticDials
                         \/ n \in RandomDials(random) \cup BufferDials(random)
  BY Zenon
<1>1. dialing' = [m \in Nodes |-> IF m \in StaticDials THEN "static"
                                  ELSE IF m \in RandomDials(random) \cup BufferDials(random)
                                  THEN "dyn" ELSE dialing[m]]
  BY TickIs, Zenon
<1>2. dialing'[n] = IF n \in StaticDials THEN "static"
                    ELSE IF n \in RandomDials(random) \cup BufferDials(random)
                    THEN "dyn" ELSE dialing[n]
  BY <1>1, Zenon
<1>3. "static" # "no" /\ "dyn" # "no" /\ "static" # "dyn"
  BY Zenon
<1>4. n \in NewDials(random) <=> n \in StaticDials \/ n \in RandomDials(random) \cup BufferDials(random)
  BY Zenon DEF NewDials
<1>5. n \in StaticDials => n \notin RandomDials(random) \cup BufferDials(random)
  BY Zenon DEF RandomDials, BufferDials, Others
<1> QED BY <1>2, <1>3, <1>4, <1>5, Zenon

\* The buffer of lookup results after a tick.
LEMMA TickLookup ==
  ASSUME DInv, NEW random, Tick(random)
  PROVE  /\ lookup' \in [running : BOOLEAN, bootstrapped : BOOLEAN, buf : Seq(Nodes)]
         /\ lookup'.running <=> lookup.running \/ Search(random)
<1>1. lookup \in [running : BOOLEAN, bootstrapped : BOOLEAN, buf : Seq(Nodes)]
  BY Zenon DEF DInv, Tasks
<1>2. lookup.buf \in Seq(Nodes) /\ lookup.running \in BOOLEAN
  BY <1>1, Zenon
<1>3. Prefix(random) \in 0..Len(lookup.buf)
  BY <1>2, PrefixFacts, Zenon DEF Prefix
<1>4. Rest(random) \in Seq(Nodes)
  <2>1. \A i \in 0..Len(lookup.buf) : SubSeq(lookup.buf, i + 1, Len(lookup.buf)) \in Seq(Nodes)
    BY <1>2, SMT
  <2> QED BY <1>3, <2>1, Zenon DEF Rest
<1>5. lookup' = [lookup EXCEPT !.buf = Rest(random), !.running = @ \/ Search(random)]
  BY TickIs, Zenon
<1>6. Search(random) \in BOOLEAN
  BY Zenon DEF Search
<1>7. lookup' \in [running : BOOLEAN, bootstrapped : BOOLEAN, buf : Seq(Nodes)]
      /\ (lookup'.running <=> lookup.running \/ Search(random))
  BY <1>1, <1>4, <1>5, <1>6, Zenon
<1> QED BY <1>7, Zenon

\* A tick keeps the dialer's books.
LEMMA TickStep ==
  ASSUME IInv, DInv, NEW random, Tick(random)
  PROVE  DInv'
<1> DEFINE new == New(random)
           D == NewDials(random)
<1>1. /\ D \subseteq Nodes /\ \A n \in D : dialing[n] = "no"
      /\ new \subseteq AllTasks /\ \A n : Dial(n) \in new <=> n \in D
      /\ Lookup \in new \/ Bootstrap \in new <=> Search(random)
      /\ ~(Lookup \in new /\ Bootstrap \in new)
      /\ Search(random) => ~lookup.running
      /\ WaitExpire \in new => tasks = {} /\ pending = {}
  BY NewFacts, Zenon
<1>2. /\ loop' = [loop EXCEPT !.pc = "select"] /\ Schedule(new)
      /\ UNCHANGED <<MaxPeers, conns, finished>>
  BY TickIs, Zenon
<1> HIDE DEF new, D
<1>3. /\ tasks \subseteq AllTasks /\ pending \subseteq AllTasks /\ tasks \cap pending = {}
      /\ finished \subseteq tasks /\ stranded \subseteq Nodes \cup {None} /\ MaxPeers \in Nat
  BY Zenon DEF DInv, Tasks
<1>4. /\ \A n \in Nodes : /\ dialing[n] # "no" <=> Dial(n) \in tasks \cup pending \/ n \in stranded
                          /\ ~(Dial(n) \in tasks \cup pending /\ n \in stranded)
      /\ lookup.running <=> Lookup \in tasks \cup pending \/ Bootstrap \in tasks \cup pending
                              \/ None \in stranded
      /\ ~(Lookup \in tasks \cup pending /\ Bootstrap \in tasks \cup pending)
      /\ Lookup \in tasks \cup pending \/ Bootstrap \in tasks \cup pending => None \notin stranded
  BY Zenon DEF DInv, Dialing, OneLookup
<1>5. \A n \in Nodes : /\ n \notin D => dialing'[n] = dialing[n]
                       /\ n \in D => dialing'[n] # "no"
  BY TickDialing, Zenon DEF D
<1>6. /\ lookup' \in [running : BOOLEAN, bootstrapped : BOOLEAN, buf : Seq(Nodes)]
      /\ lookup'.running <=> lookup.running \/ Search(random)
  BY TickLookup, Zenon
<1>7. new \cap (tasks \cup pending) = {}
  <2> SUFFICES ASSUME NEW t \in new, t \in tasks \cup pending PROVE FALSE
    BY Zenon
  <2>1. t \in {Dial(n) : n \in Nodes} \cup {Lookup, Bootstrap, WaitExpire}
    BY <1>1, Zenon DEF AllTasks
  <2>2. ASSUME NEW n \in Nodes, t = Dial(n) PROVE FALSE
    <3>1. n \in D
      BY <1>1, <2>2, Zenon
    <3> QED BY <1>1, <1>4, <2>2, <3>1, Zenon
  <2>3. CASE t \in {Lookup, Bootstrap}
    BY <1>1, <1>4, <2>3, Zenon
  <2>4. CASE t = WaitExpire
    BY <1>1, <2>4, Zenon
  <2> QED BY <2>1, <2>2, <2>3, <2>4, Zenon
<1>8. /\ tasks \subseteq tasks' /\ tasks' \cup pending' \subseteq AllTasks
      /\ tasks' \cap pending' = {} /\ stranded' \subseteq Nodes \cup {None}
      /\ \A n \in Nodes :
           \/ /\ Dial(n) \in tasks' \cup pending' <=> Dial(n) \in tasks \cup pending
              /\ n \in stranded' <=> n \in stranded \/ Dial(n) \in new
           \/ /\ Dial(n) \in tasks' \cup pending' <=> Dial(n) \in tasks \cup pending \cup new
              /\ n \in stranded' <=> n \in stranded
      /\ \/ /\ \A t : t \in tasks' \cup pending' <=> t \in tasks \cup pending
            /\ None \in stranded' <=> None \in stranded \/ Lookup \in new \/ Bootstrap \in new
         \/ /\ \A t : t \in tasks' \cup pending' <=> t \in tasks \cup pending \cup new
            /\ None \in stranded' <=> None \in stranded
  <2>1. CASE /\ UNCHANGED <<tasks, pending>> /\ stranded' = stranded \cup {t.node : t \in new}
             /\ WaitExpire \notin new
    <3>1. \A t \in new : (\E n \in D : t = Dial(n)) \/ t = Lookup \/ t = Bootstrap
      BY <1>1, <2>1, Zenon DEF AllTasks
    <3>2. None \notin Nodes
      BY ServerAssumption, Zenon
    <3>3. \A n \in D : n \in Nodes /\ Dial(n) \in new /\ Dial(n).node = n
      BY <1>1, TaskFacts, Zenon
    <3>4. Lookup.node = None /\ Bootstrap.node = None
      BY TaskFacts, Zenon
    <3>5. \A n \in Nodes : n \in {t.node : t \in new} <=> Dial(n) \in new
      <4>1. ASSUME NEW n \in Nodes, NEW t \in new, t.node = n PROVE Dial(n) \in new
        BY <3>1, <3>2, <3>3, <3>4, <4>1, Zenon
      <4>2. ASSUME NEW n \in Nodes, Dial(n) \in new PROVE n \in {t.node : t \in new}
        BY <4>2, TaskFacts, Zenon
      <4> QED BY <4>1, <4>2, Zenon
    <3>6. None \in {t.node : t \in new} <=> Lookup \in new \/ Bootstrap \in new
      <4>1. ASSUME NEW t \in new, t.node = None PROVE Lookup \in new \/ Bootstrap \in new
        BY <3>1, <3>2, <3>3, <4>1, Zenon
      <4> QED BY <3>4, <4>1, Zenon
    <3>7. {t.node : t \in new} \subseteq Nodes \cup {None}
      BY <3>1, <3>3, <3>4, Zenon
    <3> QED BY <1>3, <2>1, <3>5, <3>6, <3>7, Zenon
  <2>2. ASSUME UNCHANGED stranded, NEW S \in SUBSET (pending \cup new),
               tasks' = tasks \cup S, pending' = (pending \cup new) \ S
        PROVE  /\ tasks \subseteq tasks' /\ tasks' \cup pending' \subseteq AllTasks
               /\ tasks' \cap pending' = {}
               /\ \A t : t \in tasks' \cup pending' <=> t \in tasks \cup pending \cup new
    <3>1. tasks' \cap pending' = {}
      BY <1>3, <1>7, <2>2, Zenon
    <3>2. \A t : t \in tasks' \cup pending' <=> t \in tasks \cup pending \cup new
      BY <2>2, Zenon
    <3> QED BY <1>1, <1>3, <2>2, <3>1, <3>2, Zenon
  <2>3. \/ /\ UNCHANGED <<tasks, pending>> /\ stranded' = stranded \cup {t.node : t \in new}
           /\ WaitExpire \notin new
        \/ /\ UNCHANGED stranded
           /\ \E S \in SUBSET (pending \cup new) :
                tasks' = tasks \cup S /\ pending' = (pending \cup new) \ S
    BY <1>1, <1>2, ScheduleFacts, Zenon
  <2> QED BY <1>3, <2>1, <2>2, <2>3, Zenon
<1>9. Tasks'
  BY <1>2, <1>3, <1>6, <1>8, Zenon DEF Tasks
<1>10. OneLookup'
  BY <1>1, <1>4, <1>8, Zenon DEF OneLookup
<1>11. \A n \in Nodes :
         /\ dialing'[n] # "no" <=> Dial(n) \in tasks' \cup pending' \/ n \in stranded'
         /\ ~(Dial(n) \in tasks' \cup pending' /\ n \in stranded')
  <2> SUFFICES ASSUME NEW n \in Nodes
               PROVE  /\ dialing'[n] # "no" <=> Dial(n) \in tasks' \cup pending' \/ n \in stranded'
                      /\ ~(Dial(n) \in tasks' \cup pending' /\ n \in stranded')
    BY Zenon
  <2>1. CASE n \in D
    <3>1. dialing'[n] # "no" /\ dialing[n] = "no" /\ Dial(n) \in new
      BY <1>1, <1>5, <2>1, Zenon
    <3>2. Dial(n) \notin tasks \cup pending /\ n \notin stranded
      BY <1>4, <3>1, Zenon
    <3> QED BY <1>8, <3>1, <3>2, Zenon
  <2>2. CASE n \notin D
    <3>1. dialing'[n] = dialing[n] /\ Dial(n) \notin new
      BY <1>1, <1>5, <2>2, Zenon
    <3> QED BY <1>4, <1>8, <3>1, Zenon
  <2> QED BY <2>1, <2>2, Zenon
<1>12. lookup'.running <=> \/ Lookup \in tasks' \cup pending' \/ Bootstrap \in tasks' \cup pending'
                           \/ None \in stranded'
  BY <1>1, <1>4, <1>6, <1>8, Zenon
<1>13. Dialing'
  BY <1>11, <1>12, Zenon DEF Dialing
<1>14. Outbound'
  <2>1. loop'.pc = "select"
    BY <1>2, Zenon DEF IInv, Types, LoopRecords
  <2>2. \A c \in Conns : ~Looks(c)' /\ (Dials(c)' <=> Dials(c))
    BY <1>2, <2>1, Zenon DEF Looks, Dials
  <2>3. \A c \in Conns : Dials(c) => /\ Dial(conns[c].id) \in tasks
                                     /\ dialing[conns[c].id] = conns[c].kind
                                     /\ Dial(conns[c].id) \notin finished
    BY Zenon DEF DInv, Outbound, Dials
  <2>4. \A c \in Conns : Dials(c) => conns[c].id \in Nodes
    BY DialledNode, Zenon
  <2>5. \A c \in Conns : Dials(c) => conns[c].id \notin D
    BY <1>1, <1>4, <2>3, <2>4, Zenon
  <2>6. \A c \in Conns : Dials(c) => dialing'[conns[c].id] = conns[c].kind
    BY <1>5, <2>3, <2>4, <2>5, Zenon
  <2>7. \A c \in Conns : conns'[c].kind # "inbound" /\ (conns'[c].pc # "none" \/ Looks(c)') =>
          Dial(conns'[c].id) \in tasks' /\ dialing'[conns'[c].id] = conns'[c].kind
    BY <1>2, <1>8, <2>2, <2>3, <2>6, Zenon DEF Dials
  <2>8. \A c \in Conns : Dials(c)' => Dial(conns'[c].id) \notin finished'
    BY <1>2, <2>2, <2>3, Zenon
  <2>9. \A c, d \in Conns : Dials(c)' /\ Dials(d)' /\ conns'[c].id = conns'[d].id => c = d
    BY <1>2, <2>2, Zenon DEF DInv, Outbound
  <2> QED BY <2>7, <2>8, <2>9, Zenon DEF Outbound
<1> QED BY <1>9, <1>10, <1>13, <1>14, Zenon DEF DInv

\* Every step keeps the dialer's books.
LEMMA DialerHolds == IInv /\ DInv /\ [Next]_vars => DInv'
<1> SUFFICES ASSUME IInv, DInv, [Next]_vars PROVE DInv'
  BY Zenon
<1>0. loop \in LoopRecords
  BY Zenon DEF IInv, Types
<1>1. CASE UNCHANGED vars
  <2>1. /\ UNCHANGED <<MaxPeers, dialing, lookup, stranded, tasks, pending>>
        /\ finished' = finished /\ conns' = conns /\ loop' = loop
    BY <1>1, Zenon DEF vars, dialer
  <2>2. Settled
    BY <2>1, Zenon DEF Settled, DInv, Tasks
  <2>3. \A c \in Conns : Dials(c) => Dial(conns[c].id) \notin finished'
    BY <2>1, Zenon DEF DInv, Outbound
  <2> QED BY <2>1, <2>2, <2>3, CalmKeeps, Zenon
<1>2. CASE \E random \in SUBSET Nodes : Tick(random)
  BY <1>2, TickStep, Zenon
<1>3. CASE \E t \in finished : \E results \in Results : TaskDone(t, results)
  BY <1>3, DoneStep, Zenon
<1>4. CASE \E useful \in BOOLEAN : Check(useful)
  BY <1>4, VerdictStep, Zenon
<1>5. CASE \E n \in Nodes, c \in Conns : DialConnects(n, c)
  BY <1>5, ConnectsStep, Zenon
<1>6. CASE \/ \E c \in Conns : Enter(c) \/ HandshakeFails(c) \/ GiveUp(c)
           \/ Cont
  BY <1>6, EndingSteps, Zenon
<1>7. CASE \/ \E c \in Conns : Accept(c) \/ ProtoHandshake(c) \/ Checkpoint(c) \/ PeerEnds(c)
                               \/ DelPeer(c)
           \/ \E n \in Nodes, c \in Conns : EncHandshake(c, n)
  BY <1>7, MovingSteps, Zenon
<1>8. CASE \/ Expire \/ AcceptFails \/ PeerOp \/ Stop \/ SpinDown \/ RunReturns \/ StopReturns
           \/ \E t \in tasks : TaskEnds(t)
           \/ \E n \in Nodes : DialFails(n) \/ AddStatic(n)
  BY <1>0, <1>8, CalmSteps, Zenon
<1> QED BY <1>1, <1>2, <1>3, <1>4, <1>5, <1>6, <1>7, <1>8, ZenonT(60) DEF Next

\* Nothing is dialled when Start returns.
LEMMA DialerInit == Init => DInv
<1> SUFFICES ASSUME Init PROVE DInv
  BY Zenon
<1>1. /\ tasks = {} /\ pending = {} /\ finished = {} /\ stranded = {}
      /\ lookup = [running |-> FALSE, bootstrapped |-> FALSE, buf |-> << >>]
      /\ MaxPeers \in PeerLimits /\ dialing = [n \in Nodes |-> "no"]
      /\ conns = [c \in Conns |-> NoConn]
  BY Zenon DEF Init
<1>2. /\ lookup \in [running : BOOLEAN, bootstrapped : BOOLEAN, buf : Seq(Nodes)]
      /\ ~lookup.running /\ MaxPeers \in Nat
  BY <1>1, ServerAssumption, SMT
<1>3. Tasks
  BY <1>1, <1>2, Zenon DEF Tasks
<1>4. \A c \in Conns : conns[c].kind = "inbound"
  BY <1>1, Zenon DEF NoConn
<1>5. Outbound
  BY <1>4, Zenon DEF Outbound, Dials
<1>6. OneLookup /\ Dialing
  BY <1>1, <1>2, Zenon DEF OneLookup, Dialing
<1> QED BY <1>3, <1>5, <1>6, Zenon DEF DInv

\* The invariant says what DialingExact says.
LEMMA DialerExact == DInv => DialingExact
<1> SUFFICES ASSUME DInv PROVE DialingExact
  BY Zenon
<1> DEFINE all == tasks \cup pending
<1>1. /\ all \subseteq AllTasks /\ stranded \subseteq Nodes \cup {None}
      /\ \A n \in Nodes : /\ dialing[n] # "no" <=> Dial(n) \in all \/ n \in stranded
                          /\ ~(Dial(n) \in all /\ n \in stranded)
      /\ lookup.running <=> Lookup \in all \/ Bootstrap \in all \/ None \in stranded
  BY Zenon DEF DInv, Tasks, Dialing
<1> HIDE DEF all
<1>2. None \notin Nodes
  BY ServerAssumption, Zenon
<1>3. \A t \in all : t.do = "dial" => \E n \in Nodes : t = Dial(n)
  BY <1>1, TaskFacts, Zenon DEF AllTasks
<1>4. ASSUME NEW n \in {t.node : t \in {u \in all : u.do = "dial"}}
      PROVE  n \in Nodes /\ Dial(n) \in all
  <2>1. PICK t \in all : t.do = "dial" /\ n = t.node
    BY Zenon
  <2>2. PICK m \in Nodes : t = Dial(m)
    BY <1>3, <2>1, Zenon
  <2>3. m = n
    BY <2>1, <2>2, TaskFacts, Zenon
  <2> QED BY <2>1, <2>2, <2>3, Zenon
<1>5. ASSUME NEW n, Dial(n) \in all PROVE n \in {t.node : t \in {u \in all : u.do = "dial"}}
  <2>1. Dial(n).do = "dial" /\ Dial(n).node = n
    BY TaskFacts, Zenon
  <2>2. Dial(n) \in {u \in all : u.do = "dial"}
    BY <1>5, <2>1, Zenon
  <2> QED BY <2>1, <2>2, Zenon
<1>6. {n \in Nodes : dialing[n] # "no"} = {t.node : t \in {u \in all : u.do = "dial"}}
                                            \cup (stranded \ {None})
  <2> DEFINE dialled == {t.node : t \in {u \in all : u.do = "dial"}}
  <2>1. /\ \A n \in dialled : n \in Nodes /\ Dial(n) \in all
        /\ \A n : Dial(n) \in all => n \in dialled
    BY <1>4, <1>5, Zenon
  <2> HIDE DEF dialled
  <2>2. {n \in Nodes : dialing[n] # "no"} = dialled \cup (stranded \ {None})
    BY <1>1, <1>2, <2>1, Zenon
  <2> QED BY <2>2, Zenon DEF dialled
<1>7. \A n \in stranded : Dial(n) \notin all
  <2>1. Dial(None) \notin all
    BY <1>2, <1>4, <1>5, Zenon
  <2> QED BY <1>1, <2>1, Zenon
<1>8. lookup.running <=> (all \cap {Lookup, Bootstrap} # {} \/ None \in stranded)
  BY <1>1, Zenon
<1> QED BY <1>6, <1>7, <1>8, Zenon DEF DialingExact, all

\* A node counts as being dialled exactly while it has one dial task, launched or
\* pending, or scheduleTasks lost its task; and so does the lookup.  It holds for any
\* nodes, connections, limits and tables, whenever dials, handshakes, peers and tasks
\* end (dialstate.newTasks, taskDone, Server.run).
THEOREM DialingAlwaysExact == Spec => []DialingExact
<1>1. Init => IInv /\ DInv
  BY InitHolds, DialerInit, Zenon
<1>2. IInv /\ DInv /\ [Next]_vars => IInv' /\ DInv'
  BY StepHolds, DialerHolds, Zenon
<1>3. IInv /\ DInv => DialingExact
  BY DialerExact, Zenon
<1> QED BY <1>1, <1>2, <1>3, PTL DEF Spec

\* Only a tick takes run to its select; no other step shortens what it waits for
\* while it stays there.
LEMMA SelectStays ==
  ASSUME [Next]_vars, loop'.pc = "select", ~\E random \in SUBSET Nodes : Tick(random),
         loop \in LoopRecords
  PROVE  loop.pc = "select" /\ hist' = hist /\ tasks' = tasks
<1>1. Top.pc # "select" /\ [loop EXCEPT !.pc = "spin"].pc # "select"
      /\ [loop EXCEPT !.pc = "done"].pc # "select"
  BY Zenon DEF Top, LoopRecords
<1>2. \A ok : [loop EXCEPT !.pc = "cont", !.ok = ok].pc # "select"
  BY Zenon DEF LoopRecords
<1>3. \A c, stage : [pc |-> "check", conn |-> c, stage |-> stage, ok |-> FALSE].pc # "select"
  BY Zenon
<1>4. CASE UNCHANGED vars
  BY <1>4, Zenon DEF vars, dialer
<1>5. CASE \E t \in finished : \E results \in Results : TaskDone(t, results)
  BY <1>1, <1>5, Zenon DEF TaskDone
<1>6. CASE \E useful \in BOOLEAN : Check(useful)
  BY <1>2, <1>6, Zenon DEF Check
<1>7. CASE \E n \in Nodes, c \in Conns : DialConnects(n, c) \/ EncHandshake(c, n)
  BY <1>7, Zenon DEF DialConnects, EncHandshake, dialer
<1>8. CASE \E c \in Conns : Enter(c) \/ HandshakeFails(c) \/ GiveUp(c) \/ Accept(c)
                            \/ ProtoHandshake(c) \/ PeerEnds(c)
  BY <1>8, Zenon DEF Enter, HandshakeFails, GiveUp, Accept, ProtoHandshake, PeerEnds, dialer
<1>9. CASE \/ \E c \in Conns : Checkpoint(c) \/ DelPeer(c)
           \/ Cont
  BY <1>1, <1>3, <1>9, Zenon DEF Checkpoint, DelPeer, Cont, dialer
<1>10. CASE \/ Expire \/ AcceptFails \/ PeerOp \/ Stop \/ SpinDown \/ RunReturns \/ StopReturns
            \/ \E t \in tasks : TaskEnds(t)
            \/ \E n \in Nodes : DialFails(n) \/ AddStatic(n)
  BY <1>1, <1>10, Zenon DEF Expire, AcceptFails, PeerOp, Stop, SpinDown, RunReturns, StopReturns,
       TaskEnds, DialFails, AddStatic, dialer
<1> QED BY <1>4, <1>5, <1>6, <1>7, <1>8, <1>9, <1>10, ZenonT(60) DEF Next

\* A tick leaves a task if a node of the history waits.
LEMMA TickLeavesTask ==
  ASSUME IInv, DInv, NEW random, Tick(random), hist' # << >>
  PROVE  tasks' # {}
<1> DEFINE new == New(random)
<1>1. /\ new \in SUBSET AllTasks
      /\ WaitExpire \in new => tasks = {} /\ pending = {}
      /\ new = {} => Cardinality(tasks) + Cardinality(pending) # 0 \/ Past = << >>
  BY NewFacts, Zenon
<1>2. Schedule(new) /\ hist' = Past
  BY TickIs, Zenon
<1> HIDE DEF new
<1>3. tasks' # {} \/ (tasks' = tasks /\ (tasks = {} => pending \cup new = {}))
  BY <1>1, <1>2, ScheduleFacts, Zenon
<1>4. CASE tasks' = {}
  <2>1. tasks = {} /\ pending = {} /\ new = {}
    BY <1>3, <1>4, Zenon
  <2>2. Cardinality(tasks) = 0 /\ Cardinality(pending) = 0
    BY <2>1, FS_EmptySet, Zenon
  <2>3. Cardinality(tasks) + Cardinality(pending) = 0
    BY <2>2, SMT
  <2> QED BY <1>1, <1>2, <2>1, <2>3, Zenon
<1> QED BY <1>4, Zenon

\* run never sleeps on a dial history without a task that will wake it, so a node in
\* it is dialled again: newTasks adds a timer when there is nothing else, and
\* scheduleTasks does not lose the timer (dialstate.newTasks, Server.run).
THEOREM TickAlwaysComing == Spec => []TickComing
<1>1. Init => IInv /\ DInv /\ TickComing
  <2>1. Init => TickComing
    BY Zenon DEF Init, TickComing
  <2> QED BY <2>1, InitHolds, DialerInit, Zenon
<1>2. IInv /\ DInv /\ TickComing /\ [Next]_vars => TickComing'
  <2> SUFFICES ASSUME IInv, DInv, TickComing, [Next]_vars, loop'.pc = "select", hist' # << >>
               PROVE  tasks' # {}
    BY Zenon DEF TickComing
  <2>1. CASE \E random \in SUBSET Nodes : Tick(random)
    BY <2>1, TickLeavesTask, Zenon
  <2>2. CASE ~\E random \in SUBSET Nodes : Tick(random)
    <3>1. loop.pc = "select" /\ hist' = hist /\ tasks' = tasks
      BY <2>2, SelectStays, Zenon DEF IInv, Types
    <3> QED BY <3>1, Zenon DEF TickComing
  <2> QED BY <2>1, <2>2, Zenon
<1>3. IInv /\ DInv /\ [Next]_vars => IInv' /\ DInv'
  BY StepHolds, DialerHolds, Zenon
<1> QED BY <1>1, <1>2, <1>3, PTL DEF Spec

-----------------------------------------------------------------------------
(* The budget of peers.                                                    *)

\* The peers that count against MaxPeers.
Counted == {n \in Nodes : peers[n] # None /\ ~Exempt(conns[peers[n]])}

\* Fewer such peers, and fewer dynamic peers and dials, are within the budget too.
LEMMA FewerPeers ==
  ASSUME WithinBudget, MaxPeers' = MaxPeers, Counted' \subseteq Counted,
         (DynPeers \cup Flagged("dyn"))' \subseteq DynPeers \cup Flagged("dyn"), MaxPeers \in Nat
  PROVE  WithinBudget'
<1>1. IsFiniteSet(Nodes)
  BY ServerAssumption, Zenon
<1>2. Counted \subseteq Nodes /\ DynPeers \cup Flagged("dyn") \subseteq Nodes
  BY Zenon DEF Counted, DynPeers, Flagged
<1>3. IsFiniteSet(Counted) /\ IsFiniteSet(DynPeers \cup Flagged("dyn"))
  BY <1>1, <1>2, FS_Subset, Zenon
<1>4. /\ Cardinality(Counted') <= Cardinality(Counted)
      /\ Cardinality((DynPeers \cup Flagged("dyn"))') <= Cardinality(DynPeers \cup Flagged("dyn"))
      /\ IsFiniteSet(Counted') /\ IsFiniteSet((DynPeers \cup Flagged("dyn"))')
  BY <1>3, FS_Subset, Zenon
<1>5. /\ Cardinality(Counted) \in Nat /\ Cardinality(DynPeers \cup Flagged("dyn")) \in Nat
      /\ Cardinality(Counted') \in Nat /\ Cardinality((DynPeers \cup Flagged("dyn"))') \in Nat
  BY <1>3, <1>4, FS_CardinalityType, Zenon
<1>6. Cardinality(Counted) <= MaxPeers /\ Cardinality(DynPeers \cup Flagged("dyn")) <= MaxDyn
  BY Zenon DEF WithinBudget, Counted
<1>7. MaxDyn' = MaxDyn /\ MaxDyn \in Nat
  <2>1. MaxDyn' = MaxDyn
    BY Zenon DEF MaxDyn
  <2>2. MaxDyn \in Nat
    BY SMT DEF MaxDyn
  <2> QED BY <2>1, <2>2, Zenon
<1>8. \A a, b, k \in Nat : a <= b /\ b <= k => a <= k
  BY SMT
<1>9. Cardinality(Counted') <= MaxPeers' /\ Cardinality((DynPeers \cup Flagged("dyn"))') <= MaxDyn'
  BY <1>4, <1>5, <1>6, <1>7, <1>8, ZenonT(60)
<1> QED BY <1>9, Zenon DEF WithinBudget, Counted

\* A peer keeps its node and the way it was connected as long as it is one.
LEMMA KindsStay ==
  ASSUME IInv, [Next]_vars
  PROVE  \A c \in Conns : conns[c].peer # "none" /\ conns'[c].peer # "none" =>
                            conns'[c].kind = conns[c].kind /\ conns'[c].id = conns[c].id
<1> DEFINE Keeps == \A c \in Conns : conns[c].peer # "none" /\ conns'[c].peer # "none" =>
                            conns'[c].kind = conns[c].kind /\ conns'[c].id = conns[c].id
<1> SUFFICES Keeps
  BY Zenon
<1>0. conns \in [Conns -> ConnRecords] /\ \A c \in Conns : conns[c] \in ConnRecords
  BY Zenon DEF IInv, Types
<1>1. ASSUME NEW c \in Conns, NEW r, conns' = [conns EXCEPT ![c] = r],
             \/ conns[c].peer = "none" \/ r.peer = "none"
             \/ r.kind = conns[c].kind /\ r.id = conns[c].id
      PROVE  Keeps
  <2>1. conns'[c] = r /\ \A d \in Conns : d # c => conns'[d] = conns[d]
    BY <1>0, <1>1, Zenon
  <2> QED BY <1>1, <2>1, Zenon
<1>2. CASE conns' = conns
  BY <1>2, Zenon
<1>3. ASSUME NEW c \in Conns, NEW f, conns' = [conns EXCEPT ![c].peer = f] PROVE Keeps
  <2> DEFINE r == [conns[c] EXCEPT !.peer = f]
  <2>1. conns' = [conns EXCEPT ![c] = r]
    BY <1>3, Zenon
  <2>2. conns[c] \in ConnRecords
    BY <1>0, Zenon
  <2>3. r.kind = conns[c].kind /\ r.id = conns[c].id
    BY <2>2, Zenon DEF ConnRecords
  <2> HIDE DEF r
  <2> QED BY <1>1, <2>1, <2>3, Zenon
<1>4. ASSUME NEW c \in Conns, conns[c].pc \notin {"addWait", "none"} \/ conns[c] = NoConn, NEW r,
             conns' = [conns EXCEPT ![c] = r]
      PROVE  Keeps
  <2>1. NoConn.peer = "none"
    BY Zenon DEF NoConn
  <2>2. conns[c].peer # "none" => conns[c].pc \in {"addWait", "none"}
    BY Zenon DEF IInv, Identified
  <2>3. conns[c].peer = "none"
    BY <1>4, <2>1, <2>2, Zenon
  <2> QED BY <1>1, <1>4, <2>3, Zenon
<1>5. ASSUME NEW c \in Conns, NEW inUse \in BOOLEAN, Return(c, inUse) PROVE Keeps
  <2> DEFINE r == IF conns[c].peer = "none" /\ ~inUse
                  THEN NoConn ELSE [conns[c] EXCEPT !.pc = "none"]
  <2>1. conns' = [conns EXCEPT ![c] = r]
    BY <1>5, Zenon DEF Return
  <2>2. conns[c] \in ConnRecords
    BY <1>0, Zenon
  <2>3. conns[c].peer = "none" \/ (r.kind = conns[c].kind /\ r.id = conns[c].id)
    BY <2>2, Zenon DEF ConnRecords
  <2> HIDE DEF r
  <2> QED BY <1>1, <2>1, <2>3, Zenon
<1>6. ASSUME NEW c \in Conns, NEW pc, conns' = [conns EXCEPT ![c].pc = pc] PROVE Keeps
  <2> DEFINE r == [conns[c] EXCEPT !.pc = pc]
  <2>1. conns' = [conns EXCEPT ![c] = r]
    BY <1>6, Zenon
  <2>2. conns[c] \in ConnRecords
    BY <1>0, Zenon
  <2>3. r.kind = conns[c].kind /\ r.id = conns[c].id
    BY <2>2, Zenon DEF ConnRecords
  <2> HIDE DEF r
  <2> QED BY <1>1, <2>1, <2>3, Zenon
<1>7. CASE \/ UNCHANGED vars \/ (\E random \in SUBSET Nodes : Tick(random))
           \/ (\E t \in finished : \E results \in Results : TaskDone(t, results))
  <2>1. conns' = conns
    BY <1>7, TickIs, ZenonT(60) DEF vars, TaskDone
  <2> QED BY <1>2, <2>1, Zenon
<1>8. CASE \/ Expire \/ AcceptFails \/ PeerOp \/ Stop \/ SpinDown \/ RunReturns \/ StopReturns
           \/ \E t \in tasks : TaskEnds(t)
           \/ \E n \in Nodes : DialFails(n) \/ AddStatic(n)
  <2>1. conns' = conns
    BY <1>8, Zenon DEF Expire, AcceptFails, PeerOp, Stop, SpinDown, RunReturns, StopReturns,
         TaskEnds, DialFails, AddStatic
  <2> QED BY <1>2, <2>1, Zenon
<1>9. CASE \E n \in Nodes, c \in Conns : DialConnects(n, c)
  BY <1>4, <1>9, Zenon DEF DialConnects
<1>10. ASSUME NEW n \in Nodes, NEW c \in Conns, EncHandshake(c, n) PROVE Keeps
  <2>1. conns[c].pc = "enc" /\ conns' = [conns EXCEPT ![c] = [conns[c] EXCEPT !.pc = "post", !.id = n]]
    BY <1>0, <1>10, ZenonT(60) DEF EncHandshake
  <2>2. conns[c].pc \notin {"addWait", "none"}
    BY <2>1, Zenon
  <2> QED BY <1>4, <2>1, <2>2, Zenon
<1>11. ASSUME NEW c \in Conns, Enter(c) \/ HandshakeFails(c) \/ GiveUp(c) PROVE Keeps
  <2>1. (loop.conn = c) \in BOOLEAN
    BY Zenon
  <2>2. (\E inUse \in BOOLEAN : Return(c, inUse)) \/ conns' = [conns EXCEPT ![c].pc = "enc"]
    BY <1>11, <2>1, Zenon DEF Enter, HandshakeFails, GiveUp, Goto
  <2> QED BY <1>5, <1>6, <2>2, Zenon
<1>12. ASSUME NEW c \in Conns, Accept(c) \/ ProtoHandshake(c) PROVE Keeps
  <2>1. \E pc : conns' = [conns EXCEPT ![c].pc = pc]
    BY <1>12, Zenon DEF Accept, ProtoHandshake
  <2> QED BY <1>6, <2>1, Zenon
<1>13. ASSUME NEW c \in Conns, PeerEnds(c) PROVE Keeps
  BY <1>3, <1>13, Zenon DEF PeerEnds
<1>14. ASSUME NEW c \in Conns, Checkpoint(c) PROVE Keeps
  <2>1. /\ conns[c].pc \in {"post", "add"}
        /\ conns' = [conns EXCEPT ![c] = [conns[c] EXCEPT !.pc =
                                            IF @ = "post" THEN "postWait" ELSE "addWait"]]
    BY <1>0, <1>14, ZenonT(60) DEF Checkpoint
  <2>2. conns[c].pc \notin {"addWait", "none"}
    BY <2>1, Zenon
  <2> QED BY <1>4, <2>1, <2>2, Zenon
<1>15. ASSUME NEW c \in Conns, DelPeer(c) PROVE Keeps
  <2> DEFINE r == IF conns[c].pc = "none" THEN NoConn ELSE [conns[c] EXCEPT !.peer = "none"]
  <2>1. conns' = [conns EXCEPT ![c] = r]
    BY <1>15, Zenon DEF DelPeer
  <2>2. conns[c] \in ConnRecords
    BY <1>0, Zenon
  <2>3. r.peer = "none"
    BY <2>2, Zenon DEF ConnRecords, NoConn
  <2> HIDE DEF r
  <2> QED BY <1>1, <2>1, <2>3, Zenon
<1>16. CASE Cont
  <2>1. loop.conn \in Conns
    BY <1>16, Zenon DEF Cont, IInv, LookedAt
  <2>2. Return(loop.conn, FALSE) \/ conns' = [conns EXCEPT ![loop.conn].pc = "proto"]
    BY <1>16, Zenon DEF Cont, Goto
  <2> QED BY <1>5, <1>6, <2>1, <2>2, Zenon
<1>17. ASSUME NEW useful \in BOOLEAN, Check(useful) PROVE Keeps
  <2>1. loop.conn \in Conns
    BY <1>17, Zenon DEF Check, IInv, LookedAt
  <2>2. conns' = conns \/ conns' = [conns EXCEPT ![loop.conn].peer = "run"]
    BY <1>17, Zenon DEF Check
  <2> QED BY <1>2, <1>3, <2>1, <2>2, Zenon
<1> HIDE DEF Keeps
<1>18. CASE \E c \in Conns : \/ Enter(c) \/ HandshakeFails(c) \/ GiveUp(c) \/ Accept(c)
                            \/ ProtoHandshake(c) \/ Checkpoint(c) \/ PeerEnds(c) \/ DelPeer(c)
  BY <1>11, <1>12, <1>13, <1>14, <1>15, <1>18, Zenon
<1>19. CASE \E n \in Nodes, c \in Conns : DialConnects(n, c) \/ EncHandshake(c, n)
  BY <1>9, <1>10, <1>19, Zenon
<1>20. CASE \E useful \in BOOLEAN : Check(useful)
  BY <1>17, <1>20, Zenon
<1> QED BY <1>7, <1>8, <1>16, <1>18, <1>19, <1>20, Zenon DEF Next

\* Without a verdict, a node that has a peer after a step had it before.
LEMMA PeersStay ==
  ASSUME IInv, IInv', [Next]_vars, ~\E useful \in BOOLEAN : Check(useful)
  PROVE  Counted' \subseteq Counted /\ DynPeers' \subseteq DynPeers
<1>1. peers \in [Nodes -> Conns \cup {None}] /\ peers' \in [Nodes -> Conns \cup {None}]
  BY Zenon DEF IInv, Types
<1>a. \A c \in Conns, n \in Nodes : peers[n] = c => conns[c].peer # "none"
  BY Zenon DEF IInv, PeersExact
<1>b. \A c \in Conns, n \in Nodes : peers'[n] = c => conns'[c].peer # "none"
  BY Zenon DEF IInv, PeersExact
<1>2. \A n \in Nodes : peers'[n] = peers[n] \/ peers'[n] = None
  <2>1. CASE \E c \in Conns : DelPeer(c)
    <3>1. PICK m : peers' = [peers EXCEPT ![m] = None]
      BY <2>1, Zenon DEF DelPeer
    <3> QED BY <1>1, <3>1, Zenon
  <2>2. CASE \/ UNCHANGED vars \/ (\E random \in SUBSET Nodes : Tick(random))
             \/ (\E t \in finished : \E results \in Results : TaskDone(t, results))
    <3>1. peers' = peers
      BY <2>2, TickIs, ZenonT(60) DEF vars, TaskDone
    <3> QED BY <3>1, Zenon
  <2>3. CASE \/ Expire \/ AcceptFails \/ PeerOp \/ Stop \/ SpinDown \/ RunReturns \/ StopReturns
             \/ \E t \in tasks : TaskEnds(t)
             \/ \E n \in Nodes : DialFails(n) \/ AddStatic(n)
    <3>1. peers' = peers
      BY <2>3, Zenon DEF Expire, AcceptFails, PeerOp, Stop, SpinDown, RunReturns, StopReturns,
           TaskEnds, DialFails, AddStatic
    <3> QED BY <3>1, Zenon
  <2>4. CASE \/ \E c \in Conns : \/ Enter(c) \/ HandshakeFails(c) \/ GiveUp(c) \/ Accept(c)
                                 \/ ProtoHandshake(c) \/ Checkpoint(c) \/ PeerEnds(c)
             \/ \E n \in Nodes, c \in Conns : DialConnects(n, c) \/ EncHandshake(c, n)
             \/ Cont
    <3>1. peers' = peers
      BY <2>4, Zenon DEF Enter, HandshakeFails, GiveUp, Accept, ProtoHandshake, Checkpoint, PeerEnds,
           DialConnects, EncHandshake, Cont
    <3> QED BY <3>1, Zenon
  <2> QED BY <2>1, <2>2, <2>3, <2>4, Zenon DEF Next
<1>3. \A c \in Conns : conns[c].peer # "none" /\ conns'[c].peer # "none" =>
                         conns'[c].kind = conns[c].kind /\ conns'[c].id = conns[c].id
  BY KindsStay, Zenon
<1>4. ASSUME NEW n \in Nodes, peers'[n] # None
      PROVE  /\ peers[n] # None /\ conns'[peers'[n]].kind = conns[peers[n]].kind
             /\ conns'[peers'[n]].id = conns[peers[n]].id
  <2>1. peers'[n] = peers[n]
    BY <1>2, <1>4, Zenon
  <2>2. peers[n] \in Conns
    BY <1>1, <1>4, <2>1, Zenon
  <2>3. conns[peers[n]].peer # "none" /\ conns'[peers[n]].peer # "none"
    BY <1>a, <1>b, <2>1, <2>2, Zenon
  <2> QED BY <1>3, <1>4, <2>1, <2>2, <2>3, ZenonT(60)
<1>5. \A n \in Counted' : n \in Counted
  <2> SUFFICES ASSUME NEW n \in Counted' PROVE n \in Counted
    BY Zenon
  <2>1. n \in Nodes /\ peers'[n] # None /\ ~Exempt(conns'[peers'[n]])
    BY Zenon DEF Counted, Exempt
  <2>2. Exempt(conns[peers[n]]) => Exempt(conns'[peers'[n]])
    BY <1>4, <2>1, Zenon DEF Exempt
  <2> QED BY <1>4, <2>1, <2>2, Zenon DEF Counted
<1>6. \A n \in DynPeers' : n \in DynPeers
  BY <1>4, Zenon DEF DynPeers
<1> QED BY <1>5, <1>6, Zenon

\* Without a tick, no node becomes a dynamic dial.
LEMMA DialsStay ==
  ASSUME IInv, DInv, [Next]_vars, ~\E random \in SUBSET Nodes : Tick(random)
  PROVE  Flagged("dyn")' \subseteq Flagged("dyn") /\ MaxPeers' = MaxPeers
<1>1. CASE \E t \in finished : \E results \in Results : TaskDone(t, results)
  <2>1. PICK t \in finished : \E results \in Results : TaskDone(t, results)
    BY <1>1, Zenon
  <2>2. /\ MaxPeers' = MaxPeers
        /\ dialing' = dialing \/ dialing' = [dialing EXCEPT ![t.node] = "no"]
    BY <2>1, Zenon DEF TaskDone, Delete
  <2>3. dialing \in [Nodes -> {"no", "static", "dyn"}]
    BY Zenon DEF IInv, Types
  <2>4. \A n \in Nodes : dialing'[n] = dialing[n] \/ dialing'[n] = "no"
    BY <2>2, <2>3, Zenon
  <2>5. "no" # "dyn"
    BY Zenon
  <2>6. \A n \in Flagged("dyn")' : n \in Flagged("dyn")
    BY <2>4, <2>5, Zenon DEF Flagged
  <2> QED BY <2>2, <2>6, Zenon
<1>2. CASE UNCHANGED vars \/ Next
  <2> SUFFICES ASSUME ~\E t \in finished : \E results \in Results : TaskDone(t, results)
               PROVE  dialing' = dialing /\ MaxPeers' = MaxPeers
    BY <1>1, Zenon DEF Flagged
  <2>1. CASE UNCHANGED vars
    BY <2>1, Zenon DEF vars, dialer
  <2>2. CASE \E useful \in BOOLEAN : Check(useful)
    BY <2>2, Zenon DEF Check, dialer
  <2>3. CASE \/ \E c \in Conns : \/ Enter(c) \/ HandshakeFails(c) \/ GiveUp(c) \/ Accept(c)
                                 \/ ProtoHandshake(c) \/ Checkpoint(c) \/ PeerEnds(c) \/ DelPeer(c)
             \/ \E n \in Nodes, c \in Conns : DialConnects(n, c) \/ EncHandshake(c, n)
             \/ Cont
    BY <2>3, Zenon DEF Enter, HandshakeFails, GiveUp, Accept, ProtoHandshake, Checkpoint, PeerEnds,
         DelPeer, DialConnects, EncHandshake, Cont, dialer
  <2>4. CASE \/ Expire \/ AcceptFails \/ PeerOp \/ Stop \/ SpinDown \/ RunReturns \/ StopReturns
             \/ \E t \in tasks : TaskEnds(t)
             \/ \E n \in Nodes : DialFails(n) \/ AddStatic(n)
    BY <2>4, Zenon DEF Expire, AcceptFails, PeerOp, Stop, SpinDown, RunReturns, StopReturns,
         TaskEnds, DialFails, AddStatic, dialer
  <2> QED BY <1>2, <2>1, <2>2, <2>3, <2>4, Zenon DEF Next
<1> QED BY <1>2, Zenon

\* A verdict lets a peer in that is exempt, or for which there is room; a dynamic one
\* was counted among the dials already.
LEMMA CheckBudget ==
  ASSUME IInv, DInv, WithinBudget, NEW useful \in BOOLEAN, Check(useful)
  PROVE  WithinBudget'
<1> DEFINE c == loop.conn
           m == conns[c].id
<1>1. /\ loop.pc = "check" /\ UNCHANGED <<dialing, MaxPeers>>
      /\ \/ UNCHANGED <<peers, conns>>
         \/ /\ ~TooMany(conns[c]) /\ peers' = [peers EXCEPT ![m] = c]
            /\ conns' = [conns EXCEPT ![c].peer = "run"]
  BY Zenon DEF Check, dialer
<1>2. /\ c \in Conns /\ m \in Nodes /\ MaxPeers \in Nat
      /\ peers \in [Nodes -> Conns \cup {None}] /\ conns \in [Conns -> ConnRecords]
  BY <1>1, Zenon DEF IInv, Types, LookedAt, DInv, Tasks
<1>3. CASE UNCHANGED <<peers, conns>>
  BY <1>1, <1>3, Zenon DEF WithinBudget, DynPeers, Flagged, MaxDyn
<1>4. CASE /\ ~TooMany(conns[c]) /\ peers' = [peers EXCEPT ![m] = c]
           /\ conns' = [conns EXCEPT ![c].peer = "run"]
  <2>1. \A d \in Conns : conns'[d].kind = conns[d].kind /\ conns'[d].id = conns[d].id
    <3> SUFFICES ASSUME NEW d \in Conns
                 PROVE  conns'[d].kind = conns[d].kind /\ conns'[d].id = conns[d].id
      BY Zenon
    <3>1. conns[d] \in ConnRecords
      BY <1>2, Zenon
    <3> QED BY <1>2, <1>4, <3>1, Zenon DEF ConnRecords
  <2>2. peers'[m] = c /\ \A n \in Nodes : n # m => peers'[n] = peers[n]
    BY <1>2, <1>4, Zenon
  <2>3. \A n \in Nodes : peers[n] # None => peers[n] \in Conns
    BY <1>2, Zenon
  <2>4. \A d \in Conns : Exempt(conns'[d]) <=> Exempt(conns[d])
    BY <2>1, Zenon DEF Exempt
  <2>5. \A n \in Counted' : n \in Nodes /\ (n \in Counted \/ (n = m /\ ~Exempt(conns[c])))
    <3> SUFFICES ASSUME NEW n \in Counted'
                 PROVE  n \in Nodes /\ (n \in Counted \/ (n = m /\ ~Exempt(conns[c])))
      BY Zenon
    <3>1. n \in Nodes /\ peers'[n] # None /\ ~Exempt(conns'[peers'[n]])
      BY Zenon DEF Counted, Exempt
    <3>2. CASE n = m
      BY <1>2, <2>2, <2>4, <3>1, <3>2, Zenon
    <3>3. CASE n # m
      <4>1. peers'[n] = peers[n] /\ peers[n] \in Conns
        BY <2>2, <2>3, <3>1, <3>3, Zenon
      <4> QED BY <2>4, <3>1, <4>1, Zenon DEF Counted
    <3> QED BY <3>2, <3>3, Zenon
  <2>6. conns[c].kind = "dyn" => dialing[m] = "dyn"
    <3>1. Looks(c)
      BY <1>1, Zenon DEF Looks
    <3>2. "dyn" # "inbound"
      BY Zenon
    <3> QED BY <1>2, <3>1, <3>2, Zenon DEF DInv, Outbound
  <2>7. \A n \in (DynPeers \cup Flagged("dyn"))' : n \in DynPeers \cup Flagged("dyn")
    <3> SUFFICES ASSUME NEW n \in (DynPeers \cup Flagged("dyn"))'
                 PROVE  n \in DynPeers \cup Flagged("dyn")
      BY Zenon
    <3>1. CASE n \in Nodes /\ dialing'[n] = "dyn"
      BY <1>1, <3>1, Zenon DEF Flagged
    <3>2. CASE n \in Nodes /\ peers'[n] # None /\ conns'[peers'[n]].kind = "dyn" /\ n = m
      <4>1. conns[c].kind = "dyn"
        BY <1>2, <2>1, <2>2, <3>2, Zenon
      <4> QED BY <2>6, <3>2, <4>1, Zenon DEF Flagged
    <3>3. CASE n \in Nodes /\ peers'[n] # None /\ conns'[peers'[n]].kind = "dyn" /\ n # m
      BY <2>1, <2>2, <2>3, <3>3, ZenonT(60) DEF DynPeers
    <3> QED BY <3>1, <3>2, <3>3, Zenon DEF DynPeers, Flagged
  <2>8. CASE Exempt(conns[c])
    <3>1. Counted' \subseteq Counted /\ (DynPeers \cup Flagged("dyn"))' \subseteq DynPeers \cup Flagged("dyn")
      BY <2>5, <2>7, <2>8, Zenon
    <3> QED BY <1>1, <1>2, <3>1, FewerPeers, Zenon
  <2>9. CASE ~Exempt(conns[c])
    <3> DEFINE P == {n \in Nodes : peers[n] # None}
    <3>1. ~(Cardinality(P) >= MaxPeers)
      BY <1>4, <2>9, Zenon DEF TooMany, NumPeers
    <3>2. P \subseteq Nodes /\ \A n \in Counted' : n \in P \cup {m}
      BY <2>5, Zenon DEF Counted
    <3> HIDE DEF P
    <3>3. IsFiniteSet(Nodes)
      BY ServerAssumption, Zenon
    <3>4. IsFiniteSet(P)
      BY <3>2, <3>3, FS_Subset, Zenon
    <3>5. Cardinality(P) \in Nat
      BY <3>4, FS_CardinalityType, Zenon
    <3>6. IsFiniteSet(P \cup {m}) /\ (Cardinality(P \cup {m}) = Cardinality(P)
                                      \/ Cardinality(P \cup {m}) = Cardinality(P) + 1)
      BY <3>4, FS_AddElement, Zenon
    <3>7. Counted' \subseteq P \cup {m}
      BY <3>2, Zenon
    <3>8. IsFiniteSet(Counted') /\ Cardinality(Counted') <= Cardinality(P \cup {m})
      BY <3>6, <3>7, FS_Subset, Zenon
    <3>9. Cardinality(Counted') \in Nat
      BY <3>8, FS_CardinalityType, Zenon
    <3>10. \A a, b, p, k \in Nat : a <= b /\ (b = p \/ b = p + 1) /\ ~(p >= k) => a <= k
      BY SMT
    <3>11. Cardinality(P \cup {m}) \in Nat
      BY <3>6, FS_CardinalityType, Zenon
    <3>12. Cardinality(Counted') <= MaxPeers
      BY <1>2, <3>1, <3>5, <3>6, <3>8, <3>9, <3>10, <3>11, ZenonT(60)
    <3>13. Cardinality((DynPeers \cup Flagged("dyn"))') <= MaxDyn
      <4>1. DynPeers \cup Flagged("dyn") \subseteq Nodes
        BY Zenon DEF DynPeers, Flagged
      <4>2. IsFiniteSet(DynPeers \cup Flagged("dyn"))
        BY <3>3, <4>1, FS_Subset, Zenon
      <4>3. (DynPeers \cup Flagged("dyn"))' \subseteq DynPeers \cup Flagged("dyn")
        BY <2>7, Zenon
      <4>4. /\ Cardinality((DynPeers \cup Flagged("dyn"))') <= Cardinality(DynPeers \cup Flagged("dyn"))
            /\ IsFiniteSet((DynPeers \cup Flagged("dyn"))')
        BY <4>2, <4>3, FS_Subset, ZenonT(60)
      <4>5. Cardinality((DynPeers \cup Flagged("dyn"))') \in Nat
            /\ Cardinality(DynPeers \cup Flagged("dyn")) \in Nat
        BY <4>2, <4>4, FS_CardinalityType, Zenon
      <4>6. Cardinality(DynPeers \cup Flagged("dyn")) <= MaxDyn
        BY Zenon DEF WithinBudget
      <4>7. MaxDyn \in Nat
        BY <1>2, SMTT(60) DEF MaxDyn
      <4>8. \A a, b, k \in Nat : a <= b /\ b <= k => a <= k
        BY SMT
      <4> QED BY <4>4, <4>5, <4>6, <4>7, <4>8, Zenon
    <3>14. MaxPeers' = MaxPeers /\ MaxDyn' = MaxDyn
      BY <1>1, Zenon DEF MaxDyn
    <3>15. Cardinality(Counted') <= MaxPeers' /\ Cardinality((DynPeers \cup Flagged("dyn"))') <= MaxDyn'
      BY <3>12, <3>13, <3>14, Zenon
    <3> QED BY <3>15, Zenon DEF WithinBudget, Counted
  <2> QED BY <2>8, <2>9, Zenon
<1> QED BY <1>1, <1>3, <1>4, Zenon

\* A prefix of a sequence has the elements of the one before it and one more.
LEMMA PrefixSets ==
  ASSUME NEW s \in Seq(Nodes)
  PROVE  /\ Range(SubSeq(s, 1, 0)) = {}
         /\ \A i \in 1..Len(s) : Range(SubSeq(s, 1, i)) \subseteq Range(SubSeq(s, 1, i - 1)) \cup {s[i]}
<1>1. Range(SubSeq(s, 1, 0)) = {}
  BY SMT DEF Range
<1>2. ASSUME NEW i \in 1..Len(s), NEW x \in Range(SubSeq(s, 1, i)), x # s[i]
      PROVE  x \in Range(SubSeq(s, 1, i - 1))
  <2>1. PICK j \in DOMAIN SubSeq(s, 1, i) : x = SubSeq(s, 1, i)[j]
    BY Zenon DEF Range
  <2>2. j \in 1..i /\ x = s[j]
    BY <2>1, SMT
  <2>3. j \in 1..(i - 1)
    BY <1>2, <2>2, SMTT(60)
  <2>4. j \in DOMAIN SubSeq(s, 1, i - 1) /\ SubSeq(s, 1, i - 1)[j] = s[j]
    BY <2>3, SMT
  <2> QED BY <2>2, <2>4, Zenon DEF Range
<1>3. \A i \in 1..Len(s) : Range(SubSeq(s, 1, i)) \subseteq Range(SubSeq(s, 1, i - 1)) \cup {s[i]}
  BY <1>2, Zenon
<1> QED BY <1>1, <1>3, Zenon

\* At most as many nodes of the buffer are dialled as are left to dial.
LEMMA BufferBudget ==
  ASSUME DInv, NEW random \in SUBSET Nodes, Left(random) \in Int
  PROVE  /\ Left(random) <= 0 => BufferDials(random) = {}
         /\ Left(random) >= 0 => Cardinality(BufferDials(random)) <= Left(random)
<1> DEFINE buf == lookup.buf
           F == Others(random)
           need == Left(random)
           i == Prefix(random)
           In(k) == F \cap Range(SubSeq(buf, 1, k))
<1>1. buf \in Seq(Nodes)
  BY Zenon DEF DInv, Tasks
<1>2. /\ i \in 0..Len(buf)
      /\ \A k \in 0..Len(buf) : Cardinality(In(k)) >= need => i <= k
  BY <1>1, PrefixFacts, Zenon DEF Prefix
<1>3. BufferDials(random) = In(i)
  BY Zenon DEF BufferDials
<1>4. F \subseteq Nodes /\ IsFiniteSet(Nodes)
  BY ServerAssumption, Zenon DEF Others, Free
<1>5. \A k : In(k) \subseteq Nodes
  BY <1>4, Zenon
<1>6. \A k : IsFiniteSet(In(k)) /\ Cardinality(In(k)) \in Nat
  <2> SUFFICES ASSUME NEW k PROVE IsFiniteSet(In(k)) /\ Cardinality(In(k)) \in Nat
    BY Zenon
  <2>1. IsFiniteSet(In(k))
    BY <1>4, <1>5, FS_Subset, Zenon
  <2> QED BY <2>1, FS_CardinalityType, Zenon
<1>7. In(0) = {}
  BY <1>1, PrefixSets, Zenon
<1>8. \A k \in 1..Len(buf) : In(k) \subseteq In(k - 1) \cup {buf[k]}
  BY <1>1, PrefixSets, Zenon
<1>9. Len(buf) \in Nat
  BY <1>1, SMT
<1>10. need \in Int
  BY Zenon
<1> HIDE DEF In, need, F, i, buf
<1>11. CASE i = 0
  <2>1. Cardinality(In(i)) = 0
    BY <1>7, <1>11, FS_EmptySet, Zenon
  <2>2. need >= 0 => Cardinality(In(i)) <= need
    BY <1>10, <2>1, Zenon
  <2> QED BY <1>3, <1>7, <1>11, <2>2, Zenon DEF need
<1>12. CASE i # 0
  <2>1. i \in 1..Len(buf) /\ i - 1 \in 0..Len(buf) /\ ~(i <= i - 1)
    BY <1>2, <1>9, <1>12, SMTT(60)
  <2>2. ~(Cardinality(In(i - 1)) >= need)
    BY <1>2, <2>1, Zenon
  <2>3. In(i) \subseteq In(i - 1) \cup {buf[i]}
    BY <1>8, <2>1, Zenon
  <2>4. IsFiniteSet(In(i - 1) \cup {buf[i]})
        /\ (Cardinality(In(i - 1) \cup {buf[i]}) = Cardinality(In(i - 1))
            \/ Cardinality(In(i - 1) \cup {buf[i]}) = Cardinality(In(i - 1)) + 1)
    BY <1>6, FS_AddElement, Zenon
  <2>5. Cardinality(In(i)) <= Cardinality(In(i - 1) \cup {buf[i]})
    BY <2>3, <2>4, FS_Subset, Zenon
  <2>6. Cardinality(In(i)) \in Nat /\ Cardinality(In(i - 1)) \in Nat
        /\ Cardinality(In(i - 1) \cup {buf[i]}) \in Nat
    BY <1>6, <2>4, FS_CardinalityType, ZenonT(60)
  <2>7. Cardinality(In(i)) <= need /\ ~(need <= 0)
    BY <1>10, <2>2, <2>4, <2>5, <2>6, SMTT(60)
  <2> QED BY <1>3, <2>7, Zenon DEF need
<1> QED BY <1>11, <1>12, Zenon

\* A tick dials no more dynamic nodes than the budget has room for.
LEMMA TickBudget ==
  ASSUME IInv, DInv, WithinBudget, NEW random \in SUBSET Nodes, Tick(random)
  PROVE  WithinBudget'
<1> DEFINE R == RandomDials(random)
           L == BufferDials(random)
           G == Flagged("dyn")
           P == DynPeers
<1>1. /\ MaxPeers' = MaxPeers /\ peers' = peers /\ conns' = conns
      /\ Cardinality(random) <= IF lookup.bootstrapped /\ NeedDyn > 1
                                THEN Min({NeedDyn \div 2, MaxDyn \div 2}) ELSE 0
  BY TickIs, Zenon
<1>2. MaxPeers \in Nat /\ MaxDyn \in Nat /\ MaxDyn' = MaxDyn
  <2>1. MaxPeers \in Nat
    BY Zenon DEF DInv, Tasks
  <2>2. MaxDyn \in Nat
    BY <2>1, SMT DEF MaxDyn
  <2>3. MaxDyn' = MaxDyn
    BY <1>1, Zenon DEF MaxDyn
  <2> QED BY <2>1, <2>2, <2>3, Zenon
<1>3. Counted' = Counted /\ DynPeers' = P
  BY <1>1, Zenon DEF Counted, DynPeers, Exempt
<1>4. \A n \in Flagged("dyn")' : n \in G \cup (R \cup L)
  BY TickDialing, Zenon DEF Flagged
<1>5. R \subseteq random /\ R \subseteq Nodes /\ L \subseteq Nodes /\ P \subseteq Nodes /\ G \subseteq Nodes
      /\ NeedDyn = MaxDyn - Cardinality(P) - Cardinality(G)
      /\ Left(random) = NeedDyn - Cardinality(R)
  BY Zenon DEF RandomDials, BufferDials, Others, Free, DynPeers, Flagged, NeedDyn, Left
<1>6. IsFiniteSet(Nodes)
  BY ServerAssumption, Zenon
<1> HIDE DEF R, L, G, P
<1>7. IsFiniteSet(random) /\ IsFiniteSet(R) /\ IsFiniteSet(L) /\ IsFiniteSet(P) /\ IsFiniteSet(G)
  BY <1>5, <1>6, FS_Subset, Zenon
<1>8. /\ Cardinality(random) \in Nat /\ Cardinality(R) \in Nat /\ Cardinality(L) \in Nat
      /\ Cardinality(P) \in Nat /\ Cardinality(G) \in Nat
  BY <1>7, FS_CardinalityType, Zenon
<1>9. Cardinality(R) <= Cardinality(random)
  BY <1>5, <1>7, FS_Subset, Zenon
<1>10. NeedDyn \in Int /\ Left(random) \in Int
  BY <1>2, <1>5, <1>8, SMT
<1>11. /\ Left(random) <= 0 => L = {}
       /\ Left(random) >= 0 => Cardinality(L) <= Left(random)
  BY <1>10, BufferBudget, Zenon DEF L
<1>12. CASE NeedDyn <= 0
  <2>1. ~(NeedDyn > 1)
    BY <1>10, <1>12, SMT
  <2>2. Cardinality(random) <= 0
    BY <1>1, <2>1, Zenon
  <2>3. Cardinality(R) = 0 /\ Left(random) <= 0
    BY <1>5, <1>8, <1>9, <1>10, <1>12, <2>2, SMTT(60)
  <2>4. R = {} /\ L = {}
    BY <1>7, <1>11, <2>3, FS_EmptySet, Zenon
  <2>5. (DynPeers \cup Flagged("dyn"))' \subseteq DynPeers \cup Flagged("dyn")
    BY <1>3, <1>4, <2>4, Zenon DEF P, G
  <2> QED BY <1>1, <1>2, <1>3, <2>5, FewerPeers, Zenon
<1>13. CASE ~(NeedDyn <= 0)
  <2>1. Cardinality(random) <= NeedDyn
    <3>1. CASE NeedDyn > 1
      <4> DEFINE M == {NeedDyn \div 2, MaxDyn \div 2}
      <4>1. NeedDyn \div 2 \in Nat /\ MaxDyn \div 2 \in Nat /\ NeedDyn \div 2 <= NeedDyn
        BY <1>2, <1>10, <3>1, SMT
      <4>2. M \in SUBSET Nat /\ M # {}
        BY <4>1, Zenon
      <4>3. Min(M) \in Nat /\ Min(M) <= NeedDyn \div 2
        BY <4>2, MinFacts, Zenon
      <4>4. Cardinality(random) <= Min(M) \/ Cardinality(random) <= 0
        BY <1>1, Zenon
      <4> HIDE DEF M
      <4> QED BY <1>8, <1>10, <3>1, <4>1, <4>3, <4>4, SMTT(60)
    <3>2. CASE ~(NeedDyn > 1)
      <4>1. Cardinality(random) <= 0
        BY <1>1, <3>2, Zenon
      <4> QED BY <1>8, <1>10, <1>13, <4>1, SMTT(60)
    <3> QED BY <3>1, <3>2, Zenon
  <2>2. Left(random) >= 0
    BY <1>5, <1>8, <1>9, <1>10, <2>1, SMTT(60)
  <2>3. Cardinality(L) <= Left(random)
    BY <1>11, <2>2, Zenon
  <2>4. Cardinality(P) + Cardinality(G) + Cardinality(R) + Cardinality(L) <= MaxDyn
    BY <1>2, <1>5, <1>8, <1>10, <2>3, SMTT(60)
  <2>5. /\ IsFiniteSet(R \cup L)
        /\ Cardinality(R \cup L) = Cardinality(R) + Cardinality(L) - Cardinality(R \cap L)
    BY <1>7, FS_Union, Zenon
  <2>6. /\ IsFiniteSet(G \cup (R \cup L))
        /\ Cardinality(G \cup (R \cup L))
             = Cardinality(G) + Cardinality(R \cup L) - Cardinality(G \cap (R \cup L))
    BY <1>7, <2>5, FS_Union, Zenon
  <2>7. /\ IsFiniteSet(P \cup (G \cup (R \cup L)))
        /\ Cardinality(P \cup (G \cup (R \cup L)))
             = Cardinality(P) + Cardinality(G \cup (R \cup L)) - Cardinality(P \cap (G \cup (R \cup L)))
    BY <1>7, <2>6, FS_Union, Zenon
  <2>8. /\ IsFiniteSet(R \cap L) /\ IsFiniteSet(G \cap (R \cup L))
        /\ IsFiniteSet(P \cap (G \cup (R \cup L)))
    BY <1>7, FS_Intersection, Zenon
  <2>9. /\ Cardinality(R \cap L) \in Nat /\ Cardinality(G \cap (R \cup L)) \in Nat
        /\ Cardinality(P \cap (G \cup (R \cup L))) \in Nat
    BY <2>8, FS_CardinalityType, Zenon
  <2> DEFINE U == P \cup (G \cup (R \cup L))
             V == (DynPeers \cup Flagged("dyn"))'
  <2>10. Cardinality(U) <= MaxDyn
    <3> DEFINE rl == Cardinality(R \cup L)
               grl == Cardinality(G \cup (R \cup L))
    <3>1. rl \in Nat /\ grl \in Nat /\ Cardinality(U) \in Nat
      BY <2>5, <2>6, <2>7, FS_CardinalityType, Zenon
    <3>2. rl <= Cardinality(R) + Cardinality(L)
      BY <1>8, <2>5, <2>9, <3>1, SMTT(60)
    <3>3. grl <= Cardinality(G) + rl
      BY <1>8, <2>6, <2>9, <3>1, SMTT(60)
    <3>4. Cardinality(U) <= Cardinality(P) + grl
      BY <1>8, <2>7, <2>9, <3>1, SMT
    <3> HIDE DEF rl, grl, U
    <3> QED BY <1>2, <1>8, <2>4, <3>1, <3>2, <3>3, <3>4, SMTT(60)
  <2>11. V \subseteq U
    BY <1>3, <1>4, Zenon
  <2>12. IsFiniteSet(V) /\ Cardinality(V) <= Cardinality(U)
    BY <2>7, <2>11, FS_Subset, Zenon
  <2>13. Cardinality(V) \in Nat /\ Cardinality(U) \in Nat
    BY <2>7, <2>12, FS_CardinalityType, Zenon
  <2>14. \A a, b, k \in Nat : a <= b /\ b <= k => a <= k
    BY SMT
  <2>15. Cardinality(V) <= MaxDyn'
    BY <1>2, <2>10, <2>12, <2>13, <2>14, Zenon
  <2>16. Cardinality(Counted') <= MaxPeers'
    BY <1>1, <1>3, Zenon DEF WithinBudget, Counted
  <2> QED BY <2>15, <2>16, Zenon DEF WithinBudget, Counted
<1> QED BY <1>12, <1>13, Zenon

\* Of the peers that are neither trusted nor dialled as static, at most MaxPeers are
\* connected at a time, and at most half of MaxPeers are dialled dynamically, the
\* dials under way, pending or lost included, for any nodes, limits and lookup results
\* (encHandshakeChecks, newTasks).
THEOREM AlwaysWithinBudget == Spec => []WithinBudget
<1>1. Init => IInv /\ DInv /\ WithinBudget
  <2> SUFFICES ASSUME Init PROVE WithinBudget
    BY InitHolds, DialerInit, Zenon
  <2>1. MaxPeers \in Nat
    BY ServerAssumption, Zenon DEF Init
  <2>2. MaxDyn \in Nat
    BY <2>1, SMT DEF MaxDyn
  <2>3. peers = [n \in Nodes |-> None] /\ dialing = [n \in Nodes |-> "no"]
    BY Zenon DEF Init
  <2>4. "no" # "dyn"
    BY Zenon
  <2>5. Counted = {} /\ DynPeers \cup Flagged("dyn") = {}
    BY <2>3, <2>4, Zenon DEF Counted, DynPeers, Flagged
  <2>6. Cardinality(Counted) = 0 /\ Cardinality(DynPeers \cup Flagged("dyn")) = 0
    BY <2>5, FS_EmptySet, Zenon
  <2>7. Cardinality(Counted) <= MaxPeers /\ Cardinality(DynPeers \cup Flagged("dyn")) <= MaxDyn
    BY <2>1, <2>2, <2>6, SMTT(60)
  <2> QED BY <2>7, Zenon DEF WithinBudget, Counted
<1>2. IInv /\ DInv /\ [Next]_vars => IInv' /\ DInv'
  BY StepHolds, DialerHolds, Zenon
<1>3. IInv /\ DInv /\ WithinBudget /\ [Next]_vars => WithinBudget'
  <2> SUFFICES ASSUME IInv, DInv, WithinBudget, [Next]_vars PROVE WithinBudget'
    BY Zenon
  <2>1. CASE \E random \in SUBSET Nodes : Tick(random)
    BY <2>1, TickBudget, Zenon
  <2>2. CASE \E useful \in BOOLEAN : Check(useful)
    BY <2>2, CheckBudget, Zenon
  <2>3. CASE /\ ~\E random \in SUBSET Nodes : Tick(random)
             /\ ~\E useful \in BOOLEAN : Check(useful)
    <3>1. IInv'
      BY <1>2, Zenon
    <3>2. Counted' \subseteq Counted /\ DynPeers' \subseteq DynPeers
      BY <2>3, <3>1, PeersStay, Zenon
    <3>3. Flagged("dyn")' \subseteq Flagged("dyn") /\ MaxPeers' = MaxPeers
      BY <2>3, DialsStay, Zenon
    <3>4. (DynPeers \cup Flagged("dyn"))' \subseteq DynPeers \cup Flagged("dyn")
      BY <3>2, <3>3, Zenon
    <3>5. MaxPeers \in Nat
      BY Zenon DEF DInv, Tasks
    <3> QED BY <3>2, <3>3, <3>4, <3>5, FewerPeers, Zenon
  <2> QED BY <2>1, <2>2, <2>3, Zenon
<1> QED BY <1>1, <1>2, <1>3, PTL DEF Spec
=============================================================================
