-------------------------- MODULE DiscoveryProofs --------------------------
(***************************************************************************)
(* Proofs about p2p/discover, for any number of nodes, of bonding slots and *)
(* of bucket entries.  Three inductive invariants, each resting on the one  *)
(* before:                                                                 *)
(*  IInv  bond and pingpong: one ping/pong exchange per node, named by the  *)
(*        bonding map, joined only while it can still finish, and as many   *)
(*        slots in use as exchanges run;                                   *)
(*  TInv  the table: whatever node a bond, a lookup, the database or the    *)
(*        bucket speaks of has answered a ping or was stored before;        *)
(*  UInv  the transport: a goroutine that waits on its errc has one entry   *)
(*        in the list or one value in the channel, and no one else has.     *)
(***************************************************************************)
EXTENDS Discovery, FiniteSetTheorems, TLAPS

RunPcs == {"pinging", "waitping", "waiting"}
PlainPcs == {"none", "start", "lookup", "add", "contest", "contesting", "added", "return"}

\* The exchanges that hold a slot.
Running == {b \in Bonders : bond[b].pc \in RunPcs}

\* A Bond record, whatever its fields hold.
Shape(r) == r \in [pc : {r.pc}, node : {r.node}, ok : {r.ok}, oldest : {r.oldest}]
BondShape ==
  /\ bond \in [Bonders -> {bond[b] : b \in Bonders}]
  /\ \A b \in Bonders : Shape(bond[b])

\* The bonding map names the bond that runs the node's bondproc, and that bond only.
OwnersNamed ==
  /\ bonding \in [Nodes -> Bonders \cup {None}]
  /\ \A b \in Bonders : Owns(b) <=> bonding[b[1]] = b
  /\ \A n \in Nodes : bonding[n] # None => bonding[n][1] = n

\* Whoever waits for a bondproc waits for one that is still to finish.
Waiters ==
  \A b \in Bonders : bond[b].pc = "wait" =>
    bonding[b[1]] # None /\ bond[bonding[b[1]]].pc # "unregister"

SlotsExact ==
  /\ slots \in Nat /\ IsFiniteSet(Running)
  /\ slots = MaxBonding - Cardinality(Running)

BInv == BondShape /\ OwnersNamed /\ Waiters /\ SlotsExact

\* The bonds that bondall has started are those it awaits, and it awaits some only
\* while its caller waits for it; a refresh that is not running has no lookup.
LookShape ==
  look \in [pc : {look.pc}, phase : {look.phase}, todo : {look.todo}, asked : {look.asked},
            from : {look.from}, awaited : {look.awaited}, got : {look.got}]
LookExact ==
  /\ LookShape
  /\ \A n \in Nodes : bond[<<n, "lookup">>].pc # "none" => n \in look.awaited
  /\ look.awaited # {} => look.pc \in {"bonding", "seeding"}
  /\ refresh # "running" => look.pc = "none"

IInv == BInv /\ LookExact

-----------------------------------------------------------------------------
\* The parts of a bonder.
LEMMA BonderParts ==
  ASSUME NEW b \in Bonders PROVE b[1] \in Nodes /\ b = <<b[1], b[2]>> /\ None \notin Bonders
BY DiscoveryAssumption DEF Bonders

\* The inductive form says what BondsExact says.
LEMMA InvIsExact == BInv => BondsExact
<1> SUFFICES ASSUME BInv PROVE BondsExact
  BY Zenon
<1>1. ASSUME NEW n \in Nodes
      PROVE  {b \in Bonders : b[1] = n /\ Owns(b)}
               = IF bonding[n] = None THEN {} ELSE {bonding[n]}
  <2>1. \A b \in Bonders : Owns(b) <=> bonding[b[1]] = b
    BY Zenon DEF BInv, OwnersNamed
  <2>2. bonding[n] \in Bonders \cup {None} /\ (bonding[n] # None => bonding[n][1] = n)
    BY Zenon DEF BInv, OwnersNamed
  <2>3. CASE bonding[n] = None
    BY <2>1, <2>3, BonderParts, Zenon
  <2>4. CASE bonding[n] # None
    <3>1. ASSUME NEW b \in Bonders PROVE (b[1] = n /\ Owns(b)) <=> b = bonding[n]
      BY <2>1, <2>2, <2>4, Zenon
    <3> QED BY <3>1, <2>2, <2>4, Zenon
  <2> QED BY <2>3, <2>4, Zenon
<1>2. \A b \in Bonders : bond[b].pc = "wait" =>
        bonding[b[1]] # None /\ bond[bonding[b[1]]].pc # "unregister"
  BY Zenon DEF BInv, Waiters
<1>3. slots = MaxBonding
         - Cardinality({b \in Bonders : bond[b].pc \in {"pinging", "waitping", "waiting"}})
  BY Zenon DEF BInv, SlotsExact, Running, RunPcs
<1> QED BY <1>1, <1>2, <1>3, Zenon DEF BondsExact

\* One bond's record changes.
LEMMA SetOne ==
  ASSUME BondShape, NEW b \in Bonders, NEW r, Shape(r), bond' = [bond EXCEPT ![b] = r]
  PROVE  BondShape' /\ bond'[b] = r /\ \A c \in Bonders \ {b} : bond'[c] = bond[c]
<1>1. bond'[b] = r /\ \A c \in Bonders \ {b} : bond'[c] = bond[c]
  BY Zenon DEF BondShape
<1>2. bond' \in [Bonders -> {bond'[c] : c \in Bonders}]
  BY Zenon DEF BondShape
<1>3. \A c \in Bonders : Shape(bond'[c])
  BY <1>1, Zenon DEF BondShape
<1> QED BY <1>1, <1>2, <1>3, Zenon DEF BondShape

\* The EXCEPTs of the actions on one record.
LEMMA PcSet ==
  ASSUME BondShape, NEW b \in Bonders, NEW pc, Step(b, pc)
  PROVE  \E r : Shape(r) /\ r.pc = pc /\ bond' = [bond EXCEPT ![b] = r]
<1> DEFINE r == [bond[b] EXCEPT !.pc = pc]
<1>1. Shape(bond[b])
  BY Zenon DEF BondShape
<1>2. Shape(r) /\ r.pc = pc
  BY <1>1, Zenon DEF Shape
<1>3. bond' = [bond EXCEPT ![b] = r]
  BY Zenon DEF Step, BondShape
<1> QED BY <1>2, <1>3, ZenonT(60)

\* A bond moves within the steps that hold nothing, or within those of a running
\* exchange.
LEMMA MoveKeeps ==
  ASSUME BInv, NEW b \in Bonders, NEW r, Shape(r), bond' = [bond EXCEPT ![b] = r],
         UNCHANGED <<bonding, slots>>,
         \/ bond[b].pc \in PlainPcs /\ r.pc \in PlainPcs
         \/ bond[b].pc \in RunPcs /\ r.pc \in RunPcs
  PROVE  BInv'
<1>1. BondShape' /\ bond'[b] = r /\ \A c \in Bonders \ {b} : bond'[c] = bond[c]
  BY SetOne, ZenonT(60) DEF BInv
<1>2. \A c \in Bonders : /\ Owns(c)' <=> Owns(c)
                         /\ bond'[c].pc \in RunPcs <=> bond[c].pc \in RunPcs
                         /\ bond'[c].pc = "wait" <=> bond[c].pc = "wait"
                         /\ bond'[c].pc = "unregister" <=> bond[c].pc = "unregister"
  BY <1>1, Zenon DEF Owns, RunPcs, PlainPcs
<1>3. Running' = Running
  BY <1>2, Zenon DEF Running
<1>4. SlotsExact'
  BY <1>3, Zenon DEF BInv, SlotsExact
<1>5. OwnersNamed'
  BY <1>2, Zenon DEF BInv, OwnersNamed
<1>6. Waiters'
  <2> SUFFICES ASSUME NEW c \in Bonders, bond'[c].pc = "wait"
               PROVE  bonding[c[1]] # None /\ bond'[bonding[c[1]]].pc # "unregister"
    BY Zenon DEF Waiters
  <2>1. bonding[c[1]] # None /\ bond[bonding[c[1]]].pc # "unregister"
    BY <1>2, Zenon DEF BInv, Waiters
  <2>2. bonding[c[1]] \in Bonders
    BY <2>1, BonderParts, SMTT(60) DEF BInv, OwnersNamed
  <2> QED BY <2>1, <2>2, <1>2, Zenon
<1> QED BY <1>1, <1>4, <1>5, <1>6, Zenon DEF BInv

\* Under bondmu: a bond registers a bondproc, joins one, or reads the result of one.
LEMMA RegisterKeeps ==
  ASSUME BInv, NEW b \in Bonders, BondRegisters(b) PROVE BInv'
<1> DEFINE n == b[1]
           w == bonding[n]
<1>0. BondShape /\ n \in Nodes /\ None \notin Bonders
  BY BonderParts, Zenon DEF BInv
<1>1. bond[b].pc = "lookup" /\ UNCHANGED slots
  BY Zenon DEF BondRegisters
<1>2. CASE w = None /\ bonding' = [bonding EXCEPT ![n] = b] /\ Step(b, "slot")
  <2>1. PICK r : Shape(r) /\ r.pc = "slot" /\ bond' = [bond EXCEPT ![b] = r]
    BY <1>0, <1>2, PcSet, Zenon
  <2>2. BondShape' /\ bond'[b] = r /\ \A c \in Bonders \ {b} : bond'[c] = bond[c]
    BY <1>0, <2>1, SetOne, ZenonT(60)
  <2>3. bonding' \in [Nodes -> Bonders \cup {None}] /\ bonding'[n] = b
        /\ \A m \in Nodes \ {n} : bonding'[m] = bonding[m]
    BY <1>0, <1>2, Zenon DEF BInv, OwnersNamed
  <2>4. Running' = Running
    BY <1>1, <2>1, <2>2, Zenon DEF Running, RunPcs
  <2>5. ASSUME NEW c \in Bonders PROVE Owns(c)' <=> bonding'[c[1]] = c
    <3>1. c[1] \in Nodes /\ (Owns(c) <=> bonding[c[1]] = c)
      BY BonderParts, Zenon DEF BInv, OwnersNamed
    <3>2. CASE c = b
      BY <3>2, <2>1, <2>2, <2>3, Zenon DEF Owns
    <3>3. CASE c # b
      <4>1. Owns(c)' <=> Owns(c)
        BY <3>3, <2>2, Zenon DEF Owns
      <4>2. CASE c[1] = n
        BY <4>1, <4>2, <3>1, <3>3, <2>3, <1>0, <1>2, Zenon
      <4>3. CASE c[1] # n
        BY <4>1, <4>3, <3>1, <2>3, Zenon
      <4> QED BY <4>2, <4>3, Zenon
    <3> QED BY <3>2, <3>3, Zenon
  <2>6. ASSUME NEW m \in Nodes, bonding'[m] # None PROVE bonding'[m][1] = m
    BY <2>3, <2>6, Zenon DEF BInv, OwnersNamed
  <2>7. OwnersNamed'
    BY <2>3, <2>5, <2>6, Zenon DEF OwnersNamed
  <2>8. Waiters'
    <3> SUFFICES ASSUME NEW c \in Bonders, bond'[c].pc = "wait"
                 PROVE  bonding'[c[1]] # None /\ bond'[bonding'[c[1]]].pc # "unregister"
      BY Zenon DEF Waiters
    <3>1. c # b /\ bond[c].pc = "wait" /\ c[1] \in Nodes
      BY <2>1, <2>2, BonderParts, Zenon
    <3>2. bonding[c[1]] # None /\ bond[bonding[c[1]]].pc # "unregister"
      BY <3>1, Zenon DEF BInv, Waiters
    <3>3. c[1] # n
      BY <3>2, <1>2, Zenon
    <3>4. bonding'[c[1]] = bonding[c[1]] /\ bonding[c[1]] \in Bonders
      BY <3>1, <3>2, <3>3, <2>3 DEF BInv, OwnersNamed
    <3>5. bonding[c[1]] # b
      BY <3>1, <3>2, <3>3, Zenon DEF BInv, OwnersNamed
    <3> QED BY <3>2, <3>4, <3>5, <2>2, Zenon
  <2>9. SlotsExact'
    BY <2>4, <1>1, Zenon DEF BInv, SlotsExact
  <2> QED BY <2>2, <2>7, <2>8, <2>9, Zenon DEF BInv
<1>3. CASE w # None /\ bond[w].pc # "unregister" /\ Step(b, "wait") /\ UNCHANGED bonding
  <2>1. PICK r : Shape(r) /\ r.pc = "wait" /\ bond' = [bond EXCEPT ![b] = r]
    BY <1>0, <1>3, PcSet, Zenon
  <2>2. BondShape' /\ bond'[b] = r /\ \A c \in Bonders \ {b} : bond'[c] = bond[c]
    BY <1>0, <2>1, SetOne, ZenonT(60)
  <2>3. Running' = Running
    BY <1>1, <2>1, <2>2, Zenon DEF Running, RunPcs
  <2>4. \A c \in Bonders : /\ Owns(c)' <=> Owns(c)
                           /\ bond'[c].pc = "unregister" <=> bond[c].pc = "unregister"
    BY <1>1, <2>1, <2>2, Zenon DEF Owns
  <2>5. OwnersNamed'
    BY <2>4, <1>3, Zenon DEF BInv, OwnersNamed
  <2>6. Waiters'
    <3> SUFFICES ASSUME NEW c \in Bonders, bond'[c].pc = "wait"
                 PROVE  bonding[c[1]] # None /\ bond'[bonding[c[1]]].pc # "unregister"
      BY <1>3, Zenon DEF Waiters
    <3>1. bonding[c[1]] # None /\ bond[bonding[c[1]]].pc # "unregister"
      BY <2>2, <1>3, Zenon DEF BInv, Waiters
    <3>2. bonding[c[1]] \in Bonders
      BY <3>1, BonderParts DEF BInv, OwnersNamed
    <3> QED BY <3>1, <3>2, <2>4, Zenon
  <2>7. SlotsExact'
    BY <2>3, <1>1, Zenon DEF BInv, SlotsExact
  <2> QED BY <2>2, <2>5, <2>6, <2>7, Zenon DEF BInv
<1>4. CASE /\ bond' = [bond EXCEPT ![b].pc = After(bond[b].node, bond[w].ok),
                                   ![b].node = @ \/ bond[w].ok]
           /\ UNCHANGED bonding
  <2> DEFINE r == [bond[b] EXCEPT !.pc = After(bond[b].node, bond[w].ok),
                                  !.node = @ \/ bond[w].ok]
  <2>1. Shape(bond[b]) /\ After(bond[b].node, bond[w].ok) \in PlainPcs
    BY <1>0, Zenon DEF BondShape, After, PlainPcs
  <2>2. Shape(r) /\ r.pc = After(bond[b].node, bond[w].ok)
    BY <2>1, ZenonT(60) DEF Shape
  <2>3. bond' = [bond EXCEPT ![b] = r]
    BY <1>4, <1>0, ZenonT(60) DEF BondShape
  <2>4. bond[b].pc \in PlainPcs
    BY <1>1, Zenon DEF PlainPcs
  <2> HIDE DEF r
  <2> QED BY <2>1, <2>2, <2>3, <2>4, <1>1, <1>4, MoveKeeps, ZenonT(60)
<1> QED BY <1>2, <1>3, <1>4, Zenon DEF BondRegisters

\* pingpong takes a slot.
LEMMA PingKeeps ==
  ASSUME BInv, NEW b \in Bonders, bond[b].pc = "slot", slots > 0, slots' = slots - 1,
         Step(b, "pinging"), UNCHANGED bonding
  PROVE  BInv'
<1>0. BondShape
  BY Zenon DEF BInv
<1>1. PICK r : Shape(r) /\ r.pc = "pinging" /\ bond' = [bond EXCEPT ![b] = r]
  BY <1>0, PcSet, Zenon
<1>2. BondShape' /\ bond'[b] = r /\ \A c \in Bonders \ {b} : bond'[c] = bond[c]
  BY <1>0, <1>1, SetOne, ZenonT(60)
<1>3. b \notin Running /\ Running' = Running \cup {b}
  BY <1>1, <1>2, Zenon DEF Running, RunPcs
<1>4. IsFiniteSet(Running') /\ Cardinality(Running') = Cardinality(Running) + 1
  BY <1>3, FS_AddElement, Zenon DEF BInv, SlotsExact
<1>5. Cardinality(Running) \in Nat
  BY FS_CardinalityType, Zenon DEF BInv, SlotsExact
<1>6. SlotsExact'
  BY <1>4, <1>5, DiscoveryAssumption DEF BInv, SlotsExact
<1>7. \A c \in Bonders : /\ Owns(c)' <=> Owns(c)
                         /\ bond'[c].pc = "wait" <=> bond[c].pc = "wait"
                         /\ bond'[c].pc = "unregister" <=> bond[c].pc = "unregister"
  BY <1>1, <1>2, Zenon DEF Owns
<1>8. OwnersNamed'
  BY <1>7, Zenon DEF BInv, OwnersNamed
<1>9. Waiters'
  <2> SUFFICES ASSUME NEW c \in Bonders, bond'[c].pc = "wait"
               PROVE  bonding[c[1]] # None /\ bond'[bonding[c[1]]].pc # "unregister"
    BY Zenon DEF Waiters
  <2>1. bonding[c[1]] # None /\ bond[bonding[c[1]]].pc # "unregister"
    BY <1>7, Zenon DEF BInv, Waiters
  <2>2. bonding[c[1]] \in Bonders
    BY <2>1, BonderParts DEF BInv, OwnersNamed
  <2> QED BY <2>1, <2>2, <1>7, Zenon
<1> QED BY <1>2, <1>6, <1>8, <1>9, Zenon DEF BInv

\* pingpong ends: the bonds that joined it go on, and the slot goes back.
LEMMA FinishKeeps ==
  ASSUME BInv, NEW b \in Bonders, bond[b].pc \in RunPcs, NEW ok \in BOOLEAN, Finish(b, ok),
         UNCHANGED bonding
  PROVE  BInv' /\ \A c \in Bonders : bond[c].pc = "none" => bond'[c].pc = "none"
<1> DEFINE r == [bond[b] EXCEPT !.pc = "unregister", !.ok = ok]
           rel(c) == [bond[c] EXCEPT !.pc = After(bond[c].node, ok), !.node = @ \/ ok]
<1>0. BondShape /\ \A c \in Bonders : Shape(bond[c])
  BY Zenon DEF BInv, BondShape
<1>1. bond' = [c \in Bonders |-> IF c = b THEN r
                                 ELSE IF c[1] = b[1] /\ bond[c].pc = "wait" THEN rel(c)
                                 ELSE bond[c]]
      /\ slots' = slots + 1
  BY ZenonT(60) DEF Finish
<1>2. Shape(r) /\ r.pc = "unregister"
  BY <1>0, ZenonT(60) DEF Shape
<1>3. ASSUME NEW c \in Bonders
      PROVE  Shape(rel(c)) /\ rel(c).pc \in {"add", "return"}
  <2>1. After(bond[c].node, ok) \in {"add", "return"}
    BY Zenon DEF After
  <2>2. Shape(bond[c])
    BY <1>0, Zenon
  <2> QED BY <2>1, <2>2, ZenonT(60) DEF Shape
<1> HIDE DEF r, rel
<1>4. /\ bond'[b] = r
      /\ \A c \in Bonders \ {b} : c[1] = b[1] /\ bond[c].pc = "wait" => bond'[c] = rel(c)
      /\ \A c \in Bonders \ {b} : ~(c[1] = b[1] /\ bond[c].pc = "wait") => bond'[c] = bond[c]
  BY <1>1, Zenon
<1>5. BondShape'
  <2>1. bond' \in [Bonders -> {bond'[c] : c \in Bonders}]
    BY <1>1, Zenon
  <2>2. ASSUME NEW c \in Bonders PROVE Shape(bond'[c])
    BY <1>0, <1>2, <1>3, <1>4, Zenon
  <2> QED BY <2>1, <2>2, Zenon DEF BondShape
<1>6. \A c \in Bonders : /\ Owns(c)' <=> Owns(c)
                         /\ c # b => (bond'[c].pc \in RunPcs <=> bond[c].pc \in RunPcs)
                         /\ bond'[c].pc = "wait" => bond[c].pc = "wait" /\ c[1] # b[1]
                         /\ bond'[c].pc = "unregister" => c = b \/ bond[c].pc = "unregister"
                         /\ bond[c].pc = "none" => bond'[c].pc = "none"
  <2> SUFFICES ASSUME NEW c \in Bonders
               PROVE  /\ Owns(c)' <=> Owns(c)
                      /\ c # b => (bond'[c].pc \in RunPcs <=> bond[c].pc \in RunPcs)
                      /\ bond'[c].pc = "wait" => bond[c].pc = "wait" /\ c[1] # b[1]
                      /\ bond'[c].pc = "unregister" => c = b \/ bond[c].pc = "unregister"
                      /\ bond[c].pc = "none" => bond'[c].pc = "none"
    BY Zenon
  <2>1. CASE c = b
    BY <2>1, <1>2, <1>4, Zenon DEF Owns, RunPcs
  <2>2. CASE c # b /\ c[1] = b[1] /\ bond[c].pc = "wait"
    BY <2>2, <1>3, <1>4, Zenon DEF Owns, RunPcs
  <2>3. CASE c # b /\ ~(c[1] = b[1] /\ bond[c].pc = "wait")
    BY <2>3, <1>4, Zenon DEF Owns, RunPcs
  <2> QED BY <2>1, <2>2, <2>3, Zenon
<1>7. b \in Running /\ Running' = Running \ {b}
  BY <1>2, <1>4, <1>6, Zenon DEF Running, RunPcs
<1>8. IsFiniteSet(Running') /\ Cardinality(Running') = Cardinality(Running) - 1
  BY <1>7, FS_RemoveElement, Zenon DEF BInv, SlotsExact
<1>9. Cardinality(Running) \in Nat
  BY FS_CardinalityType, Zenon DEF BInv, SlotsExact
<1>10. SlotsExact'
  BY <1>1, <1>8, <1>9, DiscoveryAssumption DEF BInv, SlotsExact
<1>11. OwnersNamed'
  BY <1>6, Zenon DEF BInv, OwnersNamed
<1>12. Waiters'
  <2> SUFFICES ASSUME NEW c \in Bonders, bond'[c].pc = "wait"
               PROVE  bonding[c[1]] # None /\ bond'[bonding[c[1]]].pc # "unregister"
    BY Zenon DEF Waiters
  <2>1. /\ c[1] # b[1] /\ c[1] \in Nodes
        /\ bonding[c[1]] # None /\ bond[bonding[c[1]]].pc # "unregister"
    BY <1>6, BonderParts, Zenon DEF BInv, Waiters
  <2>2. bonding[c[1]] \in Bonders /\ bonding[c[1]] # b
    BY <2>1 DEF BInv, OwnersNamed
  <2> QED BY <2>1, <2>2, <1>6, Zenon
<1> QED BY <1>5, <1>6, <1>10, <1>11, <1>12, Zenon DEF BInv

\* The bondproc leaves the map; nobody waits for it any more.
LEMMA UnregisterKeeps ==
  ASSUME BInv, NEW b \in Bonders, BondUnregisters(b) PROVE BInv'
<1> DEFINE n == b[1]
           pc == After(bond[b].node, bond[b].ok)
           r == [bond[b] EXCEPT !.pc = pc, !.node = @ \/ bond[b].ok, !.ok = FALSE]
<1>0. BondShape /\ Shape(bond[b]) /\ n \in Nodes /\ None \notin Bonders
  BY BonderParts, Zenon DEF BInv, BondShape
<1>1. /\ bond[b].pc = "unregister" /\ bonding' = [bonding EXCEPT ![n] = None]
      /\ bond' = [bond EXCEPT ![b] = r] /\ slots' = slots
  BY <1>0, ZenonT(60) DEF BondUnregisters, BondShape
<1>2. pc \in {"add", "return"}
  BY Zenon DEF After
<1>3. Shape(r) /\ r.pc = pc
  BY <1>0, ZenonT(60) DEF Shape
<1> HIDE DEF r, pc
<1>4. BondShape' /\ bond'[b] = r /\ \A c \in Bonders \ {b} : bond'[c] = bond[c]
  BY <1>0, <1>1, <1>3, SetOne, ZenonT(60)
<1>5. /\ bonding' \in [Nodes -> Bonders \cup {None}] /\ bonding'[n] = None
      /\ \A m \in Nodes \ {n} : bonding'[m] = bonding[m]
  BY <1>0, <1>1, Zenon DEF BInv, OwnersNamed
<1>6. bonding[n] = b
  BY <1>0, <1>1, Zenon DEF BInv, OwnersNamed, Owns
<1>7. Running' = Running
  BY <1>1, <1>2, <1>3, <1>4, Zenon DEF Running, RunPcs
<1>8. SlotsExact'
  BY <1>1, <1>7, Zenon DEF BInv, SlotsExact
<1>9. ASSUME NEW c \in Bonders PROVE Owns(c)' <=> bonding'[c[1]] = c
  <2>1. c[1] \in Nodes /\ (Owns(c) <=> bonding[c[1]] = c)
    BY BonderParts, Zenon DEF BInv, OwnersNamed
  <2>2. CASE c = b
    BY <2>2, <1>0, <1>2, <1>3, <1>4, <1>5, Zenon DEF Owns
  <2>3. CASE c # b
    <3>1. Owns(c)' <=> Owns(c)
      BY <2>3, <1>4, Zenon DEF Owns
    <3>2. CASE c[1] = n
      BY <3>1, <3>2, <2>1, <2>3, <1>0, <1>5, <1>6, Zenon
    <3>3. CASE c[1] # n
      BY <3>1, <3>3, <2>1, <1>5, Zenon
    <3> QED BY <3>2, <3>3, Zenon
  <2> QED BY <2>2, <2>3, Zenon
<1>10. ASSUME NEW m \in Nodes, bonding'[m] # None PROVE bonding'[m][1] = m
  BY <1>5, <1>10, Zenon DEF BInv, OwnersNamed
<1>11. OwnersNamed'
  BY <1>5, <1>9, <1>10, Zenon DEF OwnersNamed
<1>12. Waiters'
  <2> SUFFICES ASSUME NEW c \in Bonders, bond'[c].pc = "wait"
               PROVE  bonding'[c[1]] # None /\ bond'[bonding'[c[1]]].pc # "unregister"
    BY Zenon DEF Waiters
  <2>1. c # b /\ bond[c].pc = "wait" /\ c[1] \in Nodes
    BY <1>2, <1>3, <1>4, BonderParts, Zenon
  <2>2. bonding[c[1]] # None /\ bond[bonding[c[1]]].pc # "unregister"
    BY <2>1, Zenon DEF BInv, Waiters
  <2>3. c[1] # n
    BY <2>2, <1>1, <1>6, Zenon
  <2>4. bonding'[c[1]] = bonding[c[1]] /\ bonding[c[1]] \in Bonders
    BY <2>1, <2>2, <2>3, <1>5 DEF BInv, OwnersNamed
  <2>5. bonding[c[1]] # b
    BY <2>2, <1>1, Zenon
  <2> QED BY <2>2, <2>4, <2>5, <1>4, Zenon
<1> QED BY <1>4, <1>8, <1>11, <1>12, Zenon DEF BInv

\* bondall starts bonds, when it has none running.
LEMMA BondAllKeeps ==
  ASSUME IInv, NEW nodes, NEW pc \in {"bonding", "seeding"}, look.awaited = {},
         BondAll(nodes, pc), UNCHANGED <<bonding, slots, refresh>>, refresh = "running"
  PROVE  IInv'
<1> DEFINE start == [NoBond EXCEPT !.pc = "start"]
<1>0. BondShape /\ \A c \in Bonders : Shape(bond[c])
  BY Zenon DEF IInv, BInv, BondShape
<1>1. bond' = [c \in Bonders |-> IF c[2] = "lookup" /\ c[1] \in nodes THEN start ELSE bond[c]]
  BY Zenon DEF BondAll
<1>2. Shape(start) /\ start.pc = "start"
  BY ZenonT(60) DEF Shape, NoBond
<1> HIDE DEF start
<1>3. ASSUME NEW c \in Bonders, c[2] = "lookup" PROVE bond[c].pc = "none"
  <2>1. c = <<c[1], "lookup">> /\ c[1] \in Nodes
    BY <1>3, BonderParts, Zenon
  <2>2. bond[<<c[1], "lookup">>].pc # "none" => c[1] \in look.awaited
    BY <2>1, Zenon DEF IInv, LookExact
  <2> QED BY <2>1, <2>2, Zenon
<1>4. BondShape'
  BY <1>0, <1>1, <1>2, Zenon DEF BondShape
<1>5. ASSUME NEW c \in Bonders
      PROVE  /\ Owns(c)' <=> Owns(c)
             /\ bond'[c].pc \in RunPcs <=> bond[c].pc \in RunPcs
             /\ bond'[c].pc = "wait" <=> bond[c].pc = "wait"
             /\ bond'[c].pc = "unregister" <=> bond[c].pc = "unregister"
  <2>1. CASE c[2] = "lookup" /\ c[1] \in nodes
    BY <2>1, <1>1, <1>2, <1>3, Zenon DEF Owns, RunPcs
  <2>2. CASE ~(c[2] = "lookup" /\ c[1] \in nodes)
    BY <2>2, <1>1, Zenon DEF Owns, RunPcs
  <2> QED BY <2>1, <2>2, Zenon
<1>6. Running' = Running
  BY <1>5, Zenon DEF Running
<1>7. SlotsExact' /\ OwnersNamed'
  BY <1>5, <1>6, Zenon DEF IInv, BInv, SlotsExact, OwnersNamed
<1>8. Waiters'
  <2> SUFFICES ASSUME NEW c \in Bonders, bond'[c].pc = "wait"
               PROVE  bonding[c[1]] # None /\ bond'[bonding[c[1]]].pc # "unregister"
    BY Zenon DEF Waiters
  <2>1. bonding[c[1]] # None /\ bond[bonding[c[1]]].pc # "unregister"
    BY <1>5, Zenon DEF IInv, BInv, Waiters
  <2>2. bonding[c[1]] \in Bonders
    BY <2>1, BonderParts DEF IInv, BInv, OwnersNamed
  <2> QED BY <2>1, <2>2, <1>5, Zenon
<1>9. LookShape' /\ look'.awaited = nodes /\ look'.pc = pc
  BY ZenonT(60) DEF IInv, LookExact, LookShape, BondAll
<1>10. ASSUME NEW n \in Nodes, bond'[<<n, "lookup">>].pc # "none" PROVE n \in nodes
  <2>1. <<n, "lookup">> \in Bonders
    BY Zenon DEF Bonders
  <2> QED BY <2>1, <1>1, <1>3, <1>10, Zenon
<1>11. LookExact'
  BY <1>9, <1>10, Zenon DEF LookExact
<1> QED BY <1>4, <1>7, <1>8, <1>11, Zenon DEF IInv, BInv

\* A step that starts no bond of a lookup and does not touch it.
LEMMA LookKeeps ==
  ASSUME LookExact, UNCHANGED <<look, refresh>>,
         \A n \in Nodes : bond[<<n, "lookup">>].pc = "none" => bond'[<<n, "lookup">>].pc = "none"
  PROVE  LookExact'
BY Zenon DEF LookExact, LookShape

\* A bond under way moves on within its class.
LEMMA BondMoves ==
  ASSUME IInv, NEW b \in Bonders, NEW r, Shape(r), bond' = [bond EXCEPT ![b] = r],
         UNCHANGED <<bonding, slots, look, refresh>>,
         \/ bond[b].pc \in PlainPcs \ {"none"} /\ r.pc \in PlainPcs
         \/ bond[b].pc \in RunPcs /\ r.pc \in RunPcs
  PROVE  IInv'
<1>1. BInv'
  BY MoveKeeps, ZenonT(60) DEF IInv
<1>2. \A c \in Bonders \ {b} : bond'[c] = bond[c]
  BY SetOne, Zenon DEF IInv, BInv
<1>3. bond[b].pc # "none"
  BY Zenon DEF RunPcs
<1>4. \A n \in Nodes : bond[<<n, "lookup">>].pc = "none" => bond'[<<n, "lookup">>].pc = "none"
  BY <1>2, <1>3, Zenon DEF Bonders
<1>5. LookExact'
  BY <1>4, LookKeeps, Zenon DEF IInv
<1> QED BY <1>1, <1>5, Zenon DEF IInv

\* The steps of bond that neither take nor give back anything.
LEMMA PlainSteps ==
  ASSUME IInv, NEW b \in Bonders,
         BondReads(b) \/ BondAdds(b) \/ BondContests(b) \/ BondContested(b) \/ BondWaitsPing(b)
  PROVE  IInv'
<1>0. BondShape /\ Shape(bond[b])
  BY Zenon DEF IInv, BInv, BondShape
<1>1. ASSUME NEW pc \in PlainPcs, Step(b, pc), bond[b].pc \in PlainPcs \ {"none"},
             UNCHANGED <<bonding, slots, look, refresh>>
      PROVE  IInv'
  <2>1. PICK r : Shape(r) /\ r.pc = pc /\ bond' = [bond EXCEPT ![b] = r]
    BY <1>0, <1>1, PcSet, Zenon
  <2> QED BY <2>1, <1>1, BondMoves, ZenonT(60)
<1>2. CASE BondReads(b)
  <2>1. PICK old \in BOOLEAN :
          bond' = [bond EXCEPT ![b].node = (b[1] \in db),
                     ![b].pc = IF ~(b[1] \in db) \/ fails[b[1]] > 0 \/ old THEN "lookup" ELSE "add"]
    BY <1>2, ZenonT(60) DEF BondReads
  <2> DEFINE pc == IF ~(b[1] \in db) \/ fails[b[1]] > 0 \/ old THEN "lookup" ELSE "add"
             r == [bond[b] EXCEPT !.node = (b[1] \in db), !.pc = pc]
  <2>2. bond' = [bond EXCEPT ![b] = r]
    BY <2>1, <1>0, ZenonT(60) DEF BondShape
  <2>3. pc \in PlainPcs
    BY Zenon DEF PlainPcs
  <2>4. bond[b].pc \in PlainPcs \ {"none"} /\ UNCHANGED <<bonding, slots, look, refresh>>
    BY <1>2, Zenon DEF BondReads, PlainPcs
  <2> HIDE DEF pc
  <2>5. Shape(r) /\ r.pc = pc
    BY <1>0, ZenonT(60) DEF Shape
  <2> HIDE DEF r
  <2> QED BY <2>2, <2>3, <2>4, <2>5, BondMoves, ZenonT(60)
<1>3. CASE BondAdds(b)
  <2>1. bond[b].pc \in PlainPcs \ {"none"} /\ UNCHANGED <<bonding, slots, look, refresh>>
    BY <1>3, Zenon DEF BondAdds, PlainPcs
  <2>2. CASE Step(b, "added")
    BY <2>1, <2>2, <1>1, Zenon DEF PlainPcs
  <2>3. CASE bond' = [bond EXCEPT ![b].pc = "contest", ![b].oldest = Oldest]
    <3> DEFINE r == [bond[b] EXCEPT !.pc = "contest", !.oldest = Oldest]
    <3>1. bond' = [bond EXCEPT ![b] = r]
      BY <2>3, <1>0, ZenonT(60) DEF BondShape
    <3>2. Shape(r) /\ r.pc = "contest"
      BY <1>0, ZenonT(60) DEF Shape
    <3> HIDE DEF r
    <3> QED BY <2>1, <3>1, <3>2, BondMoves, ZenonT(60) DEF PlainPcs
  <2> QED BY <1>3, <2>2, <2>3, Zenon DEF BondAdds
<1>4. CASE BondContests(b)
  BY <1>4, <1>1, Zenon DEF BondContests, PlainPcs
<1>5. CASE BondContested(b)
  <2> DEFINE r == [bond[b] EXCEPT !.pc = "added", !.oldest = None]
  <2>1. /\ bond[b].pc = "contesting" /\ UNCHANGED <<bonding, slots, look, refresh>>
        /\ bond' = [bond EXCEPT ![b].pc = "added", ![b].oldest = None]
    BY <1>5, ZenonT(60) DEF BondContested
  <2>2. bond' = [bond EXCEPT ![b] = r]
    BY <2>1, <1>0, ZenonT(60) DEF BondShape
  <2>3. Shape(r) /\ r.pc = "added"
    BY <1>0, ZenonT(60) DEF Shape
  <2> HIDE DEF r
  <2> QED BY <2>1, <2>2, <2>3, BondMoves, ZenonT(60) DEF PlainPcs
<1>6. CASE BondWaitsPing(b)
  <2>1. /\ bond[b].pc = "waitping" /\ Step(b, "waiting")
        /\ UNCHANGED <<bonding, slots, look, refresh>>
    BY <1>6, Zenon DEF BondWaitsPing
  <2>2. PICK r : Shape(r) /\ r.pc = "waiting" /\ bond' = [bond EXCEPT ![b] = r]
    BY <1>0, <2>1, PcSet, Zenon
  <2> QED BY <2>1, <2>2, BondMoves, ZenonT(60) DEF RunPcs
<1> QED BY <1>2, <1>3, <1>4, <1>5, <1>6, Zenon

\* The steps of bond that register, take or give back.
LEMMA HoldingSteps ==
  ASSUME IInv, NEW b \in Bonders,
         BondRegisters(b) \/ BondPings(b) \/ BondPinged(b) \/ BondWaited(b) \/ BondUnregisters(b)
  PROVE  IInv'
<1>0. BInv /\ BondShape /\ Shape(bond[b])
  BY Zenon DEF IInv, BInv, BondShape
<1>1. ASSUME UNCHANGED <<look, refresh>>, BInv', bond[b].pc # "none",
             \A c \in Bonders \ {b} : bond[c].pc = "none" => bond'[c].pc = "none"
      PROVE  IInv'
  <2>1. \A n \in Nodes : bond[<<n, "lookup">>].pc = "none" => bond'[<<n, "lookup">>].pc = "none"
    BY <1>1, Zenon DEF Bonders
  <2> QED BY <2>1, <1>1, LookKeeps, Zenon DEF IInv
<1>2. ASSUME NEW r, Shape(r), bond' = [bond EXCEPT ![b] = r]
      PROVE  \A c \in Bonders \ {b} : bond[c].pc = "none" => bond'[c].pc = "none"
  BY <1>0, <1>2, SetOne, Zenon
<1>3. CASE BondRegisters(b)
  <2>1. bond[b].pc # "none" /\ UNCHANGED <<look, refresh>>
    BY <1>3, Zenon DEF BondRegisters
  <2>2. \A c \in Bonders \ {b} : bond'[c] = bond[c]
    BY <1>3, <1>0, Zenon DEF BondRegisters, Step, BondShape
  <2> QED BY <2>1, <2>2, <1>0, <1>1, <1>3, RegisterKeeps, Zenon
<1>4. CASE BondPings(b)
  <2>1. /\ bond[b].pc = "slot" /\ slots > 0 /\ slots' = slots - 1 /\ Step(b, "pinging")
        /\ UNCHANGED <<bonding, look, refresh>>
    BY <1>4, Zenon DEF BondPings
  <2>2. \A c \in Bonders \ {b} : bond'[c] = bond[c]
    BY <2>1, <1>0, Zenon DEF Step, BondShape
  <2> QED BY <2>1, <2>2, <1>0, <1>1, PingKeeps, Zenon
<1>5. CASE BondPinged(b)
  <2>1. bond[b].pc = "pinging" /\ UNCHANGED <<bonding, look, refresh>>
    BY <1>5, Zenon DEF BondPinged
  <2>2. CASE Finish(b, TRUE) \/ Finish(b, FALSE)
    BY <2>1, <2>2, <1>0, <1>1, FinishKeeps, ZenonT(60) DEF RunPcs
  <2>3. CASE Step(b, "waitping") /\ UNCHANGED slots
    <3>1. PICK r : Shape(r) /\ r.pc = "waitping" /\ bond' = [bond EXCEPT ![b] = r]
      BY <1>0, <2>3, PcSet, Zenon
    <3> QED BY <3>1, <2>1, <2>3, BondMoves, ZenonT(60) DEF RunPcs
  <2> QED BY <1>5, <2>2, <2>3, ZenonT(60) DEF BondPinged
<1>6. CASE BondWaited(b)
  <2>1. bond[b].pc = "waiting" /\ Finish(b, TRUE) /\ UNCHANGED <<bonding, look, refresh>>
    BY <1>6, ZenonT(60) DEF BondWaited
  <2> QED BY <2>1, <1>0, <1>1, FinishKeeps, ZenonT(60) DEF RunPcs
<1>7. CASE BondUnregisters(b)
  <2>1. bond[b].pc # "none" /\ UNCHANGED <<look, refresh>>
    BY <1>7, Zenon DEF BondUnregisters
  <2>2. \A c \in Bonders \ {b} : bond'[c] = bond[c]
    BY <1>7, <1>0, Zenon DEF BondUnregisters, BondShape
  <2> QED BY <2>1, <2>2, <1>0, <1>1, <1>7, UnregisterKeeps, Zenon
<1> QED BY <1>3, <1>4, <1>5, <1>6, <1>7, Zenon

\* bond returns, to bondall if that called it.
LEMMA ReturnStep ==
  ASSUME IInv, NEW b \in Bonders, BondReturns(b) PROVE IInv'
<1>0. BondShape /\ Shape(NoBond) /\ NoBond.pc = "none"
  BY Zenon DEF IInv, BInv, Shape, NoBond
<1>1. /\ bond[b].pc \in {"added", "return"} /\ UNCHANGED <<bonding, slots, refresh>>
      /\ bond' = [bond EXCEPT ![b] = NoBond]
  BY Zenon DEF BondReturns, Return
<1>2. BInv'
  BY <1>0, <1>1, MoveKeeps, ZenonT(60) DEF IInv, PlainPcs
<1>3. bond'[b].pc = "none" /\ \A c \in Bonders \ {b} : bond'[c] = bond[c]
  BY <1>0, <1>1, SetOne, ZenonT(60)
<1>4. CASE b[2] # "lookup"
  <2>1. look' = look
    BY <1>4, Zenon DEF BondReturns, Return
  <2>2. \A n \in Nodes : bond[<<n, "lookup">>].pc = "none" => bond'[<<n, "lookup">>].pc = "none"
    BY <1>3, Zenon DEF Bonders
  <2> QED BY <1>1, <1>2, <2>1, <2>2, LookKeeps, Zenon DEF IInv
<1>5. CASE b[2] = "lookup"
  <2>1. \E got : look' = [look EXCEPT !.awaited = @ \ {b[1]}, !.got = got]
    BY <1>5, ZenonT(60) DEF BondReturns, Return
  <2>2. LookShape' /\ look'.pc = look.pc /\ look'.awaited = look.awaited \ {b[1]}
    BY <2>1, ZenonT(60) DEF IInv, LookExact, LookShape
  <2>3. ASSUME NEW n \in Nodes, bond'[<<n, "lookup">>].pc # "none" PROVE n \in look'.awaited
    <3>1. <<n, "lookup">> \in Bonders /\ b = <<b[1], "lookup">>
      BY <1>5, BonderParts, Zenon DEF Bonders
    <3>2. <<n, "lookup">> # b
      BY <2>3, <1>3, Zenon
    <3>3. n # b[1]
      BY <3>1, <3>2, Zenon
    <3>4. n \in look.awaited
      BY <2>3, <3>1, <3>2, <1>3, Zenon DEF IInv, LookExact
    <3> QED BY <3>3, <3>4, <2>2, Zenon
  <2>4. LookExact'
    BY <1>1, <2>2, <2>3, Zenon DEF IInv, LookExact
  <2> QED BY <1>2, <2>4, Zenon DEF IInv
<1> QED BY <1>4, <1>5, Zenon

\* The steps that leave the bonds alone.
LEMMA BondsAlone ==
  ASSUME IInv, UNCHANGED <<bond, bonding, slots>>, LookExact' PROVE IInv'
<1>1. Running' = Running
  BY Zenon DEF Running
<1>2. BondShape' /\ Waiters'
  BY Zenon DEF IInv, BInv, BondShape, Waiters
<1>3. OwnersNamed'
  BY Zenon DEF IInv, BInv, OwnersNamed, Owns
<1>4. SlotsExact'
  BY <1>1, Zenon DEF IInv, BInv, SlotsExact
<1> QED BY <1>2, <1>3, <1>4, Zenon DEF IInv, BInv

\* doRefresh and its lookups.
LEMMA LookSteps ==
  ASSUME IInv, LookStep PROVE IInv'
<1>0. LookExact /\ LookShape
  BY Zenon DEF IInv, LookExact
<1>1. look.pc # "none" => refresh = "running"
  BY <1>0, Zenon DEF LookExact
<1>2. look.pc \notin {"bonding", "seeding"} => look.awaited = {}
  BY <1>0, Zenon DEF LookExact
<1>3. ASSUME UNCHANGED <<bond, bonding, slots>>, LookShape', look.awaited = {}, look'.awaited = {},
             refresh' = "running" \/ look'.pc = "none"
      PROVE  IInv'
  <2>1. LookExact'
    BY <1>0, <1>3, Zenon DEF LookExact
  <2> QED BY <1>3, <2>1, BondsAlone, Zenon
<1>4. CASE LookupStarts
  <2>1. LookShape' /\ look'.awaited = look.awaited
    BY <1>4, <1>0, ZenonT(60) DEF LookupStarts, LookShape
  <2> QED BY <2>1, <1>1, <1>2, <1>3, <1>4, Zenon DEF LookupStarts
<1>5. CASE LookupAsks
  <2>1. LookShape' /\ look'.awaited = look.awaited
    BY <1>5, <1>0, ZenonT(60) DEF LookupAsks, LookShape
  <2> QED BY <2>1, <1>1, <1>2, <1>3, <1>5, Zenon DEF LookupAsks
<1>6. CASE LookupAnswered
  <2>1. /\ look.pc = "asking" /\ UNCHANGED <<bonding, slots, refresh>>
        /\ \E reply \in Neighbours : BondAll(reply, "bonding")
    BY <1>6, Zenon DEF LookupAnswered
  <2> QED BY <2>1, <1>1, <1>2, BondAllKeeps, Zenon
<1>7. CASE LookupBonded
  <2>1. LookShape' /\ look'.awaited = look.awaited
    BY <1>7, <1>0, ZenonT(60) DEF LookupBonded, LookShape
  <2> QED BY <2>1, <1>1, <1>3, <1>7, Zenon DEF LookupBonded
<1>8. ASSUME look' = NoLook PROVE LookShape' /\ look'.awaited = {} /\ look'.pc = "none"
  BY <1>8, Zenon DEF LookShape, NoLook
<1>9. CASE RefreshEnds
  BY <1>2, <1>3, <1>8, <1>9, Zenon DEF RefreshEnds
<1>10. CASE RefreshRequested
  <2>1. look.pc = "request" /\ UNCHANGED <<bonding, slots>>
    BY <1>10, Zenon DEF RefreshRequested
  <2>2. CASE (\E nodes : BondAll(nodes, "seeding")) /\ UNCHANGED refresh
    BY <2>1, <2>2, <1>1, <1>2, BondAllKeeps, Zenon
  <2>3. CASE look' = NoLook /\ UNCHANGED bond
    BY <2>1, <2>3, <1>2, <1>3, <1>8, Zenon
  <2> QED BY <1>10, <2>2, <2>3, ZenonT(60) DEF RefreshRequested
<1>11. CASE RefreshSeeded
  <2>1. LookShape' /\ look'.awaited = {}
    BY <1>11, ZenonT(60) DEF RefreshSeeded, LookShape, NoLook
  <2> QED BY <2>1, <1>1, <1>3, <1>11, Zenon DEF RefreshSeeded
<1> QED BY <1>4, <1>5, <1>6, <1>7, <1>9, <1>10, <1>11, Zenon DEF LookStep

\* A ping from outside starts a bond.
LEMMA PingStep ==
  ASSUME IInv, NEW n \in Nodes, PingReceived(n) PROVE IInv'
<1> DEFINE b == <<n, "ping">>
<1>0. BInv /\ BondShape /\ b \in Bonders
  BY Zenon DEF IInv, BInv, Bonders
<1>1. bond[b].pc = "none" /\ Step(b, "start") /\ UNCHANGED <<bonding, slots, look, refresh>>
  BY Zenon DEF PingReceived
<1>2. PICK r : Shape(r) /\ r.pc = "start" /\ bond' = [bond EXCEPT ![b] = r]
  BY <1>0, <1>1, PcSet, Zenon
<1>3. BInv'
  BY <1>0, <1>1, <1>2, MoveKeeps, ZenonT(60) DEF PlainPcs
<1>4. \A c \in Bonders \ {b} : bond'[c] = bond[c]
  BY <1>0, <1>2, SetOne, Zenon
<1>5. \A m \in Nodes : bond'[<<m, "lookup">>] = bond[<<m, "lookup">>]
  BY <1>4, Zenon DEF Bonders
<1> QED BY <1>1, <1>3, <1>5, LookKeeps, Zenon DEF IInv

\* No bond runs and every slot is free when the table is made (newTable).
LEMMA InitHolds == Init => IInv
<1> SUFFICES ASSUME Init PROVE IInv
  BY Zenon
<1>1. \A b \in Bonders : bond[b] = NoBond
  BY Zenon DEF Init
<1>2. Shape(NoBond) /\ NoBond.pc = "none"
  BY Zenon DEF Shape, NoBond
<1>3. BondShape
  BY <1>1, <1>2, Zenon DEF Init, BondShape
<1>4. Running = {}
  BY <1>1, <1>2, Zenon DEF Running, RunPcs
<1>5. SlotsExact
  BY <1>4, FS_EmptySet, DiscoveryAssumption DEF Init, SlotsExact
<1>6. OwnersNamed
  BY <1>1, <1>2, BonderParts, Zenon DEF Init, OwnersNamed, Owns
<1>7. Waiters
  BY <1>1, <1>2, Zenon DEF Waiters
<1>8. LookExact
  <2>1. LookShape /\ look.awaited = {} /\ look.pc = "none"
    BY Zenon DEF Init, LookShape, NoLook
  <2>2. \A n \in Nodes : bond[<<n, "lookup">>].pc = "none"
    BY <1>1, <1>2, Zenon DEF Bonders
  <2> QED BY <2>1, <2>2, Zenon DEF LookExact
<1> QED BY <1>3, <1>5, <1>6, <1>7, <1>8, Zenon DEF IInv, BInv

\* Every step of bonds, lookups, request loop and table keeps the inductive invariant.
LEMMA StepHolds == IInv /\ [Next]_vars => IInv'
<1> SUFFICES ASSUME IInv, [Next]_vars PROVE IInv'
  BY Zenon
<1>1. ASSUME UNCHANGED <<bond, bonding, slots, look, refresh>> PROVE IInv'
  BY <1>1, LookKeeps, BondsAlone, Zenon DEF IInv
<1>2. CASE LoopStep \/ CloseRequested \/ RefreshLoopEnds \/ UNCHANGED vars
  BY <1>2, <1>1, Zenon DEF LoopStep, CloseRequested, RefreshLoopEnds, vars, tableVars
<1>3. ASSUME NEW n \in Nodes, Answer(n) \/ Expire(n) PROVE IInv'
  BY <1>3, <1>1, Zenon DEF Answer, Expire, tableVars
<1>4. CASE RefreshBegins
  <2>1. look.awaited = {}
    BY <1>4, Zenon DEF RefreshBegins, IInv, LookExact
  <2>2. LookShape' /\ look'.awaited = {} /\ refresh' = "running"
    BY <1>4, Zenon DEF RefreshBegins, LookShape, NoLook
  <2>3. LookExact'
    BY <1>4, <2>1, <2>2, Zenon DEF RefreshBegins, IInv, LookExact
  <2> QED BY <1>4, <2>3, BondsAlone, Zenon DEF RefreshBegins
<1>5. CASE RefreshDone
  <2>1. LookExact'
    BY <1>5, Zenon DEF RefreshDone, IInv, LookExact, LookShape
  <2> QED BY <1>5, <2>1, BondsAlone, Zenon DEF RefreshDone
<1>6. ASSUME NEW b \in Bonders, BondStep(b) PROVE IInv'
  BY <1>6, PlainSteps, HoldingSteps, ReturnStep, Zenon DEF BondStep
<1>7. Pinging \subseteq Nodes /\ Expiring \subseteq Nodes
  BY DiscoveryAssumption, Zenon
<1> QED BY <1>2, <1>3, <1>4, <1>5, <1>6, <1>7, LookSteps, PingStep, Zenon DEF Next

\* One ping/pong exchange runs for a node at a time, the bonding map names it, nobody
\* waits for one that has closed its done channel already, and the bonding slots in
\* use are those of the running exchanges (Table.bond, pingpong), whatever pings,
\* lookups, refreshes and a Close overlap.
THEOREM BondsAlwaysExact == Spec => []BondsExact
<1>1. Init => IInv
  BY InitHolds, Zenon
<1>2. IInv /\ [Next]_vars => IInv'
  BY StepHolds, Zenon
<1>3. IInv => BondsExact
  BY InvIsExact, Zenon DEF IInv
<1> QED BY <1>1, <1>2, <1>3, PTL DEF Spec
-----------------------------------------------------------------------------
(* The sequences that the table and the transport are made of.             *)

\* The entries of a concatenation.
LEMMA ConcatAt ==
  ASSUME NEW S, NEW a \in Seq(S), NEW c \in Seq(S), NEW j \in 1..(Len(a) + Len(c))
  PROVE  (a \o c)[j] = IF j <= Len(a) THEN a[j] ELSE c[j - Len(a)]
BY SMT

\* What is left of a sequence, and where, when one entry is removed.
LEMMA RemovedFacts ==
  ASSUME NEW S, NEW s \in Seq(S), NEW i \in DOMAIN s
  PROVE  /\ Removed(s, i) \in Seq(S) /\ Len(Removed(s, i)) = Len(s) - 1
         /\ \A j \in 1..(Len(s) - 1) : Removed(s, i)[j] = IF j < i THEN s[j] ELSE s[j + 1]
<1>1. i \in 1..Len(s) /\ Len(s) \in Nat /\ \A j \in 1..Len(s) : s[j] \in S
  BY SMT
<1> DEFINE a == SubSeq(s, 1, i - 1)
           c == SubSeq(s, i + 1, Len(s))
<1>2. a \in Seq(S) /\ Len(a) = i - 1 /\ \A j \in 1..(i - 1) : a[j] = s[j]
  BY <1>1, SMT
<1>3. c \in Seq(S) /\ Len(c) = Len(s) - i /\ \A j \in 1..(Len(s) - i) : c[j] = s[j + i]
  BY <1>1, SMTT(60)
<1> HIDE DEF a, c
<1>4. a \o c \in Seq(S) /\ Len(a \o c) = Len(s) - 1
  BY <1>1, <1>2, <1>3, SMT
<1>5. ASSUME NEW j \in 1..(Len(s) - 1) PROVE (a \o c)[j] = IF j < i THEN s[j] ELSE s[j + 1]
  <2>1. CASE j < i BY <1>1, <1>2, <1>3, <2>1, SMT
  <2>2. CASE ~(j < i)
    <3>0. j \in 1..(Len(a) + Len(c)) /\ j > Len(a) BY <1>1, <1>2, <1>3, <2>2, SMT
    <3>4. ~(j <= Len(a)) BY <1>1, <1>2, <3>0, SMT
    <3>1. (a \o c)[j] = c[j - Len(a)] BY <1>2, <1>3, <3>0, <3>4, ConcatAt, Zenon
    <3>2. j - Len(a) \in 1..(Len(s) - i) /\ (j - Len(a)) + i = j + 1
      BY <1>1, <1>2, <2>2, SMT
    <3>3. c[j - Len(a)] = s[(j - Len(a)) + i] BY <1>3, <3>2, Zenon
    <3> QED BY <2>2, <3>1, <3>2, <3>3, Zenon
  <2> QED BY <2>1, <2>2, Zenon
<1>6. Removed(s, i) = a \o c BY Zenon DEF Removed, a, c
<1> QED BY <1>4, <1>5, <1>6, Zenon

\* A sequence is cut off.
LEMMA PrefixFacts ==
  ASSUME NEW S, NEW s \in Seq(S), NEW m \in 0..Len(s)
  PROVE  /\ SubSeq(s, 1, m) \in Seq(S) /\ Len(SubSeq(s, 1, m)) = m
         /\ DOMAIN SubSeq(s, 1, m) = 1..m
         /\ \A j \in 1..m : SubSeq(s, 1, m)[j] = s[j]
<1>1. m \in Nat /\ Len(s) \in Nat /\ m <= Len(s) BY SMT
<1>2. SubSeq(s, 1, m) \in Seq(S) /\ Len(SubSeq(s, 1, m)) = m BY <1>1, SMT
<1>3. \A j \in 1..m : SubSeq(s, 1, m)[j] = s[j] BY <1>1, SMT
<1>4. DOMAIN SubSeq(s, 1, m) = 1..m BY <1>1, <1>2, SMT
<1> QED BY <1>2, <1>3, <1>4, Zenon

\* An entry is put in front.
LEMMA PrependFacts ==
  ASSUME NEW S, NEW s \in Seq(S), NEW e \in S
  PROVE  /\ <<e>> \o s \in Seq(S) /\ Len(<<e>> \o s) = Len(s) + 1
         /\ (<<e>> \o s)[1] = e
         /\ \A j \in 1..Len(s) : (<<e>> \o s)[j + 1] = s[j]
<1>1. <<e>> \in Seq(S) /\ Len(<<e>>) = 1 /\ <<e>>[1] = e BY SMT
<1> QED BY <1>1, SMT

\* A sequence of distinct entries.
Distinct(s) == \A i, j \in DOMAIN s : s[i] = s[j] => i = j

\* Removing an entry of a sequence of distinct ones removes its value and no other.
LEMMA RemovedDistinct ==
  ASSUME NEW S, NEW s \in Seq(S), NEW i \in DOMAIN s, Distinct(s)
  PROVE  /\ Distinct(Removed(s, i)) /\ Range(Removed(s, i)) = Range(s) \ {s[i]}
<1> DEFINE r == Removed(s, i)
<1>1. r \in Seq(S) /\ Len(r) = Len(s) - 1
      /\ \A j \in 1..(Len(s) - 1) : r[j] = IF j < i THEN s[j] ELSE s[j + 1]
  BY RemovedFacts, Zenon
<1> HIDE DEF r
<1>2. /\ DOMAIN s = 1..Len(s) /\ DOMAIN r = 1..(Len(s) - 1) /\ Len(s) \in Nat /\ i \in 1..Len(s)
  BY <1>1, SMT
<1>3. \A j, k \in 1..Len(s) : s[j] = s[k] => j = k BY <1>2, Zenon DEF Distinct
<1>4. \A j, k \in 1..(Len(s) - 1) : r[j] = r[k] => j = k
  BY <1>1, <1>2, <1>3, SMTT(60)
<1>5. ASSUME NEW j \in 1..(Len(s) - 1) PROVE \E k \in 1..Len(s) : r[j] = s[k] /\ k # i
  <2>1. CASE j < i BY <1>1, <1>2, <2>1, SMT
  <2>2. CASE ~(j < i) BY <1>1, <1>2, <2>2, SMTT(60)
  <2> QED BY <2>1, <2>2, Zenon
<1>6. ASSUME NEW k \in 1..Len(s), k # i PROVE \E j \in 1..(Len(s) - 1) : r[j] = s[k]
  <2>1. CASE k < i BY <1>1, <1>2, <2>1, SMT
  <2>2. CASE ~(k < i)
    <3>1. k - 1 \in 1..(Len(s) - 1) /\ ~(k - 1 < i) /\ (k - 1) + 1 = k
      BY <1>2, <1>6, <2>2, SMT
    <3>2. r[k - 1] = s[(k - 1) + 1] BY <1>1, <3>1, Zenon
    <3> QED BY <3>1, <3>2, Zenon
  <2> QED BY <2>1, <2>2, Zenon
<1>7. Range(r) = Range(s) \ {s[i]}
  <2>1. ASSUME NEW v \in Range(r) PROVE v \in Range(s) \ {s[i]}
    <3>1. PICK j \in 1..(Len(s) - 1) : v = r[j] BY <1>2, Zenon DEF Range
    <3>2. PICK k \in 1..Len(s) : r[j] = s[k] /\ k # i BY <1>5, Zenon
    <3>3. s[k] # s[i] BY <1>2, <1>3, <3>2, Zenon
    <3> QED BY <1>2, <3>1, <3>2, <3>3, Zenon DEF Range
  <2>2. ASSUME NEW v \in Range(s), v # s[i] PROVE v \in Range(r)
    BY <1>2, <1>6, <2>2, Zenon DEF Range
  <2> QED BY <2>1, <2>2, Zenon
<1>8. Distinct(r) BY <1>2, <1>4, Zenon DEF Distinct
<1> QED BY <1>7, <1>8, Zenon DEF r

\* So does putting a new entry in front.
LEMMA PrependDistinct ==
  ASSUME NEW S, NEW s \in Seq(S), NEW e \in S, Distinct(s), e \notin Range(s)
  PROVE  Distinct(<<e>> \o s) /\ Range(<<e>> \o s) = Range(s) \cup {e}
<1> DEFINE r == <<e>> \o s
<1>1. /\ r \in Seq(S) /\ Len(r) = Len(s) + 1 /\ r[1] = e
      /\ \A j \in 1..Len(s) : r[j + 1] = s[j]
  BY PrependFacts
<1> HIDE DEF r
<1>2. DOMAIN s = 1..Len(s) /\ DOMAIN r = 1..(Len(s) + 1) /\ Len(s) \in Nat
  BY <1>1, SMT
<1>3. \A j, k \in 1..Len(s) : s[j] = s[k] => j = k BY <1>2, Zenon DEF Distinct
<1>4. \A j \in 1..Len(s) : s[j] # e BY <1>2, Zenon DEF Range
<1>5. ASSUME NEW j \in 1..(Len(s) + 1), j # 1 PROVE j - 1 \in 1..Len(s) /\ r[j] = s[j - 1]
  <2>1. j - 1 \in 1..Len(s) /\ (j - 1) + 1 = j BY <1>2, <1>5, SMT
  <2> QED BY <1>1, <2>1, Zenon
<1>6. ASSUME NEW j \in 1..(Len(s) + 1), NEW k \in 1..(Len(s) + 1), r[j] = r[k] PROVE j = k
  <2>1. CASE j = 1 BY <1>1, <1>4, <1>5, <1>6, <2>1, Zenon
  <2>2. CASE k = 1 BY <1>1, <1>4, <1>5, <1>6, <2>2, Zenon
  <2>3. CASE j # 1 /\ k # 1
    <3>1. j - 1 = k - 1 BY <1>3, <1>5, <1>6, <2>3, Zenon
    <3> QED BY <3>1, <1>2, SMT
  <2> QED BY <2>1, <2>2, <2>3, Zenon
<1>7. \A j \in 1..Len(s) : j + 1 \in 1..(Len(s) + 1) BY <1>2, SMT
<1>8. 1 \in 1..(Len(s) + 1) BY <1>2, SMT
<1>9. Range(r) = Range(s) \cup {e}
  <2>1. ASSUME NEW v \in Range(r) PROVE v \in Range(s) \cup {e}
    <3>1. PICK j \in 1..(Len(s) + 1) : v = r[j] BY <1>2, Zenon DEF Range
    <3>2. CASE j = 1 BY <1>1, <3>1, <3>2, Zenon
    <3>3. CASE j # 1
      <4>1. j - 1 \in DOMAIN s /\ v = s[j - 1] BY <1>2, <1>5, <3>1, <3>3, Zenon
      <4> QED BY <4>1, Zenon DEF Range
    <3> QED BY <3>2, <3>3, Zenon
  <2>2. ASSUME NEW v \in Range(s) PROVE v \in Range(r)
    <3>1. PICK j \in 1..Len(s) : v = s[j] BY <1>2, Zenon DEF Range
    <3>2. j + 1 \in DOMAIN r /\ r[j + 1] = v BY <1>1, <1>2, <1>7, <3>1, Zenon
    <3> QED BY <3>2, Zenon DEF Range
  <2>3. e \in Range(r)
    BY <1>1, <1>2, <1>8, Zenon DEF Range
  <2> QED BY <2>1, <2>2, <2>3, Zenon
<1>10. Distinct(r) BY <1>2, <1>6, Zenon DEF Distinct
<1> QED BY <1>9, <1>10, Zenon DEF r
-----------------------------------------------------------------------------
(* The bucket.                                                             *)

\* A bucket holds different nodes, and not too many.
BucketOK(s) == s \in Seq(Nodes) /\ Len(s) <= BucketSize /\ Distinct(s)

\* delete takes out the node, if it is there, and no other.
LEMMA WithoutFacts ==
  ASSUME BucketOK(bucket), NEW n
  PROVE  /\ BucketOK(Without(n)) /\ Range(Without(n)) = Range(bucket) \ {n}
         /\ n \in Range(bucket) => Len(Without(n)) = Len(bucket) - 1
<1>0. bucket \in Seq(Nodes) /\ Len(bucket) \in Nat /\ BucketSize \in Nat /\ Len(bucket) <= BucketSize
      /\ Distinct(bucket)
  BY DiscoveryAssumption, SMT DEF BucketOK
<1>1. CASE n \notin Range(bucket)
  <2>1. Without(n) = bucket BY <1>1, Zenon DEF Without
  <2>2. Range(bucket) = Range(bucket) \ {n} BY <1>1, Zenon
  <2> QED BY <1>1, <2>1, <2>2, Zenon
<1>2. CASE n \in Range(bucket)
  <2> DEFINE i == CHOOSE i \in DOMAIN bucket : bucket[i] = n
  <2>1. i \in DOMAIN bucket /\ bucket[i] = n BY <1>2, Zenon DEF Range
  <2>2. Without(n) = Removed(bucket, i) BY <1>2, Zenon DEF Without
  <2> HIDE DEF i
  <2>3. Removed(bucket, i) \in Seq(Nodes) /\ Len(Removed(bucket, i)) = Len(bucket) - 1
    BY <1>0, <2>1, RemovedFacts, Zenon
  <2>4. Distinct(Removed(bucket, i)) /\ Range(Removed(bucket, i)) = Range(bucket) \ {bucket[i]}
    BY <1>0, <2>1, RemovedDistinct, Zenon
  <2>5. Len(bucket) - 1 <= BucketSize BY <1>0, SMT
  <2> QED BY <2>1, <2>2, <2>3, <2>4, <2>5, Zenon DEF BucketOK
<1> QED BY <1>1, <1>2, Zenon

\* bump keeps the nodes.
LEMMA BumpedFacts ==
  ASSUME BucketOK(bucket), NEW n \in Nodes, n \in Range(bucket)
  PROVE  BucketOK(Bumped(n)) /\ Range(Bumped(n)) = Range(bucket)
<1> DEFINE s == Without(n)
<1>1. /\ BucketOK(s) /\ Range(s) = Range(bucket) \ {n} /\ Len(s) = Len(bucket) - 1
  BY WithoutFacts, Zenon
<1> HIDE DEF s
<1>2. s \in Seq(Nodes) /\ Distinct(s) /\ n \notin Range(s) BY <1>1, Zenon DEF BucketOK
<1>3. <<n>> \o s \in Seq(Nodes) /\ Len(<<n>> \o s) = Len(s) + 1
  BY <1>2, PrependFacts, Zenon
<1>4. Distinct(<<n>> \o s) /\ Range(<<n>> \o s) = Range(s) \cup {n}
  BY <1>2, PrependDistinct
<1>5. Len(<<n>> \o s) <= BucketSize
  BY <1>1, <1>3, DiscoveryAssumption, SMT DEF BucketOK
<1>6. Bumped(n) = <<n>> \o s BY Zenon DEF Bumped, s
<1>7. (Range(bucket) \ {n}) \cup {n} = Range(bucket) BY Zenon
<1> QED BY <1>1, <1>3, <1>4, <1>5, <1>6, <1>7, Zenon DEF BucketOK

\* replace takes in the new node, and lets go of none but the oldest entry.
LEMMA ReplacedFacts ==
  ASSUME BucketOK(bucket), NEW n \in Nodes, NEW oldest
  PROVE  /\ BucketOK(Replaced(n, oldest))
         /\ Range(Replaced(n, oldest)) \subseteq Range(bucket) \cup {n}
         /\ Range(bucket) \ {oldest} \subseteq Range(Replaced(n, oldest))
         /\ Len(bucket) # BucketSize => Range(bucket) \subseteq Range(Replaced(n, oldest))
<1>0. /\ bucket \in Seq(Nodes) /\ Len(bucket) \in Nat /\ BucketSize \in Nat /\ BucketSize >= 1
      /\ Len(bucket) <= BucketSize /\ Distinct(bucket) /\ DOMAIN bucket = 1..Len(bucket)
  BY DiscoveryAssumption, SMT DEF BucketOK
<1>1. CASE Replaced(n, oldest) = bucket BY <1>1, Zenon
<1>2. CASE n \notin Range(bucket) /\ Len(bucket) < BucketSize
  <2>1. Replaced(n, oldest) = <<n>> \o bucket BY <1>2, Zenon DEF Replaced
  <2>2. <<n>> \o bucket \in Seq(Nodes) /\ Len(<<n>> \o bucket) = Len(bucket) + 1
    BY <1>0, PrependFacts, Zenon
  <2>3. Distinct(<<n>> \o bucket) /\ Range(<<n>> \o bucket) = Range(bucket) \cup {n}
    BY <1>0, <1>2, PrependDistinct
  <2>4. Len(<<n>> \o bucket) <= BucketSize BY <1>0, <1>2, <2>2, SMT
  <2> QED BY <2>1, <2>2, <2>3, <2>4, Zenon DEF BucketOK
<1>3. CASE n \notin Range(bucket) /\ ~(Len(bucket) < BucketSize) /\ Oldest = oldest
  <2> DEFINE t == SubSeq(bucket, 1, BucketSize - 1)
  <2>1. Replaced(n, oldest) = <<n>> \o t BY <1>3, Zenon DEF Replaced
  <2>2. /\ t \in Seq(Nodes) /\ Len(t) = BucketSize - 1 /\ DOMAIN t = 1..(BucketSize - 1)
        /\ \A j \in 1..(BucketSize - 1) : t[j] = bucket[j]
    <3>1. BucketSize - 1 \in 0..Len(bucket) BY <1>0, <1>3, SMT
    <3> QED BY <1>0, <3>1, PrefixFacts, ZenonT(60)
  <2> HIDE DEF t
  <2>3. Len(bucket) = BucketSize /\ 1..(BucketSize - 1) \subseteq 1..Len(bucket)
        /\ \A j \in 1..Len(bucket) : j \in 1..(BucketSize - 1) \/ j = Len(bucket)
    <3> DEFINE l == Len(bucket)
    <3>1. l \in Nat /\ BucketSize \in Nat /\ BucketSize >= 1 /\ l <= BucketSize /\ ~(l < BucketSize)
      BY <1>0, <1>3, Zenon
    <3> HIDE DEF l
    <3>2. l = BucketSize /\ 1..(BucketSize - 1) \subseteq 1..l
          /\ \A j \in 1..l : j \in 1..(BucketSize - 1) \/ j = l
      BY <3>1, SMT
    <3> QED BY <3>2, Zenon DEF l
  <2>4. Distinct(t) BY <1>0, <2>2, <2>3, Zenon DEF Distinct
  <2>5. Range(t) \subseteq Range(bucket) BY <1>0, <2>2, <2>3, Zenon DEF Range
  <2>6. n \notin Range(t) BY <1>3, <2>5, Zenon
  <2>7. ASSUME NEW v \in Range(bucket), v # oldest PROVE v \in Range(t)
    <3>1. PICK j \in 1..Len(bucket) : v = bucket[j] BY <1>0, Zenon DEF Range
    <3>2. j # Len(bucket) BY <1>3, <2>7, <3>1, Zenon DEF Oldest
    <3>3. j \in DOMAIN t /\ t[j] = v BY <2>2, <2>3, <3>1, <3>2, Zenon
    <3> QED BY <3>3, Zenon DEF Range
  <2>8. <<n>> \o t \in Seq(Nodes) /\ Len(<<n>> \o t) = Len(t) + 1
    BY <2>2, PrependFacts
  <2>9. Distinct(<<n>> \o t) /\ Range(<<n>> \o t) = Range(t) \cup {n}
    BY <2>2, <2>4, <2>6, PrependDistinct
  <2>10. Len(<<n>> \o t) <= BucketSize BY <1>0, <2>2, <2>8, SMT
  <2> QED BY <2>1, <2>3, <2>5, <2>7, <2>8, <2>9, <2>10, Zenon DEF BucketOK
<1> QED BY <1>1, <1>2, <1>3, Zenon DEF Replaced

\* stuff keeps the nodes of the bucket and adds some of the seeds that bonded.
LEMMA StuffedFacts ==
  ASSUME BucketOK(bucket), NEW got, got \subseteq Nodes, IsFiniteSet(got),
         NEW order \in Orders(got \ Range(bucket))
  PROVE  LET s == SubSeq(bucket \o order, 1, Min({BucketSize, Len(bucket) + Len(order)}))
         IN  /\ BucketOK(s)
             /\ Range(bucket) \subseteq Range(s) /\ Range(s) \subseteq Range(bucket) \cup got
<1> DEFINE new == got \ Range(bucket)
           k == Cardinality(new)
           all == bucket \o order
           m == Min({BucketSize, Len(bucket) + Len(order)})
           s == SubSeq(all, 1, m)
<1>0. /\ bucket \in Seq(Nodes) /\ Len(bucket) \in Nat /\ BucketSize \in Nat
      /\ Len(bucket) <= BucketSize /\ Distinct(bucket) /\ DOMAIN bucket = 1..Len(bucket)
  BY DiscoveryAssumption, SMT DEF BucketOK
<1>1. k \in Nat
  <2>1. IsFiniteSet(new) BY FS_Subset, Zenon
  <2> QED BY <2>1, FS_CardinalityType, Zenon
<1>2. order \in [1..k -> new] /\ \A i, j \in 1..k : order[i] = order[j] => i = j
  BY Zenon DEF Orders
<1>3. \A i \in 1..k : order[i] \in Nodes /\ order[i] \notin Range(bucket) /\ order[i] \in got
  BY <1>2, Zenon
<1> HIDE DEF new, k
<1>4. order \in [1..k -> Nodes] BY <1>2, <1>3, Zenon
<1>5. order \in Seq(Nodes) /\ Len(order) = k BY <1>1, <1>4, SMT
<1>6. /\ all \in Seq(Nodes) /\ Len(all) = Len(bucket) + k
      /\ \A j \in 1..(Len(bucket) + k) :
           all[j] = IF j <= Len(bucket) THEN bucket[j] ELSE order[j - Len(bucket)]
  <2>1. all \in Seq(Nodes) /\ Len(all) = Len(bucket) + Len(order) BY <1>0, <1>5, SMTT(60)
  <2> QED BY <1>0, <1>5, <2>1, ConcatAt, Zenon
<1>7. m \in 0..Len(all) /\ m >= Len(bucket) /\ m <= BucketSize
  <2> DEFINE M == {BucketSize, Len(bucket) + Len(order)}
  <2>1. \E x \in M : \A y \in M : x <= y BY <1>0, <1>1, <1>5, SMT
  <2>2. Min(M) \in M /\ \A y \in M : Min(M) <= y BY <2>1, Zenon DEF Min
  <2>3. (Min(M) = BucketSize \/ Min(M) = Len(bucket) + Len(order))
        /\ Min(M) <= BucketSize /\ Min(M) <= Len(bucket) + Len(order)
    BY <2>2, Zenon
  <2>4. m = Min(M) BY Zenon
  <2> HIDE DEF M, m
  <2> QED BY <1>0, <1>1, <1>5, <1>6, <2>3, <2>4, SMTT(60)
<1> HIDE DEF all, m
<1>8. /\ s \in Seq(Nodes) /\ Len(s) = m /\ DOMAIN s = 1..m
      /\ \A j \in 1..m : s[j] = all[j]
  BY <1>6, <1>7, PrefixFacts, Zenon
<1> HIDE DEF s
<1>9. /\ 1..Len(bucket) \subseteq 1..m /\ 1..m \subseteq 1..(Len(bucket) + k)
      /\ \A j \in 1..Len(bucket) : j <= Len(bucket)
      /\ \A j \in 1..m : j <= Len(bucket) => j \in 1..Len(bucket)
      /\ \A j \in 1..m : ~(j <= Len(bucket)) => j - Len(bucket) \in 1..k
  BY <1>0, <1>1, <1>6, <1>7, SMT
<1>10. ASSUME NEW j \in 1..m
       PROVE  \/ j \in 1..Len(bucket) /\ s[j] = bucket[j] /\ s[j] \in Range(bucket)
              \/ /\ j - Len(bucket) \in 1..k /\ s[j] = order[j - Len(bucket)]
                 /\ s[j] \in got /\ s[j] \notin Range(bucket)
  <2>1. s[j] = IF j <= Len(bucket) THEN bucket[j] ELSE order[j - Len(bucket)]
    BY <1>6, <1>8, <1>9, Zenon
  <2>2. CASE j <= Len(bucket)
    BY <1>0, <1>9, <2>1, <2>2, Zenon DEF Range
  <2>3. CASE ~(j <= Len(bucket))
    <3>1. j - Len(bucket) \in 1..k /\ s[j] = order[j - Len(bucket)]
      BY <1>9, <2>1, <2>3, Zenon
    <3> QED BY <1>3, <3>1, Zenon
  <2> QED BY <2>2, <2>3, Zenon
<1>11. Distinct(s)
  <2> SUFFICES ASSUME NEW i \in 1..m, NEW j \in 1..m, s[i] = s[j] PROVE i = j
    BY <1>8, Zenon DEF Distinct
  <2>1. CASE i \in 1..Len(bucket) /\ s[i] = bucket[i] /\ s[i] \in Range(bucket)
    <3>1. j \in 1..Len(bucket) /\ s[j] = bucket[j] BY <1>10, <2>1, Zenon
    <3> QED BY <1>0, <2>1, <3>1, Zenon DEF Distinct
  <2>2. CASE i - Len(bucket) \in 1..k /\ s[i] = order[i - Len(bucket)] /\ s[i] \notin Range(bucket)
    <3>1. j - Len(bucket) \in 1..k /\ s[j] = order[j - Len(bucket)] BY <1>10, <2>2, Zenon
    <3>2. i - Len(bucket) = j - Len(bucket) BY <1>2, <2>2, <3>1, Zenon
    <3> QED BY <1>0, <1>7, <3>2, SMT
  <2> QED BY <1>10, <2>1, <2>2, Zenon
<1>12. Range(bucket) \subseteq Range(s)
  <2> SUFFICES ASSUME NEW j \in 1..Len(bucket) PROVE bucket[j] \in Range(s)
    BY <1>0, Zenon DEF Range
  <2>1. s[j] = bucket[j] /\ j \in DOMAIN s BY <1>6, <1>8, <1>9, Zenon
  <2> QED BY <2>1, Zenon DEF Range
<1>13. Range(s) \subseteq Range(bucket) \cup got
  <2> SUFFICES ASSUME NEW j \in 1..m PROVE s[j] \in Range(bucket) \cup got
    BY <1>8, Zenon DEF Range
  <2> QED BY <1>10, Zenon
<1>14. BucketOK(s) BY <1>7, <1>8, <1>11, Zenon DEF BucketOK
<1> QED BY <1>12, <1>13, <1>14, Zenon DEF s, all, m
-----------------------------------------------------------------------------
(* What is stored, held in the table or asked has answered a ping.         *)

Known == Seeds \cup ponged
AddPcs == {"waitping", "waiting", "add", "contest", "contesting", "added"}
Contests == {"contest", "contesting"}

\* A bond that found its node in the database, saw its bondproc succeed or got past
\* the pong is for a known node.
BondKnown(b, r, K) ==
  /\ r.node \in BOOLEAN /\ r.ok \in BOOLEAN /\ r.oldest \in Nodes \cup {None}
  /\ r.node \/ r.ok \/ r.pc \in AddPcs => b[1] \in K
  /\ r.pc \in Contests => r.oldest \in Nodes

LookKnown(l, K) ==
  /\ l.todo \subseteq K /\ l.got \subseteq K /\ IsFiniteSet(l.got)
  /\ l.from \in K \cup {None} /\ (l.pc = "asking" => l.from \in K)

TInv ==
  /\ ponged \subseteq Nodes /\ db \subseteq Known /\ fails \in [Nodes -> Nat]
  /\ BucketOK(bucket) /\ Range(bucket) \subseteq Known
  /\ \A b \in Bonders : BondKnown(b, bond[b], Known)
  /\ LookKnown(look, Known)

\* A step that keeps each part keeps the invariant.
LEMMA TableStep ==
  ASSUME TInv, ponged \subseteq ponged', ponged' \subseteq Nodes, db' \subseteq Known',
         fails' \in [Nodes -> Nat], BucketOK(bucket'), Range(bucket') \subseteq Known',
         \A b \in Bonders : bond'[b] = bond[b] \/ BondKnown(b, bond'[b], Known'),
         look' = look \/ LookKnown(look', Known')
  PROVE  TInv'
<1>1. Known \subseteq Known' BY Zenon DEF Known
<1>2. \A b \in Bonders : BondKnown(b, bond'[b], Known')
  <2> SUFFICES ASSUME NEW b \in Bonders, bond'[b] = bond[b] PROVE BondKnown(b, bond'[b], Known')
    BY Zenon
  <2>1. BondKnown(b, bond[b], Known) BY Zenon DEF TInv
  <2> QED BY <1>1, <2>1, Zenon DEF BondKnown
<1>3. LookKnown(look', Known')
  <2> SUFFICES ASSUME look' = look PROVE LookKnown(look', Known')
    BY Zenon
  <2>1. LookKnown(look, Known) BY Zenon DEF TInv
  <2> QED BY <1>1, <2>1, Zenon DEF LookKnown
<1> QED BY <1>2, <1>3, Zenon DEF TInv, BucketOK, Distinct, Range, LookKnown, BondKnown

\* A bond's record changes to one that is for a known node if it has to be, and the
\* rest of the table does not.
LEMMA OneBond ==
  ASSUME BondShape, TInv, NEW b \in Bonders, NEW r, Shape(r), bond' = [bond EXCEPT ![b] = r],
         BondKnown(b, r, Known), UNCHANGED <<ponged, db, fails, bucket, look>>
  PROVE  TInv'
<1>1. bond'[b] = r /\ \A c \in Bonders \ {b} : bond'[c] = bond[c]
  BY SetOne, Zenon
<1>2. ponged' = ponged /\ db' = db /\ fails' = fails /\ bucket' = bucket /\ look' = look
  BY Zenon
<1>3. Known' = Known BY <1>2, Zenon DEF Known
<1>4. /\ ponged \subseteq Nodes /\ db \subseteq Known /\ fails \in [Nodes -> Nat]
      /\ BucketOK(bucket) /\ Range(bucket) \subseteq Known
  BY Zenon DEF TInv
<1>5. \A c \in Bonders : bond'[c] = bond[c] \/ BondKnown(c, bond'[c], Known')
  BY <1>1, <1>3, Zenon
<1> QED BY <1>2, <1>3, <1>4, <1>5, TableStep, Zenon

\* Only the control point changes.
LEMMA StepRecord ==
  ASSUME BondShape, NEW b \in Bonders, NEW pc, Step(b, pc)
  PROVE  \E r : /\ Shape(r) /\ r.pc = pc /\ r.node = bond[b].node /\ r.ok = bond[b].ok
                /\ r.oldest = bond[b].oldest /\ bond' = [bond EXCEPT ![b] = r]
<1> DEFINE r == [bond[b] EXCEPT !.pc = pc]
<1>1. Shape(bond[b])
  BY Zenon DEF BondShape
<1>2. Shape(r) /\ r.pc = pc /\ r.node = bond[b].node /\ r.ok = bond[b].ok
      /\ r.oldest = bond[b].oldest
  BY <1>1, ZenonT(60) DEF Shape
<1>3. bond' = [bond EXCEPT ![b] = r]
  BY ZenonT(60) DEF Step, BondShape
<1> HIDE DEF r
<1> QED BY <1>2, <1>3, Zenon

\* A bond that moves on, and past the pong only for a known node.
LEMMA StepKnown ==
  ASSUME BondShape, TInv, NEW b \in Bonders, NEW pc, Step(b, pc),
         pc \in AddPcs => bond[b].pc \in AddPcs, pc \in Contests => bond[b].pc \in Contests,
         UNCHANGED <<ponged, db, fails, bucket, look>>
  PROVE  TInv'
<1>1. PICK r : /\ Shape(r) /\ r.pc = pc /\ r.node = bond[b].node /\ r.ok = bond[b].ok
               /\ r.oldest = bond[b].oldest /\ bond' = [bond EXCEPT ![b] = r]
  BY StepRecord, Zenon
<1>2. BondKnown(b, bond[b], Known) BY Zenon DEF TInv
<1>3. BondKnown(b, r, Known) BY <1>1, <1>2, Zenon DEF BondKnown
<1> QED BY <1>1, <1>3, OneBond, Zenon

\* The steps of bond outside the table that change one record.
LEMMA BondStepsKnown ==
  ASSUME IInv, TInv, NEW b \in Bonders,
         \/ BondReads(b) \/ BondRegisters(b) \/ BondPings(b) \/ BondWaitsPing(b)
         \/ BondUnregisters(b) \/ BondContests(b)
  PROVE  TInv'
<1>0. BondShape /\ Shape(bond[b]) /\ BondKnown(b, bond[b], Known)
  BY Zenon DEF IInv, BInv, BondShape, TInv
<1>1. /\ "slot" \notin AddPcs /\ "wait" \notin AddPcs /\ "pinging" \notin AddPcs
      /\ "lookup" \notin AddPcs /\ "return" \notin AddPcs /\ "waitping" \in AddPcs /\ "contest" \in AddPcs
      /\ "slot" \notin Contests /\ "wait" \notin Contests /\ "pinging" \notin Contests
      /\ "lookup" \notin Contests /\ "add" \notin Contests /\ "return" \notin Contests
      /\ "waiting" \notin Contests /\ "contest" \in Contests
  BY Zenon DEF AddPcs, Contests
<1>2. CASE BondReads(b)
  <2>1. PICK old \in BOOLEAN :
          bond' = [bond EXCEPT ![b].node = (b[1] \in db),
                     ![b].pc = IF ~(b[1] \in db) \/ fails[b[1]] > 0 \/ old THEN "lookup" ELSE "add"]
    BY <1>2, ZenonT(60) DEF BondReads
  <2>2. UNCHANGED <<ponged, db, fails, bucket, look>> BY <1>2, Zenon DEF BondReads
  <2> DEFINE pc == IF ~(b[1] \in db) \/ fails[b[1]] > 0 \/ old THEN "lookup" ELSE "add"
             r == [bond[b] EXCEPT !.node = (b[1] \in db), !.pc = pc]
  <2>3. bond' = [bond EXCEPT ![b] = r]
    BY <1>0, <2>1, ZenonT(60) DEF BondShape
  <2>4. (pc \in AddPcs => b[1] \in db) /\ pc \notin Contests
    BY <1>1, Zenon
  <2> HIDE DEF pc
  <2>5. /\ Shape(r) /\ r.pc = pc /\ r.node = (b[1] \in db) /\ r.ok = bond[b].ok
        /\ r.oldest = bond[b].oldest
    BY <1>0, ZenonT(60) DEF Shape
  <2> HIDE DEF r
  <2>6. r.node \in BOOLEAN /\ (r.node => b[1] \in db)
    <3> DEFINE known == b[1] \in db
    <3>1. known \in BOOLEAN BY SMT
    <3>2. r.node = known BY <2>5, Zenon
    <3>3. CASE known = TRUE BY <3>1, <3>2, <3>3, Zenon
    <3>4. CASE known = FALSE BY <3>1, <3>2, <3>4, Zenon
    <3> QED BY <3>1, <3>3, <3>4, Zenon
  <2>7. b[1] \in db => b[1] \in Known BY Zenon DEF TInv
  <2>8. BondKnown(b, r, Known) BY <1>0, <2>4, <2>5, <2>6, <2>7, Zenon DEF BondKnown
  <2> QED BY <1>0, <2>2, <2>3, <2>5, <2>8, OneBond, Zenon
<1>3. CASE BondRegisters(b)
  <2> DEFINE w == bonding[b[1]]
  <2>1. UNCHANGED <<ponged, db, fails, bucket, look>> BY <1>3, Zenon DEF BondRegisters
  <2>2. CASE Step(b, "slot") \/ Step(b, "wait")
    BY <1>0, <1>1, <2>1, <2>2, StepKnown, Zenon
  <2>3. CASE /\ w # None
             /\ bond' = [bond EXCEPT ![b].pc = After(bond[b].node, bond[w].ok),
                                     ![b].node = @ \/ bond[w].ok]
    <3>1. w \in Bonders /\ w[1] = b[1] BY <2>3, BonderParts, Zenon DEF IInv, BInv, OwnersNamed
    <3> DEFINE ok == bond[w].ok
               pc == After(bond[b].node, ok)
               r == [bond[b] EXCEPT !.pc = pc, !.node = @ \/ ok]
    <3>2. bond' = [bond EXCEPT ![b] = r]
      BY <1>0, <2>3, ZenonT(60) DEF BondShape
    <3>3. BondKnown(w, bond[w], Known) BY <3>1, Zenon DEF TInv
    <3>4. ok \in BOOLEAN /\ (ok => b[1] \in Known) BY <3>1, <3>3, Zenon DEF BondKnown
    <3>5. (pc \in AddPcs => ok \/ bond[b].node) /\ pc \notin Contests
      BY <1>1, Zenon DEF After
    <3> HIDE DEF w, ok, pc
    <3>6. /\ Shape(r) /\ r.pc = pc /\ r.node = (bond[b].node \/ ok) /\ r.ok = bond[b].ok
          /\ r.oldest = bond[b].oldest
      BY <1>0, ZenonT(60) DEF Shape
    <3> HIDE DEF r
    <3>7. r.node \in BOOLEAN /\ (r.node => bond[b].node \/ ok) BY <3>6, Zenon
    <3>8. BondKnown(b, r, Known)
      BY <1>0, <3>4, <3>5, <3>6, <3>7, Zenon DEF BondKnown
    <3> QED BY <1>0, <2>1, <3>2, <3>6, <3>8, OneBond, Zenon
  <2> QED BY <1>3, <2>2, <2>3, Zenon DEF BondRegisters
<1>4. CASE BondPings(b)
  <2>1. Step(b, "pinging") /\ UNCHANGED <<ponged, db, fails, bucket, look>>
    BY <1>4, Zenon DEF BondPings
  <2> QED BY <1>0, <1>1, <2>1, StepKnown, Zenon
<1>5. CASE BondWaitsPing(b)
  <2>1. /\ bond[b].pc = "waitping" /\ Step(b, "waiting")
        /\ UNCHANGED <<ponged, db, fails, bucket, look>>
    BY <1>5, Zenon DEF BondWaitsPing
  <2> QED BY <1>0, <1>1, <2>1, StepKnown, Zenon
<1>6. CASE BondUnregisters(b)
  <2>1. /\ bond' = [bond EXCEPT ![b].pc = After(bond[b].node, bond[b].ok),
                                ![b].node = @ \/ bond[b].ok, ![b].ok = FALSE]
        /\ UNCHANGED <<ponged, db, fails, bucket, look>>
    BY <1>6, Zenon DEF BondUnregisters
  <2> DEFINE pc == After(bond[b].node, bond[b].ok)
             r == [bond[b] EXCEPT !.pc = pc, !.node = @ \/ bond[b].ok, !.ok = FALSE]
  <2>2. bond' = [bond EXCEPT ![b] = r]
    BY <1>0, <2>1, ZenonT(60) DEF BondShape
  <2>3. (pc \in AddPcs => bond[b].ok \/ bond[b].node) /\ pc \notin Contests
    BY <1>1, Zenon DEF After
  <2> HIDE DEF pc
  <2>4. /\ Shape(r) /\ r.pc = pc /\ r.node = (bond[b].node \/ bond[b].ok) /\ r.ok = FALSE
        /\ r.oldest = bond[b].oldest
    BY <1>0, ZenonT(60) DEF Shape
  <2> HIDE DEF r
  <2>5. /\ r.node \in BOOLEAN /\ r.ok \in BOOLEAN /\ ~r.ok
        /\ r.node => bond[b].node \/ bond[b].ok
    BY <2>4, Zenon
  <2>6. BondKnown(b, r, Known) BY <1>0, <2>3, <2>4, <2>5, ZenonT(60) DEF BondKnown
  <2> QED BY <1>0, <2>1, <2>2, <2>4, <2>6, OneBond, Zenon
<1>7. CASE BondContests(b)
  <2>1. /\ bond[b].pc = "contest" /\ Step(b, "contesting")
        /\ UNCHANGED <<ponged, db, fails, bucket, look>>
    BY <1>7, Zenon DEF BondContests
  <2> QED BY <1>0, <1>1, <2>1, StepKnown, Zenon
<1> QED BY <1>2, <1>3, <1>4, <1>5, <1>6, <1>7, Zenon

\* What pingpong tells the bonds of a node when it ends is true of the node.
LEMMA FinishKnown ==
  ASSUME BondShape, TInv, NEW b \in Bonders, NEW ok \in BOOLEAN, Finish(b, ok),
         ponged \subseteq ponged', ok => b[1] \in Known'
  PROVE  \A c \in Bonders : bond'[c] = bond[c] \/ BondKnown(c, bond'[c], Known')
<1> SUFFICES ASSUME NEW c \in Bonders, bond'[c] # bond[c] PROVE BondKnown(c, bond'[c], Known')
  BY Zenon
<1>0. Known \subseteq Known' BY Zenon DEF Known
<1>1. Shape(bond[c]) /\ BondKnown(c, bond[c], Known) BY Zenon DEF BondShape, TInv
<1>2. BondKnown(c, bond[c], Known') BY <1>0, <1>1, Zenon DEF BondKnown
<1>3. /\ "unregister" \notin AddPcs /\ "return" \notin AddPcs /\ "unregister" \notin Contests
      /\ "return" \notin Contests /\ "add" \notin Contests
  BY Zenon DEF AddPcs, Contests
<1>4. bond'[c] = IF c = b THEN [bond[b] EXCEPT !.pc = "unregister", !.ok = ok]
                 ELSE IF c[1] = b[1] /\ bond[c].pc = "wait"
                      THEN [bond[c] EXCEPT !.pc = After(bond[c].node, ok), !.node = @ \/ ok]
                 ELSE bond[c]
  BY Zenon DEF Finish
<1>5. CASE c = b
  <2> DEFINE r == [bond[c] EXCEPT !.pc = "unregister", !.ok = ok]
  <2>1. bond'[c] = r BY <1>4, <1>5, Zenon
  <2>2. r.pc = "unregister" /\ r.node = bond[c].node /\ r.ok = ok /\ r.oldest = bond[c].oldest
    BY <1>1, ZenonT(60) DEF Shape
  <2> HIDE DEF r
  <2>3. r.ok \in BOOLEAN /\ (r.ok => ok) BY <2>2, Zenon
  <2> QED BY <1>2, <1>3, <1>5, <2>1, <2>2, <2>3, ZenonT(60) DEF BondKnown
<1>6. CASE c # b
  <2> DEFINE pc == After(bond[c].node, ok)
             r == [bond[c] EXCEPT !.pc = pc, !.node = @ \/ ok]
  <2>1. bond'[c] = r /\ c[1] = b[1] BY <1>4, <1>6, Zenon
  <2>2. (pc \in AddPcs => ok \/ bond[c].node) /\ pc \notin Contests
    BY <1>3, Zenon DEF After
  <2> HIDE DEF pc
  <2>3. r.pc = pc /\ r.node = (bond[c].node \/ ok) /\ r.ok = bond[c].ok
        /\ r.oldest = bond[c].oldest
    BY <1>1, ZenonT(60) DEF Shape
  <2> HIDE DEF r
  <2>4. r.node \in BOOLEAN /\ (r.node => bond[c].node \/ ok) BY <2>3, Zenon
  <2> QED BY <1>2, <2>1, <2>2, <2>3, <2>4, Zenon DEF BondKnown
<1> QED BY <1>5, <1>6, Zenon

\* The answers to ping and waitping.
LEMMA AnswerKnown ==
  ASSUME IInv, TInv, NEW b \in Bonders, BondPinged(b) \/ BondWaited(b)
  PROVE  TInv'
<1>0. BondShape /\ b[1] \in Nodes /\ BondKnown(b, bond[b], Known)
  BY BonderParts, Zenon DEF IInv, BInv, TInv
<1>1. /\ ponged \subseteq Nodes /\ db \subseteq Known /\ fails \in [Nodes -> Nat]
      /\ BucketOK(bucket) /\ Range(bucket) \subseteq Known
  BY Zenon DEF TInv
<1>2. ASSUME ponged \subseteq ponged', ponged' \subseteq Nodes, db' \subseteq Known',
             UNCHANGED <<fails, bucket, look>>,
             \A c \in Bonders : bond'[c] = bond[c] \/ BondKnown(c, bond'[c], Known')
      PROVE  TInv'
  <2>1. fails' = fails /\ bucket' = bucket /\ look' = look BY <1>2, Zenon
  <2>2. Known \subseteq Known' BY <1>2, Zenon DEF Known
  <2> QED BY <1>1, <1>2, <2>1, <2>2, TableStep, Zenon
<1>3. CASE BondPinged(b)
  <2>1. /\ UNCHANGED <<fails, bucket, look>>
        /\ ponged' = IF errc[b] = "ok" THEN ponged \cup {b[1]} ELSE ponged
        /\ \/ errc[b] \in Failures /\ Finish(b, FALSE) /\ UNCHANGED db
           \/ errc[b] = "ok" /\ Finish(b, TRUE) /\ db' = Stored(b[1])
           \/ errc[b] = "ok" /\ Step(b, "waitping") /\ UNCHANGED db
    BY <1>3, Zenon DEF BondPinged
  <2>2. ponged \subseteq ponged' /\ ponged' \subseteq Nodes /\ (errc[b] = "ok" => b[1] \in ponged')
    BY <1>0, <1>1, <2>1, Zenon
  <2>3. Known \subseteq Known' /\ (errc[b] = "ok" => b[1] \in Known') BY <2>2, Zenon DEF Known
  <2>4. CASE Finish(b, FALSE) /\ UNCHANGED db
    <3>1. db' \subseteq Known' BY <1>1, <2>3, <2>4, Zenon
    <3>2. FALSE \in BOOLEAN /\ (FALSE => b[1] \in Known') BY Zenon
    <3>3. \A c \in Bonders : bond'[c] = bond[c] \/ BondKnown(c, bond'[c], Known')
      BY <1>0, <2>2, <2>4, <3>2, FinishKnown, ZenonT(60)
    <3> QED BY <1>2, <2>1, <2>2, <3>1, <3>3, Zenon
  <2>5. CASE errc[b] = "ok" /\ Finish(b, TRUE) /\ db' = Stored(b[1])
    <3>1. db' \subseteq Known' BY <1>1, <2>3, <2>5, Zenon DEF Stored
    <3>2. TRUE \in BOOLEAN /\ (TRUE => b[1] \in Known') BY <2>3, <2>5, Zenon
    <3>3. \A c \in Bonders : bond'[c] = bond[c] \/ BondKnown(c, bond'[c], Known')
      BY <1>0, <2>2, <2>5, <3>2, FinishKnown, Zenon
    <3> QED BY <1>2, <2>1, <2>2, <3>1, <3>3, Zenon
  <2>6. CASE errc[b] = "ok" /\ Step(b, "waitping") /\ UNCHANGED db
    <3>1. db' \subseteq Known' BY <1>1, <2>3, <2>6, Zenon
    <3>2. PICK r : /\ Shape(r) /\ r.pc = "waitping" /\ r.node = bond[b].node /\ r.ok = bond[b].ok
                   /\ r.oldest = bond[b].oldest /\ bond' = [bond EXCEPT ![b] = r]
      BY <1>0, <2>6, StepRecord, Zenon
    <3>3. bond'[b] = r /\ \A c \in Bonders \ {b} : bond'[c] = bond[c]
      BY <1>0, <3>2, SetOne, Zenon
    <3>6. "waitping" \notin Contests BY Zenon DEF Contests
    <3>4. BondKnown(b, r, Known') BY <1>0, <2>3, <2>6, <3>2, <3>6, Zenon DEF BondKnown
    <3>5. \A c \in Bonders : bond'[c] = bond[c] \/ BondKnown(c, bond'[c], Known')
      BY <3>3, <3>4, Zenon
    <3> QED BY <1>2, <2>1, <2>2, <3>1, <3>5, Zenon
  <2> QED BY <2>1, <2>4, <2>5, <2>6, Zenon
<1>4. CASE BondWaited(b)
  <2>1. /\ bond[b].pc = "waiting" /\ Finish(b, TRUE) /\ db' = Stored(b[1])
        /\ UNCHANGED <<fails, bucket, look>> /\ ponged' = ponged
    BY <1>4, Zenon DEF BondWaited
  <2>2. Known' = Known BY <2>1, Zenon DEF Known
  <2>3. "waiting" \in AddPcs BY Zenon DEF AddPcs
  <2>4. b[1] \in Known' BY <1>0, <2>1, <2>2, <2>3, Zenon DEF BondKnown
  <2>5. db' \subseteq Known' BY <1>1, <2>1, <2>2, <2>4, Zenon DEF Stored
  <2>6. ponged \subseteq ponged' /\ ponged' \subseteq Nodes BY <1>1, <2>1, Zenon
  <2>7. TRUE \in BOOLEAN /\ (TRUE => b[1] \in Known') BY <2>4, Zenon
  <2>8. \A c \in Bonders : bond'[c] = bond[c] \/ BondKnown(c, bond'[c], Known')
    BY <1>0, <2>1, <2>6, <2>7, FinishKnown, ZenonT(60)
  <2> QED BY <1>2, <2>1, <2>5, <2>6, <2>8, Zenon
<1> QED BY <1>3, <1>4, Zenon

\* add keeps the bucket sound; with room or a bump nobody leaves.
LEMMA AddsBucket ==
  ASSUME TInv, NEW b \in Bonders, BondAdds(b)
  PROVE  /\ BucketOK(bucket') /\ Range(bucket) \subseteq Range(bucket')
         /\ Range(bucket') \subseteq Range(bucket) \cup {b[1]}
<1>0. BucketOK(bucket) /\ b[1] \in Nodes BY BonderParts, Zenon DEF TInv
<1>1. \/ b[1] \in Range(bucket) /\ bucket' = Bumped(b[1])
      \/ bucket' = bucket
      \/ b[1] \notin Range(bucket) /\ Len(bucket) # BucketSize /\ bucket' = Replaced(b[1], None)
  BY Zenon DEF BondAdds
<1>2. CASE b[1] \in Range(bucket) /\ bucket' = Bumped(b[1])
  BY <1>0, <1>2, BumpedFacts, Zenon
<1>3. CASE bucket' = bucket BY <1>0, <1>3, Zenon
<1>4. CASE Len(bucket) # BucketSize /\ bucket' = Replaced(b[1], None)
  BY <1>0, <1>4, ReplacedFacts, Zenon
<1> QED BY <1>1, <1>2, <1>3, <1>4, Zenon

\* The contested entry alone may have to go, when it has not answered.
LEMMA ContestedBucket ==
  ASSUME TInv, NEW b \in Bonders, BondContested(b)
  PROVE  /\ BucketOK(bucket') /\ Range(bucket') \subseteq Range(bucket) \cup {b[1]}
         /\ Range(bucket) \ {bond[b].oldest} \subseteq Range(bucket')
         /\ errc[b] = "ok" => Range(bucket) \subseteq Range(bucket')
<1>0. BucketOK(bucket) /\ b[1] \in Nodes BY BonderParts, Zenon DEF TInv
<1>1. bucket' = IF errc[b] = "ok" THEN bucket ELSE Replaced(b[1], bond[b].oldest)
  BY Zenon DEF BondContested
<1>2. CASE errc[b] = "ok" BY <1>0, <1>1, <1>2, Zenon
<1>3. CASE errc[b] # "ok"
  <2>1. bucket' = Replaced(b[1], bond[b].oldest) BY <1>1, <1>3, Zenon
  <2> QED BY <1>0, <1>3, <2>1, ReplacedFacts, Zenon
<1> QED BY <1>2, <1>3, Zenon

\* add, on both sides of the ping to the oldest entry.
LEMMA AddKnown ==
  ASSUME IInv, TInv, NEW b \in Bonders, BondAdds(b) \/ BondContested(b)
  PROVE  TInv'
<1>0. BondShape /\ Shape(bond[b]) /\ BondKnown(b, bond[b], Known)
  BY Zenon DEF IInv, BInv, BondShape, TInv
<1>1. /\ ponged \subseteq Nodes /\ db \subseteq Known /\ fails \in [Nodes -> Nat]
      /\ BucketOK(bucket) /\ Range(bucket) \subseteq Known
  BY Zenon DEF TInv
<1>2. "add" \in AddPcs /\ "contesting" \in AddPcs /\ "added" \notin Contests
  BY Zenon DEF AddPcs, Contests
<1>3. b[1] \in Known
  <2>1. bond[b].pc = "add" \/ bond[b].pc = "contesting" BY Zenon DEF BondAdds, BondContested
  <2> QED BY <1>0, <1>2, <2>1, Zenon DEF BondKnown
<1>4. ASSUME NEW r, Shape(r), bond' = [bond EXCEPT ![b] = r], r.node = bond[b].node,
             r.ok = bond[b].ok, r.oldest \in Nodes \cup {None},
             r.pc \in Contests => r.oldest \in Nodes,
             ponged \subseteq ponged', ponged' \subseteq Nodes, UNCHANGED <<db, fails, look>>,
             BucketOK(bucket'), Range(bucket') \subseteq Range(bucket) \cup {b[1]}
      PROVE  TInv'
  <2>1. bond'[b] = r /\ \A c \in Bonders \ {b} : bond'[c] = bond[c]
    BY <1>0, <1>4, SetOne, Zenon
  <2>2. Known \subseteq Known' BY <1>4, Zenon DEF Known
  <2>3. BondKnown(b, r, Known') BY <1>0, <1>3, <1>4, <2>2, Zenon DEF BondKnown
  <2>4. \A c \in Bonders : bond'[c] = bond[c] \/ BondKnown(c, bond'[c], Known')
    BY <2>1, <2>3, Zenon
  <2>5. db' = db /\ fails' = fails /\ look' = look BY <1>4, Zenon
  <2>6. Range(bucket') \subseteq Known' /\ db' \subseteq Known'
    BY <1>1, <1>3, <1>4, <2>2, <2>5, Zenon
  <2> QED BY <1>1, <1>4, <2>4, <2>5, <2>6, TableStep, Zenon
<1>5. CASE BondAdds(b)
  <2>1. UNCHANGED <<db, fails, look>> /\ ponged' = ponged
    BY <1>5, Zenon DEF BondAdds
  <2>2. ponged \subseteq ponged' /\ ponged' \subseteq Nodes BY <1>1, <2>1, Zenon
  <2>3. BucketOK(bucket') /\ Range(bucket') \subseteq Range(bucket) \cup {b[1]}
    BY <1>5, AddsBucket, Zenon
  <2>4. CASE Step(b, "added")
    <3>1. PICK r : /\ Shape(r) /\ r.pc = "added" /\ r.node = bond[b].node /\ r.ok = bond[b].ok
                   /\ r.oldest = bond[b].oldest /\ bond' = [bond EXCEPT ![b] = r]
      BY <1>0, <2>4, StepRecord, Zenon
    <3>2. r.oldest \in Nodes \cup {None} BY <1>0, <3>1, Zenon DEF BondKnown
    <3> QED BY <1>2, <1>4, <2>1, <2>2, <2>3, <3>1, <3>2, Zenon
  <2>5. CASE /\ Len(bucket) = BucketSize
             /\ bond' = [bond EXCEPT ![b].pc = "contest", ![b].oldest = Oldest]
    <3> DEFINE o == Oldest
               r == [bond[b] EXCEPT !.pc = "contest", !.oldest = o]
    <3>1. bond' = [bond EXCEPT ![b] = r]
      BY <1>0, <2>5, ZenonT(60) DEF BondShape
    <3>2. o \in Nodes
      <4>1. /\ bucket \in Seq(Nodes) /\ Len(bucket) \in Nat /\ Len(bucket) >= 1
        BY <1>1, <2>5, DiscoveryAssumption, SMTT(60) DEF BucketOK
      <4>2. bucket[Len(bucket)] \in Nodes BY <4>1, SMT
      <4> QED BY <4>2, Zenon DEF Oldest
    <3> HIDE DEF o
    <3>3. Shape(r) /\ r.node = bond[b].node /\ r.ok = bond[b].ok /\ r.oldest = o
      BY <1>0, ZenonT(60) DEF Shape
    <3> HIDE DEF r
    <3>4. r.oldest \in Nodes \cup {None} /\ r.oldest \in Nodes BY <3>2, <3>3, Zenon
    <3> QED BY <1>4, <2>1, <2>2, <2>3, <3>1, <3>3, <3>4, ZenonT(60)
  <2> QED BY <1>5, <2>4, <2>5, Zenon DEF BondAdds
<1>6. CASE BondContested(b)
  <2>1. /\ UNCHANGED <<db, fails, look>>
        /\ ponged' = IF errc[b] = "ok" THEN ponged \cup {bond[b].oldest} ELSE ponged
        /\ bond' = [bond EXCEPT ![b].pc = "added", ![b].oldest = None]
    BY <1>6, Zenon DEF BondContested
  <2>2. bond[b].oldest \in Nodes
    <3>1. bond[b].pc = "contesting" /\ "contesting" \in Contests
      BY <1>6, Zenon DEF BondContested, Contests
    <3> QED BY <1>0, <3>1, Zenon DEF BondKnown
  <2>3. ponged \subseteq ponged' /\ ponged' \subseteq Nodes BY <1>1, <2>1, <2>2, Zenon
  <2>4. BucketOK(bucket') /\ Range(bucket') \subseteq Range(bucket) \cup {b[1]}
    BY <1>6, ContestedBucket, Zenon
  <2> DEFINE r == [bond[b] EXCEPT !.pc = "added", !.oldest = None]
  <2>5. bond' = [bond EXCEPT ![b] = r]
    BY <1>0, <2>1, ZenonT(60) DEF BondShape
  <2>6. Shape(r) /\ r.node = bond[b].node /\ r.ok = bond[b].ok /\ r.oldest = None
        /\ r.pc = "added"
    BY <1>0, ZenonT(60) DEF Shape
  <2> HIDE DEF r
  <2>7. r.oldest \in Nodes \cup {None} BY <2>6, Zenon
  <2> QED BY <1>2, <1>4, <2>1, <2>3, <2>4, <2>5, <2>6, <2>7, ZenonT(60)
<1> QED BY <1>5, <1>6, Zenon

\* What is known are nodes.
LEMMA KnownNodes == ASSUME TInv PROVE Known \subseteq Nodes
BY DiscoveryAssumption, Zenon DEF TInv, Known

\* No bond, and one that has just been started, know nothing.
LEMMA FreshKnown ==
  ASSUME NEW b, NEW K PROVE BondKnown(b, NoBond, K) /\ BondKnown(b, [NoBond EXCEPT !.pc = "start"], K)
<1> DEFINE r == [NoBond EXCEPT !.pc = "start"]
<1>1. NoBond.pc = "none" /\ NoBond.node = FALSE /\ NoBond.ok = FALSE /\ NoBond.oldest = None
  BY Zenon DEF NoBond
<1>2. r.pc = "start" /\ r.node = FALSE /\ r.ok = FALSE /\ r.oldest = None
  BY Zenon DEF NoBond
<1> HIDE DEF r
<1>3. /\ "none" \notin AddPcs /\ "start" \notin AddPcs
      /\ "none" \notin Contests /\ "start" \notin Contests
  BY Zenon DEF AddPcs, Contests
<1>4. FALSE \in BOOLEAN BY Zenon
<1>5. BondKnown(b, NoBond, K) BY <1>1, <1>3, <1>4, Zenon DEF BondKnown
<1>6. BondKnown(b, r, K) BY <1>2, <1>3, <1>4, Zenon DEF BondKnown
<1> QED BY <1>5, <1>6, Zenon DEF r

\* A ping starts a bond, and a bond that returns tells bondall of a known node.
LEMMA ReturnKnown ==
  ASSUME IInv, TInv, (\E n \in Nodes : PingReceived(n)) \/ (\E b \in Bonders : BondReturns(b))
  PROVE  TInv'
<1>0. BondShape BY Zenon DEF IInv, BInv
<1>1. ASSUME NEW n \in Nodes, PingReceived(n) PROVE TInv'
  <2> DEFINE b == <<n, "ping">>
  <2>1. b \in Bonders BY Zenon DEF Bonders
  <2>2. Step(b, "start") /\ UNCHANGED <<ponged, db, fails, bucket, look>>
    BY <1>1, Zenon DEF PingReceived
  <2>3. "start" \notin AddPcs /\ "start" \notin Contests BY Zenon DEF AddPcs, Contests
  <2> QED BY <1>0, <2>1, <2>2, <2>3, StepKnown, Zenon
<1>2. ASSUME NEW b \in Bonders, BondReturns(b) PROVE TInv'
  <2>1. /\ UNCHANGED <<ponged, db, bucket>> /\ bond' = [bond EXCEPT ![b] = NoBond]
        /\ fails' = IF bond[b].pc = "added" THEN StoredFails(b[1], 0) ELSE fails
        /\ look' = IF b[2] = "lookup"
                     THEN [look EXCEPT !.awaited = @ \ {b[1]},
                                       !.got = IF bond[b].node THEN @ \cup {b[1]} ELSE @]
                     ELSE look
    BY <1>2, Zenon DEF BondReturns, Return
  <2>2. ponged' = ponged /\ db' = db /\ bucket' = bucket BY <2>1, Zenon
  <2>3. Known' = Known BY <2>2, Zenon DEF Known
  <2>4. \A c \in Bonders : bond'[c] = bond[c] \/ BondKnown(c, bond'[c], Known')
    BY <1>0, <2>1, FreshKnown, Zenon DEF BondShape
  <2>5. fails' \in [Nodes -> Nat]
    <3>1. 0 \in Nat BY Zenon
    <3> QED BY <2>1, <3>1, Zenon DEF TInv, StoredFails
  <2>6. look' = look \/ LookKnown(look', Known')
    <3> SUFFICES ASSUME b[2] = "lookup" PROVE LookKnown(look', Known')
      BY <2>1, Zenon
    <3> DEFINE aw == look.awaited \ {b[1]}
               got == IF bond[b].node THEN look.got \cup {b[1]} ELSE look.got
    <3>1. look' = [look EXCEPT !.awaited = aw, !.got = got] BY <2>1, Zenon
    <3>2. LookKnown(look, Known) /\ LookShape /\ BondKnown(b, bond[b], Known)
      BY Zenon DEF TInv, IInv, LookExact
    <3>3. got \subseteq Known BY <3>2, Zenon DEF LookKnown, BondKnown
    <3>4. IsFiniteSet(got) BY <3>2, FS_AddElement, Zenon DEF LookKnown
    <3> HIDE DEF aw, got
    <3>5. look'.todo = look.todo /\ look'.got = got /\ look'.from = look.from /\ look'.pc = look.pc
      BY <3>1, <3>2, ZenonT(60) DEF LookShape
    <3> QED BY <2>3, <3>2, <3>3, <3>4, <3>5, Zenon DEF LookKnown
  <2> QED BY <2>2, <2>3, <2>4, <2>5, <2>6, TableStep, Zenon DEF TInv
<1> QED BY <1>1, <1>2, Zenon

\* bondall: what its bonds return is counted afresh.
LEMMA BondAllKnown ==
  ASSUME IInv, TInv, NEW nodes, NEW pc, BondAll(nodes, pc), pc # "asking", UNCHANGED ponged
  PROVE  /\ \A c \in Bonders : bond'[c] = bond[c] \/ BondKnown(c, bond'[c], Known')
         /\ LookKnown(look', Known')
<1>1. Known' = Known BY Zenon DEF Known
<1>2. /\ bond' = [b \in Bonders |-> IF b[2] = "lookup" /\ b[1] \in nodes
                                     THEN [NoBond EXCEPT !.pc = "start"] ELSE bond[b]]
      /\ look' = [look EXCEPT !.pc = pc, !.awaited = nodes, !.got = {}, !.from = None]
  BY Zenon DEF BondAll
<1>3. ASSUME NEW c \in Bonders PROVE bond'[c] = bond[c] \/ BondKnown(c, bond'[c], Known')
  <2> DEFINE r == [NoBond EXCEPT !.pc = "start"]
  <2>1. bond'[c] = bond[c] \/ bond'[c] = r BY <1>2, Zenon
  <2>2. BondKnown(c, r, Known') BY FreshKnown, Zenon
  <2> HIDE DEF r
  <2> QED BY <2>1, <2>2, Zenon
<1>4. look'.todo = look.todo /\ look'.got = {} /\ look'.from = None /\ look'.pc = pc
  BY <1>2, ZenonT(60) DEF IInv, LookExact, LookShape
<1>5. LookKnown(look, Known) BY Zenon DEF TInv
<1>6. IsFiniteSet({}) BY FS_EmptySet, Zenon
<1>7. LookKnown(look', Known') BY <1>1, <1>4, <1>5, <1>6, Zenon DEF LookKnown
<1> QED BY <1>3, <1>7, Zenon

\* Lookup and doRefresh.  The steps that touch only the lookup.
LEMMA LookOnlyKnown ==
  ASSUME IInv, TInv, LookupStarts \/ LookupAsks \/ LookupBonded \/ RefreshEnds
  PROVE  TInv'
<1>0. LookKnown(look, Known) /\ LookShape BY Zenon DEF TInv, IInv, LookExact
<1>1. UNCHANGED <<ponged, db, fails, bucket, bond>>
  BY Zenon DEF LookupStarts, LookupAsks, LookupBonded, RefreshEnds
<1>2. ponged' = ponged /\ db' = db /\ fails' = fails /\ bucket' = bucket /\ bond' = bond
  BY <1>1, Zenon
<1>3. Known' = Known BY <1>2, Zenon DEF Known
<1>4. IsFiniteSet({}) BY FS_EmptySet, Zenon
<1>5. ASSUME LookupStarts PROVE LookKnown(look', Known')
  <2>1. \/ look' = [look EXCEPT !.pc = "request"]
        \/ look' = [look EXCEPT !.pc = "ask", !.todo = Range(bucket), !.asked = {}]
    BY <1>5, Zenon DEF LookupStarts
  <2>2. /\ look'.got = look.got /\ look'.from = look.from
        /\ look'.todo = look.todo \/ look'.todo = Range(bucket)
        /\ look'.pc = "request" \/ look'.pc = "ask"
    BY <1>0, <2>1, ZenonT(60) DEF LookShape
  <2>3. look'.pc # "asking" BY <2>2, Zenon
  <2> QED BY <1>0, <1>3, <2>2, <2>3, Zenon DEF LookKnown, TInv
<1>6. ASSUME LookupAsks PROVE LookKnown(look', Known')
  <2>1. PICK n \in look.todo :
          look' = [look EXCEPT !.pc = "asking", !.todo = @ \ {n}, !.asked = @ \cup {n}, !.from = n]
    BY <1>6, Zenon DEF LookupAsks
  <2>2. /\ look'.got = look.got /\ look'.from = n /\ look'.todo = look.todo \ {n}
    BY <1>0, <2>1, ZenonT(60) DEF LookShape
  <2> QED BY <1>0, <1>3, <2>2, Zenon DEF LookKnown
<1>7. ASSUME LookupBonded PROVE LookKnown(look', Known')
  <2>1. look' = [look EXCEPT !.pc = "ask", !.todo = @ \cup (look.got \ look.asked), !.got = {}]
    BY <1>7, Zenon DEF LookupBonded
  <2>2. /\ look'.got = {} /\ look'.from = look.from /\ look'.pc = "ask"
        /\ look'.todo = look.todo \cup (look.got \ look.asked)
    BY <1>0, <2>1, ZenonT(60) DEF LookShape
  <2> QED BY <1>0, <1>3, <1>4, <2>2, Zenon DEF LookKnown
<1>8. ASSUME RefreshEnds PROVE LookKnown(look', Known')
  <2>1. look'.got = {} /\ look'.from = None /\ look'.pc = "none" /\ look'.todo = {}
    BY <1>8, Zenon DEF RefreshEnds, NoLook
  <2> QED BY <1>4, <2>1, Zenon DEF LookKnown
<1>9. LookKnown(look', Known') BY <1>5, <1>6, <1>7, <1>8, Zenon
<1> QED BY <1>2, <1>3, <1>9, TableStep, Zenon DEF TInv

\* findnode's answer: the count of failures, and the entry that failed too often.
LEMMA AnsweredKnown == ASSUME IInv, TInv, LookupAnswered PROVE TInv'
<1> DEFINE n == look.from
           count == IF fails[n] + 1 < MaxFails THEN fails[n] + 1 ELSE MaxFails
<1>1. look.pc = "asking" /\ UNCHANGED <<db, ponged>> BY Zenon DEF LookupAnswered
<1>2. db' = db /\ ponged' = ponged BY <1>1, Zenon
<1>3. Known' = Known BY <1>2, Zenon DEF Known
<1>4. n \in Known /\ n \in Nodes BY <1>1, KnownNodes, Zenon DEF TInv, LookKnown
<1>5. fails' = fails \/ fails' = [fails EXCEPT ![n] = count]
  BY Zenon DEF LookupAnswered, StoredFails
<1>6. fails' \in [Nodes -> Nat]
  <2>1. fails[n] \in Nat BY <1>4, Zenon DEF TInv
  <2>2. count \in Nat BY <2>1, DiscoveryAssumption, SMT
  <2> HIDE DEF count
  <2> QED BY <1>4, <1>5, <2>2, Zenon DEF TInv
<1>7. bucket' = bucket \/ bucket' = Without(n) BY Zenon DEF LookupAnswered
<1>8. BucketOK(bucket') /\ Range(bucket') \subseteq Known'
  <2>1. BucketOK(bucket) /\ Range(bucket) \subseteq Known BY Zenon DEF TInv
  <2> QED BY <1>3, <1>4, <1>7, <2>1, WithoutFacts, Zenon
<1>9. PICK reply : BondAll(reply, "bonding") BY Zenon DEF LookupAnswered
<1>10. "bonding" # "asking" BY Zenon
<1>11. /\ \A c \in Bonders : bond'[c] = bond[c] \/ BondKnown(c, bond'[c], Known')
       /\ LookKnown(look', Known')
  BY <1>2, <1>9, <1>10, BondAllKnown, Zenon
<1> QED BY <1>2, <1>3, <1>6, <1>8, <1>11, TableStep, Zenon DEF TInv

\* The seeds: bondall is asked for them, and those that bonded are stuffed.
LEMMA SeedsKnown == ASSUME IInv, TInv, RefreshRequested \/ RefreshSeeded PROVE TInv'
<1>0. LookKnown(look, Known) BY Zenon DEF TInv
<1>1. UNCHANGED <<ponged, db, fails>> BY Zenon DEF RefreshRequested, RefreshSeeded
<1>2. ponged' = ponged /\ db' = db /\ fails' = fails BY <1>1, Zenon
<1>3. Known' = Known BY <1>2, Zenon DEF Known
<1>4. IsFiniteSet({}) BY FS_EmptySet, Zenon
<1>5. ASSUME RefreshRequested PROVE TInv'
  <2>1. bucket' = bucket BY <1>5, Zenon DEF RefreshRequested
  <2>2. /\ \A c \in Bonders : bond'[c] = bond[c] \/ BondKnown(c, bond'[c], Known')
        /\ LookKnown(look', Known')
    <3>1. ASSUME NEW seeds, BondAll(seeds \cup Nursery, "seeding")
          PROVE  /\ \A c \in Bonders : bond'[c] = bond[c] \/ BondKnown(c, bond'[c], Known')
                 /\ LookKnown(look', Known')
      <4>1. "seeding" # "asking" BY Zenon
      <4> QED BY <1>2, <3>1, <4>1, BondAllKnown, Zenon
    <3>2. ASSUME look' = NoLook, bond' = bond
          PROVE  /\ \A c \in Bonders : bond'[c] = bond[c] \/ BondKnown(c, bond'[c], Known')
                 /\ LookKnown(look', Known')
      <4>1. look'.got = {} /\ look'.from = None /\ look'.pc = "none" /\ look'.todo = {}
        BY <3>2, Zenon DEF NoLook
      <4>2. LookKnown(look', Known') BY <1>4, <4>1, Zenon DEF LookKnown
      <4> QED BY <3>2, <4>2, Zenon
    <3>3. \/ \E seeds : BondAll(seeds \cup Nursery, "seeding")
          \/ look' = NoLook /\ bond' = bond
      BY <1>5, Zenon DEF RefreshRequested
    <3> QED BY <3>1, <3>2, <3>3, Zenon
  <2> QED BY <1>2, <1>3, <2>1, <2>2, TableStep, Zenon DEF TInv
<1>6. ASSUME RefreshSeeded PROVE TInv'
  <2>1. bond' = bond BY <1>6, Zenon DEF RefreshSeeded
  <2>2. look' = [NoLook EXCEPT !.pc = "start", !.phase = 2] BY <1>6, Zenon DEF RefreshSeeded
  <2>3. look'.got = {} /\ look'.from = None /\ look'.pc = "start" /\ look'.todo = {}
    BY <2>2, Zenon DEF NoLook
  <2>4. LookKnown(look', Known') BY <1>4, <2>3, Zenon DEF LookKnown
  <2>5. PICK order \in Orders(look.got \ Range(bucket)) :
          bucket' = SubSeq(bucket \o order, 1, Min({BucketSize, Len(bucket) + Len(order)}))
    BY <1>6, Zenon DEF RefreshSeeded
  <2>6. look.got \subseteq Known /\ look.got \subseteq Nodes /\ IsFiniteSet(look.got)
    BY <1>0, KnownNodes, Zenon DEF LookKnown
  <2>7. BucketOK(bucket) /\ Range(bucket) \subseteq Known BY Zenon DEF TInv
  <2> DEFINE s == SubSeq(bucket \o order, 1, Min({BucketSize, Len(bucket) + Len(order)}))
  <2>8. BucketOK(s) /\ Range(s) \subseteq Range(bucket) \cup look.got
    BY <2>6, <2>7, StuffedFacts, Zenon
  <2>9. BucketOK(bucket') /\ Range(bucket') \subseteq Known
    <3>1. bucket' = s BY <2>5, Zenon
    <3> HIDE DEF s
    <3>2. BucketOK(bucket') /\ Range(bucket') \subseteq Range(bucket) \cup look.got
      BY <2>8, <3>1, Zenon
    <3> QED BY <2>6, <2>7, <3>2, Zenon
  <2> QED BY <1>2, <1>3, <2>1, <2>4, <2>9, TableStep, Zenon DEF TInv
<1> QED BY <1>5, <1>6, Zenon

\* refreshLoop, the expirer and the transport.
LEMMA OtherKnown ==
  ASSUME TInv, \/ LoopStep \/ RefreshBegins \/ RefreshDone \/ CloseRequested \/ RefreshLoopEnds
               \/ (\E n \in Nodes : Answer(n)) \/ (\E n \in Expiring : Expire(n))
               \/ UNCHANGED vars
  PROVE  TInv'
<1>1. UNCHANGED <<ponged, bucket, bond>>
  BY Zenon DEF LoopStep, RefreshBegins, RefreshDone, CloseRequested, RefreshLoopEnds, Answer,
               Expire, vars, tableVars
<1>2. ponged' = ponged /\ bucket' = bucket /\ bond' = bond BY <1>1, Zenon
<1>3. Known' = Known BY <1>2, Zenon DEF Known
<1>4. db' \subseteq db /\ fails' \in [Nodes -> Nat]
  <2>0. 0 \in Nat BY Zenon
  <2>1. ASSUME UNCHANGED <<db, fails>> PROVE db' \subseteq db /\ fails' \in [Nodes -> Nat]
    BY <2>1, Zenon DEF TInv
  <2>2. ASSUME RefreshLoopEnds PROVE db' \subseteq db /\ fails' \in [Nodes -> Nat]
    BY <2>0, <2>2, Zenon DEF RefreshLoopEnds
  <2>3. ASSUME NEW n \in Expiring, Expire(n) PROVE db' \subseteq db /\ fails' \in [Nodes -> Nat]
    BY <2>0, <2>3, Zenon DEF Expire, TInv
  <2>4. \/ UNCHANGED <<db, fails>> \/ RefreshLoopEnds \/ \E n \in Expiring : Expire(n)
    BY Zenon DEF LoopStep, RefreshBegins, RefreshDone, CloseRequested, Answer, vars, tableVars
  <2> QED BY <2>1, <2>2, <2>3, <2>4, Zenon
<1>5. look' = look \/ LookKnown(look', Known')
  <2>1. ASSUME RefreshBegins PROVE LookKnown(look', Known')
    <3>1. look' = [NoLook EXCEPT !.pc = "start"] BY <2>1, Zenon DEF RefreshBegins
    <3>2. look'.got = {} /\ look'.from = None /\ look'.pc = "start" /\ look'.todo = {}
      BY <3>1, Zenon DEF NoLook
    <3> QED BY <3>2, FS_EmptySet, Zenon DEF LookKnown
  <2>2. RefreshBegins \/ UNCHANGED look
    BY Zenon DEF LoopStep, RefreshDone, CloseRequested, RefreshLoopEnds, Answer, Expire,
                 vars, tableVars
  <2> QED BY <2>1, <2>2, Zenon
<1> QED BY <1>2, <1>3, <1>4, <1>5, TableStep, Zenon DEF TInv

\* The table starts with the seeds that the database holds.
LEMMA TInit == Init => TInv
<1> SUFFICES ASSUME Init PROVE TInv BY Zenon
<1>1. /\ ponged = {} /\ db = Seeds /\ fails = [n \in Nodes |-> 0] /\ bucket = << >>
      /\ bond = [b \in Bonders |-> NoBond] /\ look = NoLook
  BY Zenon DEF Init
<1>2. 0 \in Nat BY Zenon
<1>3. fails \in [Nodes -> Nat] BY <1>1, <1>2, Zenon
<1>4. BucketOK(bucket) /\ Range(bucket) \subseteq Known
  <2>1. bucket \in Seq(Nodes) /\ Len(bucket) = 0 /\ DOMAIN bucket = {} BY <1>1, SMT
  <2>2. Range(bucket) = {} BY <2>1, Zenon DEF Range
  <2>3. Distinct(bucket) BY <2>1, Zenon DEF Distinct
  <2>4. Len(bucket) <= BucketSize BY <2>1, DiscoveryAssumption, SMT
  <2> QED BY <2>1, <2>2, <2>3, <2>4, Zenon DEF BucketOK
<1>5. LookKnown(look, Known)
  <2>1. look.got = {} /\ look.from = None /\ look.pc = "none" /\ look.todo = {}
    BY <1>1, Zenon DEF NoLook
  <2> QED BY <2>1, FS_EmptySet, Zenon DEF LookKnown
<1>6. ASSUME NEW b \in Bonders PROVE BondKnown(b, bond[b], Known)
  <2>1. bond[b] = NoBond BY <1>1, Zenon
  <2>2. BondKnown(b, NoBond, Known) BY FreshKnown, Zenon
  <2> HIDE DEF NoBond
  <2> QED BY <2>1, <2>2, Zenon
<1> QED BY <1>1, <1>3, <1>4, <1>5, <1>6, Zenon DEF TInv, Known

\* Every step keeps the invariant of the table.
LEMMA TNext == ASSUME IInv, TInv, [Next]_vars PROVE TInv'
<1>1. CASE LookStep
  BY <1>1, LookOnlyKnown, AnsweredKnown, SeedsKnown, Zenon DEF LookStep
<1>2. CASE \E n \in Pinging : PingReceived(n)
  BY <1>2, DiscoveryAssumption, ReturnKnown, Zenon
<1>3. ASSUME NEW b \in Bonders, BondStep(b) PROVE TInv'
  <2>1. CASE BondReads(b) \/ BondRegisters(b) \/ BondPings(b) \/ BondWaitsPing(b) \/ BondUnregisters(b) \/ BondContests(b)
    BY <2>1, BondStepsKnown, Zenon
  <2>2. CASE BondPinged(b) \/ BondWaited(b) BY <2>2, AnswerKnown, Zenon
  <2>3. CASE BondAdds(b) \/ BondContested(b) BY <2>3, AddKnown, Zenon
  <2>4. CASE BondReturns(b) BY <2>4, ReturnKnown, Zenon
  <2> QED BY <1>3, <2>1, <2>2, <2>3, <2>4, Zenon DEF BondStep
<1>4. CASE \/ LoopStep \/ RefreshBegins \/ RefreshDone \/ CloseRequested \/ RefreshLoopEnds
           \/ (\E n \in Nodes : Answer(n)) \/ (\E n \in Expiring : Expire(n))
           \/ UNCHANGED vars
  BY <1>4, OtherKnown, Zenon
<1> QED BY <1>1, <1>2, <1>3, <1>4, Zenon DEF Next

\* What the goroutines of the table know of stays known, in every reachable state.
THEOREM TableInvariance == Spec => [](IInv /\ TInv)
<1>1. Init => IInv /\ TInv BY InitHolds, TInit, Zenon
<1>2. IInv /\ TInv /\ [Next]_vars => (IInv /\ TInv)'
  BY StepHolds, TNext, Zenon
<1> QED BY <1>1, <1>2, PTL DEF Spec

\* The table holds, and a findnode goes to, only nodes that have answered a ping in
\* this run or were in the database before it, however bonds, expiries and lookups
\* overlap (Table.bond, add, Lookup).
THEOREM AlwaysBondedBeforeFind == Spec => []BondedBeforeFind
<1>1. TInv => BondedBeforeFind
  <2> SUFFICES ASSUME TInv PROVE BondedBeforeFind BY Zenon
  <2>1. Range(bucket) \subseteq Known /\ look.todo \subseteq Known /\ look.from \in Known \cup {None}
    BY Zenon DEF TInv, LookKnown
  <2> QED BY <2>1, Zenon DEF BondedBeforeFind, Known
<1> QED BY <1>1, TableInvariance, PTL

-----------------------------------------------------------------------------
(* The transport.  W is the set of goroutines that wait on their errc: each  *)
(* has an entry in the list or a value in its channel, never both, and no    *)
(* one else has either.  An empty list has no timer.                         *)
Requests == [proc : Callers, from : Nodes, ptype : {"ping", "pong", "neighbors"}]
Outcomes == {"ok"} \cup Failures
Listed(list, p) == \E i \in DOMAIN list : list[i].proc = p
Served(list, out, W) ==
  /\ list \in Seq(Requests) /\ out \in [Callers -> {"none"} \cup Outcomes]
  /\ \A i, j \in DOMAIN list : list[i].proc = list[j].proc => i = j
  /\ \A p \in Callers : p \in W <=> (Listed(list, p) \/ out[p] # "none")
  /\ \A p \in Callers : ~(Listed(list, p) /\ out[p] # "none")

Waiting == {p \in Callers : Awaits(p)}
UInv == Served(plist, errc, Waiting) /\ (timer # "off" => plist # << >>)

\* t is s without its i-th entry.
Drops(s, t, i) ==
  /\ t \in Seq(Requests) /\ Len(t) = Len(s) - 1
  /\ \A j \in 1..(Len(s) - 1) : t[j] = IF j < i THEN s[j] ELSE s[j + 1]

\* plist.Remove takes the entry out and keeps the order of the others.
LEMMA RemovedDrops == ASSUME NEW s \in Seq(Requests), NEW i \in DOMAIN s PROVE Drops(s, Removed(s, i), i)
BY RemovedFacts, Zenon DEF Drops

\* A tail, by its entries.
LEMMA TailFacts ==
  ASSUME NEW S, NEW s \in Seq(S), s # << >>
  PROVE  /\ Tail(s) \in Seq(S) /\ Len(Tail(s)) = Len(s) - 1 /\ Head(s) = s[1] /\ 1 \in DOMAIN s
         /\ \A j \in 1..(Len(s) - 1) : Tail(s)[j] = IF j < 1 THEN s[j] ELSE s[j + 1]
<1>1. Len(s) \in Nat /\ Len(s) >= 1 BY SMT
<1>2. Tail(s) \in Seq(S) /\ Len(Tail(s)) = Len(s) - 1 BY <1>1, SMT
<1>3. ASSUME NEW j \in 1..(Len(s) - 1) PROVE Tail(s)[j] = IF j < 1 THEN s[j] ELSE s[j + 1]
  BY <1>1, <1>3, SMT
<1>4. Head(s) = s[1] /\ 1 \in DOMAIN s BY <1>1, SMT
<1> QED BY <1>2, <1>3, <1>4, Zenon

\* A list of two or more has a tail that is not empty.
LEMMA LongTail == ASSUME NEW S, NEW s \in Seq(S), Len(s) > 1 PROVE Tail(s) # << >>
<1>1. Len(s) \in Nat /\ s # << >> BY SMT
<1>2. Len(Tail(s)) = Len(s) - 1 BY <1>1, TailFacts, Zenon
<1>3. Len(Tail(s)) # 0 BY <1>1, <1>2, SMT
<1>4. Len(<< >>) = 0 BY Zenon
<1> QED BY <1>3, <1>4, Zenon

\* The tail is the list without its first entry.
LEMMA TailDrops ==
  ASSUME NEW s \in Seq(Requests), s # << >>
  PROVE  Drops(s, Tail(s), 1) /\ Head(s) = s[1] /\ 1 \in DOMAIN s
BY TailFacts, Zenon DEF Drops

\* The entry that leaves the list is its caller's only one.
LEMMA DropListed ==
  ASSUME NEW s \in Seq(Requests), NEW t, NEW i \in DOMAIN s, Drops(s, t, i),
         \A j, k \in DOMAIN s : s[j].proc = s[k].proc => j = k
  PROVE  /\ \A p : Listed(t, p) <=> Listed(s, p) /\ p # s[i].proc
         /\ \A j, k \in DOMAIN t : t[j].proc = t[k].proc => j = k
<1> DEFINE at(j) == IF j < i THEN j ELSE j + 1
<1>1. DOMAIN s = 1..Len(s) /\ DOMAIN t = 1..(Len(s) - 1) /\ Len(s) \in Nat /\ i \in 1..Len(s)
  BY SMT DEF Drops
<1>2. ASSUME NEW j \in DOMAIN t PROVE at(j) \in DOMAIN s /\ at(j) # i /\ t[j] = s[at(j)]
  <2>1. at(j) \in DOMAIN s /\ at(j) # i BY <1>1, <1>2, SMT
  <2>2. t[j] = s[at(j)] BY <1>1, <1>2, Zenon DEF Drops
  <2> QED BY <2>1, <2>2, Zenon
<1>3. ASSUME NEW j \in DOMAIN t, NEW k \in DOMAIN t, at(j) = at(k) PROVE j = k
  BY <1>1, <1>3, SMT
<1>4. ASSUME NEW k \in DOMAIN s, k # i PROVE \E j \in DOMAIN t : at(j) = k
  <2>1. CASE k < i
    <3>1. k \in DOMAIN t /\ at(k) = k BY <1>1, <2>1, SMT
    <3> QED BY <3>1, Zenon
  <2>2. CASE ~(k < i)
    <3>1. k - 1 \in DOMAIN t /\ at(k - 1) = k BY <1>1, <1>4, <2>2, SMT
    <3> QED BY <3>1, Zenon
  <2> QED BY <2>1, <2>2, Zenon
<1> HIDE DEF at
<1>5. ASSUME NEW p PROVE Listed(t, p) <=> Listed(s, p) /\ p # s[i].proc
  <2>1. ASSUME Listed(t, p) PROVE Listed(s, p) /\ p # s[i].proc
    <3>1. PICK j \in DOMAIN t : t[j].proc = p BY <2>1, Zenon DEF Listed
    <3>2. at(j) \in DOMAIN s /\ at(j) # i /\ s[at(j)].proc = p BY <1>2, <3>1, Zenon
    <3> QED BY <3>2, Zenon DEF Listed
  <2>2. ASSUME Listed(s, p), p # s[i].proc PROVE Listed(t, p)
    <3>1. PICK k \in DOMAIN s : s[k].proc = p BY <2>2, Zenon DEF Listed
    <3>2. k # i BY <2>2, <3>1, Zenon
    <3>3. PICK j \in DOMAIN t : at(j) = k BY <1>4, <3>2, Zenon
    <3> QED BY <1>2, <3>1, <3>3, Zenon DEF Listed
  <2> QED BY <2>1, <2>2, Zenon
<1>6. ASSUME NEW j \in DOMAIN t, NEW k \in DOMAIN t, t[j].proc = t[k].proc PROVE j = k
  BY <1>2, <1>3, <1>6, Zenon
<1> QED BY <1>5, <1>6, Zenon

\* An entry leaves the list as its caller is told.
LEMMA ServedDrop ==
  ASSUME NEW s, NEW t, NEW out, NEW W, Served(s, out, W), NEW i \in DOMAIN s, Drops(s, t, i),
         NEW e \in Outcomes
  PROVE  Served(t, [out EXCEPT ![s[i].proc] = e], W)
<1> DEFINE q == s[i].proc
           new == [out EXCEPT ![q] = e]
<1>1. s \in Seq(Requests) /\ out \in [Callers -> {"none"} \cup Outcomes] BY Zenon DEF Served
<1>2. s[i] \in Requests BY <1>1, SMT
<1>3. q \in Callers /\ Listed(s, q) BY <1>2, Zenon DEF Requests, Listed
<1>4. e # "none" BY Zenon DEF Outcomes, Failures
<1>5. /\ \A p : Listed(t, p) <=> Listed(s, p) /\ p # q
      /\ \A j, k \in DOMAIN t : t[j].proc = t[k].proc => j = k
  BY <1>1, DropListed, Zenon DEF Served
<1> HIDE DEF q
<1>6. new[q] = e /\ \A p \in Callers \ {q} : new[p] = out[p] BY <1>1, <1>3, Zenon
<1>7. new \in [Callers -> {"none"} \cup Outcomes] BY <1>1, Zenon
<1> HIDE DEF new
<1>8. ASSUME NEW p \in Callers
      PROVE  /\ p \in W <=> (Listed(t, p) \/ new[p] # "none")
             /\ ~(Listed(t, p) /\ new[p] # "none")
  <2>1. CASE p = q BY <1>3, <1>4, <1>5, <1>6, <2>1, Zenon DEF Served
  <2>2. CASE p # q BY <1>5, <1>6, <2>2, Zenon DEF Served
  <2> QED BY <2>1, <2>2, Zenon
<1>9. t \in Seq(Requests) BY Zenon DEF Drops
<1>10. Served(t, new, W) BY <1>5, <1>7, <1>8, <1>9, Zenon DEF Served
<1> QED BY <1>10, Zenon DEF new, q

\* A request joins the list, or is refused, as its caller begins to wait.
LEMMA AppendFacts ==
  ASSUME NEW S, NEW s \in Seq(S), NEW r \in S
  PROVE  /\ Append(s, r) \in Seq(S) /\ DOMAIN Append(s, r) = 1..(Len(s) + 1) /\ DOMAIN s = 1..Len(s)
         /\ Len(s) \in Nat /\ Append(s, r)[Len(s) + 1] = r
         /\ \A j \in 1..Len(s) : Append(s, r)[j] = s[j]
BY SMT

\* Someone who did not wait is put on the list.
LEMMA ServedAppend ==
  ASSUME NEW s, NEW out, NEW W, Served(s, out, W), NEW r \in Requests, r.proc \notin W
  PROVE  Served(Append(s, r), out, W \cup {r.proc})
<1> DEFINE t == Append(s, r)
           m == Len(s) + 1
<1>1. s \in Seq(Requests) BY Zenon DEF Served
<1>2. /\ t \in Seq(Requests) /\ DOMAIN t = 1..m /\ DOMAIN s = 1..Len(s)
      /\ Len(s) \in Nat /\ t[m] = r /\ \A j \in 1..Len(s) : t[j] = s[j]
  BY <1>1, AppendFacts, SMTT(60)
<1>3. DOMAIN t = DOMAIN s \cup {m} /\ m \notin DOMAIN s BY <1>2, SMT
<1> HIDE DEF t, m
<1>4. ASSUME NEW p PROVE Listed(t, p) <=> (Listed(s, p) \/ p = r.proc)
  <2>1. ASSUME Listed(t, p) PROVE Listed(s, p) \/ p = r.proc
    <3>1. PICK j \in DOMAIN t : t[j].proc = p BY <2>1, Zenon DEF Listed
    <3>2. CASE j = m BY <1>2, <3>1, <3>2, Zenon
    <3>3. CASE j \in DOMAIN s BY <1>2, <3>1, <3>3, Zenon DEF Listed
    <3> QED BY <1>3, <3>2, <3>3, Zenon
  <2>2. ASSUME Listed(s, p) PROVE Listed(t, p)
    <3>1. PICK j \in DOMAIN s : s[j].proc = p BY <2>2, Zenon DEF Listed
    <3> QED BY <1>2, <1>3, <3>1, Zenon DEF Listed
  <2>3. Listed(t, r.proc) BY <1>2, <1>3, Zenon DEF Listed
  <2> QED BY <2>1, <2>2, <2>3, Zenon
<1>5. r.proc \in Callers BY Zenon DEF Requests
<1>6. ~Listed(s, r.proc) /\ out[r.proc] = "none" BY <1>5, Zenon DEF Served
<1>7. \A j, k \in DOMAIN t : t[j].proc = t[k].proc => j = k
  <2> SUFFICES ASSUME NEW j \in DOMAIN t, NEW k \in DOMAIN t, t[j].proc = t[k].proc PROVE j = k
    BY Zenon
  <2>1. CASE j \in DOMAIN s /\ k \in DOMAIN s BY <1>2, <2>1, Zenon DEF Served
  <2>2. CASE j = m /\ k = m BY <2>2, Zenon
  <2>3. CASE j = m /\ k \in DOMAIN s BY <1>2, <1>6, <2>3, Zenon DEF Listed
  <2>4. CASE k = m /\ j \in DOMAIN s BY <1>2, <1>6, <2>4, Zenon DEF Listed
  <2> QED BY <1>3, <2>1, <2>2, <2>3, <2>4, Zenon
<1>8. ASSUME NEW p \in Callers
      PROVE  /\ p \in W \cup {r.proc} <=> (Listed(t, p) \/ out[p] # "none")
             /\ ~(Listed(t, p) /\ out[p] # "none")
  BY <1>4, <1>6, Zenon DEF Served
<1>9. Served(t, out, W \cup {r.proc}) BY <1>2, <1>7, <1>8, Zenon DEF Served
<1> QED BY <1>9, Zenon DEF t

\* Someone who did not wait is given an outcome at once.
LEMMA ServedRefused ==
  ASSUME NEW s, NEW out, NEW W, Served(s, out, W), NEW q \in Callers, q \notin W, NEW e \in Outcomes
  PROVE  Served(s, [out EXCEPT ![q] = e], W \cup {q})
<1> DEFINE new == [out EXCEPT ![q] = e]
<1>1. out \in [Callers -> {"none"} \cup Outcomes] BY Zenon DEF Served
<1>2. e # "none" BY Zenon DEF Outcomes, Failures
<1>3. new \in [Callers -> {"none"} \cup Outcomes] BY <1>1, Zenon
<1>4. new[q] = e /\ \A p \in Callers \ {q} : new[p] = out[p] BY <1>1, Zenon
<1> HIDE DEF new
<1>5. ASSUME NEW p \in Callers
      PROVE  /\ p \in W \cup {q} <=> (Listed(s, p) \/ new[p] # "none")
             /\ ~(Listed(s, p) /\ new[p] # "none")
  <2>1. CASE p = q BY <1>2, <1>4, <2>1, Zenon DEF Served
  <2>2. CASE p # q BY <1>4, <2>2, Zenon DEF Served
  <2> QED BY <2>1, <2>2, Zenon
<1>6. Served(s, new, W \cup {q}) BY <1>3, <1>5, Zenon DEF Served
<1> QED BY <1>6, Zenon DEF new

\* A caller reads its channel and waits no longer.
LEMMA ServedReceived ==
  ASSUME NEW s, NEW out, NEW W, Served(s, out, W), NEW q \in Callers, out[q] # "none"
  PROVE  Served(s, [out EXCEPT ![q] = "none"], W \ {q})
<1> DEFINE new == [out EXCEPT ![q] = "none"]
<1>1. out \in [Callers -> {"none"} \cup Outcomes] BY Zenon DEF Served
<1>2. new \in [Callers -> {"none"} \cup Outcomes] BY <1>1, Zenon
<1>3. new[q] = "none" /\ \A p \in Callers \ {q} : new[p] = out[p] BY <1>1, Zenon
<1> HIDE DEF new
<1>4. ASSUME NEW p \in Callers
      PROVE  /\ p \in W \ {q} <=> (Listed(s, p) \/ new[p] # "none")
             /\ ~(Listed(s, p) /\ new[p] # "none")
  <2>1. CASE p = q BY <1>3, <2>1, Zenon DEF Served
  <2>2. CASE p # q BY <1>3, <2>2, Zenon DEF Served
  <2> QED BY <2>1, <2>2, Zenon
<1>5. Served(s, new, W \ {q}) BY <1>2, <1>4, Zenon DEF Served
<1> QED BY <1>5, Zenon DEF new

\* resetTimeout serves no one twice and leaves no timer behind.
LEMMA ResetServed ==
  ASSUME NEW list, NEW next, NEW sent, NEW out, NEW W, Served(list, out, W),
         ResetTimeout(list, next, sent, out)
  PROVE  Served(plist', errc', W) /\ (timer' # "off" => plist' # << >>)
<1>1. CASE plist' = list /\ errc' = out /\ (list = << >> => timer' = "off")
  BY <1>1, Zenon
<1>2. ASSUME list # << >>, plist' = Tail(list), errc' = [out EXCEPT ![Head(list).proc] = "warp"],
             timer' = IF sent = "stale" /\ Len(list) > 1 THEN "stale" ELSE "off"
      PROVE  Served(plist', errc', W) /\ (timer' # "off" => plist' # << >>)
  <2>1. list \in Seq(Requests) BY Zenon DEF Served
  <2>2. Drops(list, Tail(list), 1) /\ Head(list) = list[1] /\ 1 \in DOMAIN list
    BY <1>2, <2>1, TailDrops, Zenon
  <2>3. "warp" \in Outcomes BY Zenon DEF Outcomes, Failures
  <2>4. Served(Tail(list), [out EXCEPT ![list[1].proc] = "warp"], W)
    BY <2>2, <2>3, ServedDrop, Zenon
  <2>5. Served(plist', errc', W) BY <1>2, <2>2, <2>4, Zenon
  <2>6. ASSUME Len(list) > 1 PROVE Tail(list) # << >> BY <2>1, <2>6, LongTail, Zenon
  <2>7. timer' # "off" => plist' # << >> BY <1>2, <2>6, Zenon
  <2> QED BY <2>5, <2>7, Zenon
<1>3. \/ plist' = list /\ errc' = out /\ (list = << >> => timer' = "off")
      \/ /\ list # << >> /\ plist' = Tail(list) /\ errc' = [out EXCEPT ![Head(list).proc] = "warp"]
         /\ timer' = IF sent = "stale" /\ Len(list) > 1 THEN "stale" ELSE "off"
  BY Zenon DEF ResetTimeout
<1> QED BY <1>1, <1>2, <1>3, Zenon

\* udp.pending makes its caller one who waits: on the list, or refused after close.
LEMMA PendingServed ==
  ASSUME UInv, NEW p \in Callers, p \notin Waiting, NEW from \in Nodes,
         NEW ptype \in {"ping", "pong", "neighbors"}, Pending(p, from, ptype)
  PROVE  Served(plist', errc', Waiting \cup {p}) /\ (timer' # "off" => plist' # << >>)
<1> DEFINE r == [proc |-> p, from |-> from, ptype |-> ptype]
<1>1. r \in Requests /\ r.proc = p BY Zenon DEF Requests
<1>2. Served(plist, errc, Waiting) BY Zenon DEF UInv
<1>3. \/ ResetTimeout(Append(plist, r), headTimed, timer, errc)
      \/ errc' = [errc EXCEPT ![p] = "closed"] /\ UNCHANGED <<plist, timer>>
  BY Zenon DEF Pending
<1> HIDE DEF r
<1>4. CASE ResetTimeout(Append(plist, r), headTimed, timer, errc)
  <2>1. Served(Append(plist, r), errc, Waiting \cup {r.proc})
    BY <1>1, <1>2, ServedAppend, Zenon
  <2>2. Served(plist', errc', Waiting \cup {r.proc}) /\ (timer' # "off" => plist' # << >>)
    BY <1>4, <2>1, ResetServed, Zenon
  <2> QED BY <1>1, <2>2, Zenon
<1>5. CASE errc' = [errc EXCEPT ![p] = "closed"] /\ UNCHANGED <<plist, timer>>
  <2>1. "closed" \in Outcomes BY Zenon DEF Outcomes, Failures
  <2>2. Served(plist, [errc EXCEPT ![p] = "closed"], Waiting \cup {p})
    BY <1>2, <2>1, ServedRefused, Zenon
  <2>3. plist' = plist /\ timer' = timer BY <1>5, Zenon
  <2> QED BY <1>5, <2>2, <2>3, Zenon DEF UInv
<1> QED BY <1>3, <1>4, <1>5, Zenon

\* Reading the outcome from errc ends the wait.
LEMMA ReadServed ==
  ASSUME UInv, NEW p \in Callers, errc[p] # "none", Received(p)
  PROVE  Served(plist', errc', Waiting \ {p}) /\ (timer' # "off" => plist' # << >>)
<1>1. Served(plist, errc, Waiting) BY Zenon DEF UInv
<1>2. Served(plist, [errc EXCEPT ![p] = "none"], Waiting \ {p}) BY <1>1, ServedReceived, Zenon
<1>3. errc' = [errc EXCEPT ![p] = "none"] /\ UNCHANGED <<plist, timer>> BY Zenon DEF Received
<1>4. plist' = plist /\ timer' = timer BY <1>3, Zenon
<1> QED BY <1>2, <1>3, <1>4, Zenon DEF UInv

\* The loop's own steps: its timer, a reply, and the end.
LEMMA LoopServed ==
  ASSUME UInv, \/ Fire \/ TimedOut \/ LoopCloses
               \/ \E n \in Nodes, ptype \in {"ping", "pong", "neighbors"} : GotReply(n, ptype)
  PROVE  Served(plist', errc', Waiting) /\ (timer' # "off" => plist' # << >>)
<1>0. Served(plist, errc, Waiting) /\ plist \in Seq(Requests) BY Zenon DEF UInv, Served
<1>1. ASSUME Fire PROVE Served(plist', errc', Waiting) /\ (timer' # "off" => plist' # << >>)
  <2>1. timer = "armed" /\ UNCHANGED <<plist, errc>> BY <1>1, Zenon DEF Fire
  <2>2. plist' = plist /\ errc' = errc BY <2>1, Zenon
  <2>3. plist # << >> BY <2>1, Zenon DEF UInv
  <2> QED BY <1>0, <2>2, <2>3, Zenon
<1>2. ASSUME TimedOut PROVE Served(plist', errc', Waiting) /\ (timer' # "off" => plist' # << >>)
  <2>1. timer # "off" BY <1>2, Zenon DEF TimedOut
  <2>2. plist # << >> BY <2>1, Zenon DEF UInv
  <2>3. \/ ResetTimeout(Tail(plist), FALSE, "off", [errc EXCEPT ![Head(plist).proc] = "timeout"])
        \/ ResetTimeout(plist, FALSE, "off", errc)
    BY <1>2, Zenon DEF TimedOut
  <2>4. Drops(plist, Tail(plist), 1) /\ Head(plist) = plist[1] /\ 1 \in DOMAIN plist
    BY <1>0, <2>2, TailDrops, Zenon
  <2>5. "timeout" \in Outcomes BY Zenon DEF Outcomes, Failures
  <2>6. Served(Tail(plist), [errc EXCEPT ![plist[1].proc] = "timeout"], Waiting)
    BY <1>0, <2>4, <2>5, ServedDrop, Zenon
  <2>7. Served(Tail(plist), [errc EXCEPT ![Head(plist).proc] = "timeout"], Waiting)
    BY <2>4, <2>6, Zenon
  <2> QED BY <1>0, <2>3, <2>7, ResetServed, Zenon
<1>3. ASSUME LoopCloses PROVE Served(plist', errc', Waiting) /\ (timer' # "off" => plist' # << >>)
  <2>1. /\ plist' = << >> /\ timer' = "off"
        /\ errc' = [p \in Callers |-> IF Listed(plist, p) THEN "closed" ELSE errc[p]]
    BY <1>3, Zenon DEF LoopCloses, Listed
  <2>2. "closed" \in Outcomes /\ "closed" # "none" BY Zenon DEF Outcomes, Failures
  <2>3. errc' \in [Callers -> {"none"} \cup Outcomes]
    <3>1. \A p \in Callers : errc'[p] \in {"none"} \cup Outcomes
      BY <1>0, <2>1, <2>2, Zenon DEF Served
    <3> QED BY <2>1, <3>1, Zenon
  <2>4. plist' \in Seq(Requests) /\ DOMAIN plist' = {} BY <2>1, SMT
  <2>5. ASSUME NEW p \in Callers PROVE ~Listed(plist', p) /\ (p \in Waiting <=> errc'[p] # "none")
    BY <1>0, <2>1, <2>2, <2>4, Zenon DEF Served, Listed
  <2>6. Served(plist', errc', Waiting) BY <2>3, <2>4, <2>5, Zenon DEF Served
  <2> QED BY <2>1, <2>6, Zenon
<1>4. ASSUME NEW n \in Nodes, NEW ptype \in {"ping", "pong", "neighbors"}, GotReply(n, ptype)
      PROVE  Served(plist', errc', Waiting) /\ (timer' # "off" => plist' # << >>)
  <2>1. PICK i \in Completed(n, ptype) : Resolve(i) BY <1>4, Zenon DEF GotReply
  <2>2. i \in DOMAIN plist BY Zenon DEF Completed, Matches
  <2>3. Drops(plist, Removed(plist, i), i) BY <1>0, <2>2, RemovedDrops, Zenon
  <2>4. "ok" \in Outcomes BY Zenon DEF Outcomes
  <2>5. Served(Removed(plist, i), [errc EXCEPT ![plist[i].proc] = "ok"], Waiting)
    BY <1>0, <2>2, <2>3, <2>4, ServedDrop, Zenon
  <2>6. \E next, sent : ResetTimeout(Removed(plist, i), next, sent,
                                     [errc EXCEPT ![plist[i].proc] = "ok"])
    BY <2>1, Zenon DEF Resolve
  <2> QED BY <2>5, <2>6, ResetServed, Zenon
<1> QED BY <1>1, <1>2, <1>3, <1>4, Zenon

-----------------------------------------------------------------------------
(* Who waits for the transport.                                            *)
WaitPcs == {"pinging", "waiting", "contesting"}

\* The callers of the transport are the bonds and the lookup, which is none of the bonds.
LEMMA LookerApart == Looker \in Callers /\ Looker \notin Bonders /\ Callers = Bonders \cup {Looker}
<1>1. Looker \in Bonders => "doRefresh" \in Nodes BY Zenon DEF Looker, Bonders
<1>2. Looker \notin Bonders BY <1>1, DiscoveryAssumption, Zenon
<1> QED BY <1>2, Zenon DEF Callers

\* Who waits, by the control points of the bonds and of the lookup.
LEMMA WaitingNow ==
  /\ Waiting \subseteq Callers /\ (Looker \in Waiting <=> look.pc = "asking")
  /\ \A c \in Bonders : c \in Waiting <=> bond[c].pc \in WaitPcs
BY LookerApart, Zenon DEF Waiting, Awaits, WaitPcs

\* Who waits after a step, by the new control points.
LEMMA WaitingNext ==
  ASSUME NEW W, W \subseteq Callers, Looker \in W <=> look'.pc = "asking",
         \A c \in Bonders : c \in W <=> bond'[c].pc \in WaitPcs
  PROVE  Waiting' = W
<1>1. ASSUME NEW p \in Callers PROVE p \in Waiting' <=> p \in W
  <2>1. CASE p = Looker BY <2>1, LookerApart, Zenon DEF Waiting, Awaits
  <2>2. CASE p \in Bonders
    <3>1. p # Looker BY <2>2, LookerApart, Zenon
    <3>2. Awaits(p)' <=> bond'[p].pc \in WaitPcs BY <3>1, Zenon DEF Awaits, WaitPcs
    <3> QED BY <2>2, <3>2, Zenon DEF Waiting
  <2> QED BY <2>1, <2>2, LookerApart, Zenon
<1>2. Waiting' \subseteq Callers BY Zenon DEF Waiting
<1> QED BY <1>1, <1>2, Zenon

\* The bonds that wait stay the same.
LEMMA WaitingSame ==
  ASSUME look'.pc = "asking" <=> look.pc = "asking",
         \A c \in Bonders : bond'[c].pc \in WaitPcs <=> bond[c].pc \in WaitPcs
  PROVE  Waiting' = Waiting
BY WaitingNow, WaitingNext, Zenon

\* One bond that begins or ends to wait.
LEMMA OneWaits ==
  ASSUME NEW b \in Bonders, look'.pc = "asking" <=> look.pc = "asking",
         \A c \in Bonders \ {b} : bond'[c].pc \in WaitPcs <=> bond[c].pc \in WaitPcs
  PROVE  Waiting' = IF bond'[b].pc \in WaitPcs THEN Waiting \cup {b} ELSE Waiting \ {b}
<1> DEFINE W == IF bond'[b].pc \in WaitPcs THEN Waiting \cup {b} ELSE Waiting \ {b}
<1>0. b # Looker /\ b \in Callers BY LookerApart, Zenon
<1>1. W \subseteq Callers /\ (Looker \in W <=> look'.pc = "asking")
  BY <1>0, WaitingNow, Zenon
<1>2. ASSUME NEW c \in Bonders PROVE c \in W <=> bond'[c].pc \in WaitPcs
  BY <1>0, WaitingNow, Zenon
<1> HIDE DEF W
<1>3. Waiting' = W BY <1>1, <1>2, WaitingNext, Zenon
<1> QED BY <1>3, Zenon DEF W

\* The steps of a bond that do not touch the transport.
LEMMA QuietPcs ==
  ASSUME BondShape, NEW b \in Bonders,
         \/ BondReads(b) \/ BondRegisters(b) \/ BondUnregisters(b) \/ BondAdds(b) \/ BondReturns(b)
  PROVE  /\ bond[b].pc \notin WaitPcs /\ bond'[b].pc \notin WaitPcs
         /\ \A c \in Bonders \ {b} : bond'[c] = bond[c]
<1>0. Shape(bond[b]) BY Zenon DEF BondShape
<1>1. /\ "start" \notin WaitPcs /\ "lookup" \notin WaitPcs /\ "slot" \notin WaitPcs
      /\ "wait" \notin WaitPcs /\ "unregister" \notin WaitPcs /\ "add" \notin WaitPcs
      /\ "added" \notin WaitPcs /\ "contest" \notin WaitPcs /\ "return" \notin WaitPcs
      /\ "none" \notin WaitPcs
  BY Zenon DEF WaitPcs
<1>2. ASSUME NEW pc, Step(b, pc)
      PROVE  bond'[b].pc = pc /\ \A c \in Bonders \ {b} : bond'[c] = bond[c]
  <2>1. PICK r : Shape(r) /\ r.pc = pc /\ bond' = [bond EXCEPT ![b] = r] BY <1>2, PcSet, Zenon
  <2> QED BY <2>1, SetOne, Zenon
<1>3. ASSUME NEW r, bond' = [bond EXCEPT ![b] = r]
      PROVE  bond'[b] = r /\ \A c \in Bonders \ {b} : bond'[c] = bond[c]
  BY <1>3, Zenon DEF BondShape
<1>4. CASE BondReads(b)
  <2> DEFINE known == b[1] \in db
             Pc(old) == IF ~known \/ fails[b[1]] > 0 \/ old THEN "lookup" ELSE "add"
  <2>0. PICK old \in BOOLEAN : bond' = [bond EXCEPT ![b].node = known, ![b].pc = Pc(old)]
    BY <1>4, ZenonT(60) DEF BondReads
  <2> DEFINE pc == Pc(old)
  <2>1. /\ bond' = [bond EXCEPT ![b].node = known, ![b].pc = pc]
        /\ pc = "lookup" \/ pc = "add"
    BY <2>0, Zenon
  <2> HIDE DEF pc, known
  <2> DEFINE r == [bond[b] EXCEPT !.node = known, !.pc = pc]
  <2>2. bond' = [bond EXCEPT ![b] = r] BY <2>1, ZenonT(60) DEF BondShape
  <2>3. r.pc = pc BY <1>0, ZenonT(60) DEF Shape
  <2> HIDE DEF r
  <2>4. bond[b].pc = "start" BY <1>4, Zenon DEF BondReads
  <2> QED BY <1>1, <1>3, <2>1, <2>2, <2>3, <2>4, ZenonT(60)
<1>5. CASE BondRegisters(b)
  <2>1. bond[b].pc = "lookup" BY <1>5, Zenon DEF BondRegisters
  <2>2. CASE Step(b, "slot") \/ Step(b, "wait") BY <1>1, <1>2, <2>1, <2>2, Zenon
  <2>3. CASE \E ok : bond' = [bond EXCEPT ![b].pc = After(bond[b].node, ok), ![b].node = @ \/ ok]
    <3>1. PICK ok : bond' = [bond EXCEPT ![b].pc = After(bond[b].node, ok), ![b].node = @ \/ ok]
      BY <2>3, Zenon
    <3> DEFINE pc == After(bond[b].node, ok)
               r == [bond[b] EXCEPT !.pc = pc, !.node = @ \/ ok]
    <3>2. bond' = [bond EXCEPT ![b] = r] BY <3>1, ZenonT(60) DEF BondShape
    <3>3. pc = "add" \/ pc = "return" BY Zenon DEF After
    <3> HIDE DEF pc
    <3>4. r.pc = pc BY <1>0, ZenonT(60) DEF Shape
    <3> HIDE DEF r
    <3> QED BY <1>1, <1>3, <2>1, <3>2, <3>3, <3>4, ZenonT(60)
  <2> QED BY <1>5, <2>2, <2>3, Zenon DEF BondRegisters
<1>6. CASE BondUnregisters(b)
  <2>1. /\ bond' = [bond EXCEPT ![b].pc = After(bond[b].node, bond[b].ok),
                                ![b].node = @ \/ bond[b].ok, ![b].ok = FALSE]
        /\ bond[b].pc = "unregister"
    BY <1>6, Zenon DEF BondUnregisters
  <2> DEFINE pc == After(bond[b].node, bond[b].ok)
             r == [bond[b] EXCEPT !.pc = pc, !.node = @ \/ bond[b].ok, !.ok = FALSE]
  <2>2. bond' = [bond EXCEPT ![b] = r] BY <2>1, ZenonT(60) DEF BondShape
  <2>3. pc = "add" \/ pc = "return" BY Zenon DEF After
  <2> HIDE DEF pc
  <2>4. r.pc = pc BY <1>0, ZenonT(60) DEF Shape
  <2> HIDE DEF r
  <2> QED BY <1>1, <1>3, <2>1, <2>2, <2>3, <2>4, ZenonT(60)
<1>7. CASE BondAdds(b)
  <2>1. bond[b].pc = "add" BY <1>7, Zenon DEF BondAdds
  <2>2. CASE Step(b, "added") BY <1>1, <1>2, <2>1, <2>2, Zenon
  <2>3. CASE bond' = [bond EXCEPT ![b].pc = "contest", ![b].oldest = Oldest]
    <3> DEFINE r == [bond[b] EXCEPT !.pc = "contest", !.oldest = Oldest]
    <3>1. bond' = [bond EXCEPT ![b] = r] BY <2>3, ZenonT(60) DEF BondShape
    <3>2. r.pc = "contest" BY <1>0, ZenonT(60) DEF Shape
    <3> HIDE DEF r
    <3> QED BY <1>1, <1>3, <2>1, <3>1, <3>2, ZenonT(60)
  <2> QED BY <1>7, <2>2, <2>3, Zenon DEF BondAdds
<1>8. CASE BondReturns(b)
  <2>1. bond' = [bond EXCEPT ![b] = NoBond] BY <1>8, Zenon DEF BondReturns, Return
  <2>2. bond[b].pc = "added" \/ bond[b].pc = "return" BY <1>8, Zenon DEF BondReturns
  <2>3. NoBond.pc = "none" BY Zenon DEF NoBond
  <2>4. bond'[b] = NoBond /\ \A c \in Bonders \ {b} : bond'[c] = bond[c] BY <1>3, <2>1, Zenon
  <2>5. bond'[b].pc = "none" BY <2>3, <2>4, Zenon
  <2> QED BY <1>1, <2>2, <2>4, <2>5, Zenon
<1> QED BY <1>4, <1>5, <1>6, <1>7, <1>8, Zenon

\* Steps of a bond that do not use the transport.
LEMMA QuietServed ==
  ASSUME IInv, UInv, NEW b \in Bonders,
         \/ BondReads(b) \/ BondRegisters(b) \/ BondUnregisters(b) \/ BondAdds(b) \/ BondReturns(b)
  PROVE  UInv'
<1>0. BondShape BY Zenon DEF IInv, BInv
<1>1. UNCHANGED udpVars
  BY Zenon DEF BondReads, BondRegisters, BondUnregisters, BondAdds, BondReturns
<1>2. plist' = plist /\ errc' = errc /\ timer' = timer BY <1>1, Zenon DEF udpVars
<1>3. look'.pc = look.pc
  <2>1. CASE BondReturns(b)
    <3>1. \/ look' = look
          \/ \E got : look' = [look EXCEPT !.awaited = @ \ {b[1]}, !.got = got]
      BY <2>1, ZenonT(60) DEF BondReturns, Return
    <3> QED BY <3>1, ZenonT(60) DEF IInv, LookExact, LookShape
  <2>2. CASE BondReads(b) \/ BondRegisters(b) \/ BondUnregisters(b) \/ BondAdds(b)
    BY <2>2, Zenon DEF BondReads, BondRegisters, BondUnregisters, BondAdds
  <2> QED BY <2>1, <2>2, Zenon
<1>4. /\ bond[b].pc \notin WaitPcs /\ bond'[b].pc \notin WaitPcs
      /\ \A c \in Bonders \ {b} : bond'[c] = bond[c]
  BY <1>0, QuietPcs, Zenon
<1>5. \A c \in Bonders : bond'[c].pc \in WaitPcs <=> bond[c].pc \in WaitPcs BY <1>4, Zenon
<1>6. Waiting' = Waiting BY <1>3, <1>5, WaitingSame, Zenon
<1> QED BY <1>2, <1>6, Zenon DEF UInv

\* The steps of a bond that send a request.
LEMMA AskServed ==
  ASSUME IInv, TInv, UInv, NEW b \in Bonders, BondPings(b) \/ BondWaitsPing(b) \/ BondContests(b)
  PROVE  UInv'
<1>0. BondShape /\ b[1] \in Nodes /\ b \in Callers
  BY BonderParts, LookerApart, Zenon DEF IInv, BInv
<1>1. /\ "slot" \notin WaitPcs /\ "waitping" \notin WaitPcs /\ "contest" \notin WaitPcs
      /\ "pinging" \in WaitPcs /\ "waiting" \in WaitPcs /\ "contesting" \in WaitPcs
  BY Zenon DEF WaitPcs
<1>2. \E from \in Nodes, ptype \in {"ping", "pong", "neighbors"}, pc \in WaitPcs :
        Pending(b, from, ptype) /\ Step(b, pc) /\ UNCHANGED look /\ bond[b].pc \notin WaitPcs
  <2>1. CASE BondPings(b)
    <3>1. /\ Pending(b, b[1], "pong") /\ Step(b, "pinging") /\ UNCHANGED look
          /\ bond[b].pc = "slot"
      BY <2>1, Zenon DEF BondPings
    <3> QED BY <1>0, <1>1, <3>1, Zenon
  <2>2. CASE BondWaitsPing(b)
    <3>1. /\ Pending(b, b[1], "ping") /\ Step(b, "waiting") /\ UNCHANGED look
          /\ bond[b].pc = "waitping"
      BY <2>2, Zenon DEF BondWaitsPing
    <3> QED BY <1>0, <1>1, <3>1, Zenon
  <2>3. CASE BondContests(b)
    <3>1. /\ Pending(b, bond[b].oldest, "pong") /\ Step(b, "contesting") /\ UNCHANGED look
          /\ bond[b].pc = "contest"
      BY <2>3, Zenon DEF BondContests
    <3>2. "contest" \in Contests BY Zenon DEF Contests
    <3>3. bond[b].oldest \in Nodes BY <3>1, <3>2, Zenon DEF TInv, BondKnown
    <3> QED BY <1>0, <1>1, <3>1, <3>3, Zenon
  <2> QED BY <2>1, <2>2, <2>3, Zenon
<1>3. PICK from \in Nodes, ptype \in {"ping", "pong", "neighbors"}, pc \in WaitPcs :
        Pending(b, from, ptype) /\ Step(b, pc) /\ UNCHANGED look /\ bond[b].pc \notin WaitPcs
  BY <1>2, Zenon
<1>4. PICK r : Shape(r) /\ r.pc = pc /\ bond' = [bond EXCEPT ![b] = r] BY <1>0, <1>3, PcSet, Zenon
<1>5. bond'[b] = r /\ \A c \in Bonders \ {b} : bond'[c] = bond[c] BY <1>0, <1>4, SetOne, Zenon
<1>6. bond'[b].pc \in WaitPcs BY <1>4, <1>5, Zenon
<1>7. \A c \in Bonders \ {b} : bond'[c].pc \in WaitPcs <=> bond[c].pc \in WaitPcs BY <1>5, Zenon
<1>8. look' = look BY <1>3, Zenon
<1>9. Waiting' = Waiting \cup {b} BY <1>6, <1>7, <1>8, OneWaits, Zenon
<1>10. b \notin Waiting BY <1>3, WaitingNow, Zenon
<1>11. Served(plist', errc', Waiting \cup {b}) /\ (timer' # "off" => plist' # << >>)
  BY <1>0, <1>3, <1>10, PendingServed, Zenon
<1> QED BY <1>9, <1>11, Zenon DEF UInv

\* pingpong ends: the bonds that joined it do not wait for the transport.
LEMMA FinishPcs ==
  ASSUME BondShape, NEW b \in Bonders, NEW ok, Finish(b, ok)
  PROVE  /\ bond'[b].pc \notin WaitPcs
         /\ \A c \in Bonders \ {b} : bond'[c].pc \in WaitPcs <=> bond[c].pc \in WaitPcs
<1>1. /\ "wait" \notin WaitPcs /\ "unregister" \notin WaitPcs /\ "add" \notin WaitPcs
      /\ "return" \notin WaitPcs
  BY Zenon DEF WaitPcs
<1>2. bond'[b].pc \notin WaitPcs
  <2> DEFINE r == [bond[b] EXCEPT !.pc = "unregister", !.ok = ok]
  <2>1. bond'[b] = r BY Zenon DEF Finish
  <2>2. Shape(bond[b]) BY Zenon DEF BondShape
  <2>3. r.pc = "unregister" BY <2>2, ZenonT(60) DEF Shape
  <2> HIDE DEF r
  <2> QED BY <1>1, <2>1, <2>3, Zenon
<1>3. ASSUME NEW c \in Bonders \ {b} PROVE bond'[c].pc \in WaitPcs <=> bond[c].pc \in WaitPcs
  <2> DEFINE pc == After(bond[c].node, ok)
             r == [bond[c] EXCEPT !.pc = pc, !.node = @ \/ ok]
  <2>1. bond'[c] = bond[c] \/ (bond'[c] = r /\ bond[c].pc = "wait") BY <1>3, Zenon DEF Finish
  <2>2. Shape(bond[c]) BY Zenon DEF BondShape
  <2>3. pc = "add" \/ pc = "return" BY Zenon DEF After
  <2> HIDE DEF pc
  <2>4. r.pc = pc BY <2>2, ZenonT(60) DEF Shape
  <2> HIDE DEF r
  <2> QED BY <1>1, <2>1, <2>3, <2>4, Zenon
<1> QED BY <1>2, <1>3, Zenon

\* The steps of a bond that read an answer.
LEMMA HeardServed ==
  ASSUME IInv, UInv, NEW b \in Bonders, BondPinged(b) \/ BondWaited(b) \/ BondContested(b)
  PROVE  UInv'
<1>0. BondShape /\ b \in Callers BY LookerApart, Zenon DEF IInv, BInv
<1>1. errc[b] # "none" /\ Received(b) /\ UNCHANGED look
  BY Zenon DEF BondPinged, BondWaited, BondContested
<1>2. "waitping" \notin WaitPcs /\ "added" \notin WaitPcs BY Zenon DEF WaitPcs
<1>3. /\ bond'[b].pc \notin WaitPcs
      /\ \A c \in Bonders \ {b} : bond'[c].pc \in WaitPcs <=> bond[c].pc \in WaitPcs
  <2>1. CASE \E ok : Finish(b, ok) BY <1>0, <2>1, FinishPcs, Zenon
  <2>2. CASE Step(b, "waitping")
    <3>1. PICK r : Shape(r) /\ r.pc = "waitping" /\ bond' = [bond EXCEPT ![b] = r]
      BY <1>0, <2>2, PcSet, Zenon
    <3>2. bond'[b] = r /\ \A c \in Bonders \ {b} : bond'[c] = bond[c] BY <1>0, <3>1, SetOne, Zenon
    <3> QED BY <1>2, <3>1, <3>2, Zenon
  <2>3. CASE bond' = [bond EXCEPT ![b].pc = "added", ![b].oldest = None]
    <3> DEFINE r == [bond[b] EXCEPT !.pc = "added", !.oldest = None]
    <3>1. bond'[b] = r /\ \A c \in Bonders \ {b} : bond'[c] = bond[c]
      BY <1>0, <2>3, ZenonT(60) DEF BondShape
    <3>2. Shape(bond[b]) BY <1>0, Zenon DEF BondShape
    <3>3. r.pc = "added" BY <3>2, ZenonT(60) DEF Shape
    <3> HIDE DEF r
    <3> QED BY <1>2, <3>1, <3>3, Zenon
  <2>4. \/ \E ok : Finish(b, ok)
        \/ Step(b, "waitping")
        \/ bond' = [bond EXCEPT ![b].pc = "added", ![b].oldest = None]
    BY ZenonT(60) DEF BondPinged, BondWaited, BondContested
  <2> QED BY <2>1, <2>2, <2>3, <2>4, Zenon
<1>4. look' = look BY <1>1, Zenon
<1>5. Waiting' = Waiting \ {b} BY <1>3, <1>4, OneWaits, Zenon
<1>6. Served(plist', errc', Waiting \ {b}) /\ (timer' # "off" => plist' # << >>)
  BY <1>0, <1>1, ReadServed, Zenon
<1> QED BY <1>5, <1>6, Zenon DEF UInv

\* bondall restarts no bond that waits: none of its own is left when it is called.
LEMMA BondAllWaits ==
  ASSUME IInv, NEW nodes, NEW pc, BondAll(nodes, pc), look.pc \notin {"bonding", "seeding"}
  PROVE  /\ look'.pc = pc /\ \A c \in Bonders : bond'[c].pc \in WaitPcs <=> bond[c].pc \in WaitPcs
<1>1. look'.pc = pc
  BY ZenonT(60) DEF BondAll, IInv, LookExact, LookShape
<1>2. "none" \notin WaitPcs /\ "start" \notin WaitPcs BY Zenon DEF WaitPcs
<1>3. look.awaited = {} BY Zenon DEF IInv, LookExact
<1>4. ASSUME NEW c \in Bonders PROVE bond'[c].pc \in WaitPcs <=> bond[c].pc \in WaitPcs
  <2> DEFINE r == [NoBond EXCEPT !.pc = "start"]
  <2>1. bond'[c] = IF c[2] = "lookup" /\ c[1] \in nodes THEN r ELSE bond[c] BY Zenon DEF BondAll
  <2>2. r.pc = "start" BY Zenon DEF NoBond
  <2> HIDE DEF r
  <2>3. ASSUME c[2] = "lookup" PROVE bond[c].pc = "none"
    <3>1. c = <<c[1], "lookup">> /\ c[1] \in Nodes BY <2>3, BonderParts, Zenon
    <3>2. bond[<<c[1], "lookup">>].pc = "none" BY <1>3, <3>1, Zenon DEF IInv, LookExact
    <3> QED BY <3>1, <3>2, Zenon
  <2> QED BY <1>2, <2>1, <2>2, <2>3, Zenon
<1> QED BY <1>1, <1>4, Zenon

\* Steps of the refresh and its lookup.
LEMMA LookServed == ASSUME IInv, TInv, UInv, LookStep PROVE UInv'
<1>0. LookShape /\ Looker \in Callers /\ Looker \notin Bonders BY LookerApart, Zenon DEF IInv, LookExact
<1>1. ASSUME UNCHANGED udpVars, look.pc # "asking", look'.pc # "asking",
             \A c \in Bonders : bond'[c].pc \in WaitPcs <=> bond[c].pc \in WaitPcs
      PROVE  UInv'
  <2>1. Waiting' = Waiting BY <1>1, WaitingSame, Zenon
  <2>2. plist' = plist /\ errc' = errc /\ timer' = timer BY <1>1, Zenon DEF udpVars
  <2> QED BY <2>1, <2>2, Zenon DEF UInv
<1>2. /\ "start" # "asking" /\ "request" # "asking" /\ "ask" # "asking" /\ "bonding" # "asking"
      /\ "seeding" # "asking" /\ "none" # "asking"
      /\ "ask" \notin {"bonding", "seeding"} /\ "asking" \notin {"bonding", "seeding"}
      /\ "request" \notin {"bonding", "seeding"}
  BY Zenon
<1>3. NoLook.pc = "none" /\ [NoLook EXCEPT !.pc = "start", !.phase = 2].pc = "start"
  BY Zenon DEF NoLook
<1>4. CASE LookupStarts
  <2>1. look.pc = "start" /\ UNCHANGED udpVars /\ bond' = bond BY <1>4, Zenon DEF LookupStarts
  <2>2. \/ look' = [look EXCEPT !.pc = "request"]
        \/ look' = [look EXCEPT !.pc = "ask", !.todo = Range(bucket), !.asked = {}]
    BY <1>4, Zenon DEF LookupStarts
  <2>3. look'.pc = "request" \/ look'.pc = "ask" BY <1>0, <2>2, ZenonT(60) DEF LookShape
  <2> QED BY <1>1, <1>2, <2>1, <2>3, Zenon
<1>5. CASE LookupAsks
  <2>1. PICK n \in look.todo :
          /\ Pending(Looker, n, "neighbors")
          /\ look' = [look EXCEPT !.pc = "asking", !.todo = @ \ {n}, !.asked = @ \cup {n}, !.from = n]
    BY <1>5, Zenon DEF LookupAsks
  <2>2. look.pc = "ask" /\ bond' = bond BY <1>5, Zenon DEF LookupAsks
  <2>3. look'.pc = "asking" BY <1>0, <2>1, ZenonT(60) DEF LookShape
  <2>4. n \in Nodes BY KnownNodes, Zenon DEF TInv, LookKnown
  <2>5. Looker \notin Waiting BY <1>2, <2>2, WaitingNow, Zenon
  <2>6. Served(plist', errc', Waiting \cup {Looker}) /\ (timer' # "off" => plist' # << >>)
    BY <1>0, <2>1, <2>4, <2>5, PendingServed, ZenonT(60)
  <2>7. Waiting' = Waiting \cup {Looker}
    <3> DEFINE W == Waiting \cup {Looker}
    <3>1. W \subseteq Callers /\ (Looker \in W <=> look'.pc = "asking")
      BY <1>0, <2>3, WaitingNow, Zenon
    <3>2. \A c \in Bonders : c \in W <=> bond'[c].pc \in WaitPcs BY <1>0, <2>2, WaitingNow, Zenon
    <3> HIDE DEF W
    <3>3. Waiting' = W BY <3>1, <3>2, WaitingNext, Zenon
    <3> QED BY <3>3, Zenon DEF W
  <2> QED BY <2>6, <2>7, Zenon DEF UInv
<1>6. CASE LookupAnswered
  <2>1. look.pc = "asking" /\ errc[Looker] # "none" /\ Received(Looker) BY <1>6, Zenon DEF LookupAnswered
  <2>2. PICK reply : BondAll(reply, "bonding") BY <1>6, Zenon DEF LookupAnswered
  <2>3. /\ look'.pc = "bonding" /\ \A c \in Bonders : bond'[c].pc \in WaitPcs <=> bond[c].pc \in WaitPcs
    BY <1>2, <2>1, <2>2, BondAllWaits, Zenon
  <2>4. Served(plist', errc', Waiting \ {Looker}) /\ (timer' # "off" => plist' # << >>)
    BY <1>0, <2>1, ReadServed, Zenon
  <2>5. Waiting' = Waiting \ {Looker}
    <3> DEFINE W == Waiting \ {Looker}
    <3>1. W \subseteq Callers /\ (Looker \in W <=> look'.pc = "asking")
      BY <1>0, <1>2, <2>3, WaitingNow, Zenon
    <3>2. \A c \in Bonders : c \in W <=> bond'[c].pc \in WaitPcs BY <1>0, <2>3, WaitingNow, Zenon
    <3> HIDE DEF W
    <3>3. Waiting' = W BY <3>1, <3>2, WaitingNext, Zenon
    <3> QED BY <3>3, Zenon DEF W
  <2> QED BY <2>4, <2>5, Zenon DEF UInv
<1>7. CASE LookupBonded
  <2>1. /\ look.pc = "bonding" /\ UNCHANGED udpVars /\ bond' = bond
        /\ look' = [look EXCEPT !.pc = "ask", !.todo = @ \cup (look.got \ look.asked), !.got = {}]
    BY <1>7, Zenon DEF LookupBonded
  <2>2. look'.pc = "ask" BY <1>0, <2>1, ZenonT(60) DEF LookShape
  <2> QED BY <1>1, <1>2, <2>1, <2>2, Zenon
<1>8. CASE RefreshEnds
  <2>1. look.pc = "ask" /\ UNCHANGED udpVars /\ bond' = bond /\ look' = NoLook
    BY <1>8, Zenon DEF RefreshEnds
  <2> QED BY <1>1, <1>2, <1>3, <2>1, Zenon
<1>9. CASE RefreshRequested
  <2>1. look.pc = "request" /\ UNCHANGED udpVars BY <1>9, Zenon DEF RefreshRequested
  <2>2. \/ \E nodes : BondAll(nodes, "seeding")
        \/ look' = NoLook /\ bond' = bond
    BY <1>9, Zenon DEF RefreshRequested
  <2>3. CASE \E nodes : BondAll(nodes, "seeding")
    <3>1. /\ look'.pc = "seeding" /\ \A c \in Bonders : bond'[c].pc \in WaitPcs <=> bond[c].pc \in WaitPcs
      BY <1>2, <2>1, <2>3, BondAllWaits, Zenon
    <3> QED BY <1>1, <1>2, <2>1, <3>1, Zenon
  <2>4. CASE look' = NoLook /\ bond' = bond BY <1>1, <1>2, <1>3, <2>1, <2>4, Zenon
  <2> QED BY <2>2, <2>3, <2>4, Zenon
<1>10. CASE RefreshSeeded
  <2>1. /\ look.pc = "seeding" /\ UNCHANGED udpVars /\ bond' = bond
        /\ look' = [NoLook EXCEPT !.pc = "start", !.phase = 2]
    BY <1>10, Zenon DEF RefreshSeeded
  <2>2. look'.pc = "start" BY <1>3, <2>1, Zenon
  <2> QED BY <1>1, <1>2, <2>1, <2>2, Zenon
<1> QED BY <1>4, <1>5, <1>6, <1>7, <1>8, <1>9, <1>10, ZenonT(60) DEF LookStep

\* The steps of the loop, of refreshLoop, of the expirer and a ping received.
LEMMA OtherServed ==
  ASSUME IInv, UInv,
         \/ LoopStep \/ RefreshBegins \/ RefreshDone \/ CloseRequested \/ RefreshLoopEnds
         \/ (\E n \in Nodes : Answer(n)) \/ (\E n \in Expiring : Expire(n))
         \/ (\E n \in Nodes : PingReceived(n)) \/ UNCHANGED vars
  PROVE  UInv'
<1>0. "start" # "asking" /\ "none" # "asking" /\ "none" \notin WaitPcs /\ "start" \notin WaitPcs
      /\ "nil" # "running"
  BY Zenon DEF WaitPcs
<1>1. CASE LoopStep \/ (\E n \in Nodes : Answer(n))
  <2>1. UNCHANGED tableVars BY <1>1, Zenon DEF LoopStep, Answer
  <2>2. bond' = bond /\ look' = look BY <2>1, Zenon DEF tableVars
  <2>3. Waiting' = Waiting BY <2>2, WaitingSame, Zenon
  <2>4. \/ Fire \/ TimedOut \/ LoopCloses
        \/ \E n \in Nodes, ptype \in {"ping", "pong", "neighbors"} : GotReply(n, ptype)
    BY <1>1, Zenon DEF LoopStep, Answer
  <2>5. Served(plist', errc', Waiting) /\ (timer' # "off" => plist' # << >>)
    BY <2>4, LoopServed, Zenon
  <2> QED BY <2>3, <2>5, Zenon DEF UInv
<1>2. ASSUME UNCHANGED <<plist, errc, timer>>, look'.pc = "asking" <=> look.pc = "asking",
             \A c \in Bonders : bond'[c].pc \in WaitPcs <=> bond[c].pc \in WaitPcs
      PROVE  UInv'
  <2>1. Waiting' = Waiting BY <1>2, WaitingSame, Zenon
  <2>2. plist' = plist /\ errc' = errc /\ timer' = timer BY <1>2, Zenon
  <2> QED BY <2>1, <2>2, Zenon DEF UInv
<1>3. CASE \/ RefreshDone \/ CloseRequested \/ RefreshLoopEnds \/ (\E n \in Expiring : Expire(n))
           \/ UNCHANGED vars
  <2>1. UNCHANGED <<plist, errc, timer>>
    BY <1>3, Zenon DEF RefreshDone, CloseRequested, RefreshLoopEnds, Expire, vars, udpVars
  <2>2. UNCHANGED <<bond, look>>
    BY <1>3, Zenon DEF RefreshDone, CloseRequested, RefreshLoopEnds, Expire, vars, tableVars
  <2>3. bond' = bond /\ look' = look BY <2>2, Zenon
  <2> QED BY <1>2, <2>1, <2>3, Zenon
<1>4. CASE RefreshBegins
  <2>1. /\ UNCHANGED udpVars /\ bond' = bond /\ refresh = "nil"
        /\ look' = [NoLook EXCEPT !.pc = "start"]
    BY <1>4, Zenon DEF RefreshBegins
  <2>2. look'.pc = "start" BY <2>1, Zenon DEF NoLook
  <2>3. look.pc = "none" BY <1>0, <2>1, Zenon DEF IInv, LookExact
  <2>4. UNCHANGED <<plist, errc, timer>> BY <2>1, Zenon DEF udpVars
  <2> QED BY <1>0, <1>2, <2>1, <2>2, <2>3, <2>4, ZenonT(60)
<1>5. ASSUME NEW n \in Nodes, PingReceived(n) PROVE UInv'
  <2> DEFINE b == <<n, "ping">>
  <2>0. BondShape /\ b \in Bonders BY Zenon DEF IInv, BInv, Bonders
  <2>1. bond[b].pc = "none" /\ Step(b, "start") /\ UNCHANGED udpVars /\ look' = look
    BY <1>5, Zenon DEF PingReceived
  <2> HIDE DEF b
  <2>2. PICK r : Shape(r) /\ r.pc = "start" /\ bond' = [bond EXCEPT ![b] = r]
    BY <2>0, <2>1, PcSet, Zenon
  <2>3. bond'[b] = r /\ \A c \in Bonders \ {b} : bond'[c] = bond[c] BY <2>0, <2>2, SetOne, Zenon
  <2>4. \A c \in Bonders : bond'[c].pc \in WaitPcs <=> bond[c].pc \in WaitPcs
    BY <1>0, <2>1, <2>2, <2>3, Zenon
  <2>5. UNCHANGED <<plist, errc, timer>> BY <2>1, Zenon DEF udpVars
  <2> QED BY <1>2, <2>1, <2>4, <2>5, Zenon
<1> QED BY <1>1, <1>3, <1>4, <1>5, Zenon

\* At the start nobody waits, and the list is empty.
LEMMA UInit == Init => UInv
<1> SUFFICES ASSUME Init PROVE UInv BY Zenon
<1>1. /\ plist = << >> /\ timer = "off" /\ errc = [p \in Callers |-> "none"]
      /\ bond = [b \in Bonders |-> NoBond] /\ look = NoLook
  BY Zenon DEF Init, UdpInit
<1>2. "none" \notin WaitPcs /\ "none" # "asking" BY Zenon DEF WaitPcs
<1>3. NoLook.pc = "none" /\ NoBond.pc = "none" BY Zenon DEF NoLook, NoBond
<1>4. ASSUME NEW p \in Callers PROVE p \notin Waiting
  <2>1. CASE p = Looker BY <1>1, <1>2, <1>3, <2>1, WaitingNow, Zenon
  <2>2. CASE p \in Bonders
    <3>1. bond[p] = NoBond BY <1>1, <2>2, Zenon
    <3>2. bond[p].pc = "none" BY <1>3, <3>1, Zenon
    <3> QED BY <1>2, <2>2, <3>2, WaitingNow, Zenon
  <2> QED BY <2>1, <2>2, LookerApart, Zenon
<1>5. plist \in Seq(Requests) /\ DOMAIN plist = {} BY <1>1, SMT
<1>6. errc \in [Callers -> {"none"} \cup Outcomes] BY <1>1, Zenon
<1>7. Served(plist, errc, Waiting) BY <1>1, <1>4, <1>5, <1>6, Zenon DEF Served, Listed
<1> QED BY <1>1, <1>7, Zenon DEF UInv

\* Every step keeps the invariant of the transport.
LEMMA UNext == ASSUME IInv, TInv, UInv, [Next]_vars PROVE UInv'
<1>1. CASE LookStep BY <1>1, LookServed, Zenon
<1>2. ASSUME NEW b \in Bonders, BondStep(b) PROVE UInv'
  <2>1. CASE BondReads(b) \/ BondRegisters(b) \/ BondUnregisters(b) \/ BondAdds(b) \/ BondReturns(b)
    BY <2>1, QuietServed, Zenon
  <2>2. CASE BondPings(b) \/ BondWaitsPing(b) \/ BondContests(b) BY <2>2, AskServed, Zenon
  <2>3. CASE BondPinged(b) \/ BondWaited(b) \/ BondContested(b) BY <2>3, HeardServed, Zenon
  <2> QED BY <1>2, <2>1, <2>2, <2>3, Zenon DEF BondStep
<1>3. CASE \/ LoopStep \/ RefreshBegins \/ RefreshDone \/ CloseRequested \/ RefreshLoopEnds
           \/ (\E n \in Nodes : Answer(n)) \/ (\E n \in Expiring : Expire(n))
           \/ (\E n \in Nodes : PingReceived(n)) \/ UNCHANGED vars
  BY <1>3, OtherServed, Zenon
<1>4. (\E n \in Pinging : PingReceived(n)) => (\E n \in Nodes : PingReceived(n))
  BY DiscoveryAssumption, Zenon
<1> QED BY <1>1, <1>2, <1>3, <1>4, Zenon DEF Next

\* The table's and the transport's invariants hold in every reachable state.
THEOREM TransportInvariance == Spec => [](IInv /\ TInv /\ UInv)
<1>1. Init => IInv /\ TInv /\ UInv BY InitHolds, TInit, UInit, Zenon
<1>2. IInv /\ TInv /\ UInv /\ [Next]_vars => (IInv /\ TInv /\ UInv)'
  BY StepHolds, TNext, UNext, Zenon
<1> QED BY <1>1, <1>2, PTL DEF Spec

\* A goroutine that waits on its errc has exactly one entry in the pending list or
\* one value in the channel, and no one else has either: no reply, timeout, clock
\* jump or shutdown loses a caller of ping, waitping or findnode or serves it twice
\* (udp.loop, pending).
THEOREM PendingAlwaysExact == Spec => []PendingExact
<1>1. UInv => PendingExact
  <2> SUFFICES ASSUME UInv, NEW p \in Callers
               PROVE  Cardinality({i \in DOMAIN plist : plist[i].proc = p})
                        + (IF errc[p] # "none" THEN 1 ELSE 0)
                      = IF Awaits(p) THEN 1 ELSE 0
    BY Zenon DEF PendingExact
  <2> DEFINE mine == {i \in DOMAIN plist : plist[i].proc = p}
  <2>1. /\ \A i, j \in DOMAIN plist : plist[i].proc = plist[j].proc => i = j
        /\ Awaits(p) <=> (Listed(plist, p) \/ errc[p] # "none")
        /\ ~(Listed(plist, p) /\ errc[p] # "none")
    BY Zenon DEF UInv, Served, Waiting
  <2>2. CASE Listed(plist, p)
    <3>1. PICK i \in DOMAIN plist : plist[i].proc = p BY <2>2, Zenon DEF Listed
    <3>2. mine = {i} BY <2>1, <3>1, Zenon
    <3>3. Cardinality(mine) = 1 BY <3>2, FS_Singleton, Zenon
    <3>4. Awaits(p) /\ ~(errc[p] # "none") BY <2>1, <2>2, Zenon
    <3> QED BY <3>3, <3>4, SMT
  <2>3. CASE ~Listed(plist, p)
    <3>1. mine = {} BY <2>3, Zenon DEF Listed
    <3>2. Cardinality(mine) = 0 BY <3>1, FS_EmptySet, Zenon
    <3> HIDE DEF mine
    <3>3. Awaits(p) <=> errc[p] # "none" BY <2>1, <2>3, Zenon
    <3>4. Cardinality(mine) + (IF errc[p] # "none" THEN 1 ELSE 0) = IF Awaits(p) THEN 1 ELSE 0
      BY <3>2, <3>3, SMT
    <3> QED BY <3>4, Zenon DEF mine
  <2> QED BY <2>2, <2>3, Zenon
<1> QED BY <1>1, TransportInvariance, PTL

\* Why a node may leave the table.
Cause(n) ==
  \/ \E b \in Bonders : bond[b].oldest = n /\ errc[b] \in Failures
  \/ look.from = n /\ errc[Looker] \in Failures /\ fails[n] + 1 >= MaxFails
BucketKept == \A n \in Range(bucket) \ Range(bucket') : Cause(n)

\* Every step that takes a node out of the bucket has a cause.
LEMMA EvictedStep == ASSUME IInv, TInv, UInv, [Next]_vars PROVE BucketKept
<1>1. ASSUME bucket' = bucket PROVE BucketKept BY <1>1, Zenon DEF Range, BucketKept
<1>2. ASSUME Range(bucket) \subseteq Range(bucket') PROVE BucketKept BY <1>2, Zenon DEF BucketKept
<1>3. BucketOK(bucket) /\ errc \in [Callers -> {"none"} \cup Outcomes] BY Zenon DEF TInv, UInv, Served
<1>4. ASSUME NEW b \in Bonders, BondContested(b) PROVE BucketKept
  <2>1. /\ Range(bucket) \ {bond[b].oldest} \subseteq Range(bucket')
        /\ errc[b] = "ok" => Range(bucket) \subseteq Range(bucket')
    BY <1>4, ContestedBucket, Zenon
  <2>2. errc[b] # "none" BY <1>4, Zenon DEF BondContested
  <2>3. b \in Callers BY LookerApart, Zenon
  <2>4. errc[b] = "ok" \/ errc[b] \in Failures BY <1>3, <2>2, <2>3, Zenon DEF Outcomes
  <2> QED BY <2>1, <2>4, Zenon DEF BucketKept, Cause
<1>5. ASSUME LookupAnswered PROVE BucketKept
  <2> DEFINE n == look.from
             count == IF fails[n] + 1 < MaxFails THEN fails[n] + 1 ELSE MaxFails
  <2>1. bucket' = IF errc[Looker] \in Failures /\ count = MaxFails THEN Without(n) ELSE bucket
    BY <1>5, Zenon DEF LookupAnswered
  <2>2. look.pc = "asking" BY <1>5, Zenon DEF LookupAnswered
  <2>3. n \in Nodes BY <2>2, KnownNodes, Zenon DEF TInv, LookKnown
  <2>4. fails[n] \in Nat BY <2>3, Zenon DEF TInv
  <2>5. count = MaxFails => fails[n] + 1 >= MaxFails BY <2>4, DiscoveryAssumption, SMT
  <2> HIDE DEF count
  <2>6. CASE errc[Looker] \in Failures /\ count = MaxFails
    <3>1. Range(bucket') = Range(bucket) \ {n} BY <1>3, <2>1, <2>6, WithoutFacts, Zenon
    <3>2. Cause(n) BY <2>5, <2>6, Zenon DEF Cause
    <3> QED BY <3>1, <3>2, Zenon DEF BucketKept
  <2>7. CASE ~(errc[Looker] \in Failures /\ count = MaxFails) BY <1>1, <2>1, <2>7, Zenon
  <2> QED BY <2>6, <2>7, Zenon
<1>6. ASSUME NEW b \in Bonders, BondAdds(b) PROVE BucketKept BY <1>2, <1>6, AddsBucket, Zenon
<1>7. ASSUME RefreshSeeded PROVE BucketKept
  <2>1. PICK order \in Orders(look.got \ Range(bucket)) :
          bucket' = SubSeq(bucket \o order, 1, Min({BucketSize, Len(bucket) + Len(order)}))
    BY <1>7, Zenon DEF RefreshSeeded
  <2>2. look.got \subseteq Nodes /\ IsFiniteSet(look.got)
    BY KnownNodes, Zenon DEF TInv, LookKnown
  <2> DEFINE s == SubSeq(bucket \o order, 1, Min({BucketSize, Len(bucket) + Len(order)}))
  <2>3. Range(bucket) \subseteq Range(s) BY <1>3, <2>2, StuffedFacts, Zenon
  <2>4. bucket' = s BY <2>1, Zenon
  <2> HIDE DEF s
  <2> QED BY <1>2, <2>3, <2>4, Zenon
<1>8. CASE LookStep
  <2>1. CASE LookupStarts \/ LookupAsks \/ LookupBonded \/ RefreshEnds \/ RefreshRequested
    BY <1>1, <2>1, Zenon DEF LookupStarts, LookupAsks, LookupBonded, RefreshEnds, RefreshRequested
  <2> QED BY <1>5, <1>7, <1>8, <2>1, Zenon DEF LookStep
<1>9. ASSUME NEW b \in Bonders, BondStep(b) PROVE BucketKept
  <2>1. CASE \/ BondReads(b) \/ BondRegisters(b) \/ BondPings(b) \/ BondWaitsPing(b) \/ BondPinged(b)
             \/ BondWaited(b) \/ BondUnregisters(b) \/ BondContests(b) \/ BondReturns(b)
    BY <1>1, <2>1, Zenon DEF BondReads, BondRegisters, BondPings, BondWaitsPing, BondPinged,
       BondWaited, BondUnregisters, BondContests, BondReturns
  <2> QED BY <1>4, <1>6, <1>9, <2>1, Zenon DEF BondStep
<1>10. CASE \/ LoopStep \/ RefreshBegins \/ RefreshDone \/ CloseRequested \/ RefreshLoopEnds
            \/ (\E n \in Nodes : Answer(n)) \/ (\E n \in Expiring : Expire(n))
            \/ (\E n \in Pinging : PingReceived(n)) \/ UNCHANGED vars
  <2>1. UNCHANGED bucket
    BY <1>10, Zenon DEF LoopStep, RefreshBegins, RefreshDone, CloseRequested, RefreshLoopEnds,
       Answer, Expire, PingReceived, vars, tableVars
  <2> QED BY <1>1, <2>1, Zenon
<1> QED BY <1>8, <1>9, <1>10, Zenon DEF Next

\* A node leaves the table only when it has left a ping unanswered that was sent
\* while it was the oldest entry, or has failed too many findnode requests (add,
\* replace, delete).
THEOREM AlwaysEvictedForCause == Spec => EvictedForCause
<1>1. IInv /\ TInv /\ UInv /\ [Next]_vars => [BucketKept]_vars BY EvictedStep, Zenon
<1>2. EvictedForCause <=> [][BucketKept]_vars
  BY Zenon DEF EvictedForCause, BucketKept, Cause
<1> QED BY <1>1, <1>2, TransportInvariance, PTL DEF Spec
=============================================================================
