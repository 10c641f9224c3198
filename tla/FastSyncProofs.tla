---------------------------- MODULE FastSyncProofs ----------------------------
(***************************************************************************)
(* Proofs about fast synchronisation, for every tree of blocks, every set  *)
(* of peers, pivot, window and safety net, and any number of cycles and    *)
(* crashes.                                                                *)
(***************************************************************************)
EXTENDS FastSync, WellFoundedInduction, TLAPS

-----------------------------------------------------------------------------
(* Facts about the tree of blocks.                                         *)

\* A set of natural numbers that is not empty has a least element: the form in
\* which induction over block numbers is used.
LEMMA LeastNatural ==
  ASSUME NEW T, T \subseteq Nat, T # {}
  PROVE  \E x \in T : \A y \in T : x <= y
<1> DEFINE R == {ss \in Nat \X Nat : ss[1] < ss[2]}
<1>1. IsWellFoundedOn(R, Nat)
  BY NatLessThanWellFounded, Zenon DEF OpToRel
<1>2. \A x, y \in T : <<y, x>> \notin R => x <= y
  OBVIOUS
<1> HIDE DEF R
<1>3. \E x \in T : \A y \in T : ~(<<y, x>> \in R)
  BY <1>1, WFMin, Zenon
<1> QED BY <1>2, <1>3, Zenon

\* What the ancestors of a block are like: their numbers go from 0 to the
\* block's, one ancestor each, and each brings its own ancestors along.
Linear(b) ==
  /\ b \in AncestorsOf[b] /\ Genesis \in AncestorsOf[b]
  /\ \A c \in AncestorsOf[b] : Number[c] <= Number[b] /\ AncestorsOf[c] \subseteq AncestorsOf[b]
  /\ \A n \in 0..Number[b] : \E c \in AncestorsOf[b] : Number[c] = n
  /\ \A c, d \in AncestorsOf[b] : Number[c] = Number[d] => c = d

\* Every block's chain is linear, by induction on its number.
LEMMA AncestorFacts == \A b \in Blocks : Linear(b)
<1>1. SUFFICES ASSUME NEW x \in Blocks, ~Linear(x) PROVE FALSE
  BY Zenon
<1> DEFINE T == {Number[b] : b \in {c \in Blocks : ~Linear(c)}}
<1>2. PICK n \in T : \A m \in T : n <= m
  <2>1. T \subseteq Nat /\ T # {}
    BY <1>1, TreeAssumption
  <2> QED BY <2>1, LeastNatural, Zenon
<1>3. PICK b \in Blocks : Number[b] = n /\ ~Linear(b)
  BY Zenon
<1>4. \A c \in Blocks : Number[c] < Number[b] => Linear(c)
  <2> SUFFICES ASSUME NEW c \in Blocks, Number[c] < Number[b], ~Linear(c) PROVE FALSE
    BY Zenon
  <2>1. Number[c] \in T
    BY Zenon
  <2>2. n <= Number[c]
    BY <2>1, <1>2, Zenon
  <2> QED BY <2>2, <1>3, TreeAssumption
<1>5. CASE b = Genesis
  BY <1>3, <1>5, TreeAssumption DEF Linear
<1>6. CASE b # Genesis
  <2> DEFINE p == Parent[b]
  <2>1. /\ p \in Blocks /\ Number[b] = Number[p] + 1
        /\ AncestorsOf[b] = {b} \cup AncestorsOf[p]
        /\ Number[p] \in Nat
        /\ AncestorsOf[p] \subseteq Blocks
    BY <1>6, TreeAssumption, Zenon
  <2>2. Linear(p)
    BY <1>4, <2>1
  <2>3. \A c \in AncestorsOf[p] : Number[c] <= Number[p] /\ Number[c] \in Nat
    BY <2>1, <2>2, TreeAssumption, Zenon DEF Linear
  <2> HIDE DEF p
  <2>4. /\ b \in AncestorsOf[b] /\ Genesis \in AncestorsOf[b]
        /\ \A c \in AncestorsOf[b] :
             Number[c] <= Number[b] /\ AncestorsOf[c] \subseteq AncestorsOf[b]
    BY <2>1, <2>2, <2>3 DEF Linear
  <2>5. \A i \in 0..Number[b] : \E c \in AncestorsOf[b] : Number[c] = i
    <3> SUFFICES ASSUME NEW i \in 0..Number[b] PROVE \E c \in AncestorsOf[b] : Number[c] = i
      BY Zenon
    <3>1. CASE i = Number[b]
      BY <3>1, <2>4, Zenon
    <3>2. CASE i # Number[b]
      <4>1. i \in 0..Number[p]
        BY <3>2, <2>1
      <4> QED BY <4>1, <2>1, <2>2, Zenon DEF Linear
    <3> QED BY <3>1, <3>2, Zenon
  <2>6. \A c, d \in AncestorsOf[b] : Number[c] = Number[d] => c = d
    BY <2>1, <2>2, <2>3 DEF Linear
  <2> QED BY <1>3, <2>4, <2>5, <2>6, Zenon DEF Linear
<1> QED BY <1>5, <1>6, Zenon

\* AncestorAt finds the ancestor with the number asked for.
LEMMA AncestorAtFacts ==
  ASSUME NEW b \in Blocks, NEW n \in 0..Number[b]
  PROVE  /\ AncestorAt(b, n) \in AncestorsOf[b]
         /\ AncestorAt(b, n) \in Blocks
         /\ Number[AncestorAt(b, n)] = n
         /\ \A c \in AncestorsOf[b] : Number[c] = n => c = AncestorAt(b, n)
<1>1. \E c \in AncestorsOf[b] : Number[c] = n
  BY AncestorFacts, Zenon DEF Linear
<1>2. AncestorAt(b, n) \in AncestorsOf[b] /\ Number[AncestorAt(b, n)] = n
  BY <1>1, Zenon DEF AncestorAt
<1> QED BY <1>2, AncestorFacts, TreeAssumption DEF Linear

\* Numbers and Blocks fit.
LEMMA BlockFacts ==
  /\ \A b \in Blocks : /\ Number[b] \in Nat /\ Number[b] \in Numbers
                       /\ Td[b] \in Nat /\ Parent[b] \in Blocks
                       /\ AncestorsOf[b] \subseteq Blocks
  /\ Genesis \in Blocks /\ AncestorsOf[Genesis] = {Genesis} /\ Number[Genesis] = 0
  /\ Numbers \subseteq Nat
BY TreeAssumption DEF Numbers

\* A chain apart from its top is the chain of the parent.
LEMMA ParentChain ==
  ASSUME NEW b \in Blocks, b # Genesis
  PROVE  AncestorsOf[b] = {b} \cup AncestorsOf[Parent[b]]
BY TreeAssumption, Zenon

\* Along a chain, the block below number n is the parent of the one at n.
LEMMA AtParent ==
  ASSUME NEW t \in Blocks, NEW n \in Nat, n + 1 <= Number[t]
  PROVE  /\ AncestorAt(t, n + 1) # Genesis
         /\ Parent[AncestorAt(t, n + 1)] = AncestorAt(t, n)
<1> DEFINE b == AncestorAt(t, n + 1)
<1>1. n \in 0..Number[t] /\ n + 1 \in 0..Number[t] /\ n + 1 # 0
  BY BlockFacts
<1>2. b \in AncestorsOf[t] /\ b \in Blocks /\ Number[b] = n + 1
  BY <1>1, AncestorAtFacts, Zenon
<1> HIDE DEF b
<1>3. b # Genesis
  BY <1>1, <1>2, BlockFacts, Zenon
<1>4. Number[b] = Number[Parent[b]] + 1 /\ AncestorsOf[b] = {b} \cup AncestorsOf[Parent[b]]
  BY <1>2, <1>3, TreeAssumption, Zenon
<1>5. Parent[b] \in Blocks /\ Number[Parent[b]] \in Nat
  BY <1>2, BlockFacts, Zenon
<1>6. Number[Parent[b]] = n
  BY <1>2, <1>4, <1>5
<1>7. Parent[b] \in AncestorsOf[b]
  BY <1>4, <1>5, AncestorFacts, Zenon DEF Linear
<1>8. Parent[b] \in AncestorsOf[t]
  BY <1>2, <1>7, AncestorFacts, Zenon DEF Linear
<1>9. Parent[b] = AncestorAt(t, n)
  BY <1>1, <1>6, <1>8, AncestorAtFacts, Zenon
<1> QED BY <1>3, <1>9, Zenon DEF b

\* Below a block of a chain, the chain is that block's.
LEMMA AtBelow ==
  ASSUME NEW b \in Blocks, NEW c \in AncestorsOf[b], NEW n \in 0..Number[c]
  PROVE  n \in 0..Number[b] /\ AncestorAt(c, n) = AncestorAt(b, n)
<1>1. c \in Blocks /\ Number[c] <= Number[b] /\ AncestorsOf[c] \subseteq AncestorsOf[b]
  BY AncestorFacts, BlockFacts, Zenon DEF Linear
<1>2. n \in 0..Number[b]
  BY <1>1, BlockFacts
<1>3. AncestorAt(c, n) \in AncestorsOf[c] /\ Number[AncestorAt(c, n)] = n
  BY <1>1, AncestorAtFacts, Zenon
<1> QED BY <1>1, <1>2, <1>3, AncestorAtFacts, Zenon

\* A block is its own chain's block at its number.
LEMMA AtSelf ==
  ASSUME NEW b \in Blocks
  PROVE  /\ Number[b] \in 0..Number[b] /\ AncestorAt(b, Number[b]) = b
         /\ 0 \in 0..Number[b] /\ AncestorAt(b, 0) = Genesis
<1>1. Number[b] \in 0..Number[b] /\ 0 \in 0..Number[b]
  BY BlockFacts
<1>2. b \in AncestorsOf[b] /\ Genesis \in AncestorsOf[b] /\ Number[Genesis] = 0
  BY AncestorFacts, BlockFacts, Zenon DEF Linear
<1> QED BY <1>1, <1>2, AncestorAtFacts, Zenon

\* The highest of some numbers that are bounded is one of them.
LEMMA HighestIn ==
  ASSUME NEW m \in Nat, NEW S \in SUBSET (0..m), S # {}
  PROVE  Highest(S) \in S
<1> DEFINE T == {m - n : n \in S}
<1>0. \A n \in S : m - n \in Nat
  OBVIOUS
<1>1. T \subseteq Nat /\ T # {}
  BY <1>0, Zenon
<1>2. PICK x \in T : \A y \in T : x <= y
  BY <1>1, LeastNatural, Zenon
<1>3. PICK n \in S : x = m - n
  BY Zenon
<1>4. \A k \in S : k <= n
  <2> SUFFICES ASSUME NEW k \in S PROVE k <= n
    BY Zenon
  <2>1. m - k \in T
    BY Zenon
  <2>2. x <= m - k
    BY <2>1, <1>2, Zenon
  <2> QED BY <2>2, <1>3
<1> QED BY <1>4, Zenon DEF Highest

-----------------------------------------------------------------------------
(* The inductive invariant.                                                *)

\* The database: a stored header has its total difficulty and its whole chain
\* beside it, and the block of the head hash is there.
Stored ==
  /\ canon \in [Numbers -> Blocks \cup {None}]
  /\ headBlock \in Blocks /\ headHeader \in Blocks /\ headFast \in Blocks
  /\ header \subseteq Blocks /\ trie \subseteq Blocks
  /\ Genesis \in header /\ Has(headBlock)
  /\ \A b \in header : b \in td /\ AncestorsOf[b] \subseteq header

\* The heads in memory are blocks; a node that is down has crashed or panicked.
Memory ==
  /\ up => current \in Blocks /\ currentHeader \in Blocks /\ currentFast \in Blocks
  /\ ~up => crashes # 0 \/ hpc = "panic"
  /\ crashes \in Nat

\* Where the packet starts: the number of the first header still to write.
Position == next - Len(batch)

\* The packet is a piece of the peer's chain, on top of a header that is stored,
\* and the header being written has its parent stored.
Packet ==
  /\ tip \in Blocks /\ hdr \in Blocks /\ walk \in Blocks
  /\ next \in Nat /\ batch \in Seq(Blocks)
  /\ hpc \in {"fetch", "insert"} \cup WriteStages =>
       /\ next <= Number[tip] + 1
       /\ Position - 1 \in Nat
       /\ \A i \in 1..Len(batch) : batch[i] = AncestorAt(tip, Position + i - 1)
  /\ hpc \notin {"insert"} \cup WriteStages => batch = <<>>
  /\ hpc \in {"fetch", "insert"} => AncestorAt(tip, Position - 1) \in header
  /\ hpc \in WriteStages =>
       hdr = AncestorAt(tip, Position - 1) /\ hdr # Genesis /\ Parent[hdr] \in header
  /\ hpc = "header" => hdr \in td

\* process works on the peer's chain.  Only a block of the batch that is being
\* filled may lack its receipts, and the last block of the batch is stored, or
\* will be; the pivot block comes with its state.
Processing ==
  LET b == AncestorAt(tip, done)
  IN /\ sched \in Nat /\ done \in Nat /\ DOMAIN fill \subseteq Blocks
     /\ fill \in [DOMAIN fill -> {{"body", "receipts"}, {"receipts"}, {}}]
     /\ ppc # "idle" => sched <= Number[tip]
     /\ crashes = 0 =>
          \A c \in body \ receipts : ppc = "fill" /\ c \in DOMAIN fill /\ fill[c] = {"receipts"}
     /\ ppc = "fill" => /\ b \in header
                        /\ b \in body \/ (b \in DOMAIN fill /\ "body" \in fill[b])
                        /\ done = Pivot => b \in trie
     /\ ppc = "commit" => Has(b) /\ b \in trie

\* What number n is assigned to when the canonical numbers are the chain of b.
Expected(b, n) == IF n <= Number[b] THEN AncestorAt(b, n) ELSE None

ChainOf(b) == \A n \in Numbers : canon[n] = Expected(b, n)

\* writeHeader frees the numbers between the header's and spot ...
Trimming ==
  /\ spot \in Nat /\ spot > Number[hdr]
  /\ \E top \in Blocks : \A n \in Numbers :
       canon[n] = IF n > Number[hdr] /\ n < spot THEN None ELSE Expected(top, n)

\* ... re-routes those between walk's and the header's ...
Rerouting ==
  /\ walk \in AncestorsOf[Parent[hdr]]
  /\ \E top \in Blocks : \A n \in Numbers :
       /\ n <= Number[walk] => canon[n] = Expected(top, n)
       /\ n > Number[walk] /\ n # Number[hdr] => canon[n] = Expected(hdr, n)

\* ... and assigns the header's own.
Rerouted == \A n \in Numbers : n # Number[hdr] => canon[n] = Expected(hdr, n)

\* Unless a full block has been imported or a crash interfered, the canonical
\* numbers are a chain that the head header is on, but for writeHeader's steps
\* from one such chain to the next.
Numbering ==
  up /\ crashes = 0 /\ NoneImported =>
    /\ hpc = "trim" => Trimming
    /\ hpc = "reroute" => Rerouting
    /\ hpc = "canon" => Rerouted
    /\ hpc = "headHeader" => ChainOf(hdr)
    /\ hpc \notin {"trim", "reroute", "canon", "headHeader"} =>
         \E top \in Blocks : ChainOf(top) /\ currentHeader \in AncestorsOf[top]

IInv == Stored /\ Memory /\ Packet /\ Processing /\ Numbering
-----------------------------------------------------------------------------
(* What leaves the parts of the invariant alone.                           *)

Switching == {"trim", "reroute", "canon", "headHeader"}
Walking == {"fetch", "insert"} \cup WriteStages

\* A step that stores no header, and moves the head hash to a stored block.
Settles ==
  /\ canon' \in [Numbers -> Blocks \cup {None}]
  /\ headBlock' \in Blocks /\ headBlock' \in header /\ headBlock' \in body
  /\ headHeader' \in Blocks /\ headFast' \in Blocks
  /\ header' = header /\ td \subseteq td' /\ body \subseteq body' /\ trie' \subseteq Blocks

\* The database is in order after such a step.
LEMMA StoredSettles == Stored /\ Settles => Stored'
<1> SUFFICES ASSUME Stored, Settles PROVE Stored'
  BY Zenon
<1>1. /\ header \subseteq Blocks /\ Genesis \in header
      /\ \A b \in header : b \in td /\ AncestorsOf[b] \subseteq header
  BY Zenon DEF Stored
<1>2. Has(headBlock)'
  BY Zenon DEF Settles, Has
<1>3. \A b \in header' : b \in td' /\ AncestorsOf[b] \subseteq header'
  BY <1>1, Zenon DEF Settles
<1> QED BY <1>1, <1>2, <1>3, Zenon DEF Settles, Stored

\* The database is in order if it is unchanged.
LEMMA StoredStays == Stored /\ UNCHANGED db => Stored'
<1> SUFFICES ASSUME Stored, UNCHANGED db PROVE Stored'
  BY Zenon
<1>1. /\ canon \in [Numbers -> Blocks \cup {None}]
      /\ headBlock \in Blocks /\ headHeader \in Blocks /\ headFast \in Blocks
      /\ headBlock \in header /\ headBlock \in body /\ trie \subseteq Blocks
  BY Zenon DEF Stored, Has
<1>2. Settles
  BY <1>1, Zenon DEF Settles, db, hashes, stored
<1> QED BY <1>2, StoredSettles, Zenon

\* Nothing of process changes, and what it needs stays stored.
Apart ==
  /\ tip' = tip /\ sched' = sched /\ ppc' = ppc /\ done' = done /\ fill' = fill
  /\ crashes' = crashes /\ body' = body /\ receipts' = receipts /\ trie' = trie
  /\ header \subseteq header'

\* process does not notice such a step.
LEMMA ProcessingApart == Processing /\ Apart => Processing'
BY Zenon DEF Processing, Apart, Has

\* Nothing of the packet changes, and what it needs stays stored.
Beside ==
  /\ UNCHANGED fetching
  /\ header \subseteq header' /\ td \subseteq td'

\* fetchHeaders does not notice such a step.
LEMMA PacketBeside == Packet /\ Beside => Packet'
BY Zenon DEF Packet, Beside, Position, fetching, packet, writing

\* fetchHeaders is not at work on a packet.
Rests ==
  /\ tip' \in Blocks /\ hdr' \in Blocks /\ walk' \in Blocks
  /\ next' \in Nat /\ batch' \in Seq(Blocks) /\ batch' = <<>>
  /\ hpc' \notin Walking

\* Then only the types of its variables matter.
LEMMA PacketRests == Rests => Packet'
BY Zenon DEF Packet, Rests, Walking, WriteStages

\* writeHeader goes on with the header it writes.
Continues ==
  /\ UNCHANGED <<tip, next, batch, hdr, header>>
  /\ hpc \in WriteStages /\ hpc' \in WriteStages
  /\ walk' \in Blocks /\ td \subseteq td'
  /\ hpc' = "header" => hdr \in td'

\* The packet is as it was, and so is the parent of the header.
LEMMA PacketContinues == Packet /\ Continues => Packet'
<1> SUFFICES ASSUME Packet, Continues PROVE Packet'
  BY Zenon
<1>1. hpc' \notin {"fetch", "insert"} /\ hpc' \in {"insert"} \cup WriteStages
  BY Zenon DEF Continues, WriteStages
<1>2. hpc \in {"fetch", "insert"} \cup WriteStages
  BY Zenon DEF Continues
<1>3. Position' = Position
  BY Zenon DEF Continues, Position
<1> HIDE DEF Position
<1> QED BY <1>1, <1>2, <1>3, Zenon DEF Packet, Continues

\* Neither the numbers nor the head header change, and writeHeader is not
\* about to change them, or its steps are unchanged too.
Steady ==
  /\ trie \subseteq trie' /\ up' = up /\ crashes' = crashes
  /\ canon' = canon /\ currentHeader' = currentHeader
  /\ \/ hpc \notin Switching /\ hpc' \notin Switching
     \/ hpc' = hpc /\ hdr' = hdr /\ spot' = spot /\ walk' = walk

\* The canonical numbers are in order after such a step.
LEMMA NumberingSteady == Numbering /\ Steady => Numbering'
<1> SUFFICES ASSUME Numbering, Steady, (up /\ crashes = 0 /\ NoneImported)' PROVE Numbering'
  BY Zenon DEF Numbering
<1>1. up /\ crashes = 0 /\ NoneImported
  BY Zenon DEF Steady, NoneImported
<1>2. CASE hpc \notin Switching /\ hpc' \notin Switching
  BY <1>1, <1>2, Zenon DEF Numbering, Steady, Switching, ChainOf
<1>3. CASE hpc' = hpc /\ hdr' = hdr /\ spot' = spot /\ walk' = walk
  BY <1>1, <1>3, Zenon DEF Numbering, Steady, ChainOf, Trimming, Rerouting, Rerouted
<1> QED BY <1>2, <1>3, Zenon DEF Steady

-----------------------------------------------------------------------------
(* fetchHeaders between the writes of headers.                             *)

\* A step of fetchHeaders that writes nothing.
Plain == up /\ UNCHANGED <<db, heads, tip, sched, processing, up, crashes>>

\* Only the packet has to be looked at then, and the canonical numbers if
\* writeHeader starts on them.
LEMMA PlainKeeps ==
  ASSUME IInv, Plain
  PROVE  /\ Stored' /\ Memory' /\ Processing'
         /\ hpc \notin Switching /\ hpc' \notin Switching => Numbering'
<1>1. Stored'
  BY StoredStays, Zenon DEF IInv, Plain
<1>2. Memory'
  BY Zenon DEF IInv, Memory, Plain, heads
<1>3. Apart
  BY Zenon DEF Plain, Apart, db, stored, processing
<1>4. Processing'
  BY <1>3, ProcessingApart, Zenon DEF IInv
<1>5. ASSUME hpc \notin Switching /\ hpc' \notin Switching PROVE Numbering'
  <2>1. Steady
    BY <1>5, Zenon DEF Plain, Steady, db, stored, heads
  <2> QED BY <2>1, NumberingSteady, Zenon DEF IInv
<1> QED BY <1>1, <1>2, <1>4, <1>5, Zenon

\* A cycle that ends, or a fetcher that stops, leaves the packet alone.
LEMMA PauseKeeps ==
  ASSUME IInv, Plain, UNCHANGED <<next, batch, writing>>,
         hpc \notin {"insert"} \cup WriteStages, hpc' \notin Walking
  PROVE  IInv'
<1>1. tip \in Blocks /\ hdr \in Blocks /\ walk \in Blocks /\ next \in Nat
      /\ batch \in Seq(Blocks) /\ batch = <<>>
  BY Zenon DEF IInv, Packet
<1>2. tip' = tip
  BY Zenon DEF Plain
<1>3. Rests
  BY <1>1, <1>2, Zenon DEF Rests, writing
<1>4. Packet'
  BY <1>3, PacketRests, Zenon
<1>5. hpc \notin Switching /\ hpc' \notin Switching
  BY Zenon DEF Walking, WriteStages, Switching
<1> QED BY <1>4, <1>5, PlainKeeps, Zenon DEF IInv

\* A peer without more headers, a failure, and the start of the rollback.
LEMMA StopKeeps ==
  ASSUME IInv, NoMoreHeaders \/ GiveUp \/ Rollback
  PROVE  IInv'
<1>1. Plain /\ UNCHANGED <<next, batch, writing>>
  BY Zenon DEF NoMoreHeaders, GiveUp, Rollback, Plain, packet, counts
<1>2. hpc \in {"fetch", "abort"} /\ hpc' \in {"done", "abort", "dropHeader"}
  BY Zenon DEF NoMoreHeaders, GiveUp, Rollback
<1>3. hpc \notin {"insert"} \cup WriteStages /\ hpc' \notin Walking
  BY <1>2, Zenon DEF Switching, Walking, WriteStages
<1> QED BY <1>1, <1>3, PauseKeeps, Zenon

\* A packet arrives: it continues the chain below it.
LEMMA HeaderPacketKeeps ==
  ASSUME IInv, NEW k \in Numbers, HeaderPacket(k)
  PROVE  IInv'
<1> DEFINE pack == [i \in 1..k |-> AncestorAt(tip, next + i - 1)]
<1>1. /\ Plain /\ writing' = writing /\ hpc = "fetch" /\ k >= 1 /\ next + k - 1 <= Number[tip]
      /\ \/ hpc' = "abort" /\ UNCHANGED <<next, batch>>
         \/ hpc' = "insert" /\ next' = next + k /\ batch' = pack
  BY Zenon DEF HeaderPacket, Plain, counts
<1> HIDE DEF pack
<1>2. CASE hpc' = "abort" /\ UNCHANGED <<next, batch>>
  <2>1. hpc \notin {"insert"} \cup WriteStages /\ hpc' \notin Walking
    BY <1>1, <1>2, Zenon DEF Switching, Walking, WriteStages
  <2> QED BY <1>1, <1>2, <2>1, PauseKeeps, Zenon
<1>3. CASE hpc' = "insert" /\ next' = next + k /\ batch' = pack
  <2>1. /\ hpc \notin Switching /\ hpc' \notin Switching
        /\ hpc \in {"fetch", "insert"} \cup WriteStages
        /\ hpc \in {"fetch", "insert"} /\ hpc \notin {"insert"} \cup WriteStages
        /\ hpc' \in {"insert"} \cup WriteStages /\ hpc' \notin WriteStages /\ hpc' # "header"
    BY <1>1, <1>3, Zenon DEF Switching, WriteStages
  <2>2. /\ tip \in Blocks /\ hdr \in Blocks /\ walk \in Blocks /\ next \in Nat /\ batch = <<>>
        /\ Position - 1 \in Nat /\ AncestorAt(tip, Position - 1) \in header
    BY <1>1, <2>1, Zenon DEF IInv, Packet
  <2>3. Position = next /\ k \in Nat /\ Number[tip] \in Nat
    BY <2>2, BlockFacts DEF Position
  <2>4. /\ next - 1 \in Nat /\ next + k <= Number[tip] + 1 /\ next + k \in Nat
        /\ \A i \in 1..k : next + i - 1 \in 0..Number[tip]
    BY <1>1, <2>2, <2>3
  <2>5. \A i \in 1..k : AncestorAt(tip, next + i - 1) \in Blocks
    BY <2>2, <2>4, AncestorAtFacts, Zenon
  <2>6. /\ pack \in Seq(Blocks) /\ Len(pack) = k
        /\ \A i \in 1..k : pack[i] = AncestorAt(tip, next + i - 1)
    BY <2>3, <2>5 DEF pack
  <2>7. Position' = next
    <3>1. Len(batch') = k /\ next' = next + k
      BY <1>3, <2>6, Zenon
    <3>2. (next + k) - k = next
      BY <2>2, <2>3
    <3> QED BY <3>1, <3>2, Zenon DEF Position
  <2>8. /\ tip' = tip /\ header' = header /\ hdr' = hdr /\ walk' = walk
    BY <1>1, Zenon DEF Plain, writing, db, stored
  <2>9. /\ next' <= Number[tip'] + 1 /\ Position' - 1 \in Nat
        /\ \A i \in 1..Len(batch') : batch'[i] = AncestorAt(tip', Position' + i - 1)
        /\ AncestorAt(tip', Position' - 1) \in header'
        /\ batch' \in Seq(Blocks) /\ next' \in Nat
    BY <1>3, <2>2, <2>3, <2>4, <2>6, <2>7, <2>8, Zenon
  <2>10. Packet'
    BY <2>1, <2>2, <2>8, <2>9, Zenon DEF Packet
  <2> QED BY <1>1, <2>1, <2>10, PlainKeeps, Zenon DEF IInv
<1> QED BY <1>1, <1>2, <1>3, Zenon

\* The packet is written: the headers below next are stored.
LEMMA PacketDoneKeeps ==
  ASSUME IInv, PacketDone
  PROVE  IInv'
<1>1. /\ up /\ hpc = "insert" /\ hpc' = "fetch" /\ batch = <<>> /\ sched' = next - 1
      /\ UNCHANGED <<db, heads, tip, next, batch, writing, processing, up, crashes>>
  BY Zenon DEF PacketDone, counts
<1>2. /\ hpc \notin Switching /\ hpc' \notin Switching
      /\ hpc \in {"fetch", "insert"} \cup WriteStages /\ hpc \in {"fetch", "insert"}
      /\ hpc' \notin WriteStages /\ hpc' # "header"
  BY <1>1, Zenon DEF Switching, WriteStages
<1>3. Stored'
  BY <1>1, StoredStays, Zenon DEF IInv
<1>4. Memory'
  BY <1>1, Zenon DEF IInv, Memory, heads
<1>5. Position' = Position
  BY <1>1, Zenon DEF Position
<1>6. header' = header /\ hdr' = hdr /\ walk' = walk
  BY <1>1, Zenon DEF db, stored, writing
<1>7. Packet'
  BY <1>1, <1>2, <1>5, <1>6, Zenon DEF IInv, Packet
<1>8. Steady
  BY <1>1, <1>2, Zenon DEF Steady, db, stored, heads
<1>9. Numbering'
  BY <1>8, NumberingSteady, Zenon DEF IInv
<1>10. sched' \in Nat /\ sched' <= Number[tip]
  <2>1. /\ tip \in Blocks /\ next \in Nat /\ next <= Number[tip] + 1 /\ Position - 1 \in Nat
    BY <1>2, Zenon DEF IInv, Packet
  <2>2. Position = next
    BY <1>1, <2>1 DEF Position
  <2>3. Number[tip] \in Nat
    BY <2>1, BlockFacts, Zenon
  <2> QED BY <1>1, <2>1, <2>2, <2>3
<1>11. Processing'
  BY <1>1, <1>10, Zenon DEF IInv, Processing, processing, db, stored, Has
<1> QED BY <1>3, <1>4, <1>7, <1>9, <1>11, Zenon DEF IInv

-----------------------------------------------------------------------------
(* writeHeader.                                                            *)

\* The next header of the packet is the peer's at the packet's position, and
\* its parent is stored.
LEMMA NextHeader ==
  ASSUME Packet, Stored, hpc = "insert", batch # <<>>,
         batch' = Tail(batch), next' = next
  PROVE  /\ Head(batch) \in Blocks /\ Head(batch) # Genesis
         /\ Parent[Head(batch)] \in header
         /\ batch' \in Seq(Blocks)
         /\ Head(batch) = AncestorAt(tip, Position' - 1)
         /\ Position' - 1 \in Nat /\ next <= Number[tip] + 1
         /\ \A i \in 1..Len(batch') : batch'[i] = AncestorAt(tip, Position' + i - 1)
<1> DEFINE p == Position
           q == p - 1
<1>1. /\ tip \in Blocks /\ next \in Nat /\ batch \in Seq(Blocks) /\ next <= Number[tip] + 1
      /\ q \in Nat /\ AncestorAt(tip, q) \in header
      /\ \A i \in 1..Len(batch) : batch[i] = AncestorAt(tip, p + i - 1)
  BY Zenon DEF Packet
<1>2. Number[tip] \in Nat /\ Len(batch) \in Nat /\ p = next - Len(batch)
  BY <1>1, BlockFacts DEF Position
<1> HIDE DEF p
<1>3. /\ Head(batch) = batch[1] /\ Len(batch) >= 1 /\ batch[1] \in Blocks
      /\ Tail(batch) \in Seq(Blocks) /\ Len(Tail(batch)) = Len(batch) - 1
      /\ \A i \in 1..(Len(batch) - 1) : Tail(batch)[i] = batch[i + 1]
  BY <1>1
<1>4. Position' = p + 1
  <2>1. next - (Len(batch) - 1) = p + 1
    BY <1>1, <1>2
  <2> QED BY <2>1, <1>3, Zenon DEF Position
<1>5. p \in Nat /\ q + 1 = p /\ p <= Number[tip] /\ (p + 1) - 1 = p /\ p + 1 - 1 = p
  BY <1>1, <1>2, <1>3, SMTT(60)
<1>6. batch[1] = AncestorAt(tip, p)
  <2>1. 1 \in 1..Len(batch)
    BY <1>2, <1>3
  <2> QED BY <2>1, <1>1, <1>5, Zenon
<1>7. batch[1] # Genesis /\ Parent[batch[1]] = AncestorAt(tip, q)
  <2> HIDE DEF q
  <2>1. q + 1 <= Number[tip]
    BY <1>5, Zenon
  <2>2. AncestorAt(tip, q + 1) # Genesis /\ Parent[AncestorAt(tip, q + 1)] = AncestorAt(tip, q)
    BY <1>1, <2>1, AtParent, Zenon
  <2> QED BY <1>5, <1>6, <2>2, Zenon
<1>8. \A i \in 1..(Len(batch) - 1) : Tail(batch)[i] = AncestorAt(tip, p + 1 + i - 1)
  <2> SUFFICES ASSUME NEW i \in 1..(Len(batch) - 1)
               PROVE  Tail(batch)[i] = AncestorAt(tip, p + 1 + i - 1)
    BY Zenon
  <2>1. i + 1 \in 1..Len(batch) /\ p + (i + 1) - 1 = p + 1 + i - 1
    BY <1>2, <1>5
  <2> QED BY <2>1, <1>1, <1>3, Zenon
<1> QED BY <1>1, <1>3, <1>4, <1>5, <1>6, <1>7, <1>8, Zenon

\* A known header is skipped; an unknown one is about to be written.
LEMMA WriteHeaderKeeps ==
  ASSUME IInv, WriteHeader
  PROVE  IInv'
<1> DEFINE b == Head(batch)
<1>1. /\ Plain /\ hpc = "insert" /\ batch # <<>> /\ batch' = Tail(batch)
      /\ next' = next /\ tip' = tip /\ walk' = walk
      /\ \/ b \in header /\ UNCHANGED <<hpc, hdr, spot>>
         \/ b \notin header /\ hpc' = "trim" /\ hdr' = b /\ spot' = Number[b] + 1
         \/ b \notin header /\ hpc' = "td" /\ hdr' = b
  BY Zenon DEF WriteHeader, Plain, counts
<1>2. /\ b \in Blocks /\ b # Genesis /\ Parent[b] \in header
      /\ batch' \in Seq(Blocks) /\ b = AncestorAt(tip, Position' - 1)
      /\ Position' - 1 \in Nat /\ next <= Number[tip] + 1
      /\ \A i \in 1..Len(batch') : batch'[i] = AncestorAt(tip, Position' + i - 1)
  BY <1>1, NextHeader, Zenon DEF IInv
<1> HIDE DEF b
<1>3. tip \in Blocks /\ hdr \in Blocks /\ walk \in Blocks /\ next \in Nat
  BY Zenon DEF IInv, Packet
<1>4. header' = header /\ canon' = canon /\ currentHeader' = currentHeader /\ up' = up
      /\ crashes' = crashes /\ trie' = trie
  BY <1>1, Zenon DEF Plain, db, stored, heads
<1>5. Packet'
  <2>1. CASE b \in header /\ UNCHANGED <<hpc, hdr, spot>>
    <3>1. hpc' \in {"insert"} \cup WriteStages /\ hpc' \notin WriteStages /\ hpc' # "header"
      BY <1>1, <2>1, Zenon DEF WriteStages
    <3> QED BY <3>1, <2>1, <1>1, <1>2, <1>3, <1>4, Zenon DEF Packet
  <2>2. CASE hpc' \in {"trim", "td"} /\ hdr' = b
    <3>1. hpc' \in {"insert"} \cup WriteStages /\ hpc' \notin {"fetch", "insert"} /\ hpc' # "header"
      BY <2>2, Zenon DEF WriteStages
    <3> QED BY <3>1, <2>2, <1>1, <1>2, <1>3, <1>4, Zenon DEF Packet
  <2> QED BY <1>1, <2>1, <2>2, Zenon
<1>6. Numbering'
  <2>1. hpc \notin Switching
    BY <1>1, Zenon DEF Switching
  <2>2. CASE hpc' # "trim"
    <3>1. hpc' \notin Switching
      BY <1>1, <2>2, Zenon DEF Switching
    <3> QED BY <1>1, <2>1, <3>1, PlainKeeps, Zenon
  <2>3. CASE hpc' = "trim" /\ hdr' = b /\ spot' = Number[b] + 1
    <3> SUFFICES ASSUME (up /\ crashes = 0 /\ NoneImported)' PROVE Trimming'
      BY <2>3, Zenon DEF Numbering
    <3>1. up /\ crashes = 0 /\ NoneImported
      BY <1>4, Zenon DEF NoneImported
    <3>2. PICK top \in Blocks : ChainOf(top)
      BY <2>1, <3>1, Zenon DEF IInv, Numbering, Switching
    <3>3. Number[b] \in Nat /\ Numbers \subseteq Nat
      BY <1>2, BlockFacts, Zenon
    <3>4. /\ Number[b] + 1 \in Nat /\ Number[b] + 1 > Number[b]
          /\ \A n \in Numbers : ~(n > Number[b] /\ n < Number[b] + 1)
      BY <3>3
    <3> QED BY <1>4, <2>3, <3>2, <3>4, Zenon DEF Trimming, ChainOf
  <2> QED BY <1>1, <2>2, <2>3, Zenon
<1> QED BY <1>1, <1>5, <1>6, PlainKeeps, Zenon DEF IInv

\* What a chain gives each number: a block of the chain, or nothing above it.
LEMMA ExpectedFacts ==
  ASSUME NEW b \in Blocks, NEW n \in Nat
  PROVE  /\ n <= Number[b] => /\ Expected(b, n) = AncestorAt(b, n) /\ Expected(b, n) \in Blocks
                              /\ Expected(b, n) \in AncestorsOf[b] /\ Expected(b, n) # None
                              /\ Number[Expected(b, n)] = n
         /\ n > Number[b] => Expected(b, n) = None
         /\ \A c \in AncestorsOf[b] : Number[c] = n => Expected(b, n) = c
         /\ \A c \in AncestorsOf[b] : n <= Number[c] => Expected(b, n) = Expected(c, n)
<1>1. Number[b] \in Nat
  BY BlockFacts, Zenon
<1>2. ASSUME n <= Number[b]
      PROVE  /\ Expected(b, n) = AncestorAt(b, n) /\ Expected(b, n) \in Blocks
             /\ Expected(b, n) \in AncestorsOf[b] /\ Number[Expected(b, n)] = n
  <2>1. n \in 0..Number[b]
    BY <1>1, <1>2
  <2>2. Expected(b, n) = AncestorAt(b, n)
    BY <1>2, Zenon DEF Expected
  <2>3. /\ AncestorAt(b, n) \in Blocks /\ AncestorAt(b, n) \in AncestorsOf[b]
        /\ Number[AncestorAt(b, n)] = n
    BY <2>1, AncestorAtFacts, Zenon
  <2> QED BY <2>2, <2>3, Zenon
<1>3. ASSUME n > Number[b] PROVE Expected(b, n) = None
  <2>1. ~(n <= Number[b])
    BY <1>1, <1>3
  <2> QED BY <2>1, Zenon DEF Expected
<1>4. ASSUME NEW c \in AncestorsOf[b], Number[c] = n PROVE Expected(b, n) = c
  <2>1. Number[c] <= Number[b]
    BY AncestorFacts, Zenon DEF Linear
  <2>2. n \in 0..Number[b]
    BY <1>1, <1>4, <2>1
  <2>3. c = AncestorAt(b, n)
    BY <1>4, <2>2, AncestorAtFacts, Zenon
  <2> QED BY <1>2, <1>4, <2>1, <2>3, Zenon
<1>5. ASSUME NEW c \in AncestorsOf[b], n <= Number[c] PROVE Expected(b, n) = Expected(c, n)
  <2>1. c \in Blocks /\ Number[c] \in Nat /\ Number[c] <= Number[b]
    BY AncestorFacts, BlockFacts, Zenon DEF Linear
  <2>2. n \in 0..Number[c] /\ n <= Number[b]
    BY <1>1, <1>5, <2>1
  <2>3. AncestorAt(c, n) = AncestorAt(b, n)
    BY <2>2, AtBelow, Zenon
  <2> QED BY <1>5, <2>2, <2>3, Zenon DEF Expected
<1>6. None \notin Blocks
  BY FastSyncAssumption, Zenon
<1> QED BY <1>2, <1>3, <1>4, <1>5, <1>6, Zenon

\* One more number above the header's is freed.
LEMMA TrimFrees ==
  ASSUME Stored, hdr \in Blocks, Trimming, Assigned(spot), hdr' = hdr,
         canon' = [canon EXCEPT ![spot] = None], spot' = spot + 1
  PROVE  Trimming'
<1> DEFINE N == Number[hdr]
<1>1. N \in Nat /\ spot \in Nat /\ spot > N /\ Numbers \subseteq Nat
  BY BlockFacts, Zenon DEF Trimming
<1> HIDE DEF N
<1>2. PICK top \in Blocks : \A n \in Numbers :
        canon[n] = IF n > N /\ n < spot THEN None ELSE Expected(top, n)
  BY Zenon DEF Trimming, N
<1>3. spot \in Numbers /\ canon \in [Numbers -> Blocks \cup {None}]
  BY Zenon DEF Assigned, Stored
<1>4. spot + 1 \in Nat /\ spot + 1 > N /\ (spot > N /\ spot < spot + 1)
  BY <1>1
<1>5. \A n \in Numbers : n # spot => (n < spot + 1 <=> n < spot)
  BY <1>1
<1>6. \A n \in Numbers : canon'[n] = IF n = spot THEN None ELSE canon[n]
  BY <1>3, Zenon
<1>7. ASSUME NEW n \in Numbers
      PROVE  canon'[n] = IF n > N /\ n < spot + 1 THEN None ELSE Expected(top, n)
  <2>1. CASE n = spot
    BY <1>4, <1>6, <2>1, Zenon
  <2>2. CASE n # spot
    BY <1>2, <1>5, <1>6, <2>2, Zenon
  <2> QED BY <2>1, <2>2, Zenon
<1>8. spot' \in Nat /\ spot' > Number[hdr']
  BY <1>4, Zenon DEF N
<1>9. Number[hdr'] = N
  BY Zenon DEF N
<1>10. \A n \in Numbers :
         canon'[n] = IF n > Number[hdr'] /\ n < spot' THEN None ELSE Expected(top, n)
  BY <1>7, <1>9, Zenon
<1> QED BY <1>8, <1>10, Zenon DEF Trimming

\* At the first hole, no number above the header's is assigned any more.
LEMMA TrimStops ==
  ASSUME hdr \in Blocks, hdr # Genesis, Trimming, ~Assigned(spot),
         hdr' = hdr, canon' = canon, walk' = Parent[hdr]
  PROVE  Rerouting'
<1> DEFINE N == Number[hdr]
           w == Parent[hdr]
<1>1. N \in Nat /\ spot \in Nat /\ spot > N /\ Numbers \subseteq Nat
  BY BlockFacts, Zenon DEF Trimming
<1>2. w \in Blocks /\ Number[w] \in Nat /\ N = Number[w] + 1 /\ w \in AncestorsOf[w]
  BY AncestorFacts, BlockFacts, TreeAssumption, Zenon DEF Linear
<1> HIDE DEF N, w
<1>3. PICK top \in Blocks : \A n \in Numbers :
        canon[n] = IF n > N /\ n < spot THEN None ELSE Expected(top, n)
  BY Zenon DEF Trimming, N
<1>4. Number[top] \in Nat
  BY BlockFacts, Zenon
<1>5. spot > Number[top]
  <2> SUFFICES ASSUME spot <= Number[top] PROVE FALSE
    BY <1>1, <1>4
  <2>1. Expected(top, spot) \in Blocks /\ Number[Expected(top, spot)] = spot
        /\ Expected(top, spot) # None
    BY <1>1, ExpectedFacts, Zenon
  <2>2. spot \in Numbers
    BY <2>1, Zenon DEF Numbers
  <2>3. ~(spot < spot)
    BY <1>1
  <2> QED BY <1>3, <2>1, <2>2, <2>3, Zenon DEF Assigned
<1>6. ASSUME NEW n \in Numbers, n <= Number[w] PROVE canon[n] = Expected(top, n)
  <2>1. ~(n > N)
    BY <1>1, <1>2, <1>6
  <2> QED BY <1>3, <2>1, Zenon
<1>7. ASSUME NEW n \in Numbers, n > Number[w], n # N PROVE canon[n] = Expected(hdr, n)
  <2>1. n \in Nat /\ n > N /\ (n < spot \/ n > Number[top])
    BY <1>1, <1>2, <1>4, <1>5, <1>7
  <2>2. canon[n] = None
    BY <1>3, <2>1, ExpectedFacts, Zenon
  <2>3. Expected(hdr, n) = None
    BY <2>1, ExpectedFacts, Zenon DEF N
  <2> QED BY <2>2, <2>3, Zenon
<1>8. walk' = w /\ w \in AncestorsOf[Parent[hdr']] /\ Number[hdr'] = N
  BY <1>2, Zenon DEF w, N
<1> QED BY <1>6, <1>7, <1>8, Zenon DEF Rerouting

\* The number of an ancestor is overwritten; it was not the genesis block's.
LEMMA RerouteAssigns ==
  ASSUME Stored, hdr \in Blocks, hdr # Genesis, Rerouting, canon[Number[walk]] # walk,
         hdr' = hdr, canon' = [canon EXCEPT ![Number[walk]] = walk], walk' = Parent[walk]
  PROVE  Rerouting'
<1> DEFINE N == Number[hdr]
           w == Number[walk]
           q == Parent[walk]
<1>1. walk \in AncestorsOf[Parent[hdr]] /\ Parent[hdr] \in Blocks
  BY BlockFacts, Zenon DEF Rerouting
<1>2. PICK top \in Blocks : \A n \in Numbers :
        /\ n <= w => canon[n] = Expected(top, n)
        /\ n > w /\ n # N => canon[n] = Expected(hdr, n)
  BY Zenon DEF Rerouting
<1>3. walk \in Blocks /\ w \in Nat /\ w \in Numbers /\ N \in Nat /\ Numbers \subseteq Nat
      /\ q \in Blocks /\ Number[q] \in Nat
  BY <1>1, BlockFacts, Zenon
<1>4. walk # Genesis
  <2> SUFFICES ASSUME walk = Genesis PROVE FALSE
    BY Zenon
  <2>1. w = 0 /\ 0 <= w /\ 0 \in Nat
    BY BlockFacts
  <2>2. Genesis \in AncestorsOf[top]
    BY AncestorFacts, Zenon DEF Linear
  <2>3. Expected(top, w) = walk
    BY <2>1, <2>2, <1>3, ExpectedFacts, Zenon
  <2>4. w <= w
    BY <1>3
  <2> QED BY <1>2, <1>3, <2>3, <2>4, Zenon
<1>5. w = Number[q] + 1 /\ q \in AncestorsOf[walk]
  <2>1. AncestorsOf[walk] = {walk} \cup AncestorsOf[q]
    BY <1>3, <1>4, ParentChain, Zenon
  <2>2. q \in AncestorsOf[q]
    BY <1>3, AncestorFacts, Zenon DEF Linear
  <2>3. w = Number[q] + 1
    BY <1>3, <1>4, TreeAssumption, Zenon
  <2> QED BY <2>1, <2>2, <2>3, Zenon
<1>6. q \in AncestorsOf[Parent[hdr]]
  BY <1>1, <1>5, AncestorFacts, Zenon DEF Linear
<1>7. Expected(hdr, w) = walk
  <2>1. walk \in AncestorsOf[hdr]
    BY <1>1, ParentChain, Zenon
  <2> QED BY <1>3, <2>1, ExpectedFacts, Zenon
<1>8. \A n \in Numbers : canon'[n] = IF n = w THEN walk ELSE canon[n]
  BY Zenon DEF Stored
<1>9. \A n \in Numbers : (n <= Number[q] <=> n <= w /\ n # w) /\ (n > Number[q] /\ n # w => n > w)
  BY <1>3, <1>5
<1>10. \A n \in Numbers : /\ n <= Number[q] => canon'[n] = Expected(top, n)
                          /\ n > Number[q] /\ n # N => canon'[n] = Expected(hdr, n)
  BY <1>2, <1>7, <1>8, <1>9, Zenon
<1> QED BY <1>6, <1>10, ZenonT(60) DEF Rerouting

\* At the first match the rest of the old chain is the header's as well.
LEMMA RerouteMeets ==
  ASSUME Stored, hdr \in Blocks, hdr # Genesis, Rerouting, canon[Number[walk]] = walk,
         hdr' = hdr, canon' = canon
  PROVE  Rerouted'
<1> DEFINE N == Number[hdr]
           w == Number[walk]
<1>1. walk \in AncestorsOf[Parent[hdr]] /\ Parent[hdr] \in Blocks
  BY BlockFacts, Zenon DEF Rerouting
<1>2. PICK top \in Blocks : \A n \in Numbers :
        /\ n <= w => canon[n] = Expected(top, n)
        /\ n > w /\ n # N => canon[n] = Expected(hdr, n)
  BY Zenon DEF Rerouting
<1>3. walk \in Blocks /\ w \in Nat /\ w \in Numbers /\ N \in Nat /\ Numbers \subseteq Nat
      /\ Number[top] \in Nat
  BY <1>1, BlockFacts, Zenon
<1>4. walk \in AncestorsOf[hdr]
  BY <1>1, ParentChain, Zenon
<1>5. walk \in AncestorsOf[top]
  <2>1. Expected(top, w) = walk
    <3>1. w <= w
      BY <1>3
    <3> QED BY <1>2, <1>3, <3>1, Zenon
  <2>2. walk # None
    BY <1>3, FastSyncAssumption, Zenon
  <2>3. w <= Number[top] \/ w > Number[top]
    BY <1>3
  <2>4. /\ w <= Number[top] => Expected(top, w) \in AncestorsOf[top]
        /\ w > Number[top] => Expected(top, w) = None
    <3> HIDE DEF w
    <3> QED BY <1>3, ExpectedFacts, Zenon
  <2> QED BY <2>1, <2>2, <2>3, <2>4, Zenon
<1>6. ASSUME NEW n \in Numbers, n # N PROVE canon[n] = Expected(hdr, n)
  <2>1. n \in Nat /\ (n <= w \/ n > w)
    BY <1>3
  <2>2. CASE n <= w
    <3>1. /\ \A c \in AncestorsOf[top] : n <= Number[c] => Expected(top, n) = Expected(c, n)
          /\ \A c \in AncestorsOf[hdr] : n <= Number[c] => Expected(hdr, n) = Expected(c, n)
      <4> HIDE DEF w, N
      <4> QED BY <2>1, ExpectedFacts, Zenon
    <3>2. Expected(top, n) = Expected(walk, n) /\ Expected(hdr, n) = Expected(walk, n)
      BY <1>4, <1>5, <2>2, <3>1, Zenon
    <3> QED BY <1>2, <2>2, <3>2, Zenon
  <2>3. CASE n > w
    BY <1>2, <1>6, <2>3, Zenon
  <2> QED BY <2>1, <2>2, <2>3, Zenon
<1> QED BY <1>6, Zenon DEF Rerouted

\* A step of writeHeader that changes only numbers, the head header and the
\* total difficulties.
Writes ==
  /\ up /\ UNCHANGED <<headBlock, headFast, header, body, receipts, trie, current, currentFast,
                       packet, hdr, processing, up, counts>>
  /\ canon' \in [Numbers -> Blocks \cup {None}]
  /\ headHeader' \in Blocks /\ currentHeader' \in Blocks
  /\ Continues

\* Only the canonical numbers have to be looked at then.
LEMMA WritesKeep == IInv /\ Writes /\ Numbering' => IInv'
<1> SUFFICES ASSUME IInv, Writes, Numbering' PROVE IInv'
  BY Zenon
<1>1. Settles
  BY Zenon DEF IInv, Stored, Has, Settles, Writes, Continues
<1>2. Stored'
  BY <1>1, StoredSettles, Zenon DEF IInv
<1>3. Memory'
  BY Zenon DEF IInv, Memory, Writes, counts
<1>4. Packet'
  BY PacketContinues, Zenon DEF IInv, Writes
<1>5. Apart
  BY Zenon DEF Writes, Apart, packet, processing, counts
<1>6. Processing'
  BY <1>5, ProcessingApart, Zenon DEF IInv
<1> QED BY <1>2, <1>3, <1>4, <1>6, Zenon DEF IInv

\* Assigning a number keeps canon a function to blocks.
LEMMA AssignTyped ==
  ASSUME NEW f \in [Numbers -> Blocks \cup {None}], NEW n, NEW v \in Blocks \cup {None}
  PROVE  [f EXCEPT ![n] = v] \in [Numbers -> Blocks \cup {None}]
BY Zenon

\* What a step of writeHeader starts from.
LEMMA WriteFacts ==
  ASSUME IInv
  PROVE  /\ canon \in [Numbers -> Blocks \cup {None}] /\ headHeader \in Blocks
         /\ hdr \in Blocks /\ walk \in Blocks /\ Parent[hdr] \in Blocks /\ Parent[walk] \in Blocks
         /\ up => currentHeader \in Blocks
         /\ hpc \in WriteStages => hdr # Genesis
         /\ hpc = "header" => hdr \in td
BY BlockFacts, Zenon DEF IInv, Stored, Packet, Memory

\* The numbers above the header's are freed.
LEMMA TrimKeeps ==
  ASSUME IInv, Trim
  PROVE  IInv'
<1>1. /\ up /\ hpc = "trim"
      /\ UNCHANGED <<headBlock, headFast, headHeader, header, td, body, receipts, trie, current,
                     currentHeader, currentFast, packet, hdr, processing, up, counts>>
      /\ \/ /\ Assigned(spot) /\ canon' = [canon EXCEPT ![spot] = None]
            /\ spot' = spot + 1 /\ hpc' = "trim" /\ walk' = walk
         \/ /\ ~Assigned(spot) /\ hpc' = "reroute" /\ walk' = Parent[hdr] /\ canon' = canon
  BY Zenon DEF Trim, hashes, stored, heads
<1>2. canon' \in [Numbers -> Blocks \cup {None}] /\ walk' \in Blocks
  <2>1. None \in Blocks \cup {None}
    BY Zenon
  <2> QED BY <1>1, <2>1, WriteFacts, AssignTyped, Zenon
<1>3. hpc \in WriteStages /\ hpc' \in WriteStages /\ hpc' # "header"
  BY <1>1, Zenon DEF WriteStages
<1>4. Continues
  BY <1>1, <1>2, <1>3, Zenon DEF Continues, packet
<1>5. Writes
  BY <1>1, <1>2, <1>4, WriteFacts, Zenon DEF Writes
<1>6. hdr \in Blocks /\ hdr # Genesis /\ Stored
  BY <1>3, WriteFacts, Zenon DEF IInv
<1>7. Numbering'
  <2> SUFFICES ASSUME (up /\ crashes = 0 /\ NoneImported)' PROVE Numbering'
    BY Zenon DEF Numbering
  <2>1. Trimming
    BY <1>1, Zenon DEF IInv, Numbering, NoneImported, counts
  <2>2. CASE Assigned(spot)
    <3>1. Trimming' /\ hpc' = "trim"
      BY <1>1, <1>6, <2>1, <2>2, TrimFrees, Zenon
    <3> QED BY <3>1, Zenon DEF Numbering
  <2>3. CASE ~Assigned(spot)
    <3>1. Rerouting' /\ hpc' = "reroute"
      BY <1>1, <1>6, <2>1, <2>3, TrimStops, Zenon
    <3> QED BY <3>1, Zenon DEF Numbering
  <2> QED BY <2>2, <2>3, Zenon
<1> QED BY <1>5, <1>7, WritesKeep, Zenon

\* The numbers of the header's ancestors are overwritten, down to a match.
LEMMA RerouteKeeps ==
  ASSUME IInv, Reroute
  PROVE  IInv'
<1>1. /\ up /\ hpc = "reroute"
      /\ UNCHANGED <<headBlock, headFast, headHeader, header, td, body, receipts, trie, current,
                     currentHeader, currentFast, packet, hdr, processing, up, counts>>
      /\ \/ /\ canon[Number[walk]] # walk /\ canon' = [canon EXCEPT ![Number[walk]] = walk]
            /\ hpc' = "reroute" /\ walk' = Parent[walk]
         \/ /\ canon[Number[walk]] = walk /\ hpc' = "canon" /\ walk' = walk /\ canon' = canon
  BY Zenon DEF Reroute, hashes, stored, heads
<1>2. canon' \in [Numbers -> Blocks \cup {None}] /\ walk' \in Blocks
  <2>1. walk \in Blocks \cup {None}
    BY WriteFacts, Zenon
  <2> QED BY <1>1, <2>1, WriteFacts, AssignTyped, ZenonT(60)
<1>3. hpc \in WriteStages /\ hpc' \in WriteStages /\ hpc' # "header"
  BY <1>1, Zenon DEF WriteStages
<1>4. Continues
  BY <1>1, <1>2, <1>3, Zenon DEF Continues, packet
<1>5. Writes
  BY <1>1, <1>2, <1>4, WriteFacts, Zenon DEF Writes
<1>6. hdr \in Blocks /\ hdr # Genesis /\ Stored
  BY <1>3, WriteFacts, Zenon DEF IInv
<1>7. Numbering'
  <2> SUFFICES ASSUME (up /\ crashes = 0 /\ NoneImported)' PROVE Numbering'
    BY Zenon DEF Numbering
  <2>1. Rerouting
    BY <1>1, Zenon DEF IInv, Numbering, NoneImported, counts
  <2>2. CASE canon[Number[walk]] # walk
    <3>1. Rerouting' /\ hpc' = "reroute"
      BY <1>1, <1>6, <2>1, <2>2, RerouteAssigns, Zenon
    <3> QED BY <3>1, Zenon DEF Numbering
  <2>3. CASE canon[Number[walk]] = walk
    <3>1. Rerouted' /\ hpc' = "canon"
      BY <1>1, <1>6, <2>1, <2>3, RerouteMeets, Zenon
    <3> QED BY <3>1, Zenon DEF Numbering
  <2> QED BY <2>2, <2>3, Zenon
<1> QED BY <1>5, <1>7, WritesKeep, Zenon

\* The header's own number is written: the numbers are its chain.
LEMMA WriteCanonicalKeeps ==
  ASSUME IInv, WriteCanonical
  PROVE  IInv'
<1>1. /\ up /\ hpc = "canon" /\ hpc' = "headHeader"
      /\ UNCHANGED <<headBlock, headFast, headHeader, header, td, body, receipts, trie, current,
                     currentHeader, currentFast, packet, hdr, walk, processing, up, counts>>
      /\ canon' = [canon EXCEPT ![Number[hdr]] = hdr]
  BY Zenon DEF WriteCanonical, hashes, stored, heads, writing
<1>2. canon' \in [Numbers -> Blocks \cup {None}] /\ walk' \in Blocks
  <2>1. hdr \in Blocks \cup {None}
    BY WriteFacts, Zenon
  <2> QED BY <1>1, <2>1, WriteFacts, AssignTyped, Zenon
<1>3. hpc \in WriteStages /\ hpc' \in WriteStages /\ hpc' # "header"
  BY <1>1, Zenon DEF WriteStages
<1>4. Continues
  BY <1>1, <1>2, <1>3, Zenon DEF Continues, packet
<1>5. Writes
  BY <1>1, <1>2, <1>4, WriteFacts, Zenon DEF Writes
<1>6. Numbering'
  <2> SUFFICES ASSUME (up /\ crashes = 0 /\ NoneImported)' PROVE ChainOf(hdr)'
    BY <1>1, Zenon DEF Numbering
  <2>1. Rerouted
    BY <1>1, Zenon DEF IInv, Numbering, NoneImported, counts
  <2>2. hdr \in Blocks /\ Number[hdr] \in Nat /\ hdr \in AncestorsOf[hdr]
    BY WriteFacts, BlockFacts, AncestorFacts, Zenon DEF Linear
  <2>3. Expected(hdr, Number[hdr]) = hdr
    BY <2>2, ExpectedFacts, Zenon
  <2>4. \A n \in Numbers : canon'[n] = IF n = Number[hdr] THEN hdr ELSE canon[n]
    BY <1>1, WriteFacts, Zenon
  <2> QED BY <1>1, <2>1, <2>3, <2>4, Zenon DEF Rerouted, ChainOf
<1> QED BY <1>5, <1>6, WritesKeep, Zenon

\* The head header moves to the header, whose chain the numbers are.
LEMMA WriteHeadHeaderKeeps ==
  ASSUME IInv, WriteHeadHeader
  PROVE  IInv'
<1>1. /\ up /\ hpc = "headHeader" /\ hpc' = "td"
      /\ UNCHANGED <<canon, headBlock, headFast, header, td, body, receipts, trie, current,
                     currentFast, packet, hdr, walk, processing, up, counts>>
      /\ headHeader' = hdr /\ currentHeader' = hdr
  BY Zenon DEF WriteHeadHeader, stored, writing
<1>2. hpc \in WriteStages /\ hpc' \in WriteStages /\ hpc' # "header"
  BY <1>1, Zenon DEF WriteStages
<1>3. Continues
  BY <1>1, <1>2, WriteFacts, Zenon DEF Continues, packet
<1>4. Writes
  BY <1>1, <1>3, WriteFacts, Zenon DEF Writes
<1>5. Numbering'
  <2> SUFFICES ASSUME (up /\ crashes = 0 /\ NoneImported)'
               PROVE  \E top \in Blocks : ChainOf(top)' /\ currentHeader' \in AncestorsOf[top]
    BY <1>1, Zenon DEF Numbering
  <2>1. ChainOf(hdr)
    BY <1>1, Zenon DEF IInv, Numbering, NoneImported, counts
  <2>2. hdr \in Blocks /\ hdr \in AncestorsOf[hdr]
    BY WriteFacts, AncestorFacts, Zenon DEF Linear
  <2> QED BY <1>1, <2>1, <2>2, Zenon DEF ChainOf
<1> QED BY <1>4, <1>5, WritesKeep, Zenon

\* The total difficulty comes before the header.
LEMMA WriteTdKeeps ==
  ASSUME IInv, WriteTd
  PROVE  IInv'
<1>1. /\ up /\ hpc = "td" /\ hpc' = "header"
      /\ UNCHANGED <<canon, headBlock, headFast, headHeader, header, body, receipts, trie, current,
                     currentHeader, currentFast, packet, hdr, walk, processing, up, counts>>
      /\ td' = td \cup {hdr}
  BY Zenon DEF WriteTd, hashes, heads, writing
<1>2. hpc \in WriteStages /\ hpc' \in WriteStages /\ hpc \notin Switching /\ hpc' \notin Switching
  BY <1>1, Zenon DEF WriteStages, Switching
<1>3. Continues
  BY <1>1, <1>2, WriteFacts, Zenon DEF Continues, packet
<1>4. Writes
  BY <1>1, <1>3, WriteFacts, Zenon DEF Writes
<1>5. Steady
  BY <1>1, <1>2, Zenon DEF Steady, counts
<1> QED BY <1>4, <1>5, NumberingSteady, WritesKeep, Zenon DEF IInv

\* The header is stored, on top of its parent's chain.
LEMMA StoreHeaderKeeps ==
  ASSUME IInv, StoreHeader
  PROVE  IInv'
<1>1. /\ up /\ hpc = "header" /\ hpc' = "insert" /\ header' = header \cup {hdr}
      /\ UNCHANGED <<canon, headBlock, headFast, headHeader, td, body, receipts, trie, current,
                     currentHeader, currentFast, tip, next, sched, batch, hdr, walk, processing,
                     up, crashes>>
  BY Zenon DEF StoreHeader, hashes, heads, writing, packet, counts
<1>2. /\ hpc \notin Switching /\ hpc' \notin Switching /\ hpc \in WriteStages
      /\ hpc' \notin WriteStages /\ hpc' \in {"insert"} \cup WriteStages /\ hpc' # "header"
  BY <1>1, Zenon DEF WriteStages, Switching
<1>3. /\ hdr \in Blocks /\ hdr # Genesis /\ hdr \in td /\ Parent[hdr] \in header
      /\ hdr = AncestorAt(tip, Position - 1)
  BY <1>1, <1>2, Zenon DEF IInv, Packet
<1>4. AncestorsOf[hdr] = {hdr} \cup AncestorsOf[Parent[hdr]]
  BY <1>3, ParentChain, Zenon
<1>5. \A b \in header' : b \in td' /\ AncestorsOf[b] \subseteq header'
  BY <1>1, <1>3, <1>4, Zenon DEF IInv, Stored
<1>6. Has(headBlock)' /\ header' \subseteq Blocks /\ Genesis \in header'
  BY <1>1, <1>3, Zenon DEF IInv, Stored, Has
<1>7. Stored'
  BY <1>1, <1>5, <1>6, Zenon DEF IInv, Stored
<1>8. Memory'
  BY <1>1, Zenon DEF IInv, Memory
<1>9. Position' = Position
  BY <1>1, Zenon DEF Position
<1>10. Packet'
  <2>1. AncestorAt(tip', Position' - 1) \in header'
    BY <1>1, <1>3, <1>9, Zenon
  <2> QED BY <1>1, <1>2, <1>9, <2>1, Zenon DEF IInv, Packet
<1>11. Apart
  BY <1>1, Zenon DEF Apart, processing
<1>12. Steady
  BY <1>1, <1>2, Zenon DEF Steady
<1> QED BY <1>7, <1>8, <1>10, <1>11, <1>12, ProcessingApart, NumberingSteady, Zenon DEF IInv

-----------------------------------------------------------------------------
(* Rollback.                                                               *)

\* A step of Rollback stores nothing.
Drops ==
  /\ up /\ UNCHANGED <<canon, stored, tip, next, sched, batch, fresh, writing, processing, crashes>>
  /\ hpc \notin {"insert"} \cup WriteStages /\ hpc' \notin Walking

\* The heads that it moves are the only thing to look at.
LEMMA DropsKeep ==
  ASSUME IInv, Drops,
         headBlock' \in Blocks /\ Has(headBlock') /\ headHeader' \in Blocks /\ headFast' \in Blocks,
         Memory', Numbering'
  PROVE  IInv'
<1>1. Settles
  BY Zenon DEF IInv, Stored, Has, Settles, Drops, stored
<1>2. Rests
  BY Zenon DEF IInv, Packet, Rests, Drops, writing
<1>3. Apart
  BY Zenon DEF Drops, Apart, processing, stored
<1> QED BY <1>1, <1>2, <1>3, StoredSettles, PacketRests, ProcessingApart, Zenon DEF IInv

\* The head header steps back along the chain that the numbers are.
LEMMA DropHeaderKeeps ==
  ASSUME IInv, DropHeader
  PROVE  IInv'
<1>1. /\ up /\ hpc = "dropHeader" /\ hpc' = "dropFast"
      /\ UNCHANGED <<canon, headBlock, headFast, stored, current, currentFast, packet, writing,
                     processing, up, crashes>>
      /\ \/ currentHeader' = Parent[currentHeader] /\ headHeader' = Parent[currentHeader]
         \/ currentHeader' = currentHeader /\ headHeader' = headHeader
  BY Zenon DEF DropHeader, counts
<1>2. /\ hpc \notin Switching /\ hpc' \notin Switching /\ hpc' \notin Walking
      /\ hpc \notin {"insert"} \cup WriteStages
  BY <1>1, Zenon DEF Switching, Walking, WriteStages
<1>3. Drops
  BY <1>1, <1>2, Zenon DEF Drops, packet
<1>4. /\ currentHeader \in Blocks /\ Parent[currentHeader] \in Blocks
      /\ current \in Blocks /\ currentFast \in Blocks /\ crashes \in Nat
      /\ headBlock \in Blocks /\ Has(headBlock) /\ headHeader \in Blocks /\ headFast \in Blocks
  BY <1>1, BlockFacts, Zenon DEF IInv, Memory, Stored
<1>5. Memory'
  BY <1>1, <1>4, Zenon DEF Memory
<1>6. Numbering'
  <2> SUFFICES ASSUME (up /\ crashes = 0 /\ NoneImported)'
               PROVE  \E top \in Blocks : ChainOf(top)' /\ currentHeader' \in AncestorsOf[top]
    BY <1>2, Zenon DEF Numbering, Switching
  <2>1. PICK top \in Blocks : ChainOf(top) /\ currentHeader \in AncestorsOf[top]
    BY <1>1, <1>2, Zenon DEF IInv, Numbering, NoneImported, stored, Switching
  <2>2. Parent[currentHeader] \in AncestorsOf[currentHeader]
    <3>1. CASE currentHeader = Genesis
      BY <3>1, TreeAssumption, Zenon
    <3>2. CASE currentHeader # Genesis
      <4>1. AncestorsOf[currentHeader] = {currentHeader} \cup AncestorsOf[Parent[currentHeader]]
        BY <1>4, <3>2, ParentChain, Zenon
      <4>2. Parent[currentHeader] \in AncestorsOf[Parent[currentHeader]]
        BY <1>4, AncestorFacts, Zenon DEF Linear
      <4> QED BY <4>1, <4>2, Zenon
    <3> QED BY <3>1, <3>2, Zenon
  <2>3. Parent[currentHeader] \in AncestorsOf[top]
    BY <2>1, <2>2, AncestorFacts, Zenon DEF Linear
  <2>4. ChainOf(top)'
    BY <1>1, <2>1, Zenon DEF ChainOf
  <2> QED BY <1>1, <2>1, <2>3, <2>4, Zenon
<1> QED BY <1>1, <1>3, <1>4, <1>5, <1>6, DropsKeep, Zenon

\* The fast head and the head block step back to a block that is stored.
LEMMA DropBlockKeeps ==
  ASSUME IInv, DropFast \/ DropBlock
  PROVE  IInv'
<1>1. /\ up /\ hpc \in {"dropFast", "dropBlock"} /\ hpc' \in {"dropBlock", "done", "dropHeader"}
      /\ UNCHANGED <<canon, headHeader, stored, currentHeader, tip, next, sched, batch, fresh,
                     writing, processing, up, crashes>>
      /\ \/ /\ Has(Parent[currentFast]) /\ currentFast' = Parent[currentFast]
            /\ headFast' = Parent[currentFast]
         \/ UNCHANGED <<currentFast, headFast>>
      /\ \/ /\ Has(Parent[current]) /\ current' = Parent[current] /\ headBlock' = Parent[current]
         \/ UNCHANGED <<current, headBlock>>
  BY Zenon DEF DropFast, DropBlock, packet, counts
<1>2. /\ hpc \notin Switching /\ hpc' \notin Switching /\ hpc' \notin Walking
      /\ hpc \notin {"insert"} \cup WriteStages
  BY <1>1, Zenon DEF Switching, Walking, WriteStages
<1>3. Drops
  BY <1>1, <1>2, Zenon DEF Drops
<1>4. /\ currentHeader \in Blocks /\ current \in Blocks /\ currentFast \in Blocks
      /\ Parent[current] \in Blocks /\ Parent[currentFast] \in Blocks /\ crashes \in Nat
      /\ headBlock \in Blocks /\ Has(headBlock) /\ headHeader \in Blocks /\ headFast \in Blocks
  BY <1>1, BlockFacts, Zenon DEF IInv, Memory, Stored
<1>5. Memory'
  BY <1>1, <1>4, Zenon DEF Memory
<1>6. Steady
  BY <1>1, <1>2, Zenon DEF Steady, stored
<1>7. Numbering'
  BY <1>6, NumberingSteady, Zenon DEF IInv
<1>8. headBlock' \in Blocks /\ Has(headBlock') /\ headHeader' \in Blocks /\ headFast' \in Blocks
  BY <1>1, <1>4, Zenon
<1> QED BY <1>3, <1>5, <1>7, <1>8, DropsKeep, Zenon

\* The panic leaves everything where it was.
LEMMA RollbackPanicKeeps ==
  ASSUME IInv, RollbackPanic
  PROVE  IInv'
<1>1. /\ up' = FALSE /\ hpc \in {"dropFast", "dropBlock"} /\ hpc' = "panic"
      /\ UNCHANGED <<db, heads, tip, next, sched, batch, writing, processing, crashes>>
  BY Zenon DEF RollbackPanic, packet, counts
<1>2. hpc' \notin Walking /\ hpc \notin {"insert"} \cup WriteStages
  BY <1>1, Zenon DEF Walking, WriteStages
<1>3. Stored'
  BY <1>1, StoredStays, Zenon DEF IInv
<1>4. Memory'
  BY <1>1, Zenon DEF IInv, Memory
<1>5. Rests
  BY <1>1, <1>2, Zenon DEF IInv, Packet, Rests, writing
<1>6. Apart
  BY <1>1, Zenon DEF Apart, processing, db, stored
<1>7. Numbering'
  BY <1>1, Zenon DEF Numbering
<1> QED BY <1>3, <1>4, <1>5, <1>6, <1>7, PacketRests, ProcessingApart, Zenon DEF IInv

-----------------------------------------------------------------------------
(* process.                                                                *)

\* A step of process that stores no header and moves neither the head header
\* nor the head hash.
Works ==
  /\ up /\ UNCHANGED <<canon, headBlock, headHeader, header, td, currentHeader, fetching, up,
                       crashes>>
  /\ body \subseteq body' /\ trie \subseteq trie' /\ trie' \subseteq Blocks
  /\ headFast' \in Blocks /\ current' \in Blocks /\ currentFast' \in Blocks

\* Only process itself has to be looked at then.
LEMMA WorksKeep == IInv /\ Works /\ Processing' => IInv'
<1> SUFFICES ASSUME IInv, Works, Processing' PROVE IInv'
  BY Zenon
<1>1. Settles
  BY Zenon DEF IInv, Stored, Has, Settles, Works
<1>2. Beside
  BY Zenon DEF Works, Beside
<1>3. Steady
  BY Zenon DEF Works, Steady, fetching, writing
<1>4. Memory'
  BY Zenon DEF IInv, Memory, Works
<1> QED BY <1>1, <1>2, <1>3, <1>4, StoredSettles, PacketBeside, NumberingSteady, Zenon DEF IInv

\* What process starts from.
LEMMA ProcessFacts ==
  ASSUME IInv
  PROVE  /\ tip \in Blocks /\ Number[tip] \in Nat /\ sched \in Nat /\ done \in Nat
         /\ ppc # "idle" => sched <= Number[tip]
         /\ trie \subseteq Blocks /\ headFast \in Blocks /\ crashes \in Nat
         /\ up => current \in Blocks /\ currentFast \in Blocks /\ currentHeader \in Blocks
BY BlockFacts, Zenon DEF IInv, Stored, Packet, Memory, Processing

\* The state of the pivot block arrives.
LEMMA StateSyncedKeeps ==
  ASSUME IInv, StateSynced
  PROVE  IInv'
<1> DEFINE b == AncestorAt(tip, Pivot)
<1>1. /\ up /\ ppc # "idle" /\ sched >= Pivot /\ trie' = trie \cup {b}
      /\ UNCHANGED <<canon, headBlock, headHeader, headFast, header, td, body, receipts, current,
                     currentHeader, currentFast, fetching, processing, up, crashes>>
  BY Zenon DEF StateSynced, hashes, heads, counts
<1>2. b \in Blocks
  <2>1. Pivot \in 0..Number[tip]
    BY <1>1, ProcessFacts, FastSyncAssumption
  <2> QED BY <2>1, ProcessFacts, AncestorAtFacts, Zenon
<1> HIDE DEF b
<1>3. Works
  BY <1>1, <1>2, ProcessFacts, Zenon DEF Works
<1>4. /\ tip' = tip /\ sched' = sched /\ ppc' = ppc /\ done' = done /\ fill' = fill
      /\ trie \subseteq trie'
  BY <1>1, Zenon DEF fetching, packet, processing
<1>5. Processing'
  BY <1>1, <1>4, Zenon DEF IInv, Processing, Has
<1> QED BY <1>3, <1>5, WorksKeep, Zenon

\* A batch is handed to InsertReceiptChain: its last block is in it.
LEMMA InsertReceiptsKeeps ==
  ASSUME IInv, NEW k \in Numbers, InsertReceipts(k)
  PROVE  IInv'
<1> DEFINE blocks == {AncestorAt(tip, n) : n \in (done + 1)..(done + k)}
           b == AncestorAt(tip, done + k)
           todo == [c \in {x \in blocks : ~Has(x)} |-> {"body", "receipts"}]
<1>1. /\ up /\ ppc = "wait" /\ k >= 1 /\ (\A n \in (done + 1)..(done + k) : MayProcess(n))
      /\ done + k < Pivot \/ (done + 1 = Pivot /\ k = 1)
      /\ done' = done + k
      /\ \/ blocks \subseteq header /\ ppc' = "fill" /\ fill' = todo
         \/ ppc' = "done" /\ fill' = fill
      /\ UNCHANGED <<canon, headBlock, headHeader, headFast, header, td, body, receipts, trie,
                     current, currentHeader, currentFast, tip, sched, fetching, up, crashes>>
  BY Zenon DEF InsertReceipts, db, hashes, stored, heads, counts, fetching, packet
<1>2. done \in Nat /\ k \in Nat /\ done + k \in Nat /\ done + k \in (done + 1)..(done + k)
  BY <1>1, ProcessFacts, BlockFacts
<1>3. done + k = Pivot => b \in trie
  BY <1>1, <1>2, Zenon DEF MayProcess
<1>4. b \in blocks
  BY <1>2, Zenon
<1>5. Works
  BY <1>1, ProcessFacts, Zenon DEF Works
<1>6. header \subseteq Blocks
  BY Zenon DEF IInv, Stored
<1>7. ppc # "idle" /\ ppc # "fill" /\ ppc # "commit"
  BY <1>1, Zenon
<1>8. Processing'
  <2>1. sched' \in Nat /\ done' \in Nat /\ sched' <= Number[tip']
    BY <1>1, <1>2, <1>7, ProcessFacts, Zenon
  <2>2. crashes = 0 => body' \subseteq receipts'
    BY <1>1, <1>7, Zenon DEF IInv, Processing
  <2>3. CASE ppc' = "done" /\ fill' = fill
    <3>1. ppc' # "fill" /\ ppc' # "commit"
      BY <2>3, Zenon
    <3> QED BY <1>1, <2>1, <2>2, <2>3, <3>1, Zenon DEF IInv, Processing
  <2>4. CASE blocks \subseteq header /\ ppc' = "fill" /\ fill' = todo
    <3>1. /\ DOMAIN todo \subseteq Blocks
          /\ todo \in [DOMAIN todo -> {{"body", "receipts"}, {"receipts"}, {}}]
      BY <1>6, <2>4, Zenon
    <3>2. b \in header /\ (b \in body \/ (b \in DOMAIN todo /\ "body" \in todo[b]))
      <4>1. b \in header
        BY <1>4, <2>4, Zenon
      <4>2. ASSUME b \notin body PROVE b \in DOMAIN todo /\ todo[b] = {"body", "receipts"}
        BY <1>4, <4>2, Zenon DEF Has
      <4> QED BY <4>1, <4>2, Zenon
    <3> HIDE DEF todo, blocks
    <3>3. b = AncestorAt(tip', done') /\ ppc' # "commit" /\ (done' = Pivot => b \in trie')
      BY <1>1, <1>3, <2>4, Zenon
    <3> HIDE DEF b
    <3> QED BY <1>1, <2>1, <2>2, <2>4, <3>1, <3>2, <3>3, Zenon DEF Processing
  <2> QED BY <1>1, <2>3, <2>4, Zenon
<1> QED BY <1>5, <1>8, WorksKeep, Zenon

\* A worker has written the body of a block: its receipts are next.
LEMMA FillBodyKeeps ==
  ASSUME IInv, NEW c \in Blocks, FillBody(c)
  PROVE  IInv'
<1>1. /\ up /\ ppc = "fill" /\ c \in DOMAIN fill /\ "body" \in fill[c]
      /\ body' = body \cup {c} /\ fill' = [fill EXCEPT ![c] = {"receipts"}]
      /\ UNCHANGED <<canon, headBlock, headHeader, headFast, header, td, receipts, trie, current,
                     currentHeader, currentFast, tip, sched, fetching, ppc, done, up, crashes>>
  BY Zenon DEF FillBody, hashes, heads, counts, fetching, packet
<1>2. Works
  BY <1>1, ProcessFacts, Zenon DEF Works
<1>3. /\ DOMAIN fill' = DOMAIN fill /\ fill'[c] = {"receipts"}
      /\ \A x \in DOMAIN fill : x # c => fill'[x] = fill[x]
  BY <1>1, Zenon
<1>4. /\ DOMAIN fill \subseteq Blocks
      /\ fill \in [DOMAIN fill -> {{"body", "receipts"}, {"receipts"}, {}}]
  BY Zenon DEF IInv, Processing
<1>5. fill' \in [DOMAIN fill' -> {{"body", "receipts"}, {"receipts"}, {}}]
  BY <1>1, <1>3, <1>4, Zenon
<1>6. crashes' = 0 =>
        \A x \in body' \ receipts' : ppc' = "fill" /\ x \in DOMAIN fill' /\ fill'[x] = {"receipts"}
  BY <1>1, <1>3, Zenon DEF IInv, Processing
<1>7. LET b == AncestorAt(tip', done')
      IN  /\ b \in header' /\ (done' = Pivot => b \in trie')
          /\ b \in body' \/ (b \in DOMAIN fill' /\ "body" \in fill'[b])
  BY <1>1, <1>3, Zenon DEF IInv, Processing
<1>8. /\ sched' \in Nat /\ done' \in Nat /\ ppc' # "commit"
      /\ ppc' # "idle" => sched' <= Number[tip']
  BY <1>1, ProcessFacts, Zenon
<1>9. Processing'
  BY <1>3, <1>4, <1>5, <1>6, <1>7, <1>8, Zenon DEF Processing
<1> QED BY <1>2, <1>9, WorksKeep, Zenon

\* A worker has written the receipts of a block.
LEMMA FillReceiptsKeeps ==
  ASSUME IInv, NEW c \in Blocks, FillReceipts(c)
  PROVE  IInv'
<1>1. /\ up /\ ppc = "fill" /\ c \in DOMAIN fill /\ fill[c] = {"receipts"}
      /\ receipts' = receipts \cup {c} /\ fill' = [fill EXCEPT ![c] = {}]
      /\ UNCHANGED <<canon, headBlock, headHeader, headFast, header, td, body, trie, current,
                     currentHeader, currentFast, tip, sched, fetching, ppc, done, up, crashes>>
  BY Zenon DEF FillReceipts, hashes, heads, counts, fetching, packet
<1>2. Works
  BY <1>1, ProcessFacts, Zenon DEF Works
<1>3. /\ DOMAIN fill' = DOMAIN fill /\ fill'[c] = {}
      /\ \A x \in DOMAIN fill : x # c => fill'[x] = fill[x]
  BY <1>1, Zenon
<1>4. /\ DOMAIN fill \subseteq Blocks
      /\ fill \in [DOMAIN fill -> {{"body", "receipts"}, {"receipts"}, {}}]
  BY Zenon DEF IInv, Processing
<1>5. fill' \in [DOMAIN fill' -> {{"body", "receipts"}, {"receipts"}, {}}]
  BY <1>1, <1>3, <1>4, Zenon
<1>6. crashes' = 0 =>
        \A x \in body' \ receipts' : ppc' = "fill" /\ x \in DOMAIN fill' /\ fill'[x] = {"receipts"}
  BY <1>1, <1>3, Zenon DEF IInv, Processing
<1>7. "body" \notin fill[c]
  BY <1>1, Zenon
<1>8. LET b == AncestorAt(tip', done')
      IN  /\ b \in header' /\ (done' = Pivot => b \in trie')
          /\ b \in body' \/ (b \in DOMAIN fill' /\ "body" \in fill'[b])
  BY <1>1, <1>3, <1>7, Zenon DEF IInv, Processing
<1>9. /\ sched' \in Nat /\ done' \in Nat /\ ppc' # "commit"
      /\ ppc' # "idle" => sched' <= Number[tip']
  BY <1>1, ProcessFacts, Zenon
<1>10. Processing'
  BY <1>3, <1>4, <1>5, <1>6, <1>8, <1>9, Zenon DEF Processing
<1> QED BY <1>2, <1>10, WorksKeep, Zenon

\* The types of fill when no batch is being written.
LEMMA NoFillTyped ==
  DOMAIN NoFill = {} /\ NoFill \in [DOMAIN NoFill -> {{"body", "receipts"}, {"receipts"}, {}}]
BY Zenon DEF NoFill

\* All the workers are done: every body of the batch has its receipts.
LEMMA FinishReceiptsKeeps ==
  ASSUME IInv, FinishReceipts
  PROVE  IInv'
<1> DEFINE b == AncestorAt(tip, done)
<1>1. /\ up /\ ppc = "fill" /\ (\A c \in DOMAIN fill : fill[c] = {}) /\ fill' = NoFill
      /\ \/ headFast' = b /\ currentFast' = b
         \/ UNCHANGED <<headFast, currentFast>>
      /\ ppc' = IF done = Pivot THEN "commit" ELSE "wait"
      /\ UNCHANGED <<canon, headBlock, headHeader, header, td, body, receipts, trie, current,
                     currentHeader, tip, sched, fetching, done, up, crashes>>
  BY Zenon DEF FinishReceipts, stored, counts, fetching, packet
<1>2. b \in header /\ (b \in body \/ (b \in DOMAIN fill /\ "body" \in fill[b]))
      /\ (done = Pivot => b \in trie)
  BY <1>1, Zenon DEF IInv, Processing
<1>3. b \in body /\ b \in Blocks
  BY <1>1, <1>2, Zenon DEF IInv, Stored
<1>4. {} # {"receipts"}
  BY Zenon
<1>5. crashes = 0 => \A x \in body \ receipts : FALSE
  BY <1>1, <1>4, Zenon DEF IInv, Processing
<1> HIDE DEF b
<1>6. Works
  BY <1>1, <1>3, ProcessFacts, Zenon DEF Works
<1>7. ppc' # "fill" /\ (ppc' = "commit" => done = Pivot) /\ ppc # "idle"
  BY <1>1, Zenon
<1>8. ppc' = "commit" => Has(AncestorAt(tip, done))' /\ AncestorAt(tip', done') \in trie'
  BY <1>1, <1>2, <1>3, <1>7, Zenon DEF Has, b
<1>9. sched' \in Nat /\ done' \in Nat /\ sched' <= Number[tip']
  BY <1>1, <1>7, ProcessFacts, Zenon
<1>10. Processing'
  BY <1>1, <1>5, <1>7, <1>8, <1>9, NoFillTyped, Zenon DEF Processing
<1> QED BY <1>6, <1>10, WorksKeep, Zenon

\* The head block in memory moves to the pivot block, or process ends.
LEMMA CommitHeadKeeps ==
  ASSUME IInv, CommitHead \/ ProcessDone
  PROVE  IInv'
<1> DEFINE b == AncestorAt(tip, done)
<1>1. /\ up /\ ppc \in {"commit", "wait"} /\ ppc' \in {"wait", "done"}
      /\ (Has(b) /\ current' = b) \/ current' = current
      /\ UNCHANGED <<canon, headBlock, headHeader, headFast, header, td, body, receipts, trie,
                     currentHeader, currentFast, tip, sched, fetching, done, fill, up, crashes>>
  BY Zenon DEF CommitHead, ProcessDone, db, hashes, stored, heads, counts, fetching, packet
<1>2. current' \in Blocks
  BY <1>1, ProcessFacts, Zenon DEF Has, IInv, Stored
<1>3. Works
  BY <1>1, <1>2, ProcessFacts, Zenon DEF Works
<1>4. ppc' # "fill" /\ ppc' # "commit" /\ ppc # "fill" /\ ppc # "idle"
  BY <1>1, Zenon
<1>5. Processing'
  BY <1>1, <1>4, Zenon DEF IInv, Processing
<1> QED BY <1>3, <1>5, WorksKeep, Zenon

\* Where reorg leaves the other heads is a block.
LEMMA MovedIn ==
  ASSUME NEW b \in Blocks, Moved(b) # None
  PROVE  Moved(b) \in Blocks
<1> DEFINE off == {c \in AncestorsOf[b] \ AncestorsOf[current] : canon[Number[c]] # c}
           T == {Number[c] : c \in off}
<1>1. off \subseteq Blocks /\ (\A c \in off : Number[c] \in Nat)
  BY BlockFacts, Zenon
<1>2. off # {} /\ Moved(b) = CHOOSE c \in off : \A d \in off : Number[c] <= Number[d]
  BY Zenon DEF Moved
<1> HIDE DEF off
<1>3. T \subseteq Nat /\ T # {}
  BY <1>1, <1>2, Zenon
<1>4. PICK x \in T : \A y \in T : x <= y
  BY <1>3, LeastNatural, Zenon
<1>5. \E c \in off : \A d \in off : Number[c] <= Number[d]
  BY <1>4, Zenon
<1>6. Moved(b) \in off
  BY <1>2, <1>5, Zenon
<1> QED BY <1>1, <1>6, Zenon

\* A full block is stored on top of its parent; it ends the claim about the
\* canonical numbers.
LEMMA ImportStores ==
  ASSUME IInv, NEW b \in Blocks, b # Genesis, ~(Number[b] <= Pivot), up, Parent[b] \in header,
         trie' = trie \cup {b} /\ body' = body \cup {b} /\ header' = header \cup {b}
           /\ td' = td \cup {b} /\ receipts' = receipts \cup {b},
         UNCHANGED <<fetching, fill, up, crashes, ppc>>, ppc = "wait", done' = done + 1,
         canon' \in [Numbers -> Blocks \cup {None}],
         headBlock' \in {headBlock, b} /\ current' \in {current, b},
         headHeader' \in Blocks /\ headFast' \in Blocks /\ currentHeader' \in Blocks
           /\ currentFast' \in Blocks
  PROVE  IInv'
<1>1. AncestorsOf[b] = {b} \cup AncestorsOf[Parent[b]]
  BY ParentChain, Zenon
<1>2. \A c \in header' : c \in td' /\ AncestorsOf[c] \subseteq header'
  BY <1>1, Zenon DEF IInv, Stored
<1>3. Stored'
  BY <1>2, Zenon DEF IInv, Stored, Has
<1>4. Memory'
  BY Zenon DEF IInv, Memory
<1>5. Beside
  BY Zenon DEF Beside
<1>6. ~NoneImported'
  BY Zenon DEF NoneImported
<1>7. Numbering'
  BY <1>6, Zenon DEF Numbering
<1>8. ppc # "fill" /\ ppc # "commit"
  BY Zenon
<1>9. done + 1 \in Nat /\ tip' = tip /\ sched' = sched
  <2>1. done + 1 \in Nat
    BY ProcessFacts
  <2> QED BY <2>1, Zenon DEF fetching, packet
<1>10. crashes' = 0 => \A x \in body' \ receipts' : FALSE
  BY <1>8, Zenon DEF IInv, Processing
<1>11. Processing'
  BY <1>8, <1>9, <1>10, Zenon DEF IInv, Processing
<1> QED BY <1>3, <1>4, <1>5, <1>7, <1>11, PacketBeside, Zenon DEF IInv

\* A full block above the pivot is imported, skipped or refused.
LEMMA ImportBlockKeeps ==
  ASSUME IInv, ImportBlock
  PROVE  IInv'
<1> DEFINE b == AncestorAt(tip, done + 1)
<1>1. /\ up /\ ppc = "wait" /\ done >= Pivot /\ done + 1 <= sched
      /\ UNCHANGED <<fetching, fill, up, crashes>>
  BY Zenon DEF ImportBlock, counts
<1>2. ppc # "idle" /\ done \in Nat /\ done + 1 \in 0..Number[tip] /\ ~(done + 1 <= Pivot)
      /\ done + 1 # 0 /\ done + 1 \in Nat /\ tip \in Blocks
  BY <1>1, ProcessFacts, FastSyncAssumption
<1>3. b \in Blocks /\ Number[b] = done + 1
  BY <1>2, AncestorAtFacts, Zenon
<1>4. b # Genesis /\ ~(Number[b] <= Pivot)
  BY <1>2, <1>3, BlockFacts, Zenon
<1>5. CASE UNCHANGED <<db, heads>> /\ ppc' \in {"wait", "done"} /\ done' \in {done, done + 1}
  <2>1. Works
    BY <1>1, <1>5, ProcessFacts, Zenon DEF Works, db, hashes, stored, heads
  <2>2. ppc' # "fill" /\ ppc' # "commit" /\ ppc # "fill" /\ ppc # "commit"
    BY <1>1, <1>5, Zenon
  <2>3. tip' = tip /\ sched' = sched /\ done' \in Nat
    BY <1>1, <1>2, <1>5, Zenon DEF fetching, packet
  <2>4. Processing'
    BY <1>1, <1>2, <1>5, <2>2, <2>3, Zenon DEF IInv, Processing, db, stored
  <2> QED BY <2>1, <2>4, WorksKeep, Zenon
<1>6. CASE ~(UNCHANGED <<db, heads>> /\ ppc' \in {"wait", "done"} /\ done' \in {done, done + 1})
  <2>1. /\ Has(Parent[b]) /\ done' = done + 1 /\ UNCHANGED ppc
        /\ trie' = trie \cup {b} /\ body' = body \cup {b} /\ header' = header \cup {b}
        /\ td' = td \cup {b} /\ receipts' = receipts \cup {b}
    BY <1>1, <1>6, Zenon DEF ImportBlock
  <2>2. \/ /\ current' = b /\ headBlock' = b
           /\ canon' = [n \in Numbers |->
                IF n <= Number[b] /\ AncestorAt(b, n) \notin AncestorsOf[current]
                  THEN AncestorAt(b, n) ELSE canon[n]]
           /\ \/ UNCHANGED <<headHeader, headFast, currentHeader, currentFast>>
              \/ /\ Moved(b) # None
                 /\ headHeader' = Moved(b) /\ headFast' = Moved(b)
                 /\ currentHeader' = Moved(b) /\ currentFast' = Moved(b)
        \/ UNCHANGED <<canon, hashes, heads>>
    BY <1>1, <1>6, Zenon DEF ImportBlock
  <2>3. canon \in [Numbers -> Blocks \cup {None}]
        /\ headHeader \in Blocks /\ headFast \in Blocks /\ currentHeader \in Blocks
        /\ currentFast \in Blocks
    BY <1>1, Zenon DEF IInv, Stored, Memory
  <2> HIDE DEF b
  <2>4. \A n \in Numbers : n <= Number[b] => AncestorAt(b, n) \in Blocks
    <3> SUFFICES ASSUME NEW n \in Numbers, n <= Number[b] PROVE AncestorAt(b, n) \in Blocks
      BY Zenon
    <3>1. n \in 0..Number[b]
      BY <1>3, BlockFacts
    <3> QED BY <1>3, <3>1, AncestorAtFacts, Zenon
  <2>5. canon' \in [Numbers -> Blocks \cup {None}]
    <3>1. \A n \in Numbers : canon[n] \in Blocks \cup {None}
      BY <2>3, Zenon
    <3> QED BY <2>2, <2>3, <2>4, <3>1, Zenon
  <2>6. headHeader' \in Blocks /\ headFast' \in Blocks /\ currentHeader' \in Blocks
        /\ currentFast' \in Blocks
    BY <1>3, <2>2, <2>3, MovedIn, Zenon DEF hashes, heads
  <2>7. headBlock' \in {headBlock, b} /\ current' \in {current, b}
    BY <2>2, Zenon DEF hashes, heads
  <2>8. Parent[b] \in header
    BY <2>1, Zenon DEF Has
  <2> QED BY <1>1, <1>3, <1>4, <2>1, <2>5, <2>6, <2>7, <2>8, ImportStores, Zenon
<1> QED BY <1>5, <1>6, Zenon

-----------------------------------------------------------------------------
(* Cycles, crashes and restarts.                                           *)

\* findAncestor returns a number of the peer's chain whose header is stored.
LEMMA FindAncestorFacts ==
  ASSUME Stored, NEW t \in Blocks, currentFast \in Blocks
  PROVE  FindAncestor(t) \in 0..Number[t] /\ AncestorAt(t, FindAncestor(t)) \in header
<1> DEFINE head == Number[currentFast]
           from == IF head < Window THEN 0 ELSE head - Window + 1
           near == {n \in from..(from + Window - 1) :
                      /\ n <= Number[t]
                      /\ Has(AncestorAt(t, n)) /\ AncestorAt(t, n) \in trie}
           far == {n \in 0..(head - 1) : n <= Number[t] /\ AncestorAt(t, n) \in header}
<1>1. FindAncestor(t) = IF near # {} THEN Highest(near) ELSE Highest({0} \cup far)
  BY Zenon DEF FindAncestor
<1>2. head \in Nat /\ Window \in Nat /\ Number[t] \in Nat
  BY BlockFacts, FastSyncAssumption, Zenon
<1> HIDE DEF head
<1>3. from \in Nat
  BY <1>2
<1> HIDE DEF from
<1>4. near \subseteq 0..Number[t] /\ far \subseteq 0..Number[t] /\ 0 \in 0..Number[t]
  BY <1>2, <1>3
<1>5. \A n \in near \cup far \cup {0} : AncestorAt(t, n) \in header
  <2>1. AncestorAt(t, 0) = Genesis
    BY AtSelf, Zenon
  <2> QED BY <2>1, Zenon DEF Stored, Has
<1> HIDE DEF near, far
<1>6. CASE near # {}
  <2>1. Highest(near) \in near
    BY <1>2, <1>4, <1>6, HighestIn, Zenon
  <2> QED BY <1>1, <1>4, <1>5, <1>6, <2>1, Zenon
<1>7. CASE near = {}
  <2>1. {0} \cup far \subseteq 0..Number[t] /\ {0} \cup far # {}
    BY <1>4, Zenon
  <2>2. Highest({0} \cup far) \in {0} \cup far
    BY <1>2, <2>1, HighestIn, Zenon
  <2> QED BY <1>1, <1>4, <1>5, <1>7, <2>1, <2>2, Zenon
<1> QED BY <1>6, <1>7, Zenon

\* So does the step back below the pivot, as the chain below is stored too.
LEMMA OriginFacts ==
  ASSUME Stored, NEW t \in Blocks, currentFast \in Blocks
  PROVE  Origin(t) \in 0..Number[t] /\ AncestorAt(t, Origin(t)) \in header
<1> DEFINE a == FindAncestor(t)
           c == AncestorAt(t, a)
           q == Pivot - 1
<1>1. a \in 0..Number[t] /\ c \in header
  BY FindAncestorFacts, Zenon
<1>2. Number[t] \in Nat /\ Pivot \in Nat \ {0}
  BY BlockFacts, FastSyncAssumption, Zenon
<1> HIDE DEF a
<1>3. CASE Pivot < a
  <2>1. c \in AncestorsOf[t] /\ c \in Blocks /\ Number[c] = a
    BY <1>1, AncestorAtFacts, Zenon
  <2>2. q \in 0..a /\ q \in 0..Number[t]
    BY <1>1, <1>2, <1>3
  <2>3. q \in 0..Number[c]
    BY <2>1, <2>2, Zenon
  <2> HIDE DEF c, q
  <2>4. AncestorAt(c, q) = AncestorAt(t, q)
    BY <2>1, <2>3, AtBelow, Zenon
  <2>5. AncestorAt(c, q) \in AncestorsOf[c]
    BY <2>1, <2>3, AncestorAtFacts, Zenon
  <2>6. AncestorAt(t, q) \in header
    BY <1>1, <2>4, <2>5, Zenon DEF Stored
  <2>7. Origin(t) = q
    BY <1>3, Zenon DEF Origin, a, q
  <2> QED BY <2>2, <2>6, <2>7, Zenon
<1>4. CASE ~(Pivot < a)
  <2>1. Origin(t) = a
    BY <1>4, Zenon DEF Origin, a
  <2> QED BY <1>1, <2>1, Zenon
<1> QED BY <1>3, <1>4, Zenon

\* A cycle starts above a header that is stored.
LEMMA StartCycleKeeps ==
  ASSUME IInv, NEW t \in Tips, StartCycle(t)
  PROVE  IInv'
<1>1. /\ up /\ hpc = "idle" /\ ppc = "idle" /\ hpc' = "fetch" /\ ppc' = "wait" /\ tip' = t
      /\ next' = Origin(t) + 1 /\ sched' = Origin(t) /\ done' = Origin(t)
      /\ UNCHANGED <<canon, headBlock, headHeader, headFast, header, td, body, receipts, trie,
                     current, currentHeader, currentFast, batch, writing, fill, up, crashes>>
  BY Zenon DEF StartCycle, db, hashes, stored, heads
<1>2. t \in Blocks
  BY FastSyncAssumption, Zenon
<1>3. Origin(t) \in 0..Number[t] /\ AncestorAt(t, Origin(t)) \in header
  <2>1. currentFast \in Blocks
    BY <1>1, Zenon DEF IInv, Memory
  <2> QED BY <1>2, <2>1, OriginFacts, Zenon DEF IInv
<1>4. /\ hpc \notin Switching /\ hpc' \notin Switching /\ hpc \notin {"insert"} \cup WriteStages
      /\ hpc' \notin WriteStages /\ hpc' # "header"
      /\ ppc # "fill" /\ ppc' # "fill" /\ ppc' # "commit"
  BY <1>1, Zenon DEF Switching, WriteStages
<1>5. batch = <<>> /\ hdr \in Blocks /\ walk \in Blocks /\ batch \in Seq(Blocks)
  BY <1>4, Zenon DEF IInv, Packet
<1>6. Stored'
  BY <1>1, StoredStays, Zenon DEF IInv, db, hashes, stored
<1>7. Memory'
  BY <1>1, Zenon DEF IInv, Memory
<1> DEFINE o == Origin(t)
<1> HIDE DEF o
<1>8. o \in Nat /\ o + 1 \in Nat /\ o <= Number[t] /\ o + 1 <= Number[t] + 1
      /\ (o + 1) - 0 - 1 = o
  <2>1. o \in 0..Number[t] /\ Number[t] \in Nat
    BY <1>2, <1>3, BlockFacts, Zenon DEF o
  <2> QED BY <2>1
<1>9. Position' - 1 = o
  <2>1. Len(batch') = 0
    BY <1>1, <1>5, Zenon
  <2>2. next' = o + 1
    BY <1>1, Zenon DEF o
  <2> QED BY <1>8, <2>1, <2>2, Zenon DEF Position
<1>10. Packet'
  <2>1. \A i \in 1..Len(batch') : batch'[i] = AncestorAt(tip', Position' + i - 1)
    BY <1>1, <1>5
  <2>2. next' <= Number[tip'] + 1 /\ next' \in Nat
    BY <1>1, <1>8, Zenon DEF o
  <2>3. AncestorAt(tip', Position' - 1) \in header'
    BY <1>1, <1>3, <1>9, Zenon DEF o
  <2> QED BY <1>1, <1>2, <1>4, <1>5, <1>8, <1>9, <2>1, <2>2, <2>3, Zenon DEF Packet, writing
<1>11. Processing'
  <2>1. sched' \in Nat /\ done' \in Nat /\ sched' <= Number[tip']
    BY <1>1, <1>8, Zenon DEF o
  <2> QED BY <1>1, <1>4, <2>1, Zenon DEF IInv, Processing
<1>12. Steady
  BY <1>1, <1>4, Zenon DEF Steady
<1> QED BY <1>6, <1>7, <1>10, <1>11, <1>12, NumberingSteady, Zenon DEF IInv

\* A cycle ends when both goroutines have.
LEMMA EndCycleKeeps ==
  ASSUME IInv, EndCycle
  PROVE  IInv'
<1>1. /\ up /\ hpc = "done" /\ ppc = "done" /\ hpc' = "idle" /\ ppc' = "idle"
      /\ UNCHANGED <<db, heads, tip, next, sched, batch, writing, done, fill, up, crashes>>
  BY Zenon DEF EndCycle, packet, counts
<1>2. /\ hpc \notin Switching /\ hpc' \notin Switching /\ hpc \notin {"insert"} \cup WriteStages
      /\ hpc' \notin Walking /\ ppc # "fill" /\ ppc' # "fill" /\ ppc' # "commit"
  BY <1>1, Zenon DEF Switching, Walking, WriteStages
<1>3. Stored'
  BY <1>1, StoredStays, Zenon DEF IInv
<1>4. Memory'
  BY <1>1, Zenon DEF IInv, Memory, heads
<1>5. Rests
  BY <1>1, <1>2, Zenon DEF IInv, Packet, Rests, writing
<1>6. Processing'
  BY <1>1, <1>2, Zenon DEF IInv, Processing, db, stored
<1>7. Steady
  BY <1>1, <1>2, Zenon DEF Steady, db, stored, heads
<1> QED BY <1>3, <1>4, <1>5, <1>6, <1>7, PacketRests, NumberingSteady, Zenon DEF IInv

\* A crash leaves the database, and nothing else.
LEMMA CrashKeeps ==
  ASSUME IInv, Crash
  PROVE  IInv'
<1>1. /\ up' = FALSE /\ crashes' = crashes + 1 /\ tip' = Genesis /\ next' = 1 /\ sched' = 0
      /\ batch' = <<>> /\ hpc' = "idle" /\ hdr' = Genesis /\ walk' = Genesis /\ ppc' = "idle"
      /\ done' = 0 /\ fill' = NoFill /\ UNCHANGED db
  BY Zenon DEF Crash
<1>2. crashes + 1 \in Nat /\ crashes + 1 # 0 /\ 1 \in Nat /\ 0 \in Nat /\ <<>> \in Seq(Blocks)
  BY ProcessFacts
<1>3. hpc' \notin Walking
  BY <1>1, Zenon DEF Walking, WriteStages
<1>4. Stored'
  BY <1>1, StoredStays, Zenon DEF IInv
<1>5. Memory'
  BY <1>1, <1>2, Zenon DEF Memory
<1>6. Rests
  BY <1>1, <1>2, <1>3, BlockFacts, Zenon DEF Rests
<1>7. Processing'
  <2>1. ppc' # "fill" /\ ppc' # "commit"
    BY <1>1, Zenon
  <2> QED BY <1>1, <1>2, <2>1, NoFillTyped, Zenon DEF Processing
<1>8. Numbering'
  BY <1>1, Zenon DEF Numbering
<1> QED BY <1>4, <1>5, <1>6, <1>7, <1>8, PacketRests, Zenon DEF IInv

\* loadLastState finds the block of the head hash.
LEMMA RestartKeeps ==
  ASSUME IInv, Restart
  PROVE  IInv'
<1>1. /\ ~up /\ hpc # "panic" /\ up' = TRUE
      /\ current' = headBlock /\ currentHeader' \in {headHeader, headBlock}
      /\ currentFast' \in {headFast, headBlock}
      /\ UNCHANGED <<db, fetching, processing, crashes>>
  BY Zenon DEF Restart, counts
<1>2. crashes # 0 /\ crashes \in Nat
  BY <1>1, Zenon DEF IInv, Memory
<1>3. Stored'
  BY <1>1, StoredStays, Zenon DEF IInv
<1>4. Memory'
  BY <1>1, <1>2, Zenon DEF IInv, Memory, Stored
<1>5. Beside
  BY <1>1, Zenon DEF Beside, db, stored
<1>6. Apart
  BY <1>1, Zenon DEF Apart, fetching, packet, processing, db, stored
<1>7. Numbering'
  BY <1>1, <1>2, Zenon DEF Numbering
<1> QED BY <1>3, <1>4, <1>5, <1>6, <1>7, PacketBeside, ProcessingApart, Zenon DEF IInv

-----------------------------------------------------------------------------
(* The invariant, and what follows from it.                                *)

\* The invariant holds at first.
LEMMA InitInv == Init => IInv
<1> SUFFICES ASSUME Init PROVE IInv
  BY Zenon
<1>1. Stored
  <2>1. canon \in [Numbers -> Blocks \cup {None}]
    BY BlockFacts, Zenon DEF Init
  <2> QED BY <2>1, BlockFacts, Zenon DEF Init, Stored, Has
<1>2. Memory
  <2>1. 0 \in Nat
    BY Zenon
  <2> QED BY <2>1, BlockFacts, Zenon DEF Init, Memory
<1>3. Packet
  <2>1. 1 \in Nat /\ <<>> \in Seq(Blocks)
    OBVIOUS
  <2>2. hpc \notin {"fetch", "insert"} \cup WriteStages
    BY Zenon DEF Init, WriteStages
  <2> QED BY <2>1, <2>2, BlockFacts, Zenon DEF Init, Packet, WriteStages
<1>4. Processing
  <2>1. 0 \in Nat
    BY Zenon
  <2>2. ppc = "idle" /\ ppc # "fill" /\ ppc # "commit"
    BY Zenon DEF Init
  <2> QED BY <2>1, <2>2, NoFillTyped, Zenon DEF Init, Processing
<1>5. Numbering
  <2>1. Genesis \in Blocks /\ Genesis \in AncestorsOf[Genesis] /\ Numbers \subseteq Nat
    BY BlockFacts, AncestorFacts, Zenon DEF Linear
  <2>2. ASSUME NEW n \in Numbers PROVE Expected(Genesis, n) = IF n = 0 THEN Genesis ELSE None
    <3>1. n \in Nat /\ Number[Genesis] = 0 /\ (n # 0 => n > Number[Genesis])
      BY BlockFacts
    <3> QED BY <2>1, <3>1, ExpectedFacts, Zenon
  <2>3. ChainOf(Genesis)
    BY <2>2, Zenon DEF Init, ChainOf
  <2>4. hpc \notin {"trim", "reroute", "canon", "headHeader"} /\ currentHeader = Genesis
    BY Zenon DEF Init
  <2> QED BY <2>1, <2>3, <2>4, Zenon DEF Numbering
<1> QED BY <1>1, <1>2, <1>3, <1>4, <1>5, Zenon DEF IInv

\* A step that changes nothing keeps the invariant.
LEMMA StillKeeps == IInv /\ UNCHANGED vars => IInv'
<1> SUFFICES ASSUME IInv, UNCHANGED vars PROVE IInv'
  BY Zenon
<1>1. UNCHANGED <<db, heads, fetching, processing, up, crashes>>
  BY Zenon DEF vars, counts
<1>2. Memory'
  BY <1>1, Zenon DEF IInv, Memory, heads, fetching
<1>3. Beside /\ Apart /\ Steady
  BY <1>1, Zenon DEF Beside, Apart, Steady, db, stored, heads, fetching, packet, writing, processing
<1> QED BY <1>1, <1>2, <1>3, StoredStays, PacketBeside, ProcessingApart, NumberingSteady, Zenon
        DEF IInv

\* Every step keeps it.
LEMMA NextInv == IInv /\ [Next]_vars => IInv'
<1> SUFFICES ASSUME IInv, [Next]_vars PROVE IInv'
  BY Zenon
<1>1. CASE UNCHANGED vars
  BY <1>1, StillKeeps, Zenon
<1>2. CASE \E t \in Tips : StartCycle(t)
  BY <1>2, StartCycleKeeps, Zenon
<1>3. CASE \E k \in Numbers : HeaderPacket(k) \/ InsertReceipts(k)
  BY <1>3, HeaderPacketKeeps, InsertReceiptsKeeps, Zenon
<1>4. CASE \E b \in Blocks : FillBody(b) \/ FillReceipts(b)
  BY <1>4, FillBodyKeeps, FillReceiptsKeeps, Zenon
<1>5. CASE EndCycle \/ WriteHeader \/ PacketDone \/ NoMoreHeaders \/ GiveUp \/ Rollback
  BY <1>5, EndCycleKeeps, WriteHeaderKeeps, PacketDoneKeeps, StopKeeps, Zenon
<1>6. CASE Trim \/ Reroute \/ WriteCanonical \/ WriteHeadHeader \/ WriteTd \/ StoreHeader
  BY <1>6, TrimKeeps, RerouteKeeps, WriteCanonicalKeeps, WriteHeadHeaderKeeps, WriteTdKeeps,
     StoreHeaderKeeps, Zenon
<1>7. CASE DropHeader \/ DropFast \/ DropBlock \/ RollbackPanic
  BY <1>7, DropHeaderKeeps, DropBlockKeeps, RollbackPanicKeeps, Zenon
<1>8. CASE StateSynced \/ FinishReceipts \/ CommitHead \/ ImportBlock \/ ProcessDone
  BY <1>8, StateSyncedKeeps, FinishReceiptsKeeps, CommitHeadKeeps, ImportBlockKeeps, Zenon
<1>9. CASE Crash \/ Restart
  BY <1>9, CrashKeeps, RestartKeeps, Zenon
<1> QED BY <1>1, <1>2, <1>3, <1>4, <1>5, <1>6, <1>7, <1>8, <1>9, Zenon DEF Next

\* The invariant holds throughout.
LEMMA Invariance == Spec => []IInv
BY InitInv, NextInv, PTL DEF Spec

\* Whenever bc.mu is free the canonical numbers are the head header's chain, as
\* long as there were only headers, rollbacks and receipts; and a stored header
\* has its total difficulty and its parent beside it at every moment, whenever a
\* crash comes.
THEOREM FastCanonicalHeaders == Spec => []CanonicalHeaders
<1>1. IInv => CanonicalHeaders
  <2> SUFFICES ASSUME IInv PROVE CanonicalHeaders
    BY Zenon
  <2>1. \A b \in header : b \in td /\ Parent[b] \in header
    <3> SUFFICES ASSUME NEW b \in header PROVE b \in td /\ Parent[b] \in header
      BY Zenon
    <3>1. b \in Blocks /\ b \in td /\ AncestorsOf[b] \subseteq header
      BY Zenon DEF IInv, Stored
    <3>2. CASE b = Genesis
      BY <3>1, <3>2, TreeAssumption, Zenon
    <3>3. CASE b # Genesis
      <4>1. AncestorsOf[b] = {b} \cup AncestorsOf[Parent[b]]
        BY <3>1, <3>3, ParentChain, Zenon
      <4>2. Parent[b] \in AncestorsOf[Parent[b]]
        BY <3>1, BlockFacts, AncestorFacts, Zenon DEF Linear
      <4> QED BY <3>1, <4>1, <4>2, Zenon
    <3> QED BY <3>2, <3>3, Zenon
  <2>2. ASSUME NoneImported, crashes = 0, up, MuFree, NEW n \in 0..Number[currentHeader]
        PROVE  canon[n] = AncestorAt(currentHeader, n)
    <3> DEFINE h == currentHeader
    <3>1. hpc \notin {"trim", "reroute", "canon", "headHeader"} /\ h \in Blocks
      BY <2>2, Zenon DEF MuFree, WriteStages, IInv, Memory
    <3>2. PICK top \in Blocks : ChainOf(top) /\ h \in AncestorsOf[top]
      BY <2>2, <3>1, Zenon DEF IInv, Numbering
    <3> HIDE DEF h
    <3>3. n \in 0..Number[h] /\ n \in Nat /\ n <= Number[h]
      <4>1. n \in 0..Number[h]
        BY <2>2, Zenon DEF h
      <4> QED BY <4>1, <3>1, BlockFacts
    <3>4. /\ Expected(h, n) = AncestorAt(h, n) /\ Expected(h, n) \in Blocks
          /\ Number[Expected(h, n)] = n
      BY <3>1, <3>3, ExpectedFacts, Zenon
    <3>5. n \in Numbers
      BY <3>4, Zenon DEF Numbers
    <3>6. \A c \in AncestorsOf[top] : n <= Number[c] => Expected(top, n) = Expected(c, n)
      BY <3>3, ExpectedFacts, Zenon
    <3>7. canon[n] = Expected(top, n)
      BY <3>2, <3>5, Zenon DEF ChainOf
    <3> QED BY <3>2, <3>3, <3>4, <3>6, <3>7, Zenon DEF h
  <2> QED BY <2>1, <2>2, Zenon DEF CanonicalHeaders, CanonicalNumbers
<1> QED BY <1>1, Invariance, PTL

\* FastSyncCommitHead finds the pivot block and its state.
THEOREM FastCommitReady == Spec => []CommitReady
<1>1. IInv => CommitReady
  BY Zenon DEF IInv, Processing, CommitReady
<1> QED BY <1>1, Invariance, PTL

\* Without crashes, a body has its receipts beside it whenever no worker of
\* InsertReceiptChain is at work.
THEOREM FastBodyWithReceipts == Spec => []BodyWithReceipts
<1>1. IInv => BodyWithReceipts
  BY Zenon DEF IInv, Processing, BodyWithReceipts
<1> QED BY <1>1, Invariance, PTL

\* The block of the head hash in the database is stored, header and body, at
\* every moment: loadLastState finds it, and need not reset the chain.
HeadFound == Has(headBlock)

\* A restart in the middle of fast synchronisation finds the head block.
THEOREM FastHeadFound == Spec => []HeadFound
<1>1. IInv => HeadFound
  BY Zenon DEF IInv, Stored, HeadFound
<1> QED BY <1>1, Invariance, PTL

=============================================================================
