------------------------------ MODULE FastSync ------------------------------
(***************************************************************************)
(* Fast synchronisation: the two goroutines of the downloader that change  *)
(* the chain (fetchHeaders and process, exp/downloader/downloader.go) and  *)
(* the chain operations they call (core/blockchain.go): InsertHeaderChain, *)
(* Rollback, InsertReceiptChain, FastSyncCommitHead and, above the pivot,  *)
(* InsertChain, whose own steps are in BlockChain.                         *)
(*                                                                         *)
(* A cycle synchronises with one peer, whose chain is the chain of tip.    *)
(* The control points of the header goroutine under bc.mu are the database *)
(* writes of writeHeader and Rollback, in program order; the memory copy   *)
(* of a head hash changes with the write of it.                            *)
(***************************************************************************)
EXTENDS BlockTree, Sequences

CONSTANTS
  None,
  Tips,          \* heads of the peers to synchronise with
  BadSets,       \* sets of headers that do not validate, one per behaviour
  Pivot,         \* number of the pivot block
  Window,        \* MaxHeaderFetch in findAncestor
  SafetyNet,     \* fsHeaderSafetyNet
  ForceVerify,   \* fsHeaderForceVerify
  MaxCycles      \* model bound: cycles in a behaviour, a crash counting as one

ASSUME FastSyncAssumption ==
  /\ None \notin Blocks /\ Tips \subseteq Blocks 
  /\ \A bad \in BadSets : bad \subseteq Blocks \ {Genesis}
  /\ {Pivot, Window, SafetyNet, ForceVerify} \subseteq Nat \ {0}
  /\ MaxCycles \in Nat

VARIABLES
  canon, headBlock, headHeader, headFast,   \* db: numbers and head hashes
  header, td, body, receipts, trie,         \* db: what is stored, by hash
  current, currentHeader, currentFast,      \* memory: bc.currentBlock ...
  tip,          \* head of the peer's chain in this cycle
  next,         \* number of the next header to fetch
  sched,        \* number up to which headers are scheduled for process
  batch,        \* headers of the packet still to write
  fresh,        \* those of the packet that were unknown
  uncertain,    \* fetchHeaders: rollback
  hdr,          \* the header that writeHeader writes
  spot,         \* writeHeader: the next number to be freed
  walk,         \* writeHeader: the next ancestor to be re-routed to
  hpc, ppc,     \* control points of fetchHeaders and process
  done,         \* number up to which process has imported
  fill,         \* blocks of the receipt batch: [block -> parts to write]
  bad,          \* the headers that do not validate
  noFast,       \* fast synchronisation is disabled
  up, cycles, crashes

counts == <<bad, noFast, cycles, crashes>>

hashes == <<headBlock, headHeader, headFast>>
stored == <<header, td, body, receipts, trie>>
db == <<canon, hashes, stored>>
heads == <<current, currentHeader, currentFast>>
writing == <<hdr, spot, walk>>
packet == <<tip, next, sched, batch, fresh, uncertain>>
fetching == <<packet, writing, hpc>>
processing == <<ppc, done, fill>>
vars == <<db, heads, fetching, processing, up, counts>>

Has(b) == b \in header /\ b \in body      \* GetBlock(b) != nil

NoFill == [b \in {} |-> {}]

Init ==
  /\ canon = [n \in Numbers |-> IF n = 0 THEN Genesis ELSE None]
  /\ headBlock = Genesis /\ headHeader = Genesis /\ headFast = Genesis
  /\ header = {Genesis} /\ td = {Genesis} /\ body = {Genesis}
  /\ receipts = {Genesis} /\ trie = {Genesis}
  /\ current = Genesis /\ currentHeader = Genesis /\ currentFast = Genesis
  /\ tip = Genesis /\ next = 1 /\ sched = 0 /\ batch = <<>> /\ fresh = <<>>
  /\ uncertain = <<>> /\ hdr = Genesis /\ spot = 0 /\ walk = Genesis
  /\ hpc = "idle" /\ ppc = "idle" /\ done = 0 /\ fill = NoFill
  /\ bad \in BadSets /\ noFast = FALSE /\ up = TRUE /\ cycles = 0 /\ crashes = 0

-----------------------------------------------------------------------------
(* A cycle: syncWithPeer up to spawnSync.                                  *)

Highest(S) == CHOOSE n \in S : \A m \in S : m <= n

\* findAncestor: a block with its state among the Window headers asked for
\* first, else the highest known header below the head, by bisection.
FindAncestor(t) ==
  LET head == Number[currentFast]
      from == IF head < Window THEN 0 ELSE head - Window + 1
      near == {n \in from..(from + Window - 1) :
                 /\ n <= Number[t]
                 /\ Has(AncestorAt(t, n)) /\ AncestorAt(t, n) \in trie}
      far == {n \in 0..(head - 1) : n <= Number[t] /\ AncestorAt(t, n) \in header}
  IN IF near # {} THEN Highest(near) ELSE Highest({0} \cup far)

Origin(t) ==
  IF Pivot < FindAncestor(t) THEN Pivot - 1 ELSE FindAncestor(t)

\* The mode is fast unless that is disabled: then the cycle is a full one, which
\* is InsertChain alone.
StartCycle(t) ==
  /\ up /\ ~noFast /\ hpc = "idle" /\ ppc = "idle" /\ cycles + crashes < MaxCycles
  /\ Td[t] > Td[current]
  /\ tip' = t
  /\ next' = Origin(t) + 1 /\ sched' = Origin(t) /\ done' = Origin(t)
  /\ uncertain' = <<>>
  /\ hpc' = "fetch" /\ ppc' = "wait"
  /\ cycles' = cycles + 1
  /\ UNCHANGED <<db, heads, batch, fresh, writing, fill, bad, noFast, up, crashes>>

\* spawnSync returns when all have finished.
EndCycle ==
  /\ up /\ hpc = "done" /\ ppc = "done"
  /\ hpc' = "idle" /\ ppc' = "idle"
  /\ UNCHANGED <<db, heads, packet, writing, done, fill, up, counts>>

-----------------------------------------------------------------------------
(* fetchHeaders with InsertHeaderChain and writeHeader.                    *)

WriteStages == {"trim", "reroute", "canon", "headHeader", "td", "header"}
DropStages == {"dropHeader", "dropFast", "dropBlock"}
MuFree == hpc \notin WriteStages \cup DropStages

\* A packet of k headers from the peer, verified as a whole.
HeaderPacket(k) ==
  LET pack == [i \in 1..k |-> AncestorAt(tip, next + i - 1)]
  IN /\ up /\ hpc = "fetch" /\ k >= 1 /\ next + k - 1 <= Number[tip]
     /\ IF \E i \in 1..k : pack[i] \notin header /\ pack[i] \in bad
          THEN hpc' = "abort" /\ UNCHANGED <<next, batch, fresh>>
          ELSE /\ hpc' = "insert"
               /\ next' = next + k
               /\ batch' = pack
               /\ fresh' = SelectSeq(pack, LAMBDA b : b \notin header)
     /\ UNCHANGED <<db, heads, tip, sched, uncertain, writing, processing, up, counts>>

\* The next header of the packet: skipped if it is known, else written, under
\* bc.mu.  Its parent is known, see CanonicalHeaders.
WriteHeader ==
  LET b == Head(batch)
  IN /\ up /\ hpc = "insert" /\ batch # <<>>
     /\ batch' = Tail(batch)
     /\ \/ b \in header /\ UNCHANGED <<hpc, hdr, spot>>
        \/ /\ b \notin header /\ Td[b] >= Td[currentHeader]  \* a tie is decided by a coin
           /\ hpc' = "trim" /\ hdr' = b /\ spot' = Number[b] + 1
        \/ /\ b \notin header /\ Td[b] <= Td[currentHeader]
           /\ hpc' = "td" /\ hdr' = b /\ UNCHANGED spot
     /\ UNCHANGED <<db, heads, tip, next, sched, fresh, uncertain, walk, processing, up,
                    counts>>

Assigned(n) == n \in Numbers /\ canon[n] # None

\* The canonical numbers above the header's are freed, up to the first hole.
Trim ==
  /\ up /\ hpc = "trim"
  /\ \/ /\ Assigned(spot)
        /\ canon' = [canon EXCEPT ![spot] = None]
        /\ spot' = spot + 1
        /\ UNCHANGED <<hpc, walk>>
     \/ /\ ~Assigned(spot)
        /\ hpc' = "reroute" /\ walk' = Parent[hdr]
        /\ UNCHANGED <<canon, spot>>
  /\ UNCHANGED <<hashes, stored, heads, packet, hdr, processing, up, counts>>

\* Mutant of Reroute: only the parent's number is overwritten.
RerouteParent ==
  /\ up /\ hpc = "reroute"
  /\ canon' = [canon EXCEPT ![Number[walk]] = walk]
  /\ hpc' = "canon"
  /\ UNCHANGED <<hashes, stored, heads, packet, writing, processing, up, counts>>

\* The numbers of the header's ancestors are overwritten, down to the first match.
Reroute ==
  /\ up /\ hpc = "reroute"
  /\ \/ /\ canon[Number[walk]] # walk
        /\ canon' = [canon EXCEPT ![Number[walk]] = walk]
        /\ walk' = Parent[walk]
        /\ UNCHANGED hpc
     \/ /\ canon[Number[walk]] = walk
        /\ hpc' = "canon"
        /\ UNCHANGED <<canon, walk>>
  /\ UNCHANGED <<hashes, stored, heads, packet, hdr, spot, processing, up, counts>>

WriteCanonical ==
  /\ up /\ hpc = "canon"
  /\ hpc' = "headHeader"
  /\ canon' = [canon EXCEPT ![Number[hdr]] = hdr]
  /\ UNCHANGED <<hashes, stored, heads, packet, writing, processing, up, counts>>

WriteHeadHeader ==
  /\ up /\ hpc = "headHeader"
  /\ hpc' = "td"
  /\ headHeader' = hdr /\ currentHeader' = hdr
  /\ UNCHANGED <<canon, headBlock, headFast, stored, current, currentFast, packet, writing,
                 processing, up, counts>>

WriteTd ==
  /\ up /\ hpc = "td"
  /\ hpc' = "header"
  /\ td' = td \cup {hdr}
  /\ UNCHANGED <<canon, hashes, header, body, receipts, trie, heads, packet, writing,
                 processing, up, counts>>

StoreHeader ==
  /\ up /\ hpc = "header"
  /\ hpc' = "insert"
  /\ header' = header \cup {hdr}
  /\ UNCHANGED <<canon, hashes, td, body, receipts, trie, heads, packet, writing, processing,
                 up, counts>>

LastN(s, n) == IF Len(s) <= n THEN s ELSE SubSeq(s, Len(s) - n + 1, Len(s))

\* The packet is written: its headers are uncertain, and scheduled.
PacketDone ==
  /\ up /\ hpc = "insert" /\ batch = <<>>
  /\ uncertain' = LastN(uncertain \o fresh, SafetyNet)
  /\ fresh' = <<>>
  /\ sched' = next - 1
  /\ hpc' = "fetch"
  /\ UNCHANGED <<db, heads, tip, next, batch, writing, processing, up, counts>>

\* The peer has no more headers, and its promise held.
NoMoreHeaders ==
  /\ up /\ hpc = "fetch" /\ next > Number[tip]
  /\ Td[tip] <= Td[currentHeader]
  /\ uncertain' = <<>>
  /\ hpc' = "done"
  /\ UNCHANGED <<db, heads, tip, next, sched, batch, fresh, writing, processing, up, counts>>

\* A time-out, a full queue, a cancelled cycle or a stalling peer.
GiveUp ==
  /\ up /\ hpc = "fetch"
  /\ hpc' = "abort"
  /\ UNCHANGED <<db, heads, packet, writing, processing, up, counts>>

Newest == uncertain[Len(uncertain)]

\* The deferred Rollback of the uncertain headers, newest first.  If they reach
\* past the pivot fast synchronisation is disabled (once they are rolled back, but
\* nothing reads that before).
Rollback ==
  /\ up /\ hpc = "abort"
  /\ hpc' = IF uncertain = <<>> THEN "done" ELSE "dropHeader"
  /\ noFast' = (noFast \/ (uncertain # <<>> /\ Number[Newest] > Pivot))
  /\ UNCHANGED <<db, heads, packet, writing, processing, up, bad, cycles, crashes>>

DropHeader ==
  /\ up /\ hpc = "dropHeader"
  /\ hpc' = "dropFast"
  /\ IF currentHeader = Newest
       THEN currentHeader' = Parent[Newest] /\ headHeader' = Parent[Newest]
       ELSE UNCHANGED <<currentHeader, headHeader>>
  /\ UNCHANGED <<canon, headBlock, headFast, stored, current, currentFast, packet, writing,
                 processing, up, counts>>

DropFast ==
  /\ up /\ hpc = "dropFast"
  /\ hpc' = "dropBlock"
  /\ \/ /\ currentFast = Newest /\ Has(Parent[Newest])
        /\ currentFast' = Parent[Newest] /\ headFast' = Parent[Newest]
     \/ currentFast # Newest /\ UNCHANGED <<currentFast, headFast>>
  /\ UNCHANGED <<canon, headBlock, headHeader, stored, current, currentHeader, packet,
                 writing, processing, up, counts>>

DropBlock ==
  /\ up /\ hpc = "dropBlock"
  /\ hpc' = IF Len(uncertain) = 1 THEN "done" ELSE "dropHeader"
  /\ uncertain' = SubSeq(uncertain, 1, Len(uncertain) - 1)
  /\ \/ /\ current = Newest /\ Has(Parent[Newest])
        /\ current' = Parent[Newest] /\ headBlock' = Parent[Newest]
     \/ current # Newest /\ UNCHANGED <<current, headBlock>>
  /\ UNCHANGED <<canon, headHeader, headFast, stored, currentHeader, currentFast, tip, next,
                 sched, batch, fresh, writing, processing, up, counts>>

\* GetBlock does not find the parent that Rollback steps to: the nil block is
\* dereferenced, and the behaviour ends here.
RollbackPanic ==
  /\ up
  /\ \/ hpc = "dropFast" /\ currentFast = Newest
     \/ hpc = "dropBlock" /\ current = Newest
  /\ ~Has(Parent[Newest])
  /\ up' = FALSE /\ hpc' = "panic"
  /\ UNCHANGED <<db, heads, packet, writing, processing, counts>>

-----------------------------------------------------------------------------
(* process with InsertReceiptChain, FastSyncCommitHead and InsertChain.    *)

\* The state of the pivot block is downloaded and stored (StateSync).
StateSynced ==
  /\ up /\ ppc # "idle" /\ sched >= Pivot
  /\ AncestorAt(tip, Pivot) \notin trie
  /\ trie' = trie \cup {AncestorAt(tip, Pivot)}
  /\ UNCHANGED <<canon, hashes, header, td, body, receipts, heads, fetching, processing, up,
                 counts>>

\* Mutant of MayProcess: the pivot block does not wait for its state.
MayProcessEarly(n) ==
  /\ n <= sched
  /\ (n = Pivot) => sched >= Pivot + ForceVerify

\* countProcessableItems: the pivot block waits for its state and for
\* ForceVerify headers after it, and is processed alone.
MayProcess(n) ==
  /\ n <= sched
  /\ (n = Pivot) => /\ AncestorAt(tip, Pivot) \in trie
                    /\ sched >= Pivot + ForceVerify

\* InsertReceiptChain starts on the next k blocks.
InsertReceipts(k) ==
  LET blocks == {AncestorAt(tip, n) : n \in (done + 1)..(done + k)}
  IN /\ up /\ ppc = "wait" /\ k >= 1
     /\ \A n \in (done + 1)..(done + k) : MayProcess(n)
     /\ done + k < Pivot \/ (done + 1 = Pivot /\ k = 1)
     /\ done' = done + k
     /\ IF blocks \subseteq header
          THEN /\ ppc' = "fill"
               /\ fill' = [b \in {c \in blocks : ~Has(c)} |-> {"body", "receipts"}]
          ELSE ppc' = "done" /\ UNCHANGED fill    \* containing header unknown
     /\ UNCHANGED <<db, heads, fetching, up, counts>>

\* A worker writes the body, then the receipts, of a block of the batch.
FillBody(b) ==
  /\ up /\ ppc = "fill" /\ b \in DOMAIN fill /\ "body" \in fill[b]
  /\ body' = body \cup {b}
  /\ fill' = [fill EXCEPT ![b] = {"receipts"}]
  /\ UNCHANGED <<canon, hashes, header, td, receipts, trie, heads, fetching, ppc, done, up,
                 counts>>

FillReceipts(b) ==
  /\ up /\ ppc = "fill" /\ b \in DOMAIN fill /\ fill[b] = {"receipts"}
  /\ receipts' = receipts \cup {b}
  /\ fill' = [fill EXCEPT ![b] = {}]
  /\ UNCHANGED <<canon, hashes, header, td, body, trie, heads, fetching, ppc, done, up, counts>>

\* Mutant of FinishReceipts: the workers are not waited for.
FinishReceiptsEarly ==
  LET b == AncestorAt(tip, done)
  IN /\ up /\ ppc = "fill" /\ MuFree
     /\ fill' = NoFill
     /\ IF Td[currentFast] < Td[b]
          THEN headFast' = b /\ currentFast' = b
          ELSE UNCHANGED <<headFast, currentFast>>
     /\ ppc' = IF done = Pivot THEN "commit" ELSE "wait"
     /\ UNCHANGED <<canon, headBlock, headHeader, stored, current, currentHeader, fetching,
                    done, up, counts>>

\* The batch is written: the fast head moves if that is heavier, and the
\* pivot block is committed next.
FinishReceipts ==
  LET b == AncestorAt(tip, done)
  IN /\ up /\ ppc = "fill" /\ (\A c \in DOMAIN fill : fill[c] = {}) /\ MuFree
     /\ fill' = NoFill
     /\ IF Td[currentFast] < Td[b]
          THEN headFast' = b /\ currentFast' = b
          ELSE UNCHANGED <<headFast, currentFast>>
     /\ ppc' = IF done = Pivot THEN "commit" ELSE "wait"
     /\ UNCHANGED <<canon, headBlock, headHeader, stored, current, currentHeader, fetching,
                    done, up, counts>>

\* FastSyncCommitHead: the head in memory, not the head hash.
CommitHead ==
  LET b == AncestorAt(tip, done)
  IN /\ up /\ ppc = "commit" /\ MuFree
     /\ IF Has(b) /\ b \in trie
          THEN current' = b /\ ppc' = "wait"
          ELSE UNCHANGED current /\ ppc' = "done"
     /\ UNCHANGED <<db, currentHeader, currentFast, fetching, done, fill, up, counts>>

\* Where reorg and insert of b leave the header head and the fast head: at
\* the lowest block of the new branch whose number was not canonical yet.
Moved(b) ==
  LET off == {c \in AncestorsOf[b] \ AncestorsOf[current] : canon[Number[c]] # c}
  IN IF off = {} THEN None ELSE CHOOSE c \in off : \A d \in off : Number[c] <= Number[d]

\* InsertChain of the next block above the pivot.  It excludes
\* InsertHeaderChain (chainmu), not Rollback.
ImportBlock ==
  LET b == AncestorAt(tip, done + 1)
  IN /\ up /\ ppc = "wait" /\ done >= Pivot /\ done + 1 <= sched
     /\ MuFree /\ hpc # "insert"
     /\ IF Has(b) /\ b \in trie
          THEN done' = done + 1 /\ UNCHANGED <<db, heads, ppc>>     \* known
        ELSE IF ~(Has(Parent[b]) /\ Parent[b] \in trie)
          THEN ppc' = "done" /\ UNCHANGED <<db, heads, done>>
        ELSE /\ done' = done + 1 /\ UNCHANGED ppc
             /\ trie' = trie \cup {b} /\ body' = body \cup {b}
             /\ header' = header \cup {b} /\ td' = td \cup {b}
             /\ receipts' = receipts \cup {b}
             /\ \/ /\ Td[b] >= Td[current]
                   /\ current' = b /\ headBlock' = b
                   /\ canon' = [n \in Numbers |->
                        IF n <= Number[b] /\ AncestorAt(b, n) \notin AncestorsOf[current]
                          THEN AncestorAt(b, n) ELSE canon[n]]
                   /\ IF Moved(b) = None
                        THEN UNCHANGED <<headHeader, headFast, currentHeader, currentFast>>
                        ELSE /\ headHeader' = Moved(b) /\ headFast' = Moved(b)
                             /\ currentHeader' = Moved(b) /\ currentFast' = Moved(b)
                \/ /\ Td[b] <= Td[current]
                   /\ UNCHANGED <<canon, hashes, heads>>
     /\ UNCHANGED <<fetching, fill, up, counts>>

\* The queue is closed once the fetchers are done; process may find nothing.
ProcessDone ==
  /\ up /\ ppc = "wait" /\ hpc = "done"
  /\ ppc' = "done"
  /\ UNCHANGED <<db, heads, fetching, done, fill, up, counts>>

-----------------------------------------------------------------------------
(* Crash and restart.                                                      *)

Crash ==
  /\ up /\ cycles + crashes < MaxCycles
  /\ crashes' = crashes + 1
  /\ up' = FALSE
  /\ current' = None /\ currentHeader' = None /\ currentFast' = None
  /\ tip' = Genesis /\ next' = 1 /\ sched' = 0 /\ batch' = <<>> /\ fresh' = <<>>
  /\ uncertain' = <<>> /\ hpc' = "idle"
  /\ hdr' = Genesis /\ spot' = 0 /\ walk' = Genesis
  /\ ppc' = "idle" /\ done' = 0 /\ fill' = NoFill
  /\ noFast' = FALSE
  /\ UNCHANGED <<db, bad, cycles>>

\* loadLastState.  The head block is always found: it is written before its
\* hash is (BlockChain covers the other case).
Restart ==
  /\ ~up /\ hpc # "panic"
  /\ up' = TRUE
  /\ current' = headBlock
  /\ currentHeader' = IF headHeader \in header THEN headHeader ELSE headBlock
  /\ currentFast' = IF Has(headFast) THEN headFast ELSE headBlock
  /\ UNCHANGED <<db, fetching, processing, counts>>

-----------------------------------------------------------------------------
Next ==
  \/ \E t \in Tips : StartCycle(t)
  \/ EndCycle
  \/ \E k \in Numbers : HeaderPacket(k) \/ InsertReceipts(k)
  \/ WriteHeader \/ PacketDone \/ NoMoreHeaders \/ GiveUp
  \/ Trim \/ Reroute \/ WriteCanonical \/ WriteHeadHeader \/ WriteTd \/ StoreHeader
  \/ Rollback \/ DropHeader \/ DropFast \/ DropBlock \/ RollbackPanic
  \/ StateSynced
  \/ \E b \in Blocks : FillBody(b) \/ FillReceipts(b)
  \/ FinishReceipts \/ CommitHead \/ ImportBlock \/ ProcessDone
  \/ Crash \/ Restart

Spec == Init /\ [][Next]_vars

-----------------------------------------------------------------------------
(* Properties.                                                             *)

\* Types of the variables; the rollback list is bounded (fsHeaderSafetyNet).
TypeOK ==
  /\ canon \in [Numbers -> Blocks \cup {None}]
  /\ {headBlock, headHeader, headFast, tip} \subseteq Blocks
  /\ UNION {header, td, body, receipts, trie} \subseteq Blocks
  /\ {current, currentHeader, currentFast} \subseteq Blocks \cup {None}
  /\ next \in Nat /\ sched \in Nat /\ done \in Nat
  /\ {batch, fresh, uncertain} \subseteq Seq(Blocks) /\ Len(uncertain) <= SafetyNet
  /\ hdr \in Blocks /\ spot \in Nat /\ walk \in Blocks
  /\ hpc \in {"idle", "fetch", "insert", "abort", "done", "panic"} \cup WriteStages
             \cup DropStages
  /\ ppc \in {"idle", "wait", "fill", "commit", "done"}
  /\ fill \in [DOMAIN fill -> {{"body", "receipts"}, {"receipts"}, {}}]
  /\ bad \in BadSets /\ {noFast, up} \subseteq BOOLEAN /\ cycles \in 0..MaxCycles /\ crashes \in 0..MaxCycles

\* Documented at core/blockchain.go:82: whenever bc.mu is free the canonical
\* numbers up to the head header's are that header's chain.
CanonicalNumbers ==
  up /\ MuFree =>
    \A n \in 0..Number[currentHeader] : canon[n] = AncestorAt(currentHeader, n)

\* No full block has been imported: those are above the pivot block.
NoneImported == \A b \in trie : Number[b] <= Pivot

\* The same, as long as headers, rollbacks and receipts are all there was and
\* no full block has been imported: writeHeader re-routes, Rollback steps back.
\* A crash while writeHeader re-routes breaks it; but a stored header has its total
\* difficulty and its parent's header beside it at every point a crash may come, as
\* writeHeader stores it last.
CanonicalHeaders ==
  /\ NoneImported /\ crashes = 0 => CanonicalNumbers
  /\ \A b \in header : b \in td /\ Parent[b] \in header

\* FastSyncCommitHead finds the pivot block and its state: process hands the
\* pivot out only when countProcessableItems has seen both.
CommitReady ==
  ppc = "commit" => Has(AncestorAt(tip, done)) /\ AncestorAt(tip, done) \in trie

\* Without crashes, a body has its receipts beside it whenever no worker of
\* InsertReceiptChain is at work: the head moves only after all are done.
BodyWithReceipts == up /\ crashes = 0 /\ ppc # "fill" => body \subseteq receipts

\* Implied by core/blockchain.go:953 (skipped if "the entire data is already
\* known"): the fast head and its ancestors have their receipts.
FastReceipts == up => AncestorsOf[currentFast] \subseteq receipts

\* Implied by core/blockchain.go:918 (InsertReceiptChain completes a header
\* chain): the fast head and its ancestors have their bodies.
FastBlocksConnected == up => AncestorsOf[currentFast] \subseteq header \cap body

\* Implied by core/blockchain.go:303: a block is the head only if its state
\* trie exists.
HeadHasState == up /\ MuFree => current \in trie

\* Documented at core/database_util.go:77: the head block hash in the
\* database is that of the current head block.
HeadPersisted == up /\ MuFree => headBlock = current

\* Documented at core/blockchain.go:894: Rollback removes the links from the
\* database; no number above the head header's is canonical.
RollbackRemoves ==
  up /\ MuFree => \A n \in Numbers : n > Number[currentHeader] => canon[n] = None
=============================================================================
