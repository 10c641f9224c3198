----------------------------- MODULE BlockChain -----------------------------
(***************************************************************************)
(* Full block import (core/blockchain.go): InsertChain under chainmu, the  *)
(* miner's WriteBlock beside it, reorganisations, the database writes they *)
(* are made of, crashes between two writes and the restart that follows.   *)
(*                                                                         *)
(* The control points of a thread under bc.mu are the database writes of   *)
(* WriteBlock, insert and reorg, in program order; the in-memory head that *)
(* is assigned right after a head hash is written changes with it.         *)
(***************************************************************************)
EXTENDS BlockTree

CONSTANTS
  MinedSets,    \* which blocks the local miner may seal, one set per behaviour
  Verdict,      \* [Blocks -> {"ok", "future", "bad"}]: validation
  TxsIn,        \* [Blocks -> SUBSET Txs]
  Txs,
  None,
  MaxFuture,    \* maxFutureBlocks
  MaxUpsets     \* model bound: crashes and SetHead calls in a behaviour

ASSUME ChainAssumption ==
  /\ None \notin Blocks
  /\ MinedSets \subseteq SUBSET (Blocks \ {Genesis})
  /\ Verdict \in [Blocks -> {"ok", "future", "bad"}]
  /\ TxsIn \in [Blocks -> SUBSET Txs] /\ TxsIn[Genesis] = {}
  /\ MaxFuture \in Nat \ {0} /\ MaxUpsets \in Nat

\* A chain holds a transaction once: its nonce is used up by then.
ASSUME NonceAssumption ==
  \A b \in Blocks : \A c, d \in AncestorsOf[b] : TxsIn[c] \cap TxsIn[d] # {} => c = d

Threads == {"import", "mine"}

VARIABLES
  canon,        \* db: number -> canonical hash, or None
  headBlock, headHeader, headFast,   \* db: head hashes
  header, body, td, state, receipts, \* db: what is stored, by block hash
  txAt,         \* db: tx -> block of its positional metadata, or None
  rcptOf,       \* db: tx -> block its stored receipt is of, or None
  current, currentHeader, currentFast,  \* memory: bc.currentBlock ...
  future,       \* memory: bc.futureBlocks
  tdCache,      \* memory: bc.tdCache
  pc,           \* [Threads -> control point]
  block,        \* [Threads -> block being written]
  localTd,      \* [Threads -> block whose TD was read as localTd, or None]
  phase,        \* [Threads -> what the thread is doing under bc.mu]
  at,           \* [Threads -> block that insert is called with]
  branch,       \* [Threads -> blocks of newChain that reorg still inserts]
  gone,         \* [Threads -> transactions of diff that reorg still deletes]
  mined,        \* blocks the miner seals itself (not imported first)
  up,           \* the node is running
  torn,         \* history: a crash has cut SetHead short while it deleted blocks
  crashes, rewinds

hashes == <<headBlock, headHeader, headFast>>
stored == <<header, body, td>>
index == <<txAt, rcptOf>>
db == <<canon, hashes, stored, state, receipts, index>>
heads == <<current, currentHeader, currentFast>>
job == <<phase, at, branch, gone>>
threads == <<pc, block, localTd, job>>
counts == <<mined, torn, crashes, rewinds>>
rest == <<state, future, tdCache, block, localTd, up, counts>>
vars == <<db, heads, future, tdCache, threads, up, counts>>

Has(b) == b \in header /\ b \in body      \* GetBlock(b) != nil

Init ==
  /\ canon = [n \in Numbers |-> IF n = 0 THEN Genesis ELSE None]
  /\ headBlock = Genesis /\ headHeader = Genesis /\ headFast = Genesis
  /\ header = {Genesis} /\ body = {Genesis} /\ td = {Genesis}
  /\ state = {Genesis} /\ receipts = {Genesis}
  /\ txAt = [t \in Txs |-> None] /\ rcptOf = [t \in Txs |-> None]
  /\ current = Genesis /\ currentHeader = Genesis /\ currentFast = Genesis
  /\ future = {}
  /\ tdCache = {}
  /\ pc = [t \in Threads |-> "idle"]
  /\ block = [t \in Threads |-> Genesis]
  /\ localTd = [t \in Threads |-> None]
  /\ phase = [t \in Threads |-> "none"]
  /\ at = [t \in Threads |-> Genesis]
  /\ branch = [t \in Threads |-> {}]
  /\ gone = [t \in Threads |-> {}]
  /\ up = TRUE
  /\ torn = FALSE /\ crashes = 0 /\ rewinds = 0 /\ mined \in MinedSets

-----------------------------------------------------------------------------
(* What reorg collects before it writes.                                   *)

OldOnly(old, new) == AncestorsOf[old] \ AncestorsOf[new]

\* Mutant of NewOnly: the walk stops one block short of the common one.
NewOnlyShort(old, new) ==
  {c \in AncestorsOf[new] \ AncestorsOf[old] :
     c = new \/ Parent[c] \notin AncestorsOf[old]}

NewOnly(old, new) == AncestorsOf[new] \ AncestorsOf[old]

\* reorg finds every block below the two heads, the common one included.
BranchesKnown(old, new) ==
  \A c \in OldOnly(old, new) \cup NewOnly(old, new) : Has(Parent[c])

\* Mutant of Dropped: the transactions that drop out keep their index.
DroppedKept(old, new) == {}

\* The transactions that did not make it into the new branch.
Dropped(old, new) ==
  (UNION {TxsIn[c] : c \in OldOnly(old, new)})
    \ (UNION {TxsIn[c] : c \in NewOnly(old, new)})

Newest(S) == CHOOSE c \in S : \A d \in S : Number[d] <= Number[c]

-----------------------------------------------------------------------------
(* InsertChain, one block, up to WriteBlock.                               *)

Go(t, where) == pc' = [pc EXCEPT ![t] = where]

\* The LRU cache futureBlocks: at its limit an older entry makes room.
AddFuture(b) ==
  \/ /\ b \in future \/ Cardinality(future) < MaxFuture
     /\ future' = future \cup {b}
  \/ /\ b \notin future /\ Cardinality(future) >= MaxFuture
     /\ \E old \in future : future' = (future \ {old}) \cup {b}

Known(b) == Has(b) /\ b \in state
ParentMissing(b) == ~Has(Parent[b]) \/ Parent[b] \notin state

InsertQueued(b) ==
  /\ up /\ pc["import"] = "idle" /\ b # Genesis
  /\ ~Known(b)
  /\ \/ ~ParentMissing(b) /\ Verdict[b] = "future"
     \/ ParentMissing(b) /\ Parent[b] \in future
  /\ AddFuture(b)
  /\ UNCHANGED <<db, heads, tdCache, threads, up, counts>>

\* Validated and processed: state and block receipts are written first.
\* A block that was early may be on time now.
InsertProcessed(b) ==
  /\ up /\ pc["import"] = "idle" /\ b # Genesis
  /\ ~Known(b) /\ ~ParentMissing(b) /\ Verdict[b] # "bad"
  /\ b \in mined => b \in state /\ pc["mine"] = "idle"  \* it came from us
  /\ Go("import", "read")
  /\ block' = [block EXCEPT !["import"] = b]
  /\ state' = state \cup {b}
  /\ receipts' = receipts \cup {b}
  /\ UNCHANGED <<canon, hashes, stored, index, heads, future, tdCache, localTd, job, up,
                 counts>>

\* worker.wait: the state is committed, the receipts come last.
MineBlock(b) ==
  /\ up /\ pc["mine"] = "idle" /\ b \in mined
  /\ b \notin state /\ Has(Parent[b]) /\ Parent[b] \in state
  /\ Go("mine", "read")
  /\ block' = [block EXCEPT !["mine"] = b]
  /\ state' = state \cup {b}
  /\ UNCHANGED <<canon, hashes, stored, receipts, index, heads, future, tdCache, localTd,
                 job, up, counts>>

-----------------------------------------------------------------------------
(* WriteBlock.                                                             *)

\* ptd and localTd are read before bc.mu is taken.
ReadTd(t) ==
  /\ up /\ pc[t] = "read"
  /\ IF Parent[block[t]] \in td \cup tdCache
       THEN /\ Go(t, "lock")
            /\ localTd' = [localTd EXCEPT
                 ![t] = IF current \in td \cup tdCache THEN current ELSE None]
            /\ tdCache' = tdCache \cup ({Parent[block[t]], current} \cap td)
       ELSE Go(t, "idle") /\ UNCHANGED <<localTd, tdCache>>
  /\ UNCHANGED <<db, heads, future, block, job, up, counts>>

MuStages == {"canon", "head", "headAll", "headHeader", "headFast", "reorgTxs", "reorgRcpts",
             "delRcpt", "delTx", "td", "body", "header", "stored"}
MuFree == \A t \in Threads : pc[t] \notin MuStages

\* reorg goes on: the blocks of todo, newest first, then the transactions of
\* diff; when it is done the block itself is inserted.
Proceed(t, todo, diff) ==
  /\ gone' = [gone EXCEPT ![t] = diff]
  /\ \/ /\ todo # {}
        /\ Go(t, "canon")
        /\ phase' = [phase EXCEPT ![t] = "reorg"]
        /\ at' = [at EXCEPT ![t] = Newest(todo)]
        /\ branch' = [branch EXCEPT ![t] = todo \ {Newest(todo)}]
     \/ /\ todo = {} /\ diff # {}
        /\ Go(t, "delRcpt")
        /\ phase' = [phase EXCEPT ![t] = "reorg"]
        /\ branch' = [branch EXCEPT ![t] = {}]
        /\ UNCHANGED at
     \/ /\ todo = {} /\ diff = {}
        /\ Go(t, "canon")
        /\ phase' = [phase EXCEPT ![t] = "insert"]
        /\ at' = [at EXCEPT ![t] = block[t]]
        /\ branch' = [branch EXCEPT ![t] = {}]

\* bc.mu is taken; the comparison is with the TD read before.
LockHead(t) ==
  LET b == block[t]
  IN /\ up /\ pc[t] = "lock" /\ MuFree
     /\ localTd[t] # None
     /\ Td[b] >= Td[localTd[t]]       \* a tie is decided by a coin
     /\ \/ Parent[b] = current /\ Proceed(t, {}, {})
        \/ /\ Parent[b] # current /\ BranchesKnown(current, b)
           /\ Proceed(t, NewOnly(current, b), Dropped(current, b))
        \/ /\ Parent[b] # current /\ ~BranchesKnown(current, b)
           /\ Go(t, "idle") /\ UNCHANGED job
     /\ UNCHANGED <<db, heads, future, tdCache, block, localTd, up, counts>>

\* Mutant of LockSide: the coin decides whatever the total difficulties.
LockSideAlways(t) ==
  /\ up /\ pc[t] = "lock" /\ MuFree
  /\ localTd[t] # None
  /\ Go(t, "td")
  /\ phase' = [phase EXCEPT ![t] = "side"]
  /\ UNCHANGED <<db, heads, future, tdCache, at, branch, gone, block, localTd, up, counts>>

LockSide(t) ==
  /\ up /\ pc[t] = "lock" /\ MuFree
  /\ localTd[t] # None
  /\ Td[block[t]] <= Td[localTd[t]]
  /\ Go(t, "td")
  /\ phase' = [phase EXCEPT ![t] = "side"]
  /\ UNCHANGED <<db, heads, future, tdCache, at, branch, gone, block, localTd, up, counts>>

\* The process ends: memory is gone.
Down(where) ==
  /\ up' = FALSE
  /\ pc' = where
  /\ current' = None /\ currentHeader' = None /\ currentFast' = None
  /\ future' = {} /\ tdCache' = {}
  /\ phase' = [t \in Threads |-> "none"]
  /\ at' = [t \in Threads |-> Genesis]
  /\ branch' = [t \in Threads |-> {}]
  /\ gone' = [t \in Threads |-> {}]
  /\ block' = [t \in Threads |-> Genesis]
  /\ localTd' = [t \in Threads |-> None]
  /\ UNCHANGED <<mined, rewinds>>

\* Comparing with a missing TD is a nil dereference.
LockPanic(t) ==
  /\ up /\ pc[t] = "lock" /\ MuFree
  /\ localTd[t] = None
  /\ Down([x \in Threads |-> IF x = t THEN "panic" ELSE "idle"])
  /\ UNCHANGED <<db, torn, crashes>>

-----------------------------------------------------------------------------
(* insert: the writes of a block that becomes canonical.                   *)

AfterInsert(t) == IF phase[t] = "reorg" THEN "reorgTxs" ELSE "td"

\* Whether the other heads move too is decided before the number is written.
WriteCanonical(t) ==
  LET b == at[t]
  IN /\ up /\ pc[t] = "canon"
     /\ Go(t, IF canon[Number[b]] # b THEN "headAll" ELSE "head")
     /\ canon' = [canon EXCEPT ![Number[b]] = b]
     /\ UNCHANGED <<hashes, stored, receipts, index, heads, job, rest>>

WriteHead(t) ==
  /\ up /\ pc[t] \in {"head", "headAll"}
  /\ Go(t, IF pc[t] = "headAll" THEN "headHeader" ELSE AfterInsert(t))
  /\ headBlock' = at[t] /\ current' = at[t]
  /\ UNCHANGED <<canon, headHeader, headFast, stored, receipts, index, currentHeader,
                 currentFast, job, rest>>

WriteHeadHeader(t) ==
  /\ up /\ pc[t] = "headHeader"
  /\ Go(t, "headFast")
  /\ headHeader' = at[t] /\ currentHeader' = at[t]
  /\ UNCHANGED <<canon, headBlock, headFast, stored, receipts, index, current, currentFast,
                 job, rest>>

WriteHeadFast(t) ==
  /\ up /\ pc[t] = "headFast"
  /\ Go(t, AfterInsert(t))
  /\ headFast' = at[t] /\ currentFast' = at[t]
  /\ UNCHANGED <<canon, headBlock, headHeader, stored, receipts, index, current,
                 currentHeader, job, rest>>

-----------------------------------------------------------------------------
(* The rest of reorg: the index of each block, then the dropped ones.      *)

\* WriteTransactions and WriteReceipts: an entry per transaction of b.
Indexed(f, b) == [x \in Txs |-> IF x \in TxsIn[b] THEN b ELSE f[x]]

ReorgTransactions(t) ==
  /\ up /\ pc[t] = "reorgTxs"
  /\ Go(t, "reorgRcpts")
  /\ txAt' = Indexed(txAt, at[t])
  /\ UNCHANGED <<canon, hashes, stored, receipts, rcptOf, heads, job, rest>>

\* Receipts that are not in the database are not indexed.
ReorgReceipts(t) ==
  /\ up /\ pc[t] = "reorgRcpts"
  /\ rcptOf' = IF at[t] \in receipts THEN Indexed(rcptOf, at[t]) ELSE rcptOf
  /\ Proceed(t, branch[t], gone[t])
  /\ UNCHANGED <<canon, hashes, stored, receipts, txAt, heads, rest>>

\* The transaction of diff whose turn it is.
Turn(t) == CHOOSE x \in gone[t] : TRUE

DeleteReceipt(t) ==
  /\ up /\ pc[t] = "delRcpt"
  /\ Go(t, "delTx")
  /\ rcptOf' = [rcptOf EXCEPT ![Turn(t)] = None]
  /\ UNCHANGED <<canon, hashes, stored, receipts, txAt, heads, job, rest>>

DeleteTransaction(t) ==
  /\ up /\ pc[t] = "delTx"
  /\ txAt' = [txAt EXCEPT ![Turn(t)] = None]
  /\ Proceed(t, {}, gone[t] \ {Turn(t)})
  /\ UNCHANGED <<canon, hashes, stored, receipts, rcptOf, heads, rest>>

-----------------------------------------------------------------------------
(* The block itself, and what its caller writes when bc.mu is released.    *)

WriteTd(t) ==
  /\ up /\ pc[t] = "td"
  /\ Go(t, "body")
  /\ td' = td \cup {block[t]}
  /\ UNCHANGED <<canon, hashes, header, body, receipts, index, heads, job, rest>>

WriteBody(t) ==
  /\ up /\ pc[t] = "body"
  /\ Go(t, "header")
  /\ body' = body \cup {block[t]}
  /\ UNCHANGED <<canon, hashes, header, td, receipts, index, heads, job, rest>>

WriteHeader(t) ==
  /\ up /\ pc[t] = "header"
  /\ Go(t, "stored")
  /\ header' = header \cup {block[t]}
  /\ UNCHANGED <<canon, hashes, body, td, receipts, index, heads, job, rest>>

Finish(t) ==
  /\ Go(t, IF t = "mine" THEN "blockRcpts" ELSE "idle")
  /\ phase' = [phase EXCEPT ![t] = "none"]
  /\ UNCHANGED <<at, branch, gone>>

\* WriteBlock returns; a side block is not indexed.
Stored(t) ==
  /\ up /\ pc[t] = "stored"
  /\ future' = future \ {block[t]}
  /\ \/ phase[t] = "insert" /\ Go(t, "txs") /\ UNCHANGED job
     \/ phase[t] = "side" /\ Finish(t)
  /\ UNCHANGED <<db, heads, tdCache, block, localTd, up, counts>>

WriteTransactions(t) ==
  /\ up /\ pc[t] = "txs"
  /\ Go(t, "rcpts")
  /\ txAt' = Indexed(txAt, block[t])
  /\ UNCHANGED <<canon, hashes, stored, receipts, rcptOf, heads, job, rest>>

WriteReceipts(t) ==
  /\ up /\ pc[t] = "rcpts"
  /\ rcptOf' = Indexed(rcptOf, block[t])
  /\ Finish(t)
  /\ UNCHANGED <<canon, hashes, stored, receipts, txAt, heads, rest>>

\* The miner writes the block's receipts when everything else is done.
WriteBlockReceipts(t) ==
  /\ up /\ pc[t] = "blockRcpts"
  /\ Go(t, "idle")
  /\ receipts' = receipts \cup {block[t]}
  /\ UNCHANGED <<canon, hashes, stored, index, heads, job, rest>>

Write(t) ==
  \/ WriteCanonical(t) \/ WriteHead(t) \/ WriteHeadHeader(t) \/ WriteHeadFast(t)
  \/ ReorgTransactions(t) \/ ReorgReceipts(t) \/ DeleteReceipt(t) \/ DeleteTransaction(t)
  \/ WriteTd(t) \/ WriteBody(t) \/ WriteHeader(t) \/ Stored(t)
  \/ WriteTransactions(t) \/ WriteReceipts(t) \/ WriteBlockReceipts(t)

-----------------------------------------------------------------------------
(* SetHead, crash and restart.                                             *)

\* The walk from b down to number n over the blocks in S: what it visits
\* above n, and where it ends (the genesis block if a block is missing).
Above(b, n) == {c \in AncestorsOf[b] : Number[c] > n}
Visited(b, n, S) ==
  {c \in Above(b, n) : \A d \in Above(b, n) \ {b} : Number[d] >= Number[c] => d \in S}
Landing(b, n, S) ==
  IF Number[b] <= n THEN b
  ELSE IF Above(b, n) \ {b} \subseteq S /\ AncestorAt(b, n) \in S
         THEN AncestorAt(b, n) ELSE Genesis

\* The blocks that SetHead deletes, and the numbers when it has deleted those
\* above n.
Rewound(n) ==
  Visited(currentHeader, n, header) \cup Visited(current, n, header \cap body)
    \cup Visited(currentFast, n, header \cap body)
Renumbered(n) ==
  [i \in Numbers |->
     IF i > n /\ (\E b \in {current, currentHeader, currentFast} : i <= Number[b])
       THEN None ELSE canon[i]]

\* The loadLastState at its end finds the heads that it has just written (see
\* HeadsStored in BlockChainProofs) and so changes nothing.
SetHead(n) ==
  LET full == header \cap body
      drop == Rewound(n)
  IN /\ up /\ MuFree /\ crashes + rewinds < MaxUpsets
     /\ rewinds' = rewinds + 1
     /\ canon' = Renumbered(n)
     /\ header' = header \ drop /\ body' = body \ drop /\ td' = td \ drop
     /\ future' = {}
     /\ current' = Landing(current, n, full)
     /\ currentHeader' = Landing(currentHeader, n, header)
     /\ currentFast' = Landing(currentFast, n, full)
     /\ headBlock' = current' /\ headHeader' = currentHeader'
     /\ headFast' = currentFast'
     /\ UNCHANGED <<state, receipts, index, tdCache, threads, up, mined, torn, crashes>>

\* A crash between two writes of SetHead: it deletes the numbers from the top, then
\* the blocks in any order, each its header, body and total difficulty, and then
\* writes the head hashes.
SetHeadCut(n) ==
  /\ up /\ MuFree /\ crashes + rewinds < MaxUpsets
  /\ crashes' = crashes + 1
  /\ \/ \E m \in Numbers : m >= n /\ canon' = Renumbered(m) /\ UNCHANGED <<hashes, stored, torn>>
     \/ /\ canon' = Renumbered(n)
        /\ \E H \in (SUBSET Rewound(n)) \ {{}} : \E B \in SUBSET H : \E T \in SUBSET B :
             /\ Cardinality(H \ T) <= 1
             /\ header' = header \ H /\ body' = body \ B /\ td' = td \ T
        /\ torn' = TRUE
        /\ UNCHANGED hashes
     \/ /\ canon' = Renumbered(n)
        /\ header' = header \ Rewound(n) /\ body' = body \ Rewound(n) /\ td' = td \ Rewound(n)
        /\ headBlock' = Landing(current, n, header \cap body)
        /\ headHeader' \in {headHeader, Landing(currentHeader, n, header)}
        /\ UNCHANGED <<headFast, torn>>
  /\ Down([t \in Threads |-> "idle"])
  /\ UNCHANGED <<state, receipts, index>>

Crash ==
  /\ up /\ crashes + rewinds < MaxUpsets
  /\ crashes' = crashes + 1
  /\ Down([t \in Threads |-> "idle"])
  /\ UNCHANGED <<db, torn>>

\* Mutant of Restart: the head hash is trusted, its block not looked up.
RestartTrusting ==
  /\ ~up /\ up' = TRUE
  /\ \A t \in Threads : pc[t] # "panic"   \* a panic ends the behaviour
  /\ current' = headBlock /\ currentHeader' = headHeader /\ currentFast' = headFast
  /\ UNCHANGED <<db, future, tdCache, threads, counts>>

\* NewBlockChain, loadLastState; Reset when the head block is not there.
Restart ==
  /\ ~up /\ up' = TRUE
  /\ \A t \in Threads : pc[t] # "panic"   \* a panic ends the behaviour
  /\ IF Has(headBlock)
       THEN /\ current' = headBlock
            /\ currentHeader' = IF headHeader \in header THEN headHeader ELSE headBlock
            /\ currentFast' = IF Has(headFast) THEN headFast ELSE headBlock
            /\ UNCHANGED <<hashes>>
       ELSE /\ current' = Genesis /\ currentHeader' = Genesis /\ currentFast' = Genesis
            /\ headBlock' = Genesis /\ headHeader' = Genesis /\ headFast' = Genesis
  /\ UNCHANGED <<canon, stored, state, receipts, index, future, tdCache, threads, counts>>

-----------------------------------------------------------------------------
Next ==
  \/ \E b \in Blocks : InsertQueued(b) \/ InsertProcessed(b) \/ MineBlock(b)
  \/ \E t \in Threads : \/ ReadTd(t) \/ LockHead(t) \/ LockSide(t)
                        \/ LockPanic(t) \/ Write(t)
  \/ \E n \in Numbers : SetHead(n) \/ SetHeadCut(n)
  \/ Crash
  \/ Restart

Spec == Init /\ [][Next]_vars

-----------------------------------------------------------------------------
(* Properties.                                                             *)

Stages ==
  MuStages \cup {"idle", "read", "lock", "txs", "rcpts", "blockRcpts", "panic"}

\* Types of the variables; futureBlocks is bounded (maxFutureBlocks).
TypeOK ==
  /\ canon \in [Numbers -> Blocks \cup {None}]
  /\ {headBlock, headHeader, headFast} \subseteq Blocks
  /\ UNION {header, body, td, state, receipts, tdCache} \subseteq Blocks
  /\ txAt \in [Txs -> Blocks \cup {None}] /\ rcptOf \in [Txs -> Blocks \cup {None}]
  /\ IF up THEN {current, currentHeader, currentFast} \subseteq Blocks
           ELSE {current, currentHeader, currentFast} = {None}
  /\ future \subseteq Blocks /\ Cardinality(future) <= MaxFuture
  /\ pc \in [Threads -> Stages]
  /\ block \in [Threads -> Blocks] /\ localTd \in [Threads -> Blocks \cup {None}]
  /\ phase \in [Threads -> {"none", "reorg", "insert", "side"}]
  /\ at \in [Threads -> Blocks]
  /\ branch \in [Threads -> SUBSET Blocks] /\ gone \in [Threads -> SUBSET Txs]
  /\ up \in BOOLEAN /\ torn \in BOOLEAN /\ crashes + rewinds \in 0..MaxUpsets

\* The node runs and nobody holds bc.mu.
AtRest == up /\ MuFree

\* Whenever bc.mu is free, the canonical numbers up to the head's are the
\* head's own chain, whatever InsertChain, the miner and SetHead did before
\* (the walks of reorg and insert; GetBlockByNumber depends on it).  A crash
\* inside reorg breaks it.
CanonicalChain ==
  AtRest /\ crashes = 0 => \A n \in 0..Number[current] : canon[n] = AncestorAt(current, n)

\* Whenever bc.mu is free, the head and all its ancestors are there: header,
\* body, total difficulty and state, after any SetHead, any crash between two
\* database writes and the loadLastState that follows it too.  Only a crash among
\* the deletions of SetHead, which come in no order, may leave a head without its
\* ancestors; the head itself is there even so.  Any header at all has its body,
\* total difficulty and state beside it, at every point a crash may come:
\* WriteBlock writes it last and SetHead deletes it first.
HeadComplete ==
  /\ AtRest => (IF torn THEN {current} ELSE AncestorsOf[current])
                 \subseteq (header \cap body \cap td \cap state)
  /\ header \subseteq (body \cap td \cap state)

\* InsertChain works alone: no miner, no rewind and no crash beside it.
ImportOnly == mined = {} /\ crashes + rewinds = 0

\* With InsertChain alone at work the head is a heaviest known block.
HeaviestHead ==
  AtRest /\ ImportOnly => \A b \in header : Td[b] <= Td[current]

\* With InsertChain alone at work, when it is done the transaction index and
\* the receipts by transaction are those of the canonical chain, exactly:
\* reorg rewrites and deletes what changed.
TxIndexExact ==
  up /\ ImportOnly /\ (\A t \in Threads : pc[t] = "idle") =>
    \A x \in Txs :
      LET home == {b \in AncestorsOf[current] : x \in TxsIn[b]}
          right == IF home = {} THEN None ELSE CHOOSE b \in home : TRUE
      IN txAt[x] = right /\ rcptOf[x] = right

\* Documented at core/blockchain.go:82: GetBlockByNumber is canonical at
\* every number, also above the head.
ByNumberCanonical ==
  AtRest => \A n \in Numbers : canon[n] # None => canon[n] \in AncestorsOf[current]

\* Documented at core/blockchain.go:470: insert leaves the head header and
\* the fast head at the new head if they were older or on a side chain.
HeadsTogether ==
  AtRest => /\ Number[currentHeader] >= Number[current]
            /\ Number[currentFast] >= Number[current]

\* Documented at core/blockchain.go:1067: a block becomes the head if its
\* total difficulty is higher than that of the head it replaces (or ties).
HeadNotLighter ==
  [][\A t \in Threads : pc[t] = "lock" /\ phase'[t] \in {"reorg", "insert"}
        => Td[block[t]] >= Td[current]]_vars

\* Implied by core/blockchain.go:1063: no insertion sees another half done;
\* the total difficulty of the head can always be read.
HeadTdReadable == \A t \in Threads : pc[t] # "panic"

\* Documented at core/blockchain.go:408: Reset purges the entire blockchain.
ResetPurges ==
  [][~up /\ up' /\ ~Has(headBlock)
        => header' = {Genesis} /\ \A n \in Numbers \ {0} : canon'[n] = None]_vars

\* Documented at core/blockchain.go:221: SetHead deletes every header above
\* the new head.
RewindDeletes ==
  [][rewinds' > rewinds => \A b \in header' : Number[b] <= Number[currentHeader']]_vars
=============================================================================
