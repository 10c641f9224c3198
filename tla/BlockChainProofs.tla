-------------------------- MODULE BlockChainProofs --------------------------
(***************************************************************************)
(* Proofs about BlockChain: CanonicalChain, HeadComplete, HeaviestHead and *)
(* TxIndexExact hold for every tree of blocks, any number of crashes and   *)
(* rewinds, and any blocks the miner may seal.                             *)
(***************************************************************************)
EXTENDS BlockChain, WellFoundedInduction, TLAPS

-----------------------------------------------------------------------------
(* Facts about the tree of blocks.                                         *)

\* A set of natural numbers that is not empty has a least element: the form in
\* which induction over block numbers is used.
LEMMA LeastNatural ==
  ASSUME NEW T, T \subseteq Nat, T # {}
  PROVE  \E x \in T : \A y \in T : x <= y
<1> DEFINE R == {ss \in Nat \X Nat : ss[1] < ss[2]}
<1>1. IsWellFoundedOn(R, Nat)
  BY NatLessThanWellFounded, Zenon DEF OpToRel
<1>2. \A x, y \in T : <<y, x>> \notin R => x <= y
  OBVIOUS
<1> HIDE DEF R
<1>3. \E x \in T : \A y \in T : ~(<<y, x>> \in R)
  BY <1>1, WFMin, Zenon
<1> QED BY <1>2, <1>3, Zenon

\* What the ancestors of a block are like: their numbers go from 0 to the
\* block's, one ancestor each, and each brings its own ancestors along.
Linear(b) ==
  /\ b \in AncestorsOf[b] /\ Genesis \in AncestorsOf[b]
  /\ \A c \in AncestorsOf[b] : Number[c] <= Number[b] /\ AncestorsOf[c] \subseteq AncestorsOf[b]
  /\ \A n \in 0..Number[b] : \E c \in AncestorsOf[b] : Number[c] = n
  /\ \A c, d \in AncestorsOf[b] : Number[c] = Number[d] => c = d

\* Every block's chain is linear, by induction on its number.
LEMMA AncestorFacts == \A b \in Blocks : Linear(b)
<1>1. SUFFICES ASSUME NEW x \in Blocks, ~Linear(x) PROVE FALSE
  BY Zenon
<1> DEFINE T == {Number[b] : b \in {c \in Blocks : ~Linear(c)}}
<1>2. PICK n \in T : \A m \in T : n <= m
  <2>1. T \subseteq Nat /\ T # {}
    BY <1>1, TreeAssumption
  <2> QED BY <2>1, LeastNatural, Zenon
<1>3. PICK b \in Blocks : Number[b] = n /\ ~Linear(b)
  BY Zenon
<1>4. \A c \in Blocks : Number[c] < Number[b] => Linear(c)
  <2> SUFFICES ASSUME NEW c \in Blocks, Number[c] < Number[b], ~Linear(c) PROVE FALSE
    BY Zenon
  <2>1. Number[c] \in T
    BY Zenon
  <2>2. n <= Number[c]
    BY <2>1, <1>2, Zenon
  <2> QED BY <2>2, <1>3, TreeAssumption
<1>5. CASE b = Genesis
  BY <1>3, <1>5, TreeAssumption DEF Linear
<1>6. CASE b # Genesis
  <2> DEFINE p == Parent[b]
  <2>1. /\ p \in Blocks /\ Number[b] = Number[p] + 1
        /\ AncestorsOf[b] = {b} \cup AncestorsOf[p]
        /\ Number[p] \in Nat
        /\ AncestorsOf[p] \subseteq Blocks
    BY <1>6, TreeAssumption, Zenon
  <2>2. Linear(p)
    BY <1>4, <2>1
  <2>3. \A c \in AncestorsOf[p] : Number[c] <= Number[p] /\ Number[c] \in Nat
    BY <2>1, <2>2, TreeAssumption, Zenon DEF Linear
  <2> HIDE DEF p
  <2>4. /\ b \in AncestorsOf[b] /\ Genesis \in AncestorsOf[b]
        /\ \A c \in AncestorsOf[b] :
             Number[c] <= Number[b] /\ AncestorsOf[c] \subseteq AncestorsOf[b]
    BY <2>1, <2>2, <2>3 DEF Linear
  <2>5. \A i \in 0..Number[b] : \E c \in AncestorsOf[b] : Number[c] = i
    <3> SUFFICES ASSUME NEW i \in 0..Number[b] PROVE \E c \in AncestorsOf[b] : Number[c] = i
      BY Zenon
    <3>1. CASE i = Number[b]
      BY <3>1, <2>4, Zenon
    <3>2. CASE i # Number[b]
      <4>1. i \in 0..Number[p]
        BY <3>2, <2>1
      <4> QED BY <4>1, <2>1, <2>2, Zenon DEF Linear
    <3> QED BY <3>1, <3>2, Zenon
  <2>6. \A c, d \in AncestorsOf[b] : Number[c] = Number[d] => c = d
    BY <2>1, <2>2, <2>3 DEF Linear
  <2> QED BY <1>3, <2>4, <2>5, <2>6, Zenon DEF Linear
<1> QED BY <1>5, <1>6, Zenon

\* AncestorAt finds the ancestor with the number asked for.
LEMMA AncestorAtFacts ==
  ASSUME NEW b \in Blocks, NEW n \in 0..Number[b]
  PROVE  /\ AncestorAt(b, n) \in AncestorsOf[b]
         /\ AncestorAt(b, n) \in Blocks
         /\ Number[AncestorAt(b, n)] = n
         /\ \A c \in AncestorsOf[b] : Number[c] = n => c = AncestorAt(b, n)
<1>1. \E c \in AncestorsOf[b] : Number[c] = n
  BY AncestorFacts, Zenon DEF Linear
<1>2. AncestorAt(b, n) \in AncestorsOf[b] /\ Number[AncestorAt(b, n)] = n
  BY <1>1, Zenon DEF AncestorAt
<1> QED BY <1>2, AncestorFacts, TreeAssumption DEF Linear

\* Numbers and Blocks fit.
LEMMA BlockFacts ==
  /\ \A b \in Blocks : /\ Number[b] \in Nat /\ Number[b] \in Numbers
                       /\ Td[b] \in Nat /\ Parent[b] \in Blocks
                       /\ AncestorsOf[b] \subseteq Blocks
  /\ Genesis \in Blocks /\ AncestorsOf[Genesis] = {Genesis} /\ Number[Genesis] = 0
  /\ Numbers \subseteq Nat
BY TreeAssumption DEF Numbers

\* A chain apart from its top is the chain of the parent.
LEMMA ParentChain ==
  ASSUME NEW b \in Blocks, b # Genesis
  PROVE  AncestorsOf[b] = {b} \cup AncestorsOf[Parent[b]]
BY TreeAssumption, Zenon

\* The newest of some blocks of a chain is one of them.
LEMMA NewestIn ==
  ASSUME NEW b \in Blocks, NEW S \in SUBSET AncestorsOf[b], S # {}
  PROVE  Newest(S) \in S
<1> DEFINE T == {Number[b] - Number[c] : c \in S}
<1>1. \A c \in S : c \in Blocks /\ Number[c] \in Nat /\ Number[c] <= Number[b]
  BY AncestorFacts, BlockFacts, Zenon DEF Linear
<1>2. Number[b] \in Nat
  BY BlockFacts, Zenon
<1>3. T \subseteq Nat /\ T # {}
  BY <1>1, <1>2
<1>4. PICK n \in T : \A m \in T : n <= m
  BY <1>3, LeastNatural, Zenon
<1>5. PICK c \in S : n = Number[b] - Number[c]
  BY Zenon
<1>6. \A d \in S : Number[d] <= Number[c]
  <2> SUFFICES ASSUME NEW d \in S PROVE Number[d] <= Number[c]
    BY Zenon
  <2>1. Number[b] - Number[d] \in T
    BY Zenon
  <2>2. n <= Number[b] - Number[d]
    BY <2>1, <1>4, Zenon
  <2> QED BY <2>2, <1>1, <1>2, <1>5
<1> QED BY <1>6, Zenon DEF Newest

\* Once reorg has found the parents of both branches, every block of the new
\* branch is stored but the one that is being written.
LEMMA BranchStored ==
  ASSUME NEW old \in Blocks, NEW new \in Blocks, BranchesKnown(old, new)
  PROVE  NewOnly(old, new) \subseteq header \cup {new}
<1> SUFFICES ASSUME NEW c \in AncestorsOf[new], c \notin AncestorsOf[old], c # new
             PROVE  c \in header
  BY Zenon DEF NewOnly
<1>1. /\ c \in Blocks /\ Number[c] \in Nat /\ Number[new] \in Nat
      /\ Number[c] <= Number[new] /\ Number[c] # Number[new]
  BY AncestorFacts, BlockFacts, Zenon DEF Linear
<1>2. Number[c] + 1 \in 0..Number[new]
  BY <1>1
<1>3. PICK d \in AncestorsOf[new] : Number[d] = Number[c] + 1
  BY <1>2, AncestorFacts DEF Linear
<1>4. d \in Blocks /\ d # Genesis /\ Linear(d) /\ Linear(new)
  BY <1>1, <1>3, AncestorFacts, BlockFacts
<1>5. Parent[d] \in AncestorsOf[d] /\ Number[Parent[d]] = Number[c]
  BY <1>1, <1>3, <1>4, TreeAssumption, AncestorFacts DEF Linear
<1>6. Parent[d] = c
  BY <1>3, <1>4, <1>5 DEF Linear
<1>7. d \notin AncestorsOf[old]
  BY <1>5, <1>6, AncestorFacts, Zenon DEF Linear
<1> QED BY <1>3, <1>6, <1>7, Zenon DEF BranchesKnown, NewOnly, Has

\* If all of a chain is stored but its top, a stored block of it has its ancestors
\* stored.
LEMMA StoredBelow ==
  ASSUME NEW b \in Blocks, NEW c \in AncestorsOf[b], c \in header,
         AncestorsOf[b] \subseteq header \cup {b}
  PROVE  AncestorsOf[c] \subseteq header
<1>1. c \in Blocks /\ AncestorsOf[c] \subseteq AncestorsOf[b] /\ Linear(b) /\ Linear(c)
  BY AncestorFacts, BlockFacts, Zenon DEF Linear
<1>2. CASE b \in header BY <1>1, <1>2, Zenon
<1>3. CASE b \notin header
  <2>1. b \notin AncestorsOf[c]
    <3>1. SUFFICES ASSUME b \in AncestorsOf[c] PROVE FALSE
      BY Zenon
    <3>2. Number[b] <= Number[c] /\ Number[c] <= Number[b]
      BY <1>1, <3>1, Zenon DEF Linear
    <3>3. Number[b] \in Nat /\ Number[c] \in Nat
      BY <1>1, BlockFacts, Zenon
    <3>4. Number[b] = Number[c] BY <3>2, <3>3, SMT
    <3>5. b = c BY <1>1, <3>4, Zenon DEF Linear
    <3> QED BY <1>3, <3>5, Zenon
  <2> QED BY <1>1, <2>1, Zenon
<1> QED BY <1>2, <1>3, Zenon

-----------------------------------------------------------------------------
(* The inductive invariant.                                                *)

Types ==
  /\ canon \in [Numbers -> Blocks \cup {None}]
  /\ headBlock \in Blocks /\ headHeader \in Blocks /\ headFast \in Blocks
  /\ header \subseteq Blocks /\ body \subseteq Blocks /\ td \subseteq Blocks
  /\ state \subseteq Blocks /\ receipts \subseteq Blocks /\ tdCache \subseteq Blocks
  /\ txAt \in [Txs -> Blocks \cup {None}] /\ rcptOf \in [Txs -> Blocks \cup {None}]
  /\ up => current \in Blocks /\ currentHeader \in Blocks /\ currentFast \in Blocks
  /\ pc \in [Threads -> Stages]
  /\ block \in [Threads -> Blocks] /\ localTd \in [Threads -> Blocks \cup {None}]
  /\ phase \in [Threads -> {"none", "reorg", "insert", "side"}]
  /\ at \in [Threads -> Blocks]
  /\ branch \in [Threads -> SUBSET Blocks] /\ gone \in [Threads -> SUBSET Txs]
  /\ up \in BOOLEAN /\ crashes \in Nat /\ rewinds \in Nat
  /\ mined \subseteq Blocks \ {Genesis}

Holds(t) == pc[t] \in MuStages
Inserting(t) == Holds(t) /\ phase[t] \in {"reorg", "insert"}

\* At most one thread holds bc.mu.
Mutex == \A t, u \in Threads : Holds(t) /\ Holds(u) => t = u

\* A node that is down crashed, or a thread of it panicked.
Fallen == ~up => crashes > 0 \/ \E t \in Threads : pc[t] = "panic"

\* What a thread is doing fits its control point.
Control(t) ==
  /\ pc[t] \in {"idle", "read", "lock", "blockRcpts", "panic"} => phase[t] = "none"
  /\ pc[t] \in {"reorgTxs", "reorgRcpts", "delRcpt", "delTx"} => phase[t] = "reorg"
  /\ pc[t] \in {"canon", "head", "headAll", "headHeader", "headFast"}
       => phase[t] \in {"reorg", "insert"}
  /\ pc[t] \in {"td", "body", "header", "stored"} => phase[t] \in {"insert", "side"}
  /\ pc[t] \in {"txs", "rcpts"} => phase[t] = "insert"
  /\ phase[t] # "reorg" => branch[t] = {} /\ gone[t] = {}
  /\ phase[t] = "insert" => at[t] = block[t]
  /\ phase[t] = "reorg" => branch[t] \subseteq AncestorsOf[block[t]]
  /\ phase[t] = "reorg" /\ pc[t] \notin {"delRcpt", "delTx"}
       => at[t] \in AncestorsOf[block[t]]
  /\ pc[t] \in {"delRcpt", "delTx"} => branch[t] = {} /\ gone[t] # {}
  /\ phase[t] = "insert" /\ pc[t] \in {"headHeader", "headFast", "td", "body", "header", "stored"}
       => current = block[t]
  /\ pc[t] \notin {"idle", "panic"} => up /\ block[t] # Genesis

\* The numbers of b's chain lead to b's chain.
Canonical(b) == \A c \in AncestorsOf[b] : canon[Number[c]] = c

\* While a thread rewrites the numbers, those not written yet are on its list.
Numbering ==
  up /\ crashes = 0 =>
    /\ (\A t \in Threads : ~Inserting(t)) => Canonical(current)
    /\ \A t \in Threads : Inserting(t) =>
         \A c \in AncestorsOf[block[t]] :
           c \in branch[t] \/ (c = at[t] /\ pc[t] = "canon") \/ canon[Number[c]] = c

\* A block is stored whole, and the one being written in this order.
Storing ==
  /\ header \subseteq body \cap td \cap state
  /\ Genesis \in header
  /\ \A t \in Threads :
       /\ pc[t] \notin {"idle", "panic"} => block[t] \in state
       /\ pc[t] \in {"body", "header", "stored"} => block[t] \in td
       /\ pc[t] \in {"header", "stored"} => block[t] \in body
       /\ pc[t] = "stored" => block[t] \in header

\* A head is stored, or about to be by the thread that holds bc.mu.
Heads ==
  up => /\ \A h \in {current, currentHeader, currentFast} :
             h \in header \/ \E t \in Threads : Inserting(t) /\ h = block[t]
        /\ \A t \in Threads : Inserting(t) =>
             /\ branch[t] \subseteq header \cup {block[t]}
             /\ pc[t] \notin {"delRcpt", "delTx"} => at[t] \in header \cup {block[t]}

\* Unless SetHead was cut short: a head that is stored has its ancestors stored,
\* and so has a block that is to become the head.
Rooted ==
  /\ up => headBlock = current
  /\ ~torn /\ headBlock \in header => AncestorsOf[headBlock] \subseteq header
  /\ \A t \in Threads : ~torn /\ Inserting(t) =>
       AncestorsOf[block[t]] \subseteq header \cup {block[t]}

\* With InsertChain alone at work the miner does nothing.
Alone == ImportOnly => pc["mine"] = "idle"

\* With InsertChain alone at work: the block that becomes the head is a
\* heaviest one, a side block is no heavier than the head.
Weights ==
  ImportOnly /\ up =>
    /\ pc["import"] = "lock" => localTd["import"] \in {current, None}
    /\ ~Inserting("import") => \A b \in header : Td[b] <= Td[current]
    /\ Inserting("import") => \A b \in header : Td[b] <= Td[block["import"]]
    /\ phase["import"] = "side" => Td[block["import"]] <= Td[current]

\* f maps the transactions of b's chain to their blocks, those of the blocks
\* in open excepted, and all others to None, those in loose excepted.
Indexes(f, b, open, loose) ==
  /\ \A c \in AncestorsOf[b] \ open : \A x \in TxsIn[c] : f[x] = c
  /\ \A x \in Txs \ loose : (\A c \in AncestorsOf[b] : x \notin TxsIn[c]) => f[x] = None

\* With InsertChain alone at work, what reorg has yet to rewrite in the index.
Indexing ==
  ImportOnly /\ up =>
    LET b == block["import"]
        p == pc["import"]
        ph == phase["import"]
        todo == branch["import"]
        cur == at["import"]
        out == gone["import"]
    IN /\ header \subseteq receipts
       /\ p \notin {"idle", "panic"} => b \in receipts
       /\ \A c \in AncestorsOf[b] : \A x \in TxsIn[c] : ph = "reorg" => x \notin out
       /\ ph \in {"none", "side"} =>
            Indexes(txAt, current, {}, {}) /\ Indexes(rcptOf, current, {}, {})
       /\ ph = "reorg" /\ p \notin {"delRcpt", "delTx"} =>
            /\ Indexes(txAt, b, IF p = "reorgRcpts" THEN todo ELSE todo \cup {cur}, out)
            /\ Indexes(rcptOf, b, todo \cup {cur}, out)
       /\ p \in {"delRcpt", "delTx"} =>
            /\ Indexes(txAt, b, {}, out)
            /\ Indexes(rcptOf, b, {}, IF p = "delTx" THEN out \ {Turn("import")} ELSE out)
       /\ ph = "insert" =>
            /\ Indexes(txAt, b, IF p = "rcpts" THEN {} ELSE {b}, {})
            /\ Indexes(rcptOf, b, {b}, {})
       /\ p \in {"txs", "rcpts"} => current = b

IInv ==
  /\ Types /\ Mutex /\ Fallen /\ (\A t \in Threads : Control(t))
  /\ Numbering /\ Storing /\ Heads /\ Rooted /\ Alone /\ Weights /\ Indexing

\* A step that keeps every part keeps the invariant.
LEMMA Together ==
  ASSUME Types', Mutex', Fallen', \A t \in Threads : Control(t)', Numbering', Storing',
         Heads', Rooted', Alone', Weights', Indexing'
  PROVE  IInv'
BY Zenon DEF IInv

-----------------------------------------------------------------------------
(* reorg goes on.                                                        *)

\* What Proceed does to the thread's job, apart from which block is newest.
Moves(t, todo, diff) ==
  /\ pc' = [pc EXCEPT ![t] = pc'[t]] /\ pc'[t] \in {"canon", "delRcpt"}
  /\ phase' = [phase EXCEPT ![t] = phase'[t]] /\ phase'[t] \in {"reorg", "insert"}
  /\ at' = [at EXCEPT ![t] = at'[t]] /\ at'[t] \in Blocks
  /\ branch' = [branch EXCEPT ![t] = branch'[t]] /\ branch'[t] \subseteq todo
  /\ branch'[t] \in SUBSET Blocks
  /\ gone' = [gone EXCEPT ![t] = diff] /\ diff \in SUBSET Txs
  /\ pc'[t] = "delRcpt" => diff # {} /\ phase'[t] = "reorg" /\ todo = {} /\ at' = at
  /\ phase'[t] = "insert" => /\ pc'[t] = "canon" /\ at'[t] = block[t]
                             /\ todo = {} /\ diff = {}
  /\ pc'[t] = "canon" /\ phase'[t] = "reorg" =>
       at'[t] \in todo /\ branch'[t] = todo \ {at'[t]}

\* The next block of reorg is one of those it has left.
LEMMA ProceedMoves ==
  ASSUME NEW t \in Threads, NEW todo, NEW diff, Types, Proceed(t, todo, diff),
         todo \subseteq AncestorsOf[block[t]], diff \subseteq Txs
  PROVE  Moves(t, todo, diff)
<1>1. block[t] \in Blocks /\ AncestorsOf[block[t]] \subseteq Blocks
  BY BlockFacts, Zenon DEF Types
<1>2. todo # {} => Newest(todo) \in todo
  BY <1>1, NewestIn, Zenon
<1> QED BY <1>1, <1>2, SMTT(60) DEF Proceed, Go, Types, Moves

\* Every use of Proceed moves the thread's job as Moves says.
LEMMA ReorgMoves ==
  ASSUME NEW t \in Threads, Types, Control(t)
  PROVE  /\ LockHead(t) =>
              \/ Parent[block[t]] = current /\ Moves(t, {}, {})
              \/ /\ BranchesKnown(current, block[t])
                 /\ Moves(t, NewOnly(current, block[t]), Dropped(current, block[t]))
              \/ Go(t, "idle") /\ UNCHANGED job
         /\ ReorgReceipts(t) => Moves(t, branch[t], gone[t])
         /\ DeleteTransaction(t) => Moves(t, {}, gone[t] \ {Turn(t)})
<1>1. ASSUME LockHead(t)
      PROVE  \/ Parent[block[t]] = current /\ Moves(t, {}, {})
             \/ /\ BranchesKnown(current, block[t])
                /\ Moves(t, NewOnly(current, block[t]), Dropped(current, block[t]))
             \/ Go(t, "idle") /\ UNCHANGED job
  <2>1. block[t] \in Blocks /\ AncestorsOf[block[t]] \subseteq Blocks /\ current \in Blocks
    BY <1>1, BlockFacts, Zenon DEF LockHead, Types
  <2>2. /\ NewOnly(current, block[t]) \subseteq AncestorsOf[block[t]]
        /\ Dropped(current, block[t]) \subseteq Txs
    BY <2>1, BlockFacts, ChainAssumption DEF NewOnly, OldOnly, Dropped
  <2>3. Proceed(t, {}, {}) => Moves(t, {}, {})
    BY ProceedMoves, Zenon
  <2>4. Proceed(t, NewOnly(current, block[t]), Dropped(current, block[t]))
          => Moves(t, NewOnly(current, block[t]), Dropped(current, block[t]))
    BY <2>2, ProceedMoves, Zenon
  <2> QED BY <1>1, <2>3, <2>4, Zenon DEF LockHead
<1>2. ASSUME ReorgReceipts(t) PROVE Moves(t, branch[t], gone[t])
  <2>1. branch[t] \subseteq AncestorsOf[block[t]] /\ gone[t] \subseteq Txs
    BY <1>2, Zenon DEF ReorgReceipts, Control, Types
  <2> QED BY <1>2, <2>1, ProceedMoves, Zenon DEF ReorgReceipts
<1>3. ASSUME DeleteTransaction(t) PROVE Moves(t, {}, gone[t] \ {Turn(t)})
  <2>1. gone[t] \ {Turn(t)} \subseteq Txs
    BY <1>3, Zenon DEF Types
  <2> QED BY <1>3, <2>1, ProceedMoves, Zenon DEF DeleteTransaction
<1> QED BY <1>1, <1>2, <1>3, Zenon

-----------------------------------------------------------------------------
(* The transaction index.                                                 *)

\* Writing the entries of a block of b's chain closes that block and disturbs no
\* other: a chain holds a transaction once.
LEMMA IndexedFits ==
  ASSUME NEW b \in Blocks, NEW c \in AncestorsOf[b], NEW f, NEW open, NEW loose, NEW left,
         Indexes(f, b, open, loose), open \ {c} \subseteq left
  PROVE  Indexes(Indexed(f, c), b, left, loose)
<1>1. AncestorsOf[b] \subseteq Blocks /\ \A d \in Blocks : TxsIn[d] \subseteq Txs
  BY BlockFacts, ChainAssumption, Zenon
<1>2. ASSUME NEW d \in AncestorsOf[b] \ left, NEW x \in TxsIn[d]
      PROVE  Indexed(f, c)[x] = d
  <2>1. x \in Txs
    BY <1>1, Zenon
  <2>2. CASE d = c
    BY <2>1, <2>2, Zenon DEF Indexed
  <2>3. CASE d # c
    <3>1. x \notin TxsIn[c]
      BY <2>3, NonceAssumption, Zenon
    <3>2. f[x] = d
      BY <2>3, Zenon DEF Indexes
    <3> QED BY <2>1, <3>1, <3>2, Zenon DEF Indexed
  <2> QED BY <2>2, <2>3, Zenon
<1>3. ASSUME NEW x \in Txs \ loose, \A d \in AncestorsOf[b] : x \notin TxsIn[d]
      PROVE  Indexed(f, c)[x] = None
  BY <1>3, Zenon DEF Indexes, Indexed
<1> QED BY <1>2, <1>3, Zenon DEF Indexes

\* Deleting the entry of a transaction that b's chain does not hold.
LEMMA IndexesDelete ==
  ASSUME NEW b \in Blocks, NEW f \in [Txs -> Blocks \cup {None}], NEW open, NEW loose,
         NEW x \in Txs,
         Indexes(f, b, open, loose), \A c \in AncestorsOf[b] : x \notin TxsIn[c]
  PROVE  Indexes([f EXCEPT ![x] = None], b, open, loose \ {x})
<1>1. AncestorsOf[b] \subseteq Blocks /\ \A d \in Blocks : TxsIn[d] \subseteq Txs
  BY BlockFacts, ChainAssumption, Zenon
<1> QED BY <1>1 DEF Indexes

\* An index that is right stays right when more is left open.
LEMMA IndexesMore ==
  ASSUME NEW b, NEW f, NEW open, NEW loose, NEW open2, NEW loose2,
         Indexes(f, b, open, loose), open \subseteq open2, loose \subseteq loose2
  PROVE  Indexes(f, b, open2, loose2)
  BY Zenon DEF Indexes

\* What reorg collects is what separates the index of the old head's chain from
\* that of the new one's: the blocks of newChain and the transactions of diff.
LEMMA IndexesSwitch ==
  ASSUME NEW a \in Blocks, NEW b \in Blocks, NEW f, Indexes(f, a, {}, {})
  PROVE  /\ Indexes(f, b, NewOnly(a, b), Dropped(a, b))
         /\ \A c \in AncestorsOf[b] : \A x \in TxsIn[c] : x \notin Dropped(a, b)
         /\ b # Genesis /\ Parent[b] = a => Indexes(f, b, {b}, {})
<1>0. \A x : x \in Dropped(a, b) <=>
        /\ \E c \in AncestorsOf[a] \ AncestorsOf[b] : x \in TxsIn[c]
        /\ \A c \in AncestorsOf[b] \ AncestorsOf[a] : x \notin TxsIn[c]
  BY Zenon DEF Dropped, OldOnly, NewOnly
<1>1. ASSUME NEW x \in Txs \ Dropped(a, b), \A c \in AncestorsOf[b] : x \notin TxsIn[c]
      PROVE  f[x] = None
  <2>1. ASSUME NEW c \in AncestorsOf[a] PROVE x \notin TxsIn[c]
    BY <1>0, <1>1, Zenon
  <2> QED BY <2>1, Zenon DEF Indexes
<1>2. ASSUME NEW c \in AncestorsOf[b] \ NewOnly(a, b), NEW x \in TxsIn[c]
      PROVE  f[x] = c
  BY Zenon DEF Indexes, NewOnly
<1>3. ASSUME NEW d \in AncestorsOf[b], NEW x \in TxsIn[d], x \in Dropped(a, b)
      PROVE  FALSE
  <2>1. PICK c \in AncestorsOf[a] \ AncestorsOf[b] : x \in TxsIn[c]
    BY <1>0, <1>3, Zenon
  <2>2. d \in AncestorsOf[a]
    BY <1>0, <1>3, Zenon
  <2>3. c = d
    BY <2>1, <2>2, NonceAssumption, Zenon
  <2> QED BY <2>1, <2>3, Zenon
<1>4. ASSUME b # Genesis, Parent[b] = a PROVE Indexes(f, b, {b}, {})
  <2>1. AncestorsOf[b] = {b} \cup AncestorsOf[a]
    BY <1>4, ParentChain, Zenon
  <2> QED BY <2>1, Zenon DEF Indexes
<1>5. Indexes(f, b, NewOnly(a, b), Dropped(a, b))
  BY <1>1, <1>2, Zenon DEF Indexes
<1> QED BY <1>3, <1>4, <1>5, Zenon

\* When reorg goes on with the blocks and transactions the index is open for,
\* what is left to rewrite is what the thread has on its list.
LEMMA ReindexMoves ==
  ASSUME Types, NEW todo, NEW diff, Moves("import", todo, diff),
         block' = block, header' \subseteq receipts', block["import"] \in receipts',
         \A c \in AncestorsOf[block["import"]] : \A x \in TxsIn[c] : x \notin diff,
         Indexes(txAt', block["import"], todo, diff),
         Indexes(rcptOf', block["import"], todo, diff)
  PROVE  Indexing'
<1> DEFINE b == block["import"]
<1>0. "import" \in Threads
  BY Zenon DEF Threads
<1>1. /\ gone'["import"] = diff
      /\ pc'["import"] \in {"canon", "delRcpt"} /\ phase'["import"] \in {"reorg", "insert"}
      /\ pc'["import"] = "delRcpt" => phase'["import"] = "reorg" /\ todo = {}
      /\ phase'["import"] = "insert" => pc'["import"] = "canon" /\ todo = {} /\ diff = {}
      /\ pc'["import"] = "canon" /\ phase'["import"] = "reorg" =>
           branch'["import"] \cup {at'["import"]} = todo
  BY <1>0 DEF Moves, Types
<1>2. CASE pc'["import"] = "delRcpt"
  BY <1>1, <1>2, Zenon DEF Indexing
<1>3. CASE pc'["import"] = "canon" /\ phase'["import"] = "reorg"
  BY <1>1, <1>3, Zenon DEF Indexing
<1>4. CASE phase'["import"] = "insert"
  <2>1. Indexes(txAt', b, {b}, {}) /\ Indexes(rcptOf', b, {b}, {})
    BY <1>1, <1>4, IndexesMore, Zenon
  <2> QED BY <1>1, <1>4, <2>1, Zenon DEF Indexing
<1> QED BY <1>1, <1>2, <1>3, <1>4, Zenon

-----------------------------------------------------------------------------
(* Steps that keep a thread at its job and on its side of bc.mu.           *)

\* The heads are still stored, or about to be, after a step that moves neither the
\* heads nor the threads that reorganise.
LEMMA HeadsKept ==
  ASSUME Heads, up' => up, UNCHANGED <<header, current, currentHeader, currentFast>>,
         \A u \in Threads : Inserting(u)' <=> Inserting(u),
         \A u \in Threads : Inserting(u) =>
           /\ block'[u] = block[u] /\ branch'[u] = branch[u] /\ at'[u] = at[u]
           /\ pc'[u] \notin {"delRcpt", "delTx"} => pc[u] \notin {"delRcpt", "delTx"}
  PROVE  Heads'
<1> SUFFICES ASSUME up' PROVE Heads'
  BY Zenon DEF Heads
<1>1. up
  BY Zenon
<1>2. ASSUME NEW h \in {current', currentHeader', currentFast'}
      PROVE  h \in header' \/ \E u \in Threads : Inserting(u)' /\ h = block'[u]
  <2>1. h \in {current, currentHeader, currentFast} /\ header' = header
    BY Zenon
  <2>2. h \in header \/ \E u \in Threads : Inserting(u) /\ h = block[u]
    BY <1>1, <2>1, Zenon DEF Heads
  <2> QED BY <2>1, <2>2, Zenon
<1>3. ASSUME NEW u \in Threads, Inserting(u)'
      PROVE  /\ branch'[u] \subseteq header' \cup {block'[u]}
             /\ pc'[u] \notin {"delRcpt", "delTx"} => at'[u] \in header' \cup {block'[u]}
  <2>1. Inserting(u) /\ header' = header
    BY <1>3, Zenon
  <2>2. /\ block'[u] = block[u] /\ branch'[u] = branch[u] /\ at'[u] = at[u]
        /\ pc'[u] \notin {"delRcpt", "delTx"} => pc[u] \notin {"delRcpt", "delTx"}
    BY <2>1, Zenon
  <2>3. /\ branch[u] \subseteq header \cup {block[u]}
        /\ pc[u] \notin {"delRcpt", "delTx"} => at[u] \in header \cup {block[u]}
    BY <1>1, <2>1, Zenon DEF Heads
  <2> QED BY <2>1, <2>2, <2>3, Zenon
<1> QED BY <1>2, <1>3, Zenon DEF Heads

\* Thread t goes on with the block and the lists that it has.
Stays(t) ==
  /\ up /\ up'
  /\ UNCHANGED <<state, block, localTd, phase, at, branch, gone, mined, torn, crashes, rewinds>>
  /\ pc' \in [Threads -> Stages]
  /\ \A u \in Threads \ {t} : pc'[u] = pc[u]
  /\ pc[t] \notin {"idle", "read", "lock", "panic"}
  /\ pc'[t] \notin {"read", "lock", "panic", "canon"}
  /\ pc'[t] \in MuStages <=> pc[t] \in MuStages
  /\ pc'[t] \in {"delRcpt", "delTx"} <=> pc[t] \in {"delRcpt", "delTx"}

\* The heads and the stored blocks stay, and nobody begins to insert.
LEMMA RootedKept ==
  ASSUME Rooted, header' = header, headBlock' = headBlock, torn => torn',
         up' => up /\ current' = current,
         \A u \in Threads : Inserting(u)' => Inserting(u) /\ block'[u] = block[u]
  PROVE  Rooted'
<1>1. up' => headBlock' = current'
  BY Zenon DEF Rooted
<1>2. ~torn' /\ headBlock' \in header' => AncestorsOf[headBlock'] \subseteq header'
  BY Zenon DEF Rooted
<1>3. ASSUME NEW u \in Threads, ~torn', Inserting(u)'
      PROVE  AncestorsOf[block'[u]] \subseteq header' \cup {block'[u]}
  BY <1>3, Zenon DEF Rooted
<1> QED BY <1>1, <1>2, <1>3, Zenon DEF Rooted

\* Such a step keeps what it does not write.
LEMMA StaysKeep ==
  ASSUME IInv, NEW t \in Threads, Stays(t)
  PROVE  /\ Mutex' /\ Fallen' /\ Alone'
         /\ Inserting(t)' <=> Inserting(t)
         /\ ImportOnly' => ImportOnly /\ t = "import"
         /\ UNCHANGED <<header, headBlock, current>> => Rooted'
         /\ UNCHANGED <<header, current, currentHeader, currentFast>> => Heads'
         /\ UNCHANGED canon /\ pc[t] # "canon" /\ (Inserting(t) \/ UNCHANGED current)
              => Numbering'
         /\ UNCHANGED header /\ (Inserting(t) \/ UNCHANGED current) => Weights'
         /\ UNCHANGED <<header, body, td>> /\ pc'[t] \notin {"body", "header", "stored"}
              => Storing'
<1>1. \A u \in Threads : (Holds(u)' <=> Holds(u)) /\ (Inserting(u)' <=> Inserting(u))
  BY Zenon DEF Stays, Holds, Inserting
<1>2. Mutex' /\ Fallen' /\ Alone'
  BY <1>1, Zenon DEF IInv, Stays, Mutex, Fallen, Alone, ImportOnly, Threads
<1>3. ImportOnly' => ImportOnly /\ t = "import"
  BY Zenon DEF IInv, Stays, Alone, ImportOnly, Threads
<1>4. ASSUME UNCHANGED <<header, headBlock, current>> PROVE Rooted'
  <2>1. Rooted /\ up /\ (torn => torn') /\ \A u \in Threads : block'[u] = block[u]
    BY Zenon DEF IInv, Stays
  <2> QED BY <1>1, <1>4, <2>1, RootedKept, Zenon
<1>5. ASSUME UNCHANGED <<header, current, currentHeader, currentFast>> PROVE Heads'
  <2>1. \A u \in Threads : pc'[u] \notin {"delRcpt", "delTx"} => pc[u] \notin {"delRcpt", "delTx"}
    BY Zenon DEF Stays
  <2>2. Heads /\ up /\ UNCHANGED <<block, branch, at>>
    BY Zenon DEF IInv, Stays
  <2> QED BY <1>1, <1>5, <2>1, <2>2, HeadsKept, Zenon
<1>6. ASSUME UNCHANGED canon, pc[t] # "canon", Inserting(t) \/ UNCHANGED current
      PROVE  Numbering'
  <2>1. \A u \in Threads : pc[u] = "canon" => pc'[u] = "canon"
    BY <1>6, Zenon DEF Stays
  <2> QED BY <1>1, <1>6, <2>1, Zenon DEF IInv, Stays, Numbering, Canonical
<1>7. ASSUME UNCHANGED header, Inserting(t) \/ UNCHANGED current
      PROVE  Weights'
  BY <1>1, <1>3, <1>7, Zenon DEF IInv, Stays, Weights, Inserting
<1>8. ASSUME UNCHANGED <<header, body, td>>, pc'[t] \notin {"body", "header", "stored"}
      PROVE  Storing'
  BY <1>8, Zenon DEF IInv, Stays, Storing
<1> QED BY <1>1, <1>2, <1>3, <1>4, <1>5, <1>6, <1>7, <1>8, Zenon

\* Such a step, if it writes at most blocks of the chain, keeps the types.
LEMMA StaysTypes ==
  ASSUME IInv, NEW t \in Threads, Stays(t),
         UNCHANGED <<canon, headBlock, headHeader, headFast, txAt, rcptOf, current, currentHeader,
                     currentFast, tdCache>>,
         header' \subseteq header \cup {block[t]}, body' \subseteq body \cup {block[t]},
         td' \subseteq td \cup {block[t]}, receipts' \subseteq receipts \cup {block[t]}
  PROVE  Types'
<1>1. Types
  BY Zenon DEF IInv
<1>2. block[t] \in Blocks
  BY <1>1, Zenon DEF Types
<1>3. header' \subseteq Blocks /\ body' \subseteq Blocks /\ td' \subseteq Blocks /\ receipts' \subseteq Blocks
  BY <1>1, <1>2, Zenon DEF Types
<1>4. up /\ up' \in BOOLEAN /\ pc' \in [Threads -> Stages]
  BY <1>1, Zenon DEF Stays
<1>5. UNCHANGED <<state, block, localTd, phase, at, branch, gone, mined, torn, crashes, rewinds>>
  BY Zenon DEF Stays
<1> QED BY <1>1, <1>3, <1>4, <1>5, Zenon DEF Types

\* The other threads' control points still fit: one that is past WriteHead holds
\* bc.mu, so the head moves only when no other thread is there.
LEMMA StaysControl ==
  ASSUME IInv, NEW t \in Threads, Stays(t), Holds(t) \/ UNCHANGED current, Control(t)'
  PROVE  \A u \in Threads : Control(u)'
<1> SUFFICES ASSUME NEW u \in Threads, u # t PROVE Control(u)'
  BY Zenon
<1>1. /\ pc'[u] = pc[u] /\ phase'[u] = phase[u] /\ branch'[u] = branch[u] /\ gone'[u] = gone[u]
      /\ at'[u] = at[u] /\ block'[u] = block[u] /\ up'
  BY Zenon DEF Stays
<1>2. Control(u) /\ (Holds(u) => UNCHANGED current)
  BY Zenon DEF IInv, Mutex
<1> QED BY <1>1, <1>2 DEF Control, Holds, MuStages

\* The index of the thread's chain is kept by a step that writes neither the
\* index nor the receipts and is not at a point where the index is written.
LEMMA StaysIndexing ==
  ASSUME IInv, NEW t \in Threads, Stays(t),
         pc[t] \notin {"reorgRcpts", "delRcpt", "delTx", "txs", "rcpts"},
         pc'[t] \notin {"reorgRcpts", "delRcpt", "delTx", "txs", "rcpts"},
         UNCHANGED <<receipts, txAt, rcptOf>>, header' \subseteq header \cup {block[t]},
         Inserting(t) \/ UNCHANGED current
  PROVE  Indexing'
<1> SUFFICES ASSUME ImportOnly', up' PROVE Indexing'
  BY Zenon DEF Indexing
<1>1. ImportOnly /\ t = "import" /\ up
  BY StaysKeep, Zenon DEF Stays
<1>2. phase["import"] \in {"none", "side"} => UNCHANGED current
  BY <1>1, Zenon DEF Inserting
<1>3. UNCHANGED <<block, phase, at, branch, gone>> /\ pc["import"] \notin {"idle", "panic"}
  BY <1>1, Zenon DEF Stays
<1> QED BY <1>1, <1>2, <1>3, Zenon DEF IInv, Indexing

\* A head that moves does so to the block at hand, which is stored or about to be.
LEMMA StaysHeads ==
  ASSUME IInv, NEW t \in Threads, Stays(t), header \subseteq header',
         \/ UNCHANGED <<current, currentHeader, currentFast>>
         \/ /\ Inserting(t) /\ pc[t] \notin {"delRcpt", "delTx"}
            /\ current' \in {current, at[t]} /\ currentHeader' \in {currentHeader, at[t]}
            /\ currentFast' \in {currentFast, at[t]}
  PROVE  Heads'
<1> DEFINE Kept(h) == h \in header \/ \E u \in Threads : Inserting(u) /\ h = block[u]
           After(h) == h \in header' \/ \E u \in Threads : Inserting(u)' /\ h = block'[u]
<1>1. \A u \in Threads : (Inserting(u)' <=> Inserting(u)) /\ block'[u] = block[u]
  BY Zenon DEF Stays, Inserting, Holds
<1>2. \A h : Kept(h) => After(h)
  BY <1>1, Zenon
<1>3. Kept(current) /\ Kept(currentHeader) /\ Kept(currentFast)
  BY Zenon DEF IInv, Heads, Stays
<1>4. Inserting(t) /\ pc[t] \notin {"delRcpt", "delTx"} => Kept(at[t])
  BY Zenon DEF IInv, Heads, Stays
<1>5. After(current') /\ After(currentHeader') /\ After(currentFast')
  <2> HIDE DEF Kept, After
  <2>1. Kept(current') /\ Kept(currentHeader') /\ Kept(currentFast')
    BY <1>3, <1>4, Zenon
  <2> QED BY <1>2, <2>1, Zenon
<1>6. ASSUME NEW u \in Threads, Inserting(u)'
      PROVE  /\ branch'[u] \subseteq header' \cup {block'[u]}
             /\ pc'[u] \notin {"delRcpt", "delTx"} => at'[u] \in header' \cup {block'[u]}
  <2>1. /\ branch[u] \subseteq header \cup {block[u]}
        /\ pc[u] \notin {"delRcpt", "delTx"} => at[u] \in header \cup {block[u]}
    BY <1>1, <1>6, Zenon DEF IInv, Heads, Stays
  <2> QED BY <2>1, Zenon DEF Stays
<1> QED BY <1>5, <1>6, Zenon DEF Heads

-----------------------------------------------------------------------------
(* Steps before bc.mu is taken.                                            *)

\* Thread t has a block in hand, or gives it up, and does not hold bc.mu.
Outside(t) ==
  /\ up /\ up'
  /\ UNCHANGED <<canon, headBlock, headHeader, headFast, header, body, td, txAt, rcptOf,
                 current, currentHeader, currentFast, phase, at, branch, gone, mined,
                 torn, crashes, rewinds>>
  /\ pc' \in [Threads -> Stages] /\ block' \in [Threads -> Blocks]
  /\ localTd' \in [Threads -> Blocks \cup {None}]
  /\ \A u \in Threads \ {t} :
       pc'[u] = pc[u] /\ block'[u] = block[u] /\ localTd'[u] = localTd[u]
  /\ pc[t] \in {"idle", "read", "lock"} /\ pc'[t] \in {"idle", "read", "lock"}
  /\ state \subseteq state' /\ state' \subseteq Blocks
  /\ receipts \subseteq receipts' /\ receipts' \subseteq Blocks /\ tdCache' \subseteq Blocks
  /\ pc'[t] # "idle" => block'[t] # Genesis /\ block'[t] \in state'
  /\ ImportOnly => /\ t = "import"
                   /\ pc'[t] = "lock" => localTd'[t] \in {current, None}
                   /\ pc'[t] # "idle" => block'[t] \in receipts'

\* Such a step keeps the invariant.
LEMMA OutsideKeeps ==
  ASSUME IInv, NEW t \in Threads, Outside(t)
  PROVE  IInv'
<1>1. /\ UNCHANGED <<phase, branch, gone, at, current>> /\ up /\ up'
      /\ \A u \in Threads \ {t} : pc'[u] = pc[u] /\ block'[u] = block[u]
      /\ pc[t] \in {"idle", "read", "lock"} /\ pc'[t] \in {"idle", "read", "lock"}
  BY Zenon DEF Outside
<1>2. Types'
  BY Zenon DEF IInv, Types, Outside
<1>3. phase[t] = "none" /\ branch[t] = {} /\ gone[t] = {}
  BY <1>1, Zenon DEF IInv, Control
<1>4. \A u \in Threads : /\ Holds(u)' <=> Holds(u)
                         /\ Inserting(u)' <=> Inserting(u)
                         /\ Inserting(u) => u # t
  BY <1>1, <1>3, Zenon DEF Holds, Inserting, MuStages
<1>5. Mutex' /\ Fallen' /\ Alone'
  BY <1>1, <1>4, Zenon DEF IInv, Mutex, Fallen, Alone, Outside, ImportOnly, Threads
<1>6. ASSUME NEW u \in Threads PROVE Control(u)'
  <2>1. CASE u = t
    BY <1>1, <1>3, <2>1, Zenon DEF Control, Outside
  <2>2. CASE u # t
    <3>1. Control(u)
      BY Zenon DEF IInv
    <3> QED BY <1>1, <2>2, <3>1, Zenon DEF Control
  <2> QED BY <2>1, <2>2, Zenon
<1>7. Numbering'
  BY <1>1, <1>4, Zenon DEF IInv, Numbering, Canonical, Outside
<1>8. Storing'
  BY <1>1, ZenonT(60) DEF IInv, Storing, Outside
<1>9. Heads'
  <2>1. Heads /\ UNCHANGED <<header, current, currentHeader, currentFast, branch, at>>
    BY Zenon DEF IInv, Outside
  <2> QED BY <1>1, <1>4, <2>1, HeadsKept, Zenon
<1>10. Rooted'
  <2>1. Rooted /\ (torn => torn') /\ UNCHANGED <<header, headBlock, current>>
    BY Zenon DEF IInv, Outside
  <2> QED BY <1>1, <1>4, <2>1, RootedKept, Zenon
<1>11. Weights'
  BY <1>1, <1>3, <1>4, Zenon DEF IInv, Weights, Outside, ImportOnly
<1>12. Indexing'
  BY <1>1, <1>3, Zenon DEF IInv, Indexing, Outside, ImportOnly
<1> QED BY <1>2, <1>5, <1>6, <1>7, <1>8, <1>9, <1>10, <1>11, <1>12, Zenon DEF IInv

\* A block is validated and processed.
LEMMA InsertProcessedKeeps ==
  ASSUME IInv, NEW b \in Blocks, InsertProcessed(b)
  PROVE  IInv'
<1>1. "import" \in Threads /\ b # Genesis
  BY Zenon DEF InsertProcessed, Threads
<1>2. /\ pc \in [Threads -> Stages] /\ block \in [Threads -> Blocks]
      /\ localTd \in [Threads -> Blocks \cup {None}]
      /\ state \subseteq Blocks /\ receipts \subseteq Blocks /\ tdCache \subseteq Blocks
  BY Zenon DEF IInv, Types
<1>3. /\ pc' \in [Threads -> Stages] /\ block' \in [Threads -> Blocks]
      /\ pc["import"] = "idle" /\ pc'["import"] = "read" /\ block'["import"] = b
      /\ \A u \in Threads \ {"import"} : pc'[u] = pc[u] /\ block'[u] = block[u]
  BY <1>1, <1>2, Zenon DEF InsertProcessed, Go, Stages
<1>4. Outside("import")
  BY <1>1, <1>2, <1>3, Zenon
  DEF InsertProcessed, Outside, hashes, stored, index, heads, job, counts
<1> QED BY <1>1, <1>4, OutsideKeeps, Zenon

\* The miner has sealed a block.
LEMMA MineBlockKeeps ==
  ASSUME IInv, NEW b \in Blocks, MineBlock(b)
  PROVE  IInv'
<1>1. "mine" \in Threads /\ b # Genesis /\ b \in mined
  BY Zenon DEF MineBlock, Threads, IInv, Types
<1>2. /\ pc \in [Threads -> Stages] /\ block \in [Threads -> Blocks]
      /\ localTd \in [Threads -> Blocks \cup {None}]
      /\ state \subseteq Blocks /\ receipts \subseteq Blocks /\ tdCache \subseteq Blocks
  BY Zenon DEF IInv, Types
<1>3. /\ pc' \in [Threads -> Stages] /\ block' \in [Threads -> Blocks]
      /\ pc["mine"] = "idle" /\ pc'["mine"] = "read" /\ block'["mine"] = b
      /\ \A u \in Threads \ {"mine"} : pc'[u] = pc[u] /\ block'[u] = block[u]
  BY <1>1, <1>2, Zenon DEF MineBlock, Go, Stages
<1>4. Outside("mine")
  BY <1>1, <1>2, <1>3, Zenon
  DEF MineBlock, Outside, hashes, stored, index, heads, job, counts, ImportOnly
<1> QED BY <1>1, <1>4, OutsideKeeps, Zenon

\* The head's total difficulty is read, or the block is given up.
LEMMA ReadTdKeeps ==
  ASSUME IInv, NEW t \in Threads, ReadTd(t)
  PROVE  IInv'
<1>1. /\ pc \in [Threads -> Stages] /\ block \in [Threads -> Blocks]
      /\ localTd \in [Threads -> Blocks \cup {None}] /\ td \subseteq Blocks
      /\ state \subseteq Blocks /\ receipts \subseteq Blocks /\ tdCache \subseteq Blocks
      /\ up => current \in Blocks
  BY Zenon DEF IInv, Types
<1>2. /\ pc[t] = "read" /\ up /\ up' /\ block[t] # Genesis
      /\ UNCHANGED <<db, heads, future, block, job, counts>>
  BY Zenon DEF ReadTd, IInv, Control
<1>3. block[t] \in state
  BY <1>2, Zenon DEF IInv, Storing
<1>4. ImportOnly => t = "import" /\ block[t] \in receipts
  BY <1>2, Zenon DEF IInv, Alone, Indexing, Threads
<1>5. /\ pc' \in [Threads -> Stages] /\ pc'[t] \in {"lock", "idle"}
      /\ \A u \in Threads \ {t} : pc'[u] = pc[u] /\ localTd'[u] = localTd[u]
      /\ pc'[t] = "lock" => localTd'[t] \in {current, None}
      /\ localTd' \in [Threads -> Blocks \cup {None}] /\ tdCache' \subseteq Blocks
  BY <1>1, <1>2 DEF ReadTd, Go, Stages, MuStages
<1>6. Outside(t)
  BY <1>1, <1>2, <1>3, <1>4, <1>5, Zenon
  DEF Outside, db, hashes, stored, index, heads, job, counts
<1> QED BY <1>6, OutsideKeeps, Zenon

-----------------------------------------------------------------------------
(* The writes of insert and of WriteBlock.                                *)

\* The number of the block is one that was not written yet; no other number of the
\* chain is disturbed.
LEMMA WriteCanonicalKeeps ==
  ASSUME IInv, NEW t \in Threads, WriteCanonical(t)
  PROVE  IInv'
<1>1. Stays(t) /\ pc[t] = "canon" /\ pc'[t] \in {"head", "headAll"}
  BY Zenon DEF IInv, Types, WriteCanonical, Go, Stays, Stages, MuStages, job, rest, counts
<1>2. /\ canon' = [canon EXCEPT ![Number[at[t]]] = at[t]]
      /\ UNCHANGED <<headBlock, headHeader, headFast, header, body, td, receipts, txAt,
                    rcptOf, current, currentHeader, currentFast, tdCache>>
  BY Zenon DEF WriteCanonical, hashes, stored, index, heads, rest
<1>3. Types'
  <2>1. at[t] \in Blocks /\ Number[at[t]] \in Numbers
    BY BlockFacts, Zenon DEF IInv, Types
  <2> QED BY <1>1, <1>2, <2>1, Zenon DEF IInv, Types, Stays
<1>4. Control(t)' /\ Inserting(t)
  BY <1>1, <1>2, Zenon DEF IInv, Control, Stays, Inserting, Holds, MuStages
<1>5. Numbering'
  <2>1. /\ \A u \in Threads : Inserting(u)' => u = t
        /\ Inserting(t)' /\ pc'[t] # "canon"
    BY <1>1, <1>4, StaysKeep, ZenonT(60) DEF IInv, Mutex, Inserting
  <2>2. /\ block[t] \in Blocks /\ at[t] \in AncestorsOf[block[t]]
        /\ canon \in [Numbers -> Blocks \cup {None}]
    <3>1. block[t] \in Blocks /\ canon \in [Numbers -> Blocks \cup {None}] /\ Control(t)
      BY Zenon DEF IInv, Types
    <3> QED BY <1>1, <1>4, <3>1, AncestorFacts, ZenonT(60) DEF Control, Inserting, Linear
  <2>3. \A c \in AncestorsOf[block[t]] :
          c \in Blocks /\ Number[c] \in Numbers /\ (Number[c] = Number[at[t]] => c = at[t])
    BY <2>2, AncestorFacts, BlockFacts DEF Linear
  <2>4. up' /\ crashes' = 0 => \A c \in AncestorsOf[block[t]] :
          c \in branch[t] \/ canon'[Number[c]] = c
    BY <1>1, <1>2, <1>4, <2>2, <2>3, Zenon DEF IInv, Numbering, Stays
  <2>5. UNCHANGED <<block, branch>>
    BY <1>1, Zenon DEF Stays
  <2> QED BY <2>1, <2>4, <2>5, Zenon DEF Numbering
<1>6. Indexing'
  BY <1>1, <1>2, StaysIndexing, Zenon
<1> QED
  BY <1>1, <1>2, <1>3, <1>4, <1>5, <1>6, StaysKeep, StaysControl, Zenon DEF IInv, Inserting

\* The head block moves to a block of the list or to the block itself.
LEMMA WriteHeadKeeps ==
  ASSUME IInv, NEW t \in Threads, WriteHead(t)
  PROVE  IInv'
<1>1. /\ Stays(t) /\ pc[t] \in {"head", "headAll"} /\ pc'[t] \in {"headHeader", "reorgTxs", "td"}
      /\ (pc'[t] = "headHeader" \/ pc'[t] = AfterInsert(t))
  BY Zenon DEF IInv, Types, WriteHead, Go, AfterInsert, Stays, Stages, MuStages, job, rest, counts
<1>2. /\ headBlock' = at[t] /\ current' = at[t]
      /\ UNCHANGED <<canon, headHeader, headFast, header, body, td, receipts, txAt, rcptOf,
                    currentHeader, currentFast, tdCache>>
  BY Zenon DEF WriteHead, stored, index, rest
<1>3. Types'
  BY <1>1, <1>2, Zenon DEF IInv, Types, Stays
<1>4. Control(t)' /\ Inserting(t)
  <2>1. Inserting(t) /\ Control(t)
    BY <1>1, Zenon DEF IInv, Control, Inserting, Holds, MuStages
  <2> QED BY <1>1, <1>2, <2>1, Zenon DEF Control, Stays, Inserting, AfterInsert
<1>5. Heads'
  BY <1>1, <1>2, <1>4, StaysHeads, Zenon
<1>6. Indexing'
  BY <1>1, <1>2, <1>4, StaysIndexing, Zenon
<1>7. Rooted'
  <2>1. /\ Rooted /\ up /\ (torn => torn') /\ UNCHANGED <<header, block>>
        /\ \A u \in Threads : Inserting(u)' => Inserting(u)
    BY <1>1, <1>2, Zenon DEF IInv, Stays, Inserting, Holds
  <2>2. block[t] \in Blocks /\ at[t] \in AncestorsOf[block[t]]
    <3>1. block[t] \in Blocks /\ Control(t)
      BY Zenon DEF IInv, Types
    <3> QED BY <1>1, <1>4, <3>1, AncestorFacts, Zenon DEF Control, Inserting, Linear
  <2>3. ASSUME ~torn', at[t] \in header PROVE AncestorsOf[at[t]] \subseteq header
    <3>1. AncestorsOf[block[t]] \subseteq header \cup {block[t]}
      BY <1>4, <2>1, <2>3, Zenon DEF Rooted
    <3> QED BY <2>2, <2>3, <3>1, StoredBelow, Zenon
  <2>4. \A u \in Threads : ~torn' /\ Inserting(u)' =>
          AncestorsOf[block'[u]] \subseteq header' \cup {block'[u]}
    BY <2>1, Zenon DEF Rooted
  <2> QED BY <1>2, <2>1, <2>3, <2>4, Zenon DEF Rooted
<1>8. \A u \in Threads : Control(u)'
  BY <1>1, <1>4, StaysControl, Zenon DEF Inserting
<1>9. Mutex' /\ Fallen' /\ Alone' /\ Numbering' /\ Weights' /\ Storing'
  BY <1>1, <1>2, <1>4, StaysKeep, Zenon
<1> QED BY <1>3, <1>5, <1>6, <1>7, <1>8, <1>9, Together, Zenon

\* The head header follows.
LEMMA WriteHeadHeaderKeeps ==
  ASSUME IInv, NEW t \in Threads, WriteHeadHeader(t)
  PROVE  IInv'
<1>1. Stays(t) /\ pc[t] = "headHeader" /\ pc'[t] = "headFast"
  BY Zenon DEF IInv, Types, WriteHeadHeader, Go, Stays, Stages, MuStages, job, rest, counts
<1>2. /\ headHeader' = at[t] /\ currentHeader' = at[t]
      /\ UNCHANGED <<canon, headBlock, headFast, header, body, td, receipts, txAt, rcptOf,
                    current, currentFast, tdCache>>
  BY Zenon DEF WriteHeadHeader, stored, index, rest
<1>3. Types'
  BY <1>1, <1>2, Zenon DEF IInv, Types, Stays
<1>4. Control(t)' /\ Inserting(t)
  <2>1. Inserting(t) /\ Control(t)
    BY <1>1, Zenon DEF IInv, Control, Inserting, Holds, MuStages
  <2> QED BY <1>1, <1>2, <2>1, Zenon DEF Control, Stays, Inserting
<1>5. Heads'
  BY <1>1, <1>2, <1>4, StaysHeads, Zenon
<1>6. Indexing'
  BY <1>1, <1>2, <1>4, StaysIndexing, Zenon
<1> QED
  BY <1>1, <1>2, <1>3, <1>4, <1>5, <1>6, StaysKeep, StaysControl, Zenon DEF IInv, Inserting

\* The head fast block follows.
LEMMA WriteHeadFastKeeps ==
  ASSUME IInv, NEW t \in Threads, WriteHeadFast(t)
  PROVE  IInv'
<1>1. /\ Stays(t) /\ pc[t] = "headFast" /\ pc'[t] = AfterInsert(t)
      /\ pc'[t] \in {"reorgTxs", "td"}
  BY Zenon DEF IInv, Types, WriteHeadFast, Go, AfterInsert, Stays, Stages, MuStages, job, rest,
     counts
<1>2. /\ headFast' = at[t] /\ currentFast' = at[t]
      /\ UNCHANGED <<canon, headBlock, headHeader, header, body, td, receipts, txAt, rcptOf,
                    current, currentHeader, tdCache>>
  BY Zenon DEF WriteHeadFast, stored, index, rest
<1>3. Types'
  BY <1>1, <1>2, Zenon DEF IInv, Types, Stays
<1>4. Control(t)' /\ Inserting(t)
  <2>1. Inserting(t) /\ Control(t)
    BY <1>1, Zenon DEF IInv, Control, Inserting, Holds, MuStages
  <2> QED BY <1>1, <1>2, <2>1, Zenon DEF Control, Stays, Inserting, AfterInsert
<1>5. Heads'
  BY <1>1, <1>2, <1>4, StaysHeads, Zenon
<1>6. Indexing'
  BY <1>1, <1>2, <1>4, StaysIndexing, Zenon
<1> QED
  BY <1>1, <1>2, <1>3, <1>4, <1>5, <1>6, StaysKeep, StaysControl, Zenon DEF IInv, Inserting

\* The total difficulty is written first.
LEMMA WriteTdKeeps ==
  ASSUME IInv, NEW t \in Threads, WriteTd(t)
  PROVE  IInv'
<1>1. Stays(t) /\ pc[t] = "td" /\ pc'[t] = "body"
  BY Zenon DEF IInv, Types, WriteTd, Go, Stays, Stages, MuStages, job, rest, counts
<1>2. /\ td' = td \cup {block[t]}
      /\ UNCHANGED <<canon, headBlock, headHeader, headFast, header, body, receipts, txAt,
                    rcptOf, current, currentHeader, currentFast, tdCache>>
  BY Zenon DEF WriteTd, hashes, index, heads, rest
<1>3. Types'
  BY <1>1, <1>2, StaysTypes, Zenon
<1>4. Control(t)'
  BY <1>1, <1>2, Zenon DEF IInv, Control, Stays
<1>5. Storing'
  BY <1>1, <1>2, Zenon DEF IInv, Storing, Stays
<1>6. Indexing'
  BY <1>1, <1>2, StaysIndexing, Zenon
<1>7. \A u \in Threads : Control(u)'
  BY <1>1, <1>2, <1>4, StaysControl, Zenon
<1>8. Mutex' /\ Fallen' /\ Alone' /\ Rooted' /\ Heads' /\ Numbering' /\ Weights'
  BY <1>1, <1>2, StaysKeep, Zenon
<1> QED BY <1>3, <1>5, <1>6, <1>7, <1>8, Together, Zenon

\* The body follows the total difficulty.
LEMMA WriteBodyKeeps ==
  ASSUME IInv, NEW t \in Threads, WriteBody(t)
  PROVE  IInv'
<1>1. Stays(t) /\ pc[t] = "body" /\ pc'[t] = "header"
  BY Zenon DEF IInv, Types, WriteBody, Go, Stays, Stages, MuStages, job, rest, counts
<1>2. /\ body' = body \cup {block[t]}
      /\ UNCHANGED <<canon, headBlock, headHeader, headFast, header, td, receipts, txAt,
                    rcptOf, current, currentHeader, currentFast, tdCache>>
  BY Zenon DEF WriteBody, hashes, index, heads, rest
<1>3. Types'
  BY <1>1, <1>2, StaysTypes, Zenon
<1>4. Control(t)'
  BY <1>1, <1>2, Zenon DEF IInv, Control, Stays
<1>5. Storing'
  BY <1>1, <1>2, Zenon DEF IInv, Storing, Stays
<1>6. Indexing'
  BY <1>1, <1>2, StaysIndexing, Zenon
<1> QED
  BY <1>1, <1>2, <1>3, <1>4, <1>5, <1>6, StaysKeep, StaysControl, Zenon DEF IInv

\* The header comes last: its block is whole, a head has its ancestors, and with
\* InsertChain alone at work it is no heavier than the head.
LEMMA WriteHeaderKeeps ==
  ASSUME IInv, NEW t \in Threads, WriteHeader(t)
  PROVE  IInv'
<1>1. Stays(t) /\ pc[t] = "header" /\ pc'[t] = "stored"
  BY Zenon DEF IInv, Types, WriteHeader, Go, Stays, Stages, MuStages, job, rest, counts
<1>2. /\ header' = header \cup {block[t]}
      /\ UNCHANGED <<canon, headBlock, headHeader, headFast, body, td, receipts, txAt,
                    rcptOf, current, currentHeader, currentFast, tdCache>>
  BY Zenon DEF WriteHeader, hashes, stored, index, heads, rest
<1>3. Types'
  BY <1>1, <1>2, StaysTypes, Zenon
<1>4. Control(t)'
  BY <1>1, <1>2, Zenon DEF IInv, Control, Stays
<1>5. Storing'
  BY <1>1, <1>2, Zenon DEF IInv, Storing, Stays
<1>6. Heads'
  BY <1>1, <1>2, StaysHeads, Zenon
<1>7. Rooted'
  <2>1. /\ Rooted /\ Heads /\ up /\ up' /\ (torn => torn') /\ UNCHANGED <<headBlock, current, block>>
        /\ \A u \in Threads : Inserting(u)' => Inserting(u)
    BY <1>1, <1>2, Zenon DEF IInv, Stays, Inserting, Holds
  <2>2. Holds(t) /\ (phase[t] = "insert" => current = block[t])
        /\ phase[t] \in {"insert", "side"}
    BY <1>1, Zenon DEF IInv, Control, Holds, MuStages
  <2>3. ASSUME ~torn' PROVE AncestorsOf[headBlock] \subseteq header'
    <3>1. CASE phase[t] = "insert"
      <4>1. Inserting(t) /\ headBlock = block[t]
        BY <2>1, <2>2, <3>1, Zenon DEF Inserting, Rooted
      <4> QED BY <1>2, <2>1, <2>3, <4>1, Zenon DEF Rooted
    <3>2. CASE phase[t] = "side"
      <4>1. \A u \in Threads : ~Inserting(u)
        BY <2>2, <3>2, Zenon DEF IInv, Mutex, Inserting
      <4>2. headBlock \in header
        BY <2>1, <4>1, Zenon DEF Heads, Rooted
      <4> QED BY <1>2, <2>1, <2>3, <4>2, Zenon DEF Rooted
    <3> QED BY <2>2, <3>1, <3>2, Zenon
  <2>4. \A u \in Threads : ~torn' /\ Inserting(u)' =>
          AncestorsOf[block'[u]] \subseteq header' \cup {block'[u]}
    BY <1>2, <2>1, Zenon DEF Rooted
  <2>5. up' => headBlock' = current'
    BY <2>1, Zenon DEF Rooted
  <2> QED BY <2>1, <2>3, <2>4, <2>5, Zenon DEF Rooted
<1>8. Weights'
  <2>1. SUFFICES ASSUME ImportOnly', up' PROVE Weights'
    BY Zenon DEF Weights
  <2>2. /\ ImportOnly /\ t = "import" /\ up /\ (Inserting("import")' <=> Inserting("import"))
    BY <1>1, <2>1, StaysKeep, Zenon DEF Stays
  <2>3. /\ UNCHANGED <<phase, block, localTd, current>> /\ pc'["import"] # "lock"
        /\ block["import"] \in Blocks /\ Td[block["import"]] \in Nat
        /\ ~Inserting("import") => phase["import"] = "side"
    BY <1>1, <1>2, <2>2, BlockFacts, Zenon
      DEF IInv, Types, Stays, Control, Inserting, Holds, MuStages
  <2>4. /\ ~Inserting("import") => \A b \in header : Td[b] <= Td[current]
        /\ Inserting("import") => \A b \in header : Td[b] <= Td[block["import"]]
        /\ phase["import"] = "side" => Td[block["import"]] <= Td[current]
    BY <2>2, Zenon DEF IInv, Weights
  <2>5. \A x \in Nat : x <= x
    BY SMT
  <2>6. Td[block["import"]] <= Td[block["import"]]
    BY <2>3, <2>5, Zenon
  <2>7. \A b \in header' : b \in header \/ b = block["import"]
    BY <1>2, <2>2, Zenon
  <2>8. ~Inserting("import") => \A b \in header' : Td[b] <= Td[current]
    BY <2>3, <2>4, <2>7, Zenon
  <2>9. Inserting("import") => \A b \in header' : Td[b] <= Td[block["import"]]
    BY <2>4, <2>6, <2>7, Zenon
  <2> QED BY <2>2, <2>3, <2>4, <2>8, <2>9, Zenon DEF Weights
<1>9. Indexing'
  BY <1>1, <1>2, StaysIndexing, Zenon
<1>10. \A u \in Threads : Control(u)'
  BY <1>1, <1>2, <1>4, StaysControl, Zenon
<1>11. Mutex' /\ Fallen' /\ Alone' /\ Numbering'
  BY <1>1, <1>2, StaysKeep, Zenon
<1> QED BY <1>3, <1>5, <1>6, <1>7, <1>8, <1>9, <1>10, <1>11, Together, Zenon

-----------------------------------------------------------------------------
(* The writes of the index.                                               *)

\* The transactions of a block of the new branch are indexed.
LEMMA ReorgTransactionsKeeps ==
  ASSUME IInv, NEW t \in Threads, ReorgTransactions(t)
  PROVE  IInv'
<1>1. Stays(t) /\ pc[t] = "reorgTxs" /\ pc'[t] = "reorgRcpts"
  BY Zenon DEF IInv, Types, ReorgTransactions, Go, Stays, Stages, MuStages, job, rest, counts
<1>2. /\ txAt' = Indexed(txAt, at[t])
      /\ UNCHANGED <<canon, headBlock, headHeader, headFast, header, body, td, receipts,
                    rcptOf, current, currentHeader, currentFast, tdCache>>
  BY Zenon DEF ReorgTransactions, hashes, stored, heads, rest
<1>3. Types'
  <2>1. txAt' \in [Txs -> Blocks \cup {None}]
    BY <1>2, Zenon DEF IInv, Types, Indexed
  <2> QED BY <1>1, <1>2, <2>1, Zenon DEF IInv, Types, Stays
<1>4. Control(t)'
  BY <1>1, <1>2, Zenon DEF IInv, Control, Stays
<1>5. Indexing'
  <2>0. SUFFICES ASSUME ImportOnly', up' PROVE Indexing'
    BY Zenon DEF Indexing
  <2>1. /\ ImportOnly /\ t = "import" /\ up
        /\ UNCHANGED <<block, phase, at, branch, gone, header, receipts>>
    BY <1>1, <1>2, <2>0, StaysKeep, Zenon DEF Stays
  <2>2. /\ phase["import"] = "reorg" /\ block["import"] \in Blocks
        /\ at["import"] \in AncestorsOf[block["import"]]
    BY <1>1, <2>1, Zenon DEF IInv, Control, Types
  <2>3. Indexes(txAt, block["import"], branch["import"] \cup {at["import"]}, gone["import"])
    BY <1>1, <2>1, <2>2, Zenon DEF IInv, Indexing
  <2>4. Indexes(txAt', block["import"], branch["import"], gone["import"])
    BY <1>2, <2>1, <2>2, <2>3, IndexedFits, Zenon
  <2> QED BY <1>1, <1>2, <2>1, <2>2, <2>4, Zenon DEF IInv, Indexing
<1> QED
  BY <1>1, <1>2, <1>3, <1>4, <1>5, StaysKeep, StaysControl, Zenon DEF IInv

\* The receipt of a transaction that dropped out is deleted.
LEMMA DeleteReceiptKeeps ==
  ASSUME IInv, NEW t \in Threads, DeleteReceipt(t)
  PROVE  IInv'
<1>1. Stays(t) /\ pc[t] = "delRcpt" /\ pc'[t] = "delTx"
  BY Zenon DEF IInv, Types, DeleteReceipt, Go, Stays, Stages, MuStages, job, rest, counts
<1>2. /\ rcptOf' = [rcptOf EXCEPT ![Turn(t)] = None]
      /\ UNCHANGED <<canon, headBlock, headHeader, headFast, header, body, td, receipts,
                    txAt, current, currentHeader, currentFast, tdCache>>
  BY Zenon DEF DeleteReceipt, hashes, stored, heads, rest
<1>3. Types'
  <2>1. rcptOf \in [Txs -> Blocks \cup {None}]
    BY Zenon DEF IInv, Types
  <2>2. rcptOf' \in [Txs -> Blocks \cup {None}]
    BY <1>2, <2>1, Zenon
  <2> QED BY <1>1, <1>2, <2>2, Zenon DEF IInv, Types, Stays
<1>4. Control(t)'
  BY <1>1, <1>2, Zenon DEF IInv, Control, Stays
<1>5. Indexing'
  <2>0. SUFFICES ASSUME ImportOnly', up' PROVE Indexing'
    BY Zenon DEF Indexing
  <2>1. /\ ImportOnly /\ t = "import" /\ up
        /\ UNCHANGED <<block, phase, at, branch, gone, header, receipts>>
    BY <1>1, <1>2, <2>0, StaysKeep, Zenon DEF Stays
  <2>2. /\ phase["import"] = "reorg" /\ block["import"] \in Blocks
        /\ gone["import"] # {} /\ gone["import"] \subseteq Txs
        /\ rcptOf \in [Txs -> Blocks \cup {None}]
    BY <1>1, <2>1, Zenon DEF IInv, Control, Types
  <2>3. /\ Turn("import") \in gone["import"] /\ Turn("import") \in Txs
        /\ Turn("import")' = Turn("import")
    BY <2>1, <2>2, Zenon DEF Turn
  <2>4. /\ Indexes(rcptOf, block["import"], {}, gone["import"])
        /\ \A c \in AncestorsOf[block["import"]] : Turn("import") \notin TxsIn[c]
    BY <1>1, <2>1, <2>2, <2>3, Zenon DEF IInv, Indexing
  <2>5. Indexes(rcptOf', block["import"], {}, gone["import"] \ {Turn("import")})
    BY <1>2, <2>1, <2>2, <2>3, <2>4, IndexesDelete, Zenon
  <2>6. Indexes(txAt', block["import"], {}, gone["import"])
    BY <1>1, <1>2, <2>1, Zenon DEF IInv, Indexing
  <2> QED BY <1>1, <2>1, <2>2, <2>3, <2>5, <2>6, Zenon DEF IInv, Indexing
<1> QED
  BY <1>1, <1>2, <1>3, <1>4, <1>5, StaysKeep, StaysControl, Zenon DEF IInv

\* The transactions of the new head are indexed.
LEMMA WriteTransactionsKeeps ==
  ASSUME IInv, NEW t \in Threads, WriteTransactions(t)
  PROVE  IInv'
<1>1. Stays(t) /\ pc[t] = "txs" /\ pc'[t] = "rcpts"
  BY Zenon DEF IInv, Types, WriteTransactions, Go, Stays, Stages, MuStages, job, rest, counts
<1>2. /\ txAt' = Indexed(txAt, block[t])
      /\ UNCHANGED <<canon, headBlock, headHeader, headFast, header, body, td, receipts,
                    rcptOf, current, currentHeader, currentFast, tdCache>>
  BY Zenon DEF WriteTransactions, hashes, stored, heads, rest
<1>3. Types'
  <2>1. txAt' \in [Txs -> Blocks \cup {None}]
    BY <1>2, Zenon DEF IInv, Types, Indexed
  <2> QED BY <1>1, <1>2, <2>1, Zenon DEF IInv, Types, Stays
<1>4. Control(t)'
  BY <1>1, <1>2, ZenonT(60) DEF IInv, Control, Stays
<1>5. Indexing'
  <2>0. SUFFICES ASSUME ImportOnly', up' PROVE Indexing'
    BY Zenon DEF Indexing
  <2>1. /\ ImportOnly /\ t = "import" /\ up
        /\ UNCHANGED <<block, phase, at, branch, gone, header, receipts>>
    BY <1>1, <1>2, <2>0, StaysKeep, Zenon DEF Stays
  <2>2. /\ phase["import"] = "insert" /\ block["import"] \in Blocks
        /\ block["import"] \in AncestorsOf[block["import"]]
    BY <1>1, <2>1, AncestorFacts, Zenon DEF IInv, Control, Types, Linear
  <2>3. Indexes(txAt, block["import"], {block["import"]}, {})
    BY <1>1, <2>1, <2>2, Zenon DEF IInv, Indexing
  <2>4. Indexes(txAt', block["import"], {}, {})
    BY <1>2, <2>1, <2>2, <2>3, IndexedFits, Zenon
  <2>5. /\ header \subseteq receipts /\ block["import"] \in receipts
        /\ Indexes(rcptOf, block["import"], {block["import"]}, {})
        /\ current = block["import"]
    BY <1>1, <2>1, <2>2, Zenon DEF IInv, Indexing
  <2>6. pc'["import"] = "rcpts" /\ rcptOf' = rcptOf /\ current' = current
    BY <1>1, <1>2, <2>1, Zenon
  <2> QED BY <2>1, <2>2, <2>4, <2>5, <2>6, Zenon DEF Indexing
<1> QED
  BY <1>1, <1>2, <1>3, <1>4, <1>5, StaysKeep, StaysControl, Zenon DEF IInv

\* The miner's receipts come last.
LEMMA WriteBlockReceiptsKeeps ==
  ASSUME IInv, NEW t \in Threads, WriteBlockReceipts(t)
  PROVE  IInv'
<1>1. Stays(t) /\ pc[t] = "blockRcpts" /\ pc'[t] = "idle"
  BY Zenon DEF IInv, Types, WriteBlockReceipts, Go, Stays, Stages, MuStages, job, rest, counts
<1>2. /\ receipts' = receipts \cup {block[t]}
      /\ UNCHANGED <<canon, headBlock, headHeader, headFast, header, body, td, txAt, rcptOf,
                    current, currentHeader, currentFast, tdCache>>
  BY Zenon DEF WriteBlockReceipts, hashes, stored, index, heads, rest
<1>3. Types'
  BY <1>1, <1>2, StaysTypes, Zenon
<1>4. Control(t)'
  BY <1>1, <1>2, Zenon DEF IInv, Control, Stays
<1>5. Indexing'
  <2>0. SUFFICES ASSUME ImportOnly', up' PROVE Indexing'
    BY Zenon DEF Indexing
  <2>1. /\ ImportOnly /\ t = "import" /\ up
        /\ UNCHANGED <<block, phase, at, branch, gone, header>>
        /\ phase["import"] = "none"
    BY <1>1, <1>2, <2>0, StaysKeep, Zenon DEF IInv, Control, Stays
  <2> QED BY <1>1, <1>2, <2>1, Zenon DEF IInv, Indexing
<1> QED
  BY <1>1, <1>2, <1>3, <1>4, <1>5, StaysKeep, StaysControl, Zenon DEF IInv

-----------------------------------------------------------------------------
(* The steps of reorg that take up the next block or transaction.          *)

\* What such a step leaves alone.
Quiet ==
  /\ up /\ up'
  /\ UNCHANGED <<canon, headBlock, headHeader, headFast, header, body, td, state, receipts,
                 current, currentHeader, currentFast, tdCache, block, localTd, mined,
                 torn, crashes, rewinds>>

\* The thread's job changes, the other threads' do not.
LEMMA MovesOne ==
  ASSUME IInv, NEW t \in Threads, NEW todo, NEW diff, Moves(t, todo, diff)
  PROVE  /\ \A u \in Threads \ {t} :
              /\ pc'[u] = pc[u] /\ phase'[u] = phase[u] /\ at'[u] = at[u]
              /\ branch'[u] = branch[u] /\ gone'[u] = gone[u]
         /\ gone'[t] = diff
         /\ pc' \in [Threads -> Stages]
         /\ phase' \in [Threads -> {"none", "reorg", "insert", "side"}]
         /\ at' \in [Threads -> Blocks]
         /\ branch' \in [Threads -> SUBSET Blocks] /\ gone' \in [Threads -> SUBSET Txs]
<1>1. /\ pc \in [Threads -> Stages]
      /\ phase \in [Threads -> {"none", "reorg", "insert", "side"}]
      /\ at \in [Threads -> Blocks]
      /\ branch \in [Threads -> SUBSET Blocks] /\ gone \in [Threads -> SUBSET Txs]
  BY Zenon DEF IInv, Types
<1>2. \A u \in Threads \ {t} : pc'[u] = pc[u] /\ phase'[u] = phase[u] /\ at'[u] = at[u]
  BY <1>1, Zenon DEF Moves
<1>3. \A u \in Threads \ {t} : branch'[u] = branch[u] /\ gone'[u] = gone[u]
  BY <1>1, Zenon DEF Moves
<1>4. /\ pc' \in [Threads -> Stages]
      /\ phase' \in [Threads -> {"none", "reorg", "insert", "side"}]
      /\ at' \in [Threads -> Blocks]
  BY <1>1 DEF Moves, Stages, MuStages
<1>5. /\ gone'[t] = diff /\ branch' \in [Threads -> SUBSET Blocks]
      /\ gone' \in [Threads -> SUBSET Txs]
  BY <1>1, Zenon DEF Moves
<1> QED BY <1>2, <1>3, <1>4, <1>5, Zenon

\* reorg goes on with the blocks of todo: what the numbers lack is among them.
Resumes(t, todo, diff) ==
  /\ Moves(t, todo, diff) /\ Quiet
  /\ pc[t] \notin {"idle", "panic"}
  /\ \A u \in Threads \ {t} : ~Holds(u)
  /\ todo \subseteq AncestorsOf[block[t]] \cap (header \cup {block[t]})
  /\ crashes = 0 => \A c \in AncestorsOf[block[t]] :
       c \in todo \/ canon[Number[c]] = c \/ (c = block[t] /\ todo = {} /\ diff = {})
  /\ ~torn => AncestorsOf[block[t]] \subseteq header \cup {block[t]}
  /\ ImportOnly => \A b \in header : Td[b] <= Td[block[t]]
  /\ txAt' \in [Txs -> Blocks \cup {None}] /\ rcptOf' \in [Txs -> Blocks \cup {None}]

\* Such a step keeps the invariant, the index apart.
LEMMA ResumesKeep ==
  ASSUME IInv, NEW t \in Threads, NEW todo, NEW diff, Resumes(t, todo, diff)
  PROVE  /\ Types' /\ Mutex' /\ Fallen' /\ (\A u \in Threads : Control(u)')
         /\ Numbering' /\ Storing' /\ Heads' /\ Rooted' /\ Alone' /\ Weights'
<1>0. Moves(t, todo, diff) /\ Quiet /\ pc[t] \notin {"idle", "panic"}
  BY Zenon DEF Resumes
<1>1. /\ \A u \in Threads \ {t} :
           /\ pc'[u] = pc[u] /\ phase'[u] = phase[u] /\ at'[u] = at[u]
           /\ branch'[u] = branch[u] /\ gone'[u] = gone[u]
      /\ gone'[t] = diff
  BY <1>0, MovesOne, Zenon
<1>2. Types'
  BY <1>0, MovesOne, Zenon DEF IInv, Types, Quiet, Resumes
<1>3. /\ pc'[t] \in {"canon", "delRcpt"} /\ phase'[t] \in {"reorg", "insert"}
      /\ Inserting(t)'
      /\ \A u \in Threads \ {t} : ~Holds(u)' /\ ~Inserting(u)' /\ ~Inserting(u)
  BY <1>0, <1>1, Zenon DEF Moves, Resumes, Inserting, Holds, MuStages
<1>4. Mutex' /\ Fallen' /\ Alone'
  BY <1>0, <1>1, <1>3, Zenon DEF IInv, Mutex, Fallen, Alone, Quiet, ImportOnly, Threads
<1>5. /\ block[t] \in Blocks /\ block[t] # Genesis /\ Td[block[t]] \in Nat
      /\ block[t] \in AncestorsOf[block[t]]
  <2>1. block[t] \in Blocks
    BY Zenon DEF IInv, Types
  <2>2. block[t] # Genesis
    BY <1>0, Zenon DEF IInv, Control
  <2> QED BY <2>1, <2>2, AncestorFacts, BlockFacts, Zenon DEF Linear
<1>6. /\ branch'[t] \subseteq todo
      /\ pc'[t] = "delRcpt" => diff # {} /\ phase'[t] = "reorg" /\ todo = {}
      /\ phase'[t] = "insert" => pc'[t] = "canon" /\ at'[t] = block[t] /\ todo = {} /\ diff = {}
      /\ pc'[t] = "canon" /\ phase'[t] = "reorg" =>
           at'[t] \in todo /\ branch'[t] = todo \ {at'[t]}
  BY <1>0, Zenon DEF Moves
<1>7. Control(t)'
  <2>1. /\ branch'[t] \subseteq AncestorsOf[block[t]] /\ todo \subseteq AncestorsOf[block[t]]
        /\ block'[t] = block[t] /\ up'
    BY <1>0, <1>6, Zenon DEF Quiet, Resumes
  <2> QED BY <1>1, <1>3, <1>5, <1>6, <2>1, Zenon DEF Control
<1>8. ASSUME NEW u \in Threads \ {t} PROVE Control(u)'
  <2>1. block'[u] = block[u] /\ current' = current /\ (up' <=> up) /\ Control(u)
    BY <1>0, Zenon DEF IInv, Quiet
  <2> QED BY <1>1, <1>8, <2>1, Zenon DEF Control
<1>9. Numbering'
  <2>1. up' /\ crashes' = 0 => \A c \in AncestorsOf[block[t]] :
          c \in branch'[t] \/ (c = at'[t] /\ pc'[t] = "canon") \/ canon[Number[c]] = c
    BY <1>0, <1>3, <1>6, Zenon DEF Quiet, Resumes
  <2> QED BY <1>0, <1>3, <2>1, Zenon DEF Numbering, Quiet
<1>10. Storing'
  BY <1>0, <1>1, <1>3, Zenon DEF IInv, Storing, Quiet
<1>11. Rooted'
  <2>1. /\ Rooted /\ up /\ (torn => torn') /\ UNCHANGED <<header, headBlock, current, block>>
    BY <1>0, Zenon DEF IInv, Quiet
  <2>2. ASSUME NEW u \in Threads, ~torn', Inserting(u)'
        PROVE  AncestorsOf[block'[u]] \subseteq header' \cup {block'[u]}
    <3>1. u = t BY <1>3, <2>2, Zenon
    <3> QED BY <2>1, <2>2, <3>1, Zenon DEF Resumes
  <2> QED BY <2>1, <2>2, Zenon DEF Rooted
<1>12. Heads'
  <2>1. {current, currentHeader, currentFast} \subseteq header \cup {block[t]}
    BY <1>0, <1>3, Zenon DEF IInv, Heads, Quiet
  <2>2. /\ branch'[t] \subseteq header \cup {block[t]}
        /\ pc'[t] \notin {"delRcpt", "delTx"} => at'[t] \in header \cup {block[t]}
    BY <1>3, <1>6, Zenon DEF Resumes
  <2> QED BY <1>0, <1>3, <2>1, <2>2, Zenon DEF Heads, Quiet
<1>13. Weights'
  <2>1. ImportOnly' => ImportOnly /\ t = "import"
    BY <1>0, <1>1, Zenon DEF IInv, Alone, ImportOnly, Quiet, Threads
  <2> QED BY <1>0, <1>3, <2>1, Zenon DEF Weights, Quiet, Resumes
<1>14. \A u \in Threads : Control(u)'
  BY <1>7, <1>8, Zenon
<1> QED BY <1>2, <1>4, <1>9, <1>10, <1>11, <1>12, <1>13, <1>14, Zenon


\* What a step of reorg leaves alone, variable by variable.
LEMMA UnchangedQuiet ==
  ASSUME up, UNCHANGED <<canon, hashes, stored, receipts, heads, rest>>
  PROVE  Quiet
<1>1. UNCHANGED <<canon, receipts, headBlock, headHeader, headFast>>
  BY Zenon DEF hashes
<1>2. UNCHANGED <<header, body, td>> /\ UNCHANGED <<current, currentHeader, currentFast>>
  BY Zenon DEF stored, heads
<1>3. UNCHANGED <<state, tdCache, block, localTd, up, counts>>
  BY Zenon DEF rest
<1>4. UNCHANGED <<mined, torn, crashes, rewinds>>
  BY <1>3, Zenon DEF counts
<1> QED BY <1>1, <1>2, <1>3, <1>4, Zenon DEF Quiet

\* A step of reorg leaves alone all but the thread's job and the index.
LEMMA ReorgQuiet ==
  ASSUME NEW t \in Threads, LockHead(t) \/ ReorgReceipts(t) \/ DeleteTransaction(t)
  PROVE  Quiet
<1>1. ASSUME LockHead(t) PROVE Quiet
  <2>1. up /\ UNCHANGED <<db, heads, future, tdCache, block, localTd, up, counts>>
    BY <1>1, Zenon DEF LockHead
  <2> QED BY <2>1, UnchangedQuiet, Zenon DEF db, rest
<1>2. ASSUME ReorgReceipts(t) PROVE Quiet
  <2>1. up /\ UNCHANGED <<canon, hashes, stored, receipts, heads, rest>>
    BY <1>2, Zenon DEF ReorgReceipts
  <2> QED BY <2>1, UnchangedQuiet, Zenon
<1>3. ASSUME DeleteTransaction(t) PROVE Quiet
  <2>1. up /\ UNCHANGED <<canon, hashes, stored, receipts, heads, rest>>
    BY <1>3, Zenon DEF DeleteTransaction
  <2> QED BY <2>1, UnchangedQuiet, Zenon
<1> QED BY <1>1, <1>2, <1>3, Zenon

\* A block of the branch is done: its receipts are indexed, the next one is taken up.
LEMMA ReorgReceiptsKeeps ==
  ASSUME IInv, NEW t \in Threads, ReorgReceipts(t)
  PROVE  IInv'
<1>1. Moves(t, branch[t], gone[t]) /\ Quiet
  BY ReorgMoves, ReorgQuiet, Zenon DEF IInv
<1>2. /\ pc[t] = "reorgRcpts" /\ txAt' = txAt
      /\ rcptOf' = IF at[t] \in receipts THEN Indexed(rcptOf, at[t]) ELSE rcptOf
  BY Zenon DEF ReorgReceipts
<1>3. /\ Control(t) /\ phase[t] = "reorg" /\ Inserting(t)
      /\ branch[t] \subseteq AncestorsOf[block[t]] /\ at[t] \in AncestorsOf[block[t]]
  BY <1>2, Zenon DEF IInv, Control, Inserting, Holds, MuStages
<1>4. /\ block[t] \in Blocks /\ txAt' \in [Txs -> Blocks \cup {None}]
      /\ rcptOf' \in [Txs -> Blocks \cup {None}]
  BY <1>2, Zenon DEF IInv, Types, Indexed
<1>5. \A u \in Threads \ {t} : ~Holds(u)
  BY <1>3, Zenon DEF IInv, Mutex, Inserting
<1>6. branch[t] \subseteq header \cup {block[t]} /\ at[t] \in header \cup {block[t]}
  BY <1>1, <1>2, <1>3, Zenon DEF IInv, Heads, Quiet
<1>7. crashes = 0 => \A c \in AncestorsOf[block[t]] : c \in branch[t] \/ canon[Number[c]] = c
  BY <1>1, <1>2, <1>3, Zenon DEF IInv, Numbering, Quiet
<1>8. ImportOnly => t = "import"
  BY <1>2, Zenon DEF IInv, Alone, Threads
<1>9. ImportOnly => \A b \in header : Td[b] <= Td[block[t]]
  BY <1>1, <1>3, <1>8, Zenon DEF IInv, Weights, Quiet
<1>12. ~torn => AncestorsOf[block[t]] \subseteq header \cup {block[t]}
  BY <1>3, Zenon DEF IInv, Rooted
<1>10. /\ Types' /\ Mutex' /\ Fallen' /\ (\A u \in Threads : Control(u)')
       /\ Numbering' /\ Storing' /\ Heads' /\ Rooted' /\ Alone' /\ Weights'
  BY <1>1, <1>2, <1>3, <1>4, <1>5, <1>6, <1>7, <1>9, <1>12, ResumesKeep, Zenon DEF Resumes
<1>11. Indexing'
  <2>0. SUFFICES ASSUME ImportOnly', up' PROVE Indexing'
    BY Zenon DEF Indexing
  <2>1. /\ ImportOnly /\ up /\ t = "import" /\ UNCHANGED <<block, header, receipts>>
    BY <1>1, <1>8, <2>0, Zenon DEF Quiet, ImportOnly
  <2>2. /\ Indexes(txAt, block[t], branch[t], gone[t])
        /\ Indexes(rcptOf, block[t], branch[t] \cup {at[t]}, gone[t])
        /\ header \subseteq receipts /\ block[t] \in receipts
        /\ \A c \in AncestorsOf[block[t]] : \A x \in TxsIn[c] : x \notin gone[t]
    BY <1>2, <1>3, <2>1, Zenon DEF IInv, Indexing
  <2>3. rcptOf' = Indexed(rcptOf, at[t])
    BY <1>2, <1>6, <2>2, Zenon
  <2>4. Indexes(rcptOf', block[t], branch[t], gone[t])
    BY <1>3, <1>4, <2>2, <2>3, IndexedFits, Zenon
  <2> QED BY <1>1, <1>2, <2>1, <2>2, <2>4, ReindexMoves, Zenon DEF IInv
<1> QED BY <1>10, <1>11, Zenon DEF IInv


\* A transaction of diff is done.
LEMMA DeleteTransactionKeeps ==
  ASSUME IInv, NEW t \in Threads, DeleteTransaction(t)
  PROVE  IInv'
<1>1. Moves(t, {}, gone[t] \ {Turn(t)}) /\ Quiet
  BY ReorgMoves, ReorgQuiet, Zenon DEF IInv
<1>2. /\ pc[t] = "delTx" /\ rcptOf' = rcptOf /\ txAt' = [txAt EXCEPT ![Turn(t)] = None]
  BY Zenon DEF DeleteTransaction
<1>3. phase[t] = "reorg" /\ Inserting(t) /\ branch[t] = {} /\ gone[t] # {}
  BY <1>2, Zenon DEF IInv, Control, Inserting, Holds, MuStages
<1>4. /\ block[t] \in Blocks /\ gone[t] \subseteq Txs
      /\ txAt \in [Txs -> Blocks \cup {None}] /\ rcptOf' \in [Txs -> Blocks \cup {None}]
  BY <1>2, Zenon DEF IInv, Types
<1>5. txAt' \in [Txs -> Blocks \cup {None}]
  BY <1>2, <1>4, Zenon
<1>6. \A u \in Threads \ {t} : ~Holds(u)
  BY <1>3, Zenon DEF IInv, Mutex, Inserting
<1>7. crashes = 0 => \A c \in AncestorsOf[block[t]] : canon[Number[c]] = c
  BY <1>1, <1>2, <1>3, Zenon DEF IInv, Numbering, Quiet
<1>8. ImportOnly => t = "import"
  BY <1>2, Zenon DEF IInv, Alone, Threads
<1>9. ImportOnly => \A b \in header : Td[b] <= Td[block[t]]
  BY <1>1, <1>3, <1>8, Zenon DEF IInv, Weights, Quiet
<1>12. ~torn => AncestorsOf[block[t]] \subseteq header \cup {block[t]}
  BY <1>3, Zenon DEF IInv, Rooted
<1>10. /\ Types' /\ Mutex' /\ Fallen' /\ (\A u \in Threads : Control(u)')
       /\ Numbering' /\ Storing' /\ Heads' /\ Rooted' /\ Alone' /\ Weights'
  BY <1>1, <1>2, <1>4, <1>5, <1>6, <1>7, <1>9, <1>12, ResumesKeep, Zenon DEF Resumes
<1>11. Indexing'
  <2> DEFINE left == gone[t] \ {Turn(t)}
  <2>0. SUFFICES ASSUME ImportOnly', up' PROVE Indexing'
    BY Zenon DEF Indexing
  <2>1. /\ ImportOnly /\ up /\ t = "import" /\ UNCHANGED <<block, header, receipts>>
    BY <1>1, <1>8, <2>0, Zenon DEF Quiet, ImportOnly
  <2>2. /\ Indexes(txAt, block[t], {}, gone[t]) /\ Indexes(rcptOf, block[t], {}, left)
        /\ header \subseteq receipts /\ block[t] \in receipts
        /\ \A c \in AncestorsOf[block[t]] : \A x \in TxsIn[c] : x \notin gone[t]
    BY <1>2, <1>3, <2>1, Zenon DEF IInv, Indexing
  <2>3. Turn(t) \in gone[t] /\ Turn(t) \in Txs
    BY <1>3, <1>4, Zenon DEF Turn
  <2>4. \A c \in AncestorsOf[block[t]] : Turn(t) \notin TxsIn[c]
    BY <2>2, <2>3, Zenon
  <2>5. Indexes(txAt', block[t], {}, left)
    BY <1>2, <1>4, <2>2, <2>3, <2>4, IndexesDelete, Zenon
  <2>6. \A c \in AncestorsOf[block[t]] : \A x \in TxsIn[c] : x \notin left
    BY <2>2, Zenon
  <2>7. Moves("import", {}, left) /\ Types
    BY <1>1, <2>1, Zenon DEF IInv
  <2> HIDE DEF left
  <2> QED BY <1>2, <2>1, <2>2, <2>5, <2>6, <2>7, ReindexMoves, Zenon
<1> QED BY <1>10, <1>11, Zenon DEF IInv

\* The lock is taken and the block is to become the head.
LEMMA LockHeadKeeps ==
  ASSUME IInv, NEW t \in Threads, LockHead(t)
  PROVE  IInv'
<1>1. Quiet /\ UNCHANGED <<txAt, rcptOf>> /\ pc[t] = "lock" /\ \A u \in Threads : ~Holds(u)
  BY ReorgQuiet, Zenon DEF LockHead, MuFree, Holds, db, index
<1>2. \/ Parent[block[t]] = current /\ Moves(t, {}, {})
      \/ /\ BranchesKnown(current, block[t])
         /\ Moves(t, NewOnly(current, block[t]), Dropped(current, block[t]))
      \/ Go(t, "idle") /\ UNCHANGED job
  BY ReorgMoves, Zenon DEF IInv
<1>3. /\ block[t] \in Blocks /\ current \in Blocks
      /\ txAt' \in [Txs -> Blocks \cup {None}] /\ rcptOf' \in [Txs -> Blocks \cup {None}]
  BY <1>1, Zenon DEF IInv, Types, Quiet
<1>4. block[t] # Genesis /\ phase[t] = "none"
  BY <1>1, Zenon DEF IInv, Control
<1>5. current \in header
  BY <1>1, Zenon DEF IInv, Heads, Inserting, Quiet
<1>6. crashes = 0 => Canonical(current)
  BY <1>1, Zenon DEF IInv, Numbering, Inserting, Quiet
<1>7. ImportOnly => t = "import"
  BY <1>1, Zenon DEF IInv, Alone, Threads
<1>8. ImportOnly => \A b \in header : Td[b] <= Td[block[t]]
  <2> SUFFICES ASSUME ImportOnly, NEW b \in header PROVE Td[b] <= Td[block[t]]
    BY Zenon
  <2>1. localTd[t] = current /\ Td[b] <= Td[current]
    BY <1>1, <1>7, Zenon DEF IInv, Weights, LockHead, Quiet, Inserting
  <2>2. Td[block[t]] >= Td[current]
    BY <2>1, Zenon DEF LockHead
  <2>3. Td[b] \in Nat /\ Td[current] \in Nat /\ Td[block[t]] \in Nat
    BY <1>3, BlockFacts, Zenon DEF IInv, Types
  <2> QED BY <2>1, <2>2, <2>3
<1>9. ASSUME ImportOnly', up'
      PROVE  /\ ImportOnly /\ up /\ t = "import"
             /\ Indexes(txAt, current, {}, {}) /\ Indexes(rcptOf, current, {}, {})
             /\ header \subseteq receipts /\ block[t] \in receipts
  <2>1. ImportOnly /\ up /\ t = "import"
    BY <1>1, <1>7, <1>9, Zenon DEF Quiet, ImportOnly
  <2> QED BY <1>1, <1>4, <2>1, Zenon DEF IInv, Indexing
<1>13. ~torn => AncestorsOf[current] \subseteq header
  BY <1>1, <1>5, Zenon DEF IInv, Rooted, Quiet
<1>10. CASE Parent[block[t]] = current /\ Moves(t, {}, {})
  <2>1. AncestorsOf[block[t]] = {block[t]} \cup AncestorsOf[current]
    BY <1>3, <1>4, <1>10, ParentChain, Zenon
  <2>2. Resumes(t, {}, {})
    BY <1>1, <1>3, <1>6, <1>8, <1>10, <1>13, <2>1, Zenon DEF Resumes, Canonical
  <2>3. ASSUME ImportOnly', up' PROVE Indexing'
    <3>1. Indexes(txAt, block[t], {block[t]}, {}) /\ Indexes(rcptOf, block[t], {block[t]}, {})
      BY <1>3, <1>4, <1>9, <1>10, <2>3, IndexesSwitch, Zenon
    <3>2. pc'[t] = "canon" /\ phase'[t] = "insert"
      BY <1>10, Zenon DEF Moves
    <3>3. UNCHANGED <<block, header, receipts, txAt, rcptOf>>
      BY <1>1, Zenon DEF Quiet
    <3> QED BY <1>9, <2>3, <3>1, <3>2, <3>3, Zenon DEF Indexing
  <2>4. Indexing'
    BY <2>3, Zenon DEF Indexing
  <2> QED BY <2>2, <2>4, ResumesKeep, Zenon DEF IInv
<1>11. CASE /\ BranchesKnown(current, block[t])
            /\ Moves(t, NewOnly(current, block[t]), Dropped(current, block[t]))
  <2> DEFINE todo == NewOnly(current, block[t])
             diff == Dropped(current, block[t])
  <2>1. todo \subseteq header \cup {block[t]}
    BY <1>3, <1>11, BranchStored, Zenon
  <2>2. /\ todo \subseteq AncestorsOf[block[t]]
        /\ \A c \in AncestorsOf[block[t]] : c \in todo \/ c \in AncestorsOf[current]
    BY Zenon DEF NewOnly
  <2>3. Moves(t, todo, diff)
    BY <1>11, Zenon
  <2>4. ASSUME ImportOnly', up'
        PROVE  /\ Indexes(txAt, block[t], todo, diff) /\ Indexes(rcptOf, block[t], todo, diff)
               /\ \A c \in AncestorsOf[block[t]] : \A x \in TxsIn[c] : x \notin diff
    BY <1>3, <1>9, <2>4, IndexesSwitch, Zenon
  <2> HIDE DEF todo, diff
  <2>5. Resumes(t, todo, diff)
    BY <1>1, <1>3, <1>6, <1>8, <1>13, <2>1, <2>2, <2>3, Zenon DEF Resumes, Canonical
  <2>6. ASSUME ImportOnly', up' PROVE Indexing'
    <3>1. UNCHANGED <<block, header, receipts, txAt, rcptOf>> /\ Types
      BY <1>1, Zenon DEF Quiet, IInv
    <3> QED BY <1>9, <2>3, <2>4, <2>6, <3>1, ReindexMoves, Zenon
  <2>7. Indexing'
    BY <2>6, Zenon DEF Indexing
  <2> QED BY <2>5, <2>7, ResumesKeep, Zenon DEF IInv
<1>12. CASE Go(t, "idle") /\ UNCHANGED job
  <2>1. /\ pc \in [Threads -> Stages] /\ block \in [Threads -> Blocks]
        /\ localTd \in [Threads -> Blocks \cup {None}]
        /\ state \subseteq Blocks /\ receipts \subseteq Blocks /\ tdCache \subseteq Blocks
    BY Zenon DEF IInv, Types
  <2>2. /\ pc' \in [Threads -> Stages] /\ pc'[t] = "idle"
        /\ \A u \in Threads \ {t} : pc'[u] = pc[u]
    BY <1>12, <2>1, Zenon DEF Go, Stages
  <2>3. Outside(t)
    BY <1>1, <1>7, <1>12, <2>1, <2>2, Zenon DEF Outside, Quiet, job
  <2> QED BY <2>3, OutsideKeeps, Zenon
<1> QED BY <1>2, <1>10, <1>11, <1>12, Zenon

-----------------------------------------------------------------------------
(* A side block, and the end of WriteBlock.                                *)

\* Thread t starts with a side block or is done with bc.mu or with its block.
Turns(t) ==
  /\ Quiet
  /\ UNCHANGED <<at, branch, gone>>
  /\ pc' \in [Threads -> Stages] /\ phase' \in [Threads -> {"none", "reorg", "insert", "side"}]
  /\ rcptOf' \in [Txs -> Blocks \cup {None}] /\ txAt' = txAt
  /\ \A u \in Threads \ {t} : pc'[u] = pc[u] /\ phase'[u] = phase[u]
  /\ pc[t] \in {"lock", "stored", "rcpts"}
  /\ pc'[t] \in {"td", "txs", "idle", "blockRcpts"}
  /\ pc'[t] = "td" => phase'[t] = "side" /\ \A u \in Threads : ~Holds(u)
  /\ phase'[t] = "side" => pc'[t] = "td" /\ (ImportOnly => Td[block[t]] <= Td[current])
  /\ Control(t)'

\* Such a step keeps the invariant, the index apart.
LEMMA TurnsKeep ==
  ASSUME IInv, NEW t \in Threads, Turns(t)
  PROVE  /\ Types' /\ Mutex' /\ Fallen' /\ (\A u \in Threads : Control(u)')
         /\ Numbering' /\ Storing' /\ Heads' /\ Rooted' /\ Alone' /\ Weights'
<1>1. /\ Quiet /\ UNCHANGED <<at, branch, gone>>
      /\ \A u \in Threads \ {t} : pc'[u] = pc[u] /\ phase'[u] = phase[u]
      /\ pc[t] \in {"lock", "stored", "rcpts"}
      /\ pc'[t] \in {"td", "txs", "idle", "blockRcpts"}
  BY Zenon DEF Turns
<1>2. Types'
  BY Zenon DEF IInv, Types, Turns, Quiet
<1>3. /\ ~Inserting(t)' /\ (Holds(t)' => \A u \in Threads : ~Holds(u))
      /\ \A u \in Threads \ {t} : (Holds(u)' <=> Holds(u)) /\ (Inserting(u)' <=> Inserting(u))
  BY <1>1, Zenon DEF Turns, Holds, Inserting, MuStages
<1>4. Mutex' /\ Fallen' /\ Alone'
  BY <1>1, <1>3, Zenon DEF IInv, Mutex, Fallen, Alone, Quiet, ImportOnly, Threads
<1>5. ASSUME NEW u \in Threads \ {t} PROVE Control(u)'
  <2>1. block'[u] = block[u] /\ current' = current /\ (up' <=> up) /\ Control(u)
    BY <1>1, Zenon DEF IInv, Quiet
  <2> QED BY <1>1, <1>5, <2>1, Zenon DEF Control
<1>6. Control(t)'
  BY Zenon DEF Turns
<1>7. /\ Inserting(t) => /\ pc[t] = "stored" /\ phase[t] = "insert" /\ branch[t] = {}
                         /\ current = block[t] /\ block[t] \in header
                         /\ \A u \in Threads \ {t} : ~Inserting(u)
      /\ block[t] \in Blocks /\ current \in Blocks
  <2>1. Inserting(t) => pc[t] = "stored" /\ phase[t] \in {"reorg", "insert"}
    BY <1>1, Zenon DEF Inserting, Holds, MuStages
  <2>2. Inserting(t) => phase[t] = "insert" /\ branch[t] = {} /\ current = block[t]
    BY <2>1, Zenon DEF IInv, Control
  <2>3. Inserting(t) => block[t] \in header /\ \A u \in Threads \ {t} : ~Inserting(u)
    BY <2>1, Zenon DEF IInv, Storing, Mutex, Inserting
  <2>4. block[t] \in Blocks /\ current \in Blocks
    BY <1>1, Zenon DEF IInv, Types, Quiet
  <2> QED BY <2>1, <2>2, <2>3, <2>4, Zenon
<1>8. Numbering'
  <2>1. up' /\ crashes' = 0 /\ Inserting(t) => Canonical(current)
    BY <1>1, <1>7, Zenon DEF IInv, Numbering, Canonical, Quiet
  <2>2. up' /\ crashes' = 0 /\ (\A u \in Threads : ~Inserting(u)) => Canonical(current)
    BY <1>1, Zenon DEF IInv, Numbering, Quiet
  <2>3. up' /\ crashes' = 0 => \A u \in Threads \ {t} : Inserting(u) =>
          \A c \in AncestorsOf[block[u]] :
            c \in branch[u] \/ (c = at[u] /\ pc[u] = "canon") \/ canon[Number[c]] = c
    BY <1>1, Zenon DEF IInv, Numbering, Quiet
  <2>4. Canonical(current)' <=> Canonical(current)
    BY <1>1, Zenon DEF Canonical, Quiet
  <2> QED BY <1>1, <1>3, <2>1, <2>2, <2>3, <2>4, Zenon DEF Numbering, Quiet
<1>12. Storing'
  BY <1>1, ZenonT(60) DEF IInv, Storing, Quiet
<1>9. Rooted'
  <2>1. Rooted /\ (torn => torn') /\ UNCHANGED <<header, headBlock, current, block>> /\ up
    BY <1>1, Zenon DEF IInv, Quiet
  <2> QED BY <1>3, <2>1, RootedKept, Zenon
<1>10. Heads'
  <2>1. /\ Heads /\ up /\ UNCHANGED <<header, current, currentHeader, currentFast, block>>
    BY <1>1, Zenon DEF IInv, Quiet
  <2>2. ASSUME NEW h \in {current', currentHeader', currentFast'}
        PROVE  h \in header' \/ \E u \in Threads : Inserting(u)' /\ h = block'[u]
    <3>1. h \in {current, currentHeader, currentFast}
      BY <2>1, Zenon
    <3>2. h \in header \/ \E u \in Threads : Inserting(u) /\ h = block[u]
      BY <2>1, <3>1, Zenon DEF Heads
    <3>3. h \in header \/ \E u \in Threads : Inserting(u)' /\ h = block[u]
      BY <1>3, <1>7, <3>2, Zenon
    <3> QED BY <2>1, <3>3, Zenon
  <2>3. ASSUME NEW u \in Threads, Inserting(u)'
        PROVE  /\ branch'[u] \subseteq header' \cup {block'[u]}
               /\ pc'[u] \notin {"delRcpt", "delTx"} => at'[u] \in header' \cup {block'[u]}
    <3>1. u # t /\ Inserting(u) /\ pc'[u] = pc[u]
      BY <1>1, <1>3, <2>3, Zenon
    <3>2. /\ branch[u] \subseteq header \cup {block[u]}
          /\ pc[u] \notin {"delRcpt", "delTx"} => at[u] \in header \cup {block[u]}
      BY <2>1, <3>1, Zenon DEF Heads
    <3> QED BY <1>1, <2>1, <3>1, <3>2, Zenon
  <2> QED BY <2>2, <2>3, Zenon DEF Heads
<1>11. Weights'
  <2>1. ImportOnly' => ImportOnly /\ t = "import"
    BY <1>1, Zenon DEF IInv, Alone, ImportOnly, Quiet, Threads
  <2> QED BY <1>1, <1>3, <1>7, <2>1, Zenon DEF IInv, Weights, Turns, Quiet
<1> QED BY <1>2, <1>4, <1>5, <1>6, <1>8, <1>9, <1>10, <1>11, <1>12, Zenon

\* The lock is taken and the block stays off the canonical chain.
LEMMA LockSideKeeps ==
  ASSUME IInv, NEW t \in Threads, LockSide(t)
  PROVE  IInv'
<1>1. /\ Quiet /\ UNCHANGED <<at, branch, gone, txAt, rcptOf>> /\ pc[t] = "lock"
      /\ \A u \in Threads : ~Holds(u)
  BY Zenon DEF LockSide, Quiet, MuFree, Holds, db, hashes, stored, index, heads, counts
<1>2. /\ pc \in [Threads -> Stages] /\ phase \in [Threads -> {"none", "reorg", "insert", "side"}]
      /\ rcptOf \in [Txs -> Blocks \cup {None}]
  BY Zenon DEF IInv, Types
<1>3. /\ pc' \in [Threads -> Stages] /\ phase' \in [Threads -> {"none", "reorg", "insert", "side"}]
      /\ pc'[t] = "td" /\ phase'[t] = "side"
      /\ \A u \in Threads \ {t} : pc'[u] = pc[u] /\ phase'[u] = phase[u]
  BY <1>2, Zenon DEF LockSide, Go, Stages, MuStages
<1>4. phase[t] = "none" /\ branch[t] = {} /\ gone[t] = {} /\ block[t] # Genesis
  BY <1>1, Zenon DEF IInv, Control
<1>5. Control(t)'
  BY <1>1, <1>3, <1>4, Zenon DEF Control, Quiet
<1>6. ImportOnly => t = "import"
  BY <1>1, Zenon DEF IInv, Alone, Threads
<1>7. ImportOnly => Td[block[t]] <= Td[current]
  BY <1>1, <1>6, Zenon DEF IInv, Weights, LockSide, Quiet
<1>8. Turns(t)
  BY <1>1, <1>2, <1>3, <1>5, <1>7, Zenon DEF Turns
<1>9. Indexing'
  <2>0. SUFFICES ASSUME ImportOnly', up' PROVE Indexing'
    BY Zenon DEF Indexing
  <2>1. ImportOnly /\ up /\ t = "import" /\ UNCHANGED <<block, header, receipts, current>>
    BY <1>1, <1>6, <2>0, Zenon DEF Quiet, ImportOnly
  <2> QED BY <1>1, <1>3, <1>4, <2>1, Zenon DEF IInv, Indexing
<1> QED BY <1>8, <1>9, TurnsKeep, Zenon DEF IInv

\* bc.mu is released; the new head is still to be indexed.
LEMMA StoredKeeps ==
  ASSUME IInv, NEW t \in Threads, Stored(t)
  PROVE  IInv'
<1>1. /\ Quiet /\ UNCHANGED <<at, branch, gone, txAt, rcptOf>> /\ pc[t] = "stored"
  BY Zenon DEF Stored, Finish, Quiet, job, db, hashes, stored, index, heads, counts
<1>2. /\ pc \in [Threads -> Stages] /\ phase \in [Threads -> {"none", "reorg", "insert", "side"}]
      /\ rcptOf \in [Txs -> Blocks \cup {None}]
  BY Zenon DEF IInv, Types
<1>3. /\ pc' \in [Threads -> Stages] /\ phase' \in [Threads -> {"none", "reorg", "insert", "side"}]
      /\ \/ phase[t] = "insert" /\ pc'[t] = "txs" /\ phase'[t] = "insert"
         \/ /\ phase[t] = "side" /\ phase'[t] = "none"
            /\ pc'[t] = (IF t = "mine" THEN "blockRcpts" ELSE "idle")
      /\ \A u \in Threads \ {t} : pc'[u] = pc[u] /\ phase'[u] = phase[u]
  BY <1>2, Zenon DEF Stored, Finish, Go, job, Stages
<1>4. Control(t)
  BY Zenon DEF IInv
<1>5. Control(t)'
  <2>1. block'[t] = block[t] /\ up' /\ current' = current
    BY <1>1, Zenon DEF Quiet
  <2> QED BY <1>1, <1>3, <1>4, <2>1, Zenon DEF Control
<1>6. Turns(t)
  BY <1>1, <1>2, <1>3, <1>5, Zenon DEF Turns
<1>7. Indexing'
  <2>0. SUFFICES ASSUME ImportOnly', up' PROVE Indexing'
    BY Zenon DEF Indexing
  <2>1. ImportOnly /\ up /\ t = "import" /\ UNCHANGED <<block, header, receipts, current>>
    BY <1>1, <2>0, Zenon DEF IInv, Alone, Quiet, ImportOnly, Threads
  <2>2. phase[t] = "insert" => current = block[t]
    BY <1>1, <1>4, Zenon DEF Control
  <2> QED BY <1>1, <1>3, <2>1, <2>2, ZenonT(60) DEF IInv, Indexing
<1> QED BY <1>6, <1>7, TurnsKeep, Zenon DEF IInv

\* The receipts of the new head are indexed and InsertChain is done with it.
LEMMA WriteReceiptsKeeps ==
  ASSUME IInv, NEW t \in Threads, WriteReceipts(t)
  PROVE  IInv'
<1>1. /\ Quiet /\ UNCHANGED <<at, branch, gone, txAt>> /\ pc[t] = "rcpts"
      /\ rcptOf' = Indexed(rcptOf, block[t])
  BY Zenon DEF WriteReceipts, Finish, Quiet, hashes, stored, heads, rest, counts
<1>2. /\ pc \in [Threads -> Stages] /\ phase \in [Threads -> {"none", "reorg", "insert", "side"}]
      /\ rcptOf' \in [Txs -> Blocks \cup {None}] /\ block[t] \in Blocks
  BY <1>1, Zenon DEF IInv, Types, Indexed
<1>3. /\ pc' \in [Threads -> Stages] /\ phase' \in [Threads -> {"none", "reorg", "insert", "side"}]
      /\ phase'[t] = "none" /\ pc'[t] = (IF t = "mine" THEN "blockRcpts" ELSE "idle")
      /\ \A u \in Threads \ {t} : pc'[u] = pc[u] /\ phase'[u] = phase[u]
  BY <1>2, Zenon DEF WriteReceipts, Finish, Go, Stages
<1>4. phase[t] = "insert" /\ branch[t] = {} /\ gone[t] = {} /\ block[t] # Genesis
  BY <1>1, Zenon DEF IInv, Control
<1>5. Control(t)'
  BY <1>1, <1>3, <1>4, Zenon DEF Control, Quiet
<1>6. Turns(t)
  BY <1>1, <1>2, <1>3, <1>5, Zenon DEF Turns
<1>7. Indexing'
  <2>0. SUFFICES ASSUME ImportOnly', up' PROVE Indexing'
    BY Zenon DEF Indexing
  <2>1. ImportOnly /\ up /\ t = "import" /\ UNCHANGED <<block, header, receipts, current>>
    BY <1>1, <2>0, Zenon DEF IInv, Alone, Quiet, ImportOnly, Threads
  <2>2. /\ Indexes(rcptOf, block[t], {block[t]}, {}) /\ Indexes(txAt, block[t], {}, {})
        /\ current = block[t] /\ header \subseteq receipts
    BY <1>1, <1>4, <2>1, Zenon DEF IInv, Indexing
  <2>3. block[t] \in AncestorsOf[block[t]]
    BY <1>2, AncestorFacts, Zenon DEF Linear
  <2>4. Indexes(rcptOf', block[t], {}, {})
    BY <1>1, <1>2, <2>2, <2>3, IndexedFits, Zenon
  <2> QED BY <1>1, <1>3, <2>1, <2>2, <2>4, Zenon DEF Indexing
<1> QED BY <1>6, <1>7, TurnsKeep, Zenon DEF IInv

-----------------------------------------------------------------------------
(* Crash, panic, restart and SetHead.                                      *)

\* What a process that goes down leaves in the database.
Left ==
  /\ canon' \in [Numbers -> Blocks \cup {None}]
  /\ headBlock' \in Blocks /\ headHeader' \in Blocks /\ headFast' \in Blocks
  /\ header' \subseteq header /\ body' \subseteq body /\ td' \subseteq td
  /\ header' \subseteq body' \cap td' /\ Genesis \in header'
  /\ ~torn' /\ headBlock' \in header' => AncestorsOf[headBlock'] \subseteq header'
  /\ UNCHANGED <<state, receipts, txAt, rcptOf>>

\* What the invariant asks of the database is left when it does not change.
LEMMA LeftAlone ==
  ASSUME IInv, UNCHANGED <<db, torn>>
  PROVE  Left
<1>1. Types /\ Storing /\ Rooted
  BY Zenon DEF IInv
<1>2. /\ UNCHANGED <<canon, headBlock, headHeader, headFast, header, body, td, state, receipts,
                     txAt, rcptOf>>
      /\ torn => torn'
  BY Zenon DEF db, hashes, stored, index
<1>3. /\ canon \in [Numbers -> Blocks \cup {None}]
      /\ headBlock \in Blocks /\ headHeader \in Blocks /\ headFast \in Blocks
  BY <1>1, Zenon DEF Types
<1>4. header \subseteq body \cap td /\ Genesis \in header
  BY <1>1, Zenon DEF Storing
<1>5. ~torn' /\ headBlock \in header => AncestorsOf[headBlock] \subseteq header
  BY <1>1, <1>2, Zenon DEF Rooted
<1> QED BY <1>2, <1>3, <1>4, <1>5, Zenon DEF Left

\* Going down leaves the types as they are.
LEMMA DownTypes ==
  ASSUME NEW where \in [Threads -> Stages], Types, Down(where), Left, crashes' \in Nat
  PROVE  Types'
<1>1. /\ phase' \in [Threads -> {"none", "reorg", "insert", "side"}]
      /\ at' \in [Threads -> Blocks] /\ block' \in [Threads -> Blocks]
      /\ localTd' \in [Threads -> Blocks \cup {None}]
  BY BlockFacts, Zenon DEF Down
<1>2. branch' \in [Threads -> SUBSET Blocks] /\ gone' \in [Threads -> SUBSET Txs]
  BY Zenon DEF Down
<1>3. ~up' /\ up' \in BOOLEAN
  BY Zenon DEF Down
<1>4. pc' = where /\ tdCache' = {} /\ UNCHANGED <<mined, rewinds>>
  BY Zenon DEF Down
<1>5. header' \subseteq Blocks /\ body' \subseteq Blocks /\ td' \subseteq Blocks
  BY Zenon DEF Types, Left
<1> QED BY <1>1, <1>2, <1>3, <1>4, <1>5, Zenon DEF Types, Left

\* Going down keeps what the database must satisfy; memory is gone.
LEMMA DownKeeps ==
  ASSUME IInv, NEW where \in [Threads -> {"idle", "panic"}], Down(where), Left, crashes' \in Nat,
         crashes' > 0 \/ \E u \in Threads : where[u] = "panic",
         where["mine"] = "panic" => ~ImportOnly'
  PROVE  IInv'
<1>1. where \in [Threads -> Stages]
  BY Zenon DEF Stages
<1>2. Types'
  BY <1>1, DownTypes, Zenon DEF IInv
<1>3. /\ ~up' /\ UNCHANGED <<rewinds, mined>>
      /\ \A u \in Threads :
           /\ pc'[u] = where[u] /\ pc'[u] \in {"idle", "panic"} /\ phase'[u] = "none"
           /\ branch'[u] = {} /\ gone'[u] = {}
  BY Zenon DEF Down
<1>4. \A u \in Threads : ~Holds(u)' /\ ~Inserting(u)'
  BY <1>3, Zenon DEF Holds, Inserting, MuStages
<1>5. Mutex' /\ Fallen' /\ Numbering' /\ Heads' /\ Weights' /\ Indexing'
  BY <1>3, <1>4, ZenonT(60) DEF Mutex, Fallen, Numbering, Heads, Weights, Indexing
<1>6. \A u \in Threads : Control(u)'
  BY <1>3, ZenonT(30) DEF Control
<1>7. Storing' /\ Rooted'
  <2>1. header \subseteq state /\ header' \subseteq header /\ state' = state
    BY Zenon DEF IInv, Storing, Left
  <2>2. Storing'
    BY <1>3, <2>1, Zenon DEF Storing, Left
  <2>3. Rooted'
    BY <1>3, <1>4, Zenon DEF Rooted, Left
  <2> QED BY <2>2, <2>3, Zenon
<1>8. Alone'
  BY <1>3, Zenon DEF Alone, Threads
<1> QED BY <1>2, <1>5, <1>6, <1>7, <1>8, Zenon DEF IInv

\* The process may end between any two writes.
LEMMA CrashKeeps ==
  ASSUME IInv, Crash
  PROVE  IInv'
<1>1. crashes \in Nat
  BY Zenon DEF IInv, Types
<1>2. crashes' \in Nat /\ crashes' > 0
  BY <1>1 DEF Crash
<1> DEFINE where == [u \in Threads |-> "idle"]
<1>3. where \in [Threads -> {"idle", "panic"}] /\ where["mine"] = "idle" /\ Down(where)
  BY Zenon DEF Crash, Threads
<1>4. Left
  BY LeftAlone, Zenon DEF Crash
<1> HIDE DEF where
<1> QED BY <1>2, <1>3, <1>4, DownKeeps, Zenon

\* A thread that finds no total difficulty for the head panics.
LEMMA LockPanicKeeps ==
  ASSUME IInv, NEW t \in Threads, LockPanic(t)
  PROVE  IInv'
<1>1. crashes' \in Nat
  BY Zenon DEF IInv, Types, LockPanic
<1>2. pc[t] = "lock" /\ up
  BY Zenon DEF LockPanic
<1>3. t = "mine" => ~ImportOnly'
  BY <1>2, Zenon DEF IInv, Alone, LockPanic, Down, ImportOnly
<1> DEFINE where == [x \in Threads |-> IF x = t THEN "panic" ELSE "idle"]
<1>4. /\ where \in [Threads -> {"idle", "panic"}] /\ where[t] = "panic"
      /\ where["mine"] = "panic" => t = "mine"
  BY Zenon DEF Threads
<1>5. Down(where)
  BY Zenon DEF LockPanic
<1>6. Left
  BY LeftAlone, Zenon DEF LockPanic
<1> HIDE DEF where
<1> QED BY <1>1, <1>3, <1>4, <1>5, <1>6, DownKeeps, Zenon

\* Every thread is idle when the node starts again, and it crashed before.
LEMMA RestartKeeps ==
  ASSUME IInv, Restart
  PROVE  IInv'
<1>1. /\ ~up /\ up'
      /\ UNCHANGED <<canon, header, body, td, state, receipts, txAt, rcptOf, tdCache, pc, block,
                     localTd, phase, at, branch, gone, mined, torn, crashes, rewinds>>
  BY Zenon DEF Restart, stored, index, threads, job, counts
<1>2. \A u \in Threads : pc[u] = "idle"
  BY <1>1, Zenon DEF IInv, Control, Restart
<1>3. \A u \in Threads : ~Holds(u)' /\ ~Inserting(u)' /\ Control(u)
  BY <1>1, <1>2, Zenon DEF IInv, Holds, Inserting, MuStages
<1>4. crashes \in Nat /\ rewinds \in Nat /\ crashes > 0
  BY <1>1, <1>2, Zenon DEF IInv, Types, Fallen
<1>5. /\ headBlock' \in Blocks /\ headHeader' \in Blocks /\ headFast' \in Blocks
      /\ {current', currentHeader', currentFast'} \subseteq header /\ header \subseteq Blocks
  BY BlockFacts, ZenonT(60) DEF Restart, Has, hashes, IInv, Types, Storing
<1>6. up' \in BOOLEAN
  BY <1>1, Zenon DEF Restart
<1>7. Types'
  BY <1>1, <1>5, <1>6, ZenonT(60) DEF IInv, Types
<1>8. Mutex' /\ Fallen' /\ Alone' /\ \A u \in Threads : Control(u)'
  <2>1. Mutex'
    BY <1>3, Zenon DEF Mutex
  <2>2. Fallen' /\ Alone'
    BY <1>1, <1>2, Zenon DEF Fallen, Alone, Threads
  <2>3. ASSUME NEW u \in Threads PROVE Control(u)'
    BY <1>1, <1>2, <1>3, Zenon DEF Control
  <2> QED BY <2>1, <2>2, <2>3, Zenon
<1>9. Storing' /\ Rooted'
  <2>1. Storing'
    BY <1>1, Zenon DEF IInv, Storing
  <2>2. headBlock' = current' /\ (headBlock' = headBlock \/ headBlock' = Genesis)
    <3>1. CASE Has(headBlock)
      <4>1. current' = headBlock /\ UNCHANGED hashes
        BY <3>1, Zenon DEF Restart
      <4>2. headBlock' = headBlock
        BY <4>1, Zenon DEF hashes
      <4> QED BY <4>1, <4>2, Zenon
    <3>2. CASE ~Has(headBlock)
      BY <3>2, Zenon DEF Restart
    <3> QED BY <3>1, <3>2, Zenon
  <2>3. Rooted /\ (torn => torn') /\ header' = header /\ Genesis \in header
    BY <1>1, Zenon DEF IInv, Storing
  <2>4. ~torn' /\ headBlock' \in header' => AncestorsOf[headBlock'] \subseteq header'
    BY <2>2, <2>3, BlockFacts, Zenon DEF Rooted
  <2> QED BY <1>3, <2>1, <2>2, <2>4, Zenon DEF Rooted
<1>10. Heads'
  BY <1>1, <1>3, <1>5, ZenonT(60) DEF Heads
<1>11. Numbering' /\ Weights' /\ Indexing'
  <2>1. crashes' # 0 /\ crashes' + rewinds' # 0
    BY <1>1, <1>4, SMT
  <2>2. ~ImportOnly'
    BY <2>1, Zenon DEF ImportOnly
  <2> QED BY <2>1, <2>2, Zenon DEF Numbering, Weights, Indexing
<1> QED BY <1>7, <1>8, <1>9, <1>10, <1>11, Zenon DEF IInv

\* SetHead deletes blocks with a number above n.
LEMMA RewoundFacts ==
  ASSUME NEW n \in Numbers, current \in Blocks, currentHeader \in Blocks, currentFast \in Blocks
  PROVE  Rewound(n) \in SUBSET Blocks /\ \A b \in Rewound(n) : Number[b] > n
<1>1. \A b \in Blocks : \A S : Visited(b, n, S) \subseteq {c \in Blocks : Number[c] > n}
  BY BlockFacts, Zenon DEF Visited, Above
<1> QED BY <1>1, Zenon DEF Rewound

\* The numbers stay numbers of blocks.
LEMMA RenumberedType ==
  ASSUME NEW n \in Numbers, Types
  PROVE  Renumbered(n) \in [Numbers -> Blocks \cup {None}]
<1>1. canon \in [Numbers -> Blocks \cup {None}]
  BY ZenonT(60) DEF Types
<1> QED BY <1>1, Zenon DEF Renumbered

\* A walk of SetHead ends at a block of S with a number up to n, or at the genesis block.
LEMMA LandingFacts ==
  ASSUME NEW b \in Blocks, NEW n \in Numbers, NEW S
  PROVE  /\ Landing(b, n, S) \in AncestorsOf[b]
         /\ \/ Landing(b, n, S) = b /\ Number[b] <= n
            \/ Landing(b, n, S) \in S /\ Number[Landing(b, n, S)] = n
            \/ Landing(b, n, S) = Genesis
<1>1. n \in Nat /\ Number[b] \in Nat
  BY BlockFacts, Zenon
<1>2. b \in AncestorsOf[b] /\ Genesis \in AncestorsOf[b]
  BY AncestorFacts, Zenon DEF Linear
<1>3. Number[b] > n => AncestorAt(b, n) \in AncestorsOf[b] /\ Number[AncestorAt(b, n)] = n
  <2>1. Number[b] > n => n \in 0..Number[b]
    BY <1>1, SMT
  <2> QED BY <2>1, AncestorAtFacts, Zenon
<1>4. Number[b] <= n \/ Number[b] > n
  BY <1>1, SMT
<1> QED BY <1>2, <1>3, <1>4, Zenon DEF Landing

\* The chain below the end of a walk has numbers up to n.
LEMMA LandingLow ==
  ASSUME NEW b \in Blocks, NEW n \in Numbers, NEW S
  PROVE  /\ Landing(b, n, S) \in Blocks
         /\ \A c \in AncestorsOf[Landing(b, n, S)] : c \in AncestorsOf[b] /\ ~(Number[c] > n)
<1> DEFINE l == Landing(b, n, S)
<1>1. /\ l \in AncestorsOf[b]
      /\ \/ l = b /\ Number[b] <= n
         \/ Number[l] = n
         \/ l = Genesis
  BY LandingFacts, Zenon
<1> HIDE DEF l
<1>2. l \in Blocks /\ Number[l] \in Nat /\ n \in Nat /\ Number[Genesis] = 0
  BY <1>1, BlockFacts, Zenon
<1>3. Number[l] <= n
  <2>1. CASE l = b /\ Number[b] <= n BY <2>1, Zenon
  <2>2. CASE Number[l] = n BY <1>2, <2>2, SMT
  <2>3. CASE l = Genesis BY <1>2, <2>3, SMT
  <2> QED BY <1>1, <2>1, <2>2, <2>3, Zenon
<1>4. ASSUME NEW c \in AncestorsOf[l] PROVE c \in AncestorsOf[b] /\ ~(Number[c] > n)
  <2>1. c \in AncestorsOf[b] /\ Number[c] <= Number[l]
    BY <1>1, <1>2, AncestorFacts, Zenon DEF Linear
  <2>2. Number[c] \in Nat
    BY <1>2, BlockFacts, Zenon
  <2>3. \A x, y, z \in Nat : x <= y /\ y <= z => ~(x > z)
    BY SMT
  <2> QED BY <1>2, <1>3, <2>1, <2>2, <2>3, Zenon
<1> QED BY <1>2, <1>4, Zenon DEF l

\* SetHead leaves each head at a block of its chain that is still stored.
LEMMA SetHeadKeeps ==
  ASSUME IInv, NEW n \in Numbers, SetHead(n)
  PROVE  IInv'
<1>1. /\ up /\ up'
      /\ UNCHANGED <<state, receipts, txAt, rcptOf, tdCache, pc, block, localTd, phase, at, branch,
                     gone, mined, torn, crashes>>
      /\ \A u \in Threads : ~Holds(u)
  BY Zenon DEF SetHead, MuFree, Holds, index, threads, job
<1>2. PICK drop \in SUBSET Blocks :
        /\ \A b \in drop : Number[b] > n
        /\ header' = header \ drop /\ body' = body \ drop /\ td' = td \ drop
  <2>1. current \in Blocks /\ currentHeader \in Blocks /\ currentFast \in Blocks
    BY <1>1, Zenon DEF IInv, Types
  <2> QED BY <2>1, RewoundFacts, Zenon DEF SetHead
<1>3. /\ current' = Landing(current, n, header \cap body)
      /\ currentHeader' = Landing(currentHeader, n, header)
      /\ currentFast' = Landing(currentFast, n, header \cap body)
      /\ headBlock' = current' /\ headHeader' = currentHeader' /\ headFast' = currentFast'
  BY Zenon DEF SetHead
<1>4. /\ canon' = [i \in Numbers |->
           IF i > n /\ (\E b \in {current, currentHeader, currentFast} : i <= Number[b])
             THEN None ELSE canon[i]]
      /\ rewinds' = rewinds + 1
  BY Zenon DEF SetHead, Renumbered
<1>5. /\ n \in Nat /\ Genesis \in header /\ Number[Genesis] = 0 /\ Genesis \in Blocks
      /\ header \subseteq Blocks
  BY BlockFacts, Zenon DEF IInv, Types, Storing
<1>6. \A u \in Threads : ~Inserting(u) /\ ~Inserting(u)' /\ ~Holds(u)'
  BY <1>1, Zenon DEF Inserting, Holds
<1>7. {current, currentHeader, currentFast} \subseteq header
  BY <1>1, <1>6, Zenon DEF IInv, Heads
<1>8. ASSUME NEW b \in header, NEW S \in SUBSET header
      PROVE  Landing(b, n, S) \in header'
  <2>1. b \in Blocks
    BY <1>5, Zenon
  <2>2. Landing(b, n, S) \in header /\ Number[Landing(b, n, S)] <= n
    <3>1. \A x \in Nat : x <= x /\ 0 <= x
      BY SMT
    <3> QED BY <1>5, <2>1, <3>1, LandingFacts, Zenon
  <2>3. Number[Landing(b, n, S)] \in Nat
    BY <1>5, <2>2, BlockFacts, Zenon
  <2>4. \A x, y \in Nat : x <= y => ~(x > y)
    BY SMT
  <2>5. Landing(b, n, S) \notin drop
    BY <1>2, <1>5, <2>2, <2>3, <2>4, Zenon
  <2> QED BY <1>2, <2>2, <2>5, Zenon
<1>9. {current', currentHeader', currentFast'} \subseteq header'
  <2> DEFINE S == header \cap body
  <2>1. S \in SUBSET header /\ header \in SUBSET header
    BY Zenon
  <2>2. current' = Landing(current, n, S) /\ currentFast' = Landing(currentFast, n, S)
    BY <1>3, Zenon
  <2> HIDE DEF S
  <2>3. current' \in header' /\ currentFast' \in header'
    BY <1>7, <1>8, <2>1, <2>2, Zenon
  <2>4. currentHeader' \in header'
    BY <1>3, <1>7, <1>8, <2>1, Zenon
  <2> QED BY <2>3, <2>4, Zenon
<1>10. rewinds' \in Nat /\ rewinds' > 0 /\ crashes' \in Nat
  <2>1. rewinds \in Nat /\ crashes \in Nat
    BY Zenon DEF IInv, Types
  <2> QED BY <1>1, <1>4, <2>1, SMT
<1>11. canon' \in [Numbers -> Blocks \cup {None}]
  <2>1. canon \in [Numbers -> Blocks \cup {None}]
    BY ZenonT(60) DEF IInv, Types
  <2> QED BY <1>4, <2>1, Zenon
<1>12. Types'
  <2>1. header' \subseteq Blocks /\ body' \subseteq Blocks /\ td' \subseteq Blocks
    BY <1>2, Zenon DEF IInv, Types
  <2>2. /\ current' \in Blocks /\ currentHeader' \in Blocks /\ currentFast' \in Blocks
        /\ headBlock' \in Blocks /\ headHeader' \in Blocks /\ headFast' \in Blocks
    BY <1>3, <1>9, <2>1, Zenon
  <2>3. Types /\ up' \in BOOLEAN
    BY <1>1, Zenon DEF IInv
  <2> QED BY <1>1, <1>10, <1>11, <2>1, <2>2, <2>3, Zenon DEF Types
<1>13. Mutex' /\ Fallen' /\ Heads' /\ Rooted'
  <2>1. Mutex'
    BY <1>6, Zenon DEF Mutex
  <2>2. Fallen'
    BY <1>1, Zenon DEF Fallen
  <2>3. Heads'
    BY <1>6, <1>9, Zenon DEF Heads
  <2>4. ASSUME ~torn' PROVE AncestorsOf[headBlock'] \subseteq header'
    <3>1. AncestorsOf[current] \subseteq header /\ current \in Blocks
      BY <1>1, <1>5, <1>7, <2>4, Zenon DEF IInv, Rooted
    <3>2. headBlock' = Landing(current, n, header \cap body)
      BY <1>3, Zenon
    <3>3. \A c \in AncestorsOf[headBlock'] : c \in header /\ ~(Number[c] > n)
      BY <3>1, <3>2, LandingLow, Zenon
    <3> QED BY <1>2, <3>3, Zenon
  <2>5. Rooted'
    BY <1>3, <1>6, <2>4, Zenon DEF Rooted
  <2> QED BY <2>1, <2>2, <2>3, <2>5, Zenon
<1>14. Alone' /\ Weights' /\ Indexing'
  <2>1. \A i, j \in Nat : j > 0 => i + j # 0
    OBVIOUS
  <2>2. ~ImportOnly'
    BY <1>10, <2>1, Zenon DEF ImportOnly
  <2> QED BY <2>2, Zenon DEF Alone, Weights, Indexing
<1>15. ASSUME NEW u \in Threads PROVE Control(u)'
  <2>1. Control(u) /\ pc[u] \notin MuStages
    BY <1>1, Zenon DEF IInv, Holds
  <2> QED BY <1>1, <2>1, Zenon DEF Control, MuStages
<1>16. Storing'
  <2>1. Genesis \notin drop
    BY <1>2, <1>5, SMTT(60)
  <2>2. \A u \in Threads : pc[u] \notin MuStages
    BY <1>1, Zenon DEF Holds
  <2> QED BY <1>1, <1>2, <2>1, <2>2, ZenonT(60) DEF IInv, Storing, MuStages
<1>17. Numbering'
  <2>1. ASSUME crashes = 0, NEW c \in AncestorsOf[current'] PROVE canon'[Number[c]] = c
    <3>1. /\ current \in Blocks /\ current' \in AncestorsOf[current] /\ current' \in Blocks
          /\ Number[current'] \in Nat /\ Number[current'] <= n
      <4> DEFINE S == header \cap body
      <4>1. current \in Blocks /\ current' = Landing(current, n, S) /\ S \subseteq Blocks
            /\ S \subseteq header
        BY <1>3, <1>5, <1>7, Zenon
      <4> HIDE DEF S
      <4>2. /\ current' \in AncestorsOf[current]
            /\ \/ current' = current /\ Number[current] <= n
               \/ Number[current'] = n \/ current' = Genesis
        BY <4>1, LandingFacts, Zenon
      <4>3. current' \in Blocks /\ Number[current'] \in Nat
        BY <4>1, <4>2, BlockFacts, Zenon
      <4>4. Number[current'] <= n
        <5>1. CASE current' = current /\ Number[current] <= n
          BY <5>1, Zenon
        <5>2. CASE Number[current'] = n
          BY <1>5, <5>2, SMT
        <5>3. CASE current' = Genesis
          BY <1>5, <5>3, SMT
        <5> QED BY <4>2, <5>1, <5>2, <5>3, Zenon
      <4> QED BY <4>1, <4>2, <4>3, <4>4, Zenon
    <3>2. c \in AncestorsOf[current] /\ Number[c] <= Number[current'] /\ c \in Blocks
      BY <3>1, AncestorFacts, BlockFacts, Zenon DEF Linear
    <3>3. Number[c] \in Nat /\ Number[c] \in Numbers
      BY <3>2, BlockFacts, Zenon
    <3>4. canon[Number[c]] = c
      BY <1>1, <1>6, <2>1, <3>2, Zenon DEF IInv, Numbering, Canonical
    <3>5. ~(Number[c] > n)
      BY <1>5, <3>1, <3>2, <3>3, SMTT(60)
    <3> QED BY <1>4, <3>3, <3>4, <3>5, Zenon
  <2> QED BY <1>1, <1>6, <2>1, ZenonT(60) DEF Numbering, Canonical
<1> QED BY <1>12, <1>13, <1>14, <1>15, <1>16, <1>17, Zenon DEF IInv

\* A crash inside SetHead leaves a database that the next start can use.
LEMMA SetHeadCutKeeps ==
  ASSUME IInv, NEW n \in Numbers, SetHeadCut(n)
  PROVE  IInv'
<1>1. /\ up /\ UNCHANGED <<state, receipts, txAt, rcptOf>> /\ \A u \in Threads : ~Holds(u)
  BY Zenon DEF SetHeadCut, MuFree, Holds, index
<1>2. /\ Types /\ Storing /\ Rooted /\ Heads
      /\ current \in Blocks /\ currentHeader \in Blocks /\ currentFast \in Blocks
      /\ headBlock \in Blocks /\ headHeader \in Blocks /\ headFast \in Blocks
  BY <1>1, Zenon DEF IInv, Types
<1>3. Rewound(n) \in SUBSET Blocks /\ (\A b \in Rewound(n) : Number[b] > n)
  BY <1>2, RewoundFacts, Zenon
<1>4. \A m \in Numbers : Renumbered(m) \in [Numbers -> Blocks \cup {None}]
  BY <1>2, RenumberedType, Zenon
<1>5. header \subseteq body \cap td /\ Genesis \in header /\ Genesis \notin Rewound(n)
  <2>1. ~(0 > n)
    <3>1. n \in Nat BY BlockFacts, Zenon
    <3> QED BY <3>1, SMT
  <2> QED BY <1>2, <1>3, <2>1, BlockFacts, Zenon DEF Storing
<1>6. ASSUME NEW m \in Numbers, canon' = Renumbered(m), UNCHANGED <<hashes, stored, torn>>
      PROVE  Left
  <2>1. /\ UNCHANGED <<headBlock, headHeader, headFast, header, body, td>> /\ (torn => torn')
        /\ canon' \in [Numbers -> Blocks \cup {None}]
    <3>1. UNCHANGED hashes /\ UNCHANGED stored /\ UNCHANGED torn
      BY <1>6, Zenon
    <3>2. UNCHANGED <<headBlock, headHeader, headFast>>
      BY <3>1, Zenon DEF hashes
    <3>3. UNCHANGED <<header, body, td>>
      BY <3>1, Zenon DEF stored
    <3>4. torn => torn'
      BY <3>1, Zenon
    <3> QED BY <1>4, <1>6, <3>2, <3>3, <3>4, Zenon
  <2>2. ~torn' /\ headBlock \in header => AncestorsOf[headBlock] \subseteq header
    BY <1>2, <2>1, Zenon DEF Rooted
  <2> QED BY <1>1, <1>2, <1>5, <2>1, <2>2, Zenon DEF Left
<1>7. ASSUME canon' = Renumbered(n),
             \E H \in (SUBSET Rewound(n)) \ {{}} : \E B \in SUBSET H : \E T \in SUBSET B :
               /\ Cardinality(H \ T) <= 1
               /\ header' = header \ H /\ body' = body \ B /\ td' = td \ T,
             torn' = TRUE, UNCHANGED hashes
      PROVE  Left
  <2>1. PICK H \in SUBSET Rewound(n) : \E B \in SUBSET H : \E T \in SUBSET B :
          header' = header \ H /\ body' = body \ B /\ td' = td \ T
    BY <1>7, Zenon
  <2>2. PICK B \in SUBSET H : \E T \in SUBSET B :
          header' = header \ H /\ body' = body \ B /\ td' = td \ T
    BY <2>1, Zenon
  <2>3. PICK T \in SUBSET B : header' = header \ H /\ body' = body \ B /\ td' = td \ T
    BY <2>2, Zenon
  <2>4. /\ header' \subseteq header /\ body' \subseteq body /\ td' \subseteq td
        /\ header' \subseteq body' \cap td' /\ Genesis \in header'
    BY <1>5, <2>3, Zenon
  <2>5. /\ UNCHANGED <<headBlock, headHeader, headFast>> /\ torn'
        /\ canon' \in [Numbers -> Blocks \cup {None}]
    BY <1>4, <1>7, Zenon DEF hashes
  <2> QED BY <1>1, <1>2, <2>4, <2>5, Zenon DEF Left
<1>8. ASSUME canon' = Renumbered(n),
             header' = header \ Rewound(n), body' = body \ Rewound(n), td' = td \ Rewound(n),
             headBlock' = Landing(current, n, header \cap body),
             headHeader' \in {headHeader, Landing(currentHeader, n, header)},
             UNCHANGED <<headFast, torn>>
      PROVE  Left
  <2>1. /\ header' \subseteq header /\ body' \subseteq body /\ td' \subseteq td
        /\ header' \subseteq body' \cap td' /\ Genesis \in header'
    BY <1>5, <1>8, Zenon
  <2>2. /\ headBlock' \in Blocks /\ headHeader' \in Blocks /\ headFast' \in Blocks
        /\ canon' \in [Numbers -> Blocks \cup {None}] /\ (torn => torn')
    BY <1>2, <1>4, <1>8, LandingLow, Zenon
  <2>3. ASSUME ~torn' PROVE AncestorsOf[headBlock'] \subseteq header'
    <3>1. current \in header
      BY <1>1, <1>2, Zenon DEF Heads, Inserting
    <3>2. AncestorsOf[current] \subseteq header
      BY <1>1, <1>2, <2>2, <2>3, <3>1, Zenon DEF Rooted
    <3>3. \A c \in AncestorsOf[headBlock'] : c \in header /\ ~(Number[c] > n)
      BY <1>2, <1>8, <3>2, LandingLow, Zenon
    <3> QED BY <1>3, <1>8, <3>3, Zenon
  <2> QED BY <1>1, <2>1, <2>2, <2>3, Zenon DEF Left
<1>9. Left
  BY <1>6, <1>7, <1>8, Zenon DEF SetHeadCut
<1>10. crashes' \in Nat /\ crashes' > 0
  <2>1. crashes \in Nat /\ crashes' = crashes + 1
    BY <1>2, Zenon DEF Types, SetHeadCut
  <2> QED BY <2>1, SMT
<1> DEFINE where == [u \in Threads |-> "idle"]
<1>11. where \in [Threads -> {"idle", "panic"}] /\ where["mine"] = "idle" /\ Down(where)
  BY Zenon DEF SetHeadCut, Threads
<1> HIDE DEF where
<1> QED BY <1>9, <1>10, <1>11, DownKeeps, Zenon

\* A step that changes none of the variables the invariant is about.
LEMMA StillKeeps ==
  ASSUME IInv, UNCHANGED <<db, heads, tdCache, threads, up, counts>>
  PROVE  IInv'
<1>1. UNCHANGED <<canon, headBlock, headHeader, headFast, header, body, td, state, receipts, txAt,
                  rcptOf, current, currentHeader, currentFast, tdCache, pc, block, localTd,
                  phase, at, branch, gone, mined, torn, crashes, rewinds>>
  BY Zenon DEF db, hashes, stored, index, heads, threads, job, counts
<1>2. up' <=> up
  BY Zenon
<1>3. (up \in BOOLEAN => up' \in BOOLEAN) /\ Turn("import")' = Turn("import")
  BY <1>1, ZenonT(60) DEF Turn
<1>4. Types'
  BY <1>1, <1>2, <1>3, Zenon DEF IInv, Types
<1>5. \A u \in Threads : (Holds(u)' <=> Holds(u)) /\ (Inserting(u)' <=> Inserting(u))
  BY <1>1, Zenon DEF Holds, Inserting
<1>6. Mutex' /\ Fallen' /\ Alone' /\ (ImportOnly' <=> ImportOnly)
  BY <1>1, <1>2, <1>5, ZenonT(60) DEF IInv, Mutex, Fallen, Alone, ImportOnly
<1>7. \A u \in Threads : Control(u)'
  BY <1>1, <1>2, ZenonT(30) DEF IInv, Control
<1>8. Numbering'
  BY <1>1, <1>2, <1>5, Zenon DEF IInv, Numbering, Canonical
<1>13. Storing'
  BY <1>1, ZenonT(60) DEF IInv, Storing
<1>9. Rooted'
  <2>1. Rooted /\ (torn => torn')
    BY <1>1, Zenon DEF IInv
  <2> QED BY <1>1, <1>2, <1>5, <2>1, RootedKept, Zenon
<1>10. Heads'
  <2>1. Heads
    BY Zenon DEF IInv
  <2> QED BY <1>1, <1>2, <1>5, <2>1, HeadsKept, Zenon
<1>11. Weights'
  BY <1>1, <1>2, <1>5, <1>6, ZenonT(60) DEF IInv, Weights, Threads
<1>12. Indexing'
  BY <1>1, <1>2, <1>3, <1>6, Zenon DEF IInv, Indexing
<1> QED BY <1>4, <1>6, <1>7, <1>8, <1>9, <1>10, <1>11, <1>12, <1>13, Together, Zenon

-----------------------------------------------------------------------------
(* The theorems.                                                          *)

\* The genesis database satisfies the invariant.
LEMMA InitInv == Init => IInv
<1> SUFFICES ASSUME Init PROVE IInv
  BY Zenon
<1>1. /\ \A t \in Threads : /\ pc[t] = "idle" /\ phase[t] = "none" /\ block[t] = Genesis
                            /\ branch[t] = {} /\ gone[t] = {}
      /\ "import" \in Threads /\ "mine" \in Threads
  BY Zenon DEF Init, Threads
<1>2. Types
  BY BlockFacts, ChainAssumption, Zenon DEF Init, Types, Stages, Numbers
<1>3. \A t \in Threads : ~Holds(t) /\ ~Inserting(t)
  BY <1>1, Zenon DEF Holds, Inserting, MuStages
<1>4. Mutex /\ Fallen /\ \A t \in Threads : Control(t)
  BY <1>1, <1>3, Zenon DEF Init, Mutex, Fallen, Control
<1>5. Numbering /\ Rooted
  <2>1. Numbering
    BY <1>1, <1>3, BlockFacts, Zenon DEF Init, Numbering, Canonical
  <2>2. Rooted
    BY <1>3, BlockFacts, Zenon DEF Init, Rooted
  <2> QED BY <2>1, <2>2, Zenon
<1>6. Storing /\ Heads
  BY <1>1, <1>3, ZenonT(60) DEF Init, Storing, Heads
<1>7. Alone /\ Weights
  <2>1. Td[Genesis] \in Nat
    BY BlockFacts, Zenon
  <2>2. \A b \in header : Td[b] <= Td[current]
    <3>1. header = {Genesis} /\ current = Genesis
      BY Zenon DEF Init
    <3>2. Td[Genesis] <= Td[Genesis]
      BY <2>1, SMT
    <3> QED BY <3>1, <3>2, Zenon
  <2> QED BY <1>1, <1>3, <2>2, Zenon DEF Alone, Weights
<1>8. Indexing
  <2>1. Indexes(txAt, Genesis, {}, {}) /\ Indexes(rcptOf, Genesis, {}, {})
    BY BlockFacts, ChainAssumption, Zenon DEF Init, Indexes
  <2> QED BY <1>1, <2>1, Zenon DEF Init, Indexing
<1> QED BY <1>2, <1>4, <1>5, <1>6, <1>7, <1>8, Zenon DEF IInv

\* Every step keeps the invariant, action by action.
LEMMA NextInv == IInv /\ [Next]_vars => IInv'
<1> SUFFICES ASSUME IInv, [Next]_vars PROVE IInv'
  BY Zenon
<1>1. ASSUME NEW b \in Blocks, InsertQueued(b) PROVE IInv'
  BY <1>1, StillKeeps, Zenon DEF InsertQueued
<1>2. ASSUME NEW t \in Threads, Write(t) PROVE IInv'
  BY <1>2, WriteCanonicalKeeps, WriteHeadKeeps, WriteHeadHeaderKeeps, WriteHeadFastKeeps,
     ReorgTransactionsKeeps, ReorgReceiptsKeeps, DeleteReceiptKeeps, DeleteTransactionKeeps,
     WriteTdKeeps, WriteBodyKeeps, WriteHeaderKeeps, StoredKeeps, WriteTransactionsKeeps,
     WriteReceiptsKeeps, WriteBlockReceiptsKeeps, ZenonT(60)
     DEF Write
<1>3. CASE UNCHANGED vars
  BY <1>3, StillKeeps, Zenon DEF vars
<1>4. CASE Next
  BY <1>1, <1>2, <1>4, InsertProcessedKeeps, MineBlockKeeps, ReadTdKeeps, LockHeadKeeps,
     LockSideKeeps, LockPanicKeeps, SetHeadKeeps, SetHeadCutKeeps, CrashKeeps, RestartKeeps, ZenonT(60)
     DEF Next
<1> QED BY <1>3, <1>4, Zenon

\* The inductive invariant holds in every state: for any tree of blocks, any set
\* of blocks the miner seals and any number of crashes and rewinds.
THEOREM Invariance == Spec => []IInv
  BY InitInv, NextInv, PTL DEF Spec

\* When bc.mu is free nobody is inserting.
LEMMA RestQuiet ==
  ASSUME AtRest
  PROVE  up /\ \A t \in Threads : ~Inserting(t)
  BY Zenon DEF AtRest, MuFree, Inserting, Holds

\* Whenever bc.mu is free the canonical numbers up to the head's are the head's
\* own chain (the walks of reorg, the writes of insert, SetHead's deletions).
THEOREM ChainCanonical == Spec => []CanonicalChain
<1>1. IInv => CanonicalChain
  <2> SUFFICES ASSUME IInv, AtRest, crashes = 0, NEW n \in 0..Number[current]
               PROVE  canon[n] = AncestorAt(current, n)
    BY Zenon DEF CanonicalChain
  <2>1. up /\ \A t \in Threads : ~Inserting(t)
    BY RestQuiet, Zenon
  <2>2. Canonical(current) /\ current \in Blocks
    BY <2>1, Zenon DEF IInv, Numbering, Types
  <2> QED BY <2>2, AncestorAtFacts, Zenon DEF Canonical
<1> QED BY <1>1, Invariance, PTL

\* Whenever bc.mu is free the head and all its ancestors are stored whole, after
\* any SetHead and any crash between two writes of WriteBlock, insert and reorg and
\* the loadLastState that follows; after a crash among the deletions of SetHead
\* this is known of the head alone. A stored header has its block beside it always.
THEOREM ChainHeadComplete == Spec => []HeadComplete
<1>1. IInv => HeadComplete
  <2>1. ASSUME IInv PROVE header \subseteq (body \cap td \cap state)
    BY <2>1, Zenon DEF IInv, Storing
  <2>2. ASSUME IInv, AtRest
        PROVE  /\ current \in header
               /\ ~torn => AncestorsOf[current] \subseteq header
    <3>1. up /\ \A t \in Threads : ~Inserting(t)
      BY <2>2, RestQuiet, Zenon
    <3>2. current \in header
      BY <2>2, <3>1, Zenon DEF IInv, Heads
    <3>3. ~torn => AncestorsOf[current] \subseteq header
      BY <2>2, <3>1, <3>2, Zenon DEF IInv, Rooted
    <3> QED BY <3>2, <3>3, Zenon
  <2>3. ASSUME IInv, AtRest
        PROVE  (IF torn THEN {current} ELSE AncestorsOf[current])
                 \subseteq (header \cap body \cap td \cap state)
    BY <2>1, <2>2, <2>3, Zenon
  <2> QED BY <2>1, <2>3, Zenon DEF HeadComplete
<1> QED BY <1>1, Invariance, PTL

\* The three heads are blocks (a header, for the head header) that the database
\* holds whenever bc.mu is free, after a rewind and after a restart too: what
\* loadLastState looks up at the end of SetHead is there.
HeadsStored ==
  AtRest => /\ {current, currentFast} \subseteq header \cap body
            /\ currentHeader \in header

\* No walk of SetHead and no restart leaves a head the database does not hold.
THEOREM ChainHeadsStored == Spec => []HeadsStored
<1>1. IInv => HeadsStored
  <2> SUFFICES ASSUME IInv, AtRest
               PROVE  /\ current \in header /\ currentFast \in header
                      /\ currentHeader \in header /\ header \subseteq body
    BY Zenon DEF HeadsStored
  <2>1. up /\ \A t \in Threads : ~Inserting(t)
    BY RestQuiet, Zenon
  <2>2. \A h \in {current, currentHeader, currentFast} : h \in header
    BY <2>1, Zenon DEF IInv, Heads
  <2> QED BY <2>2, Zenon DEF IInv, Storing
<1> QED BY <1>1, Invariance, PTL

\* With InsertChain alone at work the head is a heaviest known block whenever
\* bc.mu is free, although the total difficulty it was compared with was read
\* before the lock.
THEOREM ChainHeaviestHead == Spec => []HeaviestHead
<1>1. IInv => HeaviestHead
  <2> SUFFICES ASSUME IInv, AtRest, ImportOnly
               PROVE  \A b \in header : Td[b] <= Td[current]
    BY Zenon DEF HeaviestHead
  <2>1. up /\ ~Inserting("import")
    BY RestQuiet, ZenonT(60) DEF Threads
  <2> QED BY <2>1, Zenon DEF IInv, Weights
<1> QED BY <1>1, Invariance, PTL

\* With InsertChain alone at work, once it is done the transaction index and the
\* receipts by transaction are those of the canonical chain, exactly.
THEOREM ChainTxIndexExact == Spec => []TxIndexExact
<1>1. IInv => TxIndexExact
  <2> SUFFICES ASSUME IInv, up, ImportOnly, \A t \in Threads : pc[t] = "idle",
                      NEW x \in Txs
               PROVE  LET home == {b \in AncestorsOf[current] : x \in TxsIn[b]}
                          right == IF home = {} THEN None ELSE CHOOSE b \in home : TRUE
                      IN txAt[x] = right /\ rcptOf[x] = right
    BY Zenon DEF TxIndexExact
  <2> DEFINE home == {b \in AncestorsOf[current] : x \in TxsIn[b]}
             one == CHOOSE b \in home : TRUE
  <2>1. phase["import"] = "none"
    BY Zenon DEF IInv, Control, Threads
  <2>2. Indexes(txAt, current, {}, {}) /\ Indexes(rcptOf, current, {}, {})
    BY <2>1, Zenon DEF IInv, Indexing
  <2>3. CASE home = {}
    <3>1. \A c \in AncestorsOf[current] : x \notin TxsIn[c]
      BY <2>3, Zenon
    <3> QED BY <2>2, <2>3, <3>1, Zenon DEF Indexes
  <2>4. CASE home # {}
    <3>1. one \in home
      BY <2>4, Zenon
    <3>2. one \in AncestorsOf[current] /\ x \in TxsIn[one]
      BY <3>1, Zenon
    <3>3. txAt[x] = one /\ rcptOf[x] = one
      BY <2>2, <3>2, Zenon DEF Indexes
    <3> QED BY <2>4, <3>3, Zenon
  <2> QED BY <2>3, <2>4, Zenon
<1> QED BY <1>1, Invariance, PTL
=============================================================================
