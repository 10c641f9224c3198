# Verification of go-expanse

TLA+ models of the concurrent parts of the node: block import, the four ways data
gets into it (announcements, block download, state download, the ancestor search that
starts a download), the transaction pool, the peer-to-peer server and node discovery.
TLC checks them on small instances. TLAPS proves the safety properties, those of the
state download excepted, for every value of the constants.

`PROJECT.json` lists the components, the runs, the mutants (a plausible bug per
property, which that property catches), the source lines of every definition, the
hazards and the theorems. Line numbers below refer to `src/`.

- [The system and its modules](#the-system-and-its-modules)
- [Conventions](#conventions)
- [The modules and the code](#the-modules-and-the-code)
- [The runs](#the-runs)
- [Fairness](#fairness)
- [The proofs](#the-proofs)
- [What is only model-checked](#what-is-only-model-checked)
- [Disagreements met while modelling](#disagreements-met-while-modelling)
- [Not modelled](#not-modelled)
- [Running it](#running-it)

## The system and its modules

A node finds other nodes (`p2p/discover`), connects to some of them (`p2p`), and speaks
the chain protocol with those (`exp/handler.go`). Blocks reach the chain
(`core/blockchain.go`) by three roads: the fetcher imports what peers announce or
propagate, the downloader catches up with a peer that has a heavier chain, and the
local miner writes what it seals. In fast sync the downloader imports headers and
receipts up to a pivot block, downloads the state of the pivot, and imports full
blocks from there. The transaction pool follows the head of the chain by events.

| Part | Source | Module | Proofs |
|---|---|---|---|
| Block fetcher | `exp/fetcher/fetcher.go` | `Fetcher` | `FetcherProofs` |
| Full import, reorganisation, restart | `core/blockchain.go`, `miner/worker.go` | `BlockChain`, over `BlockTree` | `BlockChainProofs` |
| Header, receipt and pivot import | `core/blockchain.go`, `exp/downloader/downloader.go` | `FastSync`, over `BlockTree` | `FastSyncProofs` |
| Transaction pool | `core/tx_pool.go` | `TxPool` | `TxPoolProofs` |
| Download queue and part fetchers | `exp/downloader/queue.go`, `peer.go`, `downloader.go` | `DownloadQueue`, implementing `ResultStream` | `DownloadQueueProofs` |
| State download | `trie/sync.go`, `core/state/sync.go`, `queue.go`, `downloader.go` | `StateSync`, over `TrieSync` | |
| Ancestor search | `exp/downloader/downloader.go` | `AncestorSearch` | `AncestorProofs` |
| Peer-to-peer server | `p2p/server.go`, `p2p/dial.go` | `P2PServer` | `P2PServerProofs` |
| Discovery | `p2p/discover/{udp,table,database}.go` | `Discovery`, over `Udp` | `DiscoveryProofs` |

How they meet:

- `Fetcher` sees the chain as the set of known blocks; `OtherImport` is everyone else
  who imports.
- `BlockChain` has two threads, `InsertChain` and the miner's `WriteBlock`.
- `FastSync` composes the downloader's two goroutines with the chain operations they
  call. The state download is one step there (`StateSynced`) and the subject of
  `StateSync`; `CompleteWhenIdle` of `StateSync` is what that step relies on. The
  result of the ancestor search is one step there and the subject of `AncestorSearch`.
- `DownloadQueue` covers one cycle's bodies and receipts. `ResultStream` is what it
  promises to the goroutine that imports: complete blocks, in order, each once.
- `StateSync` composes the trie scheduler with the queue, the fetcher loop and the
  processors that outlive their cycle.
- `Discovery` composes the UDP request loop (`Udp`) with bonding, the table, the
  lookups of a refresh and `Close`. `P2PServer` takes from it only that a lookup
  returns some nodes.

## Conventions

- A goroutine is a control point (`pc`, `fpc`, `ppc`, `loop.pc`, ...). A step runs from
  one point where another goroutine can interfere to the next: a channel operation, a
  lock, a database write that a crash may follow, or a read of state that others write.
- A held lock is a control point at which the others cannot take it. Where the code
  takes no lock, the steps interleave.
- Time is nondeterministic: a comparison with the clock may go either way, a timer that
  is armed may fire at any time, one that is not armed never fires.
- A block is a model value. Its hash fixes its parent, number and total difficulty, so
  these are constants (`BlockTree`). What validation says of it is a constant too.
- A crash keeps the database variables and resets the memory variables. A single `Put`
  is one step; a LevelDB batch is one step.
- A remote peer may answer late, in part, or never, within a bound that the module
  names (`MaxLost`, `MaxExpiries`, `MaxLate`, ...). `Fetcher` also has
  peers that relay invalid blocks or wrong numbers, and `FastSync` headers that do not
  validate; elsewhere peers tell the truth.
- Each mutant is defined right before the definition it is a mutant of, and is used by
  nothing else.
- Eight modules have a `TypeOK` (not `Discovery`, `Udp`, `TrieSync`, `BlockTree` and
  `ResultStream`). No
  run lists it, since it says little of the code. That of `Fetcher` is proved; the
  inductive invariants of the other proof modules say the types that their proofs need.
  All eight hold on the instances of the runs.

## The modules and the code

**Fetcher.** Variables are the maps of the struct (`announces`, `announced`, `fetching`,
`fetched`, `completing`, `queue`, `queues`, `queued`), the two timers and the import
goroutines. One action per `select` case of `loop`. A case that walks a map or a batch
reads the chain in each iteration, and the chain changes meanwhile, so it is a small
program of its own (`pc`, `todo`). Covers the eth/61 block filter, the eth/62 header and
body filters, `enqueue`, `insert`, the three `forget` helpers and `Stop`.

**BlockChain.** Database variables by key family of `core/database_util.go`, memory
variables for the three heads, the future blocks and the TD cache. `WriteBlock` reads
`localTd` before it takes `mu`, as in the code; from there each database write of
`WriteBlock`, `insert` and `reorg` is a step, in their order. `pc` names the next write and
`phase` the function that makes it; `at`, `branch` and `gone` are the locals of `reorg`: the
block it inserts, the blocks it has yet to insert, the transactions it has yet to delete.
`Crash` may fall between any two writes. `Restart` is `NewBlockChain` with `loadLastState` and,
if the head cannot be read, `Reset`. `SetHead` holds `mu` from its first line to its last and is one
action; `SetHeadCut` is a crash between any two of its writes: while it deletes the numbers
from the top, while it deletes the blocks (a Go map, so in any order), or before the last of
the head hashes. A block that was queued as a future block
is imported later by the same action as any other.

**FastSync.** `fetchHeaders` and `process` with `InsertHeaderChain` (`writeHeader` write by
write, with its header `hdr`, the number `spot` and the ancestor `walk` of its two loops),
`Rollback`, `InsertReceiptChain` with workers that run in parallel,
`FastSyncCommitHead`, and `InsertChain` above the pivot as one step. A cycle follows one
peer; cycles follow each other with other peers, after time-outs, bad headers or a crash.
A rollback of headers past the pivot sets `noFast`, after which no fast cycle starts until
the node does.

**TxPool.** `Add`, `GetTransactions`, `RemoveTransactions` and the three events. An
operation holds `pool.mu` and works off `phases` (`checkQueue`, `validatePool`, `rebase`);
each phase reads the state of the chain anew, as `pool.currentState()` does, and the chain
may move between them. Events are handled late and in any order.

**DownloadQueue.** `Schedule`, `Reserve*`, `Deliver*`, `Expire*`, `Revoke`, `WaitResults` with
its condition variable, and the `fetchParts` loop for each kind: the select, the update
tick, the round of reservations. A fetcher looks at the task queue and then at the requests,
each under the queue's lock (`NothingPending`, `NothingLeft`); a disconnect may come between.
A header is its number, because `Schedule` admits only
one chain. Peers answer with a prefix, with gaps (as `handler.go:474` skips what it does
not have), late, or not at all, and may disconnect.

**TrieSync, StateSync.** `TrieSync` gives the scheduler's operations as operators on
`[reqs, queue]`: `AddSubTrie`, `AddRawEntry`, `Missing`, `Process`, `schedule`, `children`,
`commit`. A node is a model value with its references and the references that the leaf
callback of `core/state/sync.go` finds in it. `StateSync` adds the state part of the
queue, the fetcher loop, the processors that `DeliverNodeData` starts, cycles and crashes.

**AncestorSearch.** `findAncestor` (full, fast and light) and `findAncestor61`: the request at
the head, then the bisection. A header is its number on the peer's chain; packets carry
no request number, so one that was sent to an earlier cycle may arrive first.

**P2PServer.** `run` with its task scheduler and both checkpoints, `dialstate` (`newTasks`,
`addStatic`, `taskDone`, the dial history), dial, lookup and wait tasks, `listenLoop` with
its slots, `setupConn`, `runPeer`, `AddPeer`, `Peers` and `Stop` with `srv.lock`. The outcome
of the two handshakes and the end of a peer are inputs. `Start` is `Init`.

**Udp, Discovery.** `Udp` is `udp.loop`: the list of pending replies, the one timer that
serves it, the packets that resolve an entry, the clock jump, closing. `Discovery` adds
`bond`, `pingpong`, `add` with its contested oldest entry, `stuff`, `delete`, `doRefresh` with
its lookups and `bondall`, `refreshLoop`, `requestRefresh` and `Close`. A bond is a
goroutine named by its node and by who asked for it (an incoming ping or a lookup). The
table is one bucket; the node database is a set of nodes with a failure count and an
expirer. A lookup has one query out at a time where the code has up to three, and asks in
any order, since distances are left out.

## The runs

Ten runs pass and two show a violation. State counts are of the instances given. The `queue`, `p2p` and
`discovery` instances have a state constraint, named and explained in their MC modules:
it bounds which of the rare events are combined, never a property's premise.

| Run | Instance | Distinct states |
|---|---|---|
| `fetcher` | 2 blocks (one early, one invalid), 2 peers of which `p1` is honest; `HashLimit` 2, `BlockLimit` 1, `MaxUncleDist` 0, `MaxQueueDist` 1, `MaxNotify` 1 | 24,980 |
| `chain` | `a1`-`a2`-`a3` long and light, `b1`-`b2` short and heavy, `a2` and `b1` equal in weight; 3 transactions, one in both branches; a miner of `{a3, b2}` or none; `MaxFuture` 1, `MaxUpsets` 1 | 775,046 |
| `fast` | two branches of 3 blocks, `b3` valid or not; `Pivot` 2, `Window` 1, `SafetyNet` 2, `ForceVerify` 1, `MaxCycles` 3 | 411,942 |
| `txpool` | 5 transactions of one sender, two each with nonces 0 and 1, dear and cheap; `MaxQueued` 1, `MaxChanges` 3 | 43,995 |
| `queue` | 2 peers (symmetric), 3 headers, cache of 2, requests of up to 2, gaps; any two of one expiry, one lost request, one disconnect; full sync | 765,061 |
| `queue_live` | 1 peer, 2 headers, fast sync with the pivot at 1, one batch of state, one expiry | 61,732 |
| `statesync` | two overlapping states of 6 nodes with shared and repeated children, 2 peers of which one lacks nodes; requests of up to 2, 2 processors, `MaxUpsets` 1 | 362,839 |
| `ancestor` | all chains up to height 5, all four modes, `Fetch` 2, up to 2 late packets | 1,177,276 |
| `p2p` | 2 nodes and 2 connections (symmetric), `MaxPeers` 1, 2 or 4 (4 without `AddPeer` and `Stop`), one active task, one slot, lookups of up to 2 nodes | 442,044 |
| `discovery` | 2 nodes for one place in the bucket, one bonding slot, one failure allowed, one clock jump, followed while a reply is pending | 68,642 |

What each shows, and why its bounds are enough for the cases that matter:

- **`fetcher`.** No block waits and is imported at once, or is imported by two goroutines
  (`ImportedOnce`); the per-peer counts are exact, so `blockLimit` bounds them
  (`QueueAccounting`); a peer that relays only valid blocks with true numbers is not
  dropped (`HonestKept`); an announcement is acted on (`AnnouncedFetched`) and an import
  cleaned up (`ImportForgotten`). `BlockLimit` 1 and the distance limits 0 and 1 are
  reached with two blocks.
- **`chain`.** When `mu` is free the canonical numbers are the chain of the head, whatever
  `InsertChain`, the miner and `SetHead` did, if no crash came (`CanonicalChain`). The head and
  its ancestors are stored whole, after a `SetHead` and after a crash at any write too, with one
  exception: if the crash fell among the deletions of `SetHead`, this is so of the head alone;
  and a stored header always has its body, total difficulty and state (`HeadComplete`). With
  `InsertChain` alone, without crash or `SetHead`, the head is a heaviest block
  (`HeaviestHead`) and the transaction index is that of
  the canonical chain (`TxIndexExact`). The two branches force reorganisations to a longer
  and to a shorter chain, and a tie.
- **`fast`.** Until a crash or the import of a full block, header insertion and rollback keep
  the numbers those of the head header's chain; a stored header has its total difficulty and
  its parent at every moment, after crashes too (`CanonicalHeaders`). The
  pivot is committed only with its block and its state (`CommitReady`), a body has its
  receipts beside it (`BodyWithReceipts`). Three cycles allow a switch to the other branch
  and back.
- **`txpool`.** Once the events are handled, nothing pending is stale or unaffordable
  (`PendingFresh`) and nothing executable stays queued (`ExecutablePromoted`); nothing is
  lost without cause (`LeavesForCause`); head events are handled (`HeadHandled`). Three
  chain changes allow an inclusion, a reorganisation and another inclusion.
- **`queue`, `queue_live`.** Each scheduled part is in exactly one place
  (`ExactlyOnePlace`), the internal errors of the queue do not occur (`NeverCorrupt`),
  `process` is not left asleep on finished results or on a closed queue (`NoLostWakeup`,
  except for the pivot),
  everything scheduled is handed out when no fetcher failed, or a peer has left and its tasks
  are queued again (`AllHandedOut`), the cycle ends (`CycleEnds`) and the
  queue implements `ResultStream` (`ImplementsStream`). Three headers over a cache of two
  make throttling and the moving window happen; the liveness instance is smaller
  because its behaviour graph is what TLC has to hold.
- **`statesync`.** Nothing is stored before what it refers to (`DatabaseClosed`),
  dependency counts are exact (`DepsExact`), an empty scheduler means a complete state
  (`CompleteWhenIdle`), a missing entry has one place (`EntryOnePlace`) and the fetcher gives
  up only when every peer is known to lack something (`UnavailableHasCause`).
- **`ancestor`.** What is returned is common (`AncestorCommon`), and the highest common
  number when states are complete and replies in order (`AncestorHighest`); the search ends
  (`SearchEnds`). Height 5 over a fetch of 2 makes the bisection take up to three rounds.
- **`p2p`.** The peer map is exactly the running peers (`PeersExact`), the peer and dial
  budgets hold (`WithinBudget`), the dialer's book agrees with its tasks (`DialingExact`) and
  `run` never sleeps on a history that nothing will expire (`TickComing`). Two connections
  that can claim the same node meet between the two checkpoints; limits of 1, 2 and 4 give
  0, 1 and 2 dynamic dials. A limit of 4 is there for the random nodes that `newTasks` draws
  when it needs more than one dial; `AddPeer` and `Stop` are left to the smaller limits there,
  and the theorems below hold for every limit.
- **`discovery`.** No caller of the transport is lost or served twice (`PendingExact`), one
  exchange runs per node and holds one slot (`BondsExact`), only bonded nodes are kept and
  asked (`BondedBeforeFind`), eviction has a cause (`EvictedForCause`), bonds and refreshes
  end (`BondEnds`, `RefreshReturns`). With one slot and one place, two nodes always compete.
- **`fast_hole`** (violation of `FastBlocksConnected`). Headers of a cycle that was given up
  stay known, the bisection stops on one of them, and the bodies below it are never
  fetched: the fast chain has a hole. `InsertReceiptChain` is documented to "complete an
  already existing header chain" (`core/blockchain.go:918-919`).
- **`queue_hang`** (violation of `CycleEnds`, under fairness). A reply whose first item is not
  the first one asked for ends its request and leaves the peer busy
  (`downloader.go:1393`). If that was the only peer, none is idle and none has a request:
  the check "If all peers have been tried and all failed throw an error"
  (`downloader.go:1500-1502`) does not fire and the fetcher ticks for ever.

Deadlock is checked in `statesync` and `ancestor`, which say explicitly when they are over.
Elsewhere a behaviour may really stop: the fetcher, server and table are shut down, a cycle
is over, or the bounds on what the environment does are used up.

## Fairness

- **Fetcher.** Weak fairness of `loop` while it works off a case; strong fairness of the
  fetch timer's case, of expiry and of the `done` case, since Go's `select` picks fairly among
  ready cases that other cases may disable in between; weak fairness of each import
  goroutine.
- **TxPool.** Weak fairness of the holder of `pool.mu`; strong fairness of the event loop,
  which competes for the lock with the callers.
- **DownloadQueue.** Weak fairness of each goroutine's own steps; strong fairness of the
  `select` cases (a delivery that has arrived, a cancellation) and of the expiry of a
  request that nothing will answer (the update ticker comes again and again). That the
  header goroutine ends and the pivot's state is processed is assumed of the goroutines
  that do it.
- **AncestorSearch.** Weak fairness of the search and of the peer's reply. A time-out is
  allowed at any point and never required.
- **Discovery.** Strong fairness of each bond (it competes for `bondmu` and a slot), weak
  fairness of the refresh, of `refreshLoop`'s end and of `udp.loop`. Nothing is assumed of
  remote nodes: a reply may never come, and the timer of `udp.loop` is what ends the wait.

No fairness is assumed of peers that announce, ping, connect or disconnect, of the miner, or
of crashes.

## The proofs

All proofs are of safety, for every value of the constants that satisfies the named
assumptions of the modules:

- Types: numbers are naturals, limits are positive, the placeholder `None` (and the name
  `"doRefresh"` of the refresh goroutine) is not a block or a node.
- Finite sets of hashes and peers in `Fetcher`, of transactions and accounts in `TxPool`, of
  peers in `DownloadQueue`, of blocks in `BlockTree` and of nodes in `P2PServer`. `Conns` of
  `P2PServer` and `Nodes` of `Discovery` may be infinite.
- The blocks are a tree (`TreeAssumption`): a block but the genesis has one parent, whose
  number is one less, and its total difficulty and ancestors are given by the parent's.
- `NonceAssumption`: a chain holds a transaction once. Only what is proved of the
  transaction index uses it.
- `FetcherHonestKept` has the premise `Honest \cap Eth61 = {}`; see the disagreement on
  `HonestKept` below.

| Module | Theorem | What it says |
|---|---|---|
| `FetcherProofs` | `FetcherImportedOnce` | `ImportedOnce` always holds |
| | `FetcherQueueAccounting` | `QueueAccounting` always holds |
| | `FetcherOnePhase` | a hash is in one phase of its retrieval at a time |
| | `FetcherTimersArmed` | no announcement and no header waits without a timer |
| | `FetcherHonestKept` | `HonestKept` always holds, if honest peers speak eth/62 |
| `BlockChainProofs` | `ChainCanonical` | `CanonicalChain` always holds |
| | `ChainHeadComplete` | `HeadComplete` always holds |
| | `ChainHeaviestHead` | `HeaviestHead` always holds |
| | `ChainTxIndexExact` | `TxIndexExact` always holds |
| | `ChainHeadsStored` | the three heads in memory are stored whenever `mu` is free |
| `FastSyncProofs` | `FastCanonicalHeaders` | `CanonicalHeaders` always holds |
| | `FastCommitReady` | `CommitReady` always holds |
| | `FastBodyWithReceipts` | `BodyWithReceipts` always holds |
| | `FastHeadFound` | the block of the stored head hash is there at every write |
| `TxPoolProofs` | `PoolFresh` | `PendingFresh` always holds |
| | `PoolPromotes` | `ExecutablePromoted` always holds |
| | `PoolLeavesForCause` | every step satisfies `LeavesForCause` |
| `DownloadQueueProofs` | `QueueExactlyOnePlace` | `ExactlyOnePlace` always holds |
| | `QueuePendingCounts` | a cached result counts exactly its missing parts |
| | `QueueNeverCorrupt` | `NeverCorrupt` always holds |
| | `QueueImplementsStream` | `DownloadQueue` implements `ResultStream` |
| | `QueueNoLostWakeup` | `NoLostWakeup` always holds |
| | `QueueAllHandedOut` | `AllHandedOut` always holds |
| `AncestorProofs` | `SearchFindsCommon` | `AncestorCommon` always holds |
| | `SearchFindsHighest` | `AncestorHighest` always holds |
| | `SearchKeepsHonest` | an honest peer that is not shorter is not dropped |
| `P2PServerProofs` | `PeersAlwaysExact` | `PeersExact` always holds |
| | `AlwaysWithinBudget` | `WithinBudget` always holds |
| | `DialingAlwaysExact` | `DialingExact` always holds |
| | `TickAlwaysComing` | `TickComing` always holds |
| `DiscoveryProofs` | `BondsAlwaysExact` | `BondsExact` always holds |
| | `AlwaysBondedBeforeFind` | `BondedBeforeFind` always holds |
| | `PendingAlwaysExact` | `PendingExact` always holds |
| | `AlwaysEvictedForCause` | every step satisfies `EvictedForCause` |

The arguments:

- **Fetcher.** The invariant is the types, the two properties of blocks, `OnePhase` and
  `TimersArmed`. It splits into a part about announcements and a part about blocks, which
  are almost independent: an action changes one and frames the other. The counting in
  `QueueAccounting` uses the cardinality facts of finite sets, for a block added and a block
  removed. `HonestKept` needs that every map remembers who said what: an entry of the four
  announcement maps, of the queue or of the imports that names an honest peer says something
  true (`TruthfulMaps`, `TruthfulQueue`, `TruthfulImports`).
- **BlockChain.** A property that speaks of a free `mu` needs an account of what is half done
  while it is held. `Numbering` says that a number which does not lead to the new chain yet is
  on the list of the thread that rewrites it; `Indexing` says the same of the transaction
  index, for each write of `reorg`; `Storing` follows the order of the writes of a block, so
  that a crash leaves a header only with all the rest; `Heads` ties the heads to what is stored.
  `Rooted` says that the stored head hash, if its block is stored, has all ancestors stored, and
  so has a block on its way to be the head, until a crash tears the deletions of `SetHead`
  (the history variable `torn`); the deletions reach only numbers above the new head's. `Weights` holds with `InsertChain` alone: the total difficulty
  that was read before the lock is still the head's. Under all of it lies that the ancestors
  of a block are linearly ordered by their numbers (`AncestorFacts`).
- **FastSync.** `Packet` says that the headers to be written continue the stored chain,
  `Processing` what `process` may rely on (the last block of its batch, the pivot's state), and
  `Numbering` that the numbers are those of a chain that the head header is on, or in the
  middle of `writeHeader`: that the numbers above the header's are free up to `spot` (`Trimming`), or
  that those from the header's down to `walk`'s are rewritten and the rest still the old
  chain's (`Rerouting`).
- **TxPool.** The properties speak of a settled pool. The invariant says what holds in
  between: pending is fresh, or a head event is still out, or `validatePool` comes next; the
  managed nonces are not below the accounts', or a head event is out; nothing queued is
  executable, or a head event is out, or a `checkQueue` is still to come. `Ordered` says which
  phases can follow which, so that `validatePool` is the last phase or leads to another
  `checkQueue`. A chain change posts a head event; handling it schedules the reset.
- **DownloadQueue.** `ExactlyOnePlace` needs the result cache: what is requested or done has
  a slot (`Slots`), the counter of a slot is the number of missing parts
  (`PendingCounts`), and nobody in a round of reservations is busy (`RoundIdle`). These
  together give `NeverCorrupt`. For the refinement, `known` is what was scheduled, `have` the
  done pools and `next` the offset of the result cache: `Schedule` maps to `Extend`, delivery
  and the reservation of empty parts to `Arrive`, `TakeResults` to `HandOut`, everything else
  to a stutter. For the end of a cycle, `Asleep` says that whoever completes the next result
  or closes the queue also wakes the sleeper, and `Ending` that a fetcher which is done
  without an error leaves nothing in its task queue or with a peer, or, once a peer has left,
  that what is in the task queue is in no request: between its two looks only `Revoke` refills
  the task queue (`EmptiedStays`).
- **AncestorSearch.** The bisection keeps a common number at its lower end and, if states are
  complete and replies in order, one that is not common at its upper end (`Bracket`). Order
  of replies is a fact about the network (`InOrder`).
- **P2PServer.** `PeersExact` needs that the connection `run` is looking at is still the one
  it was (`LookedAt`): it waits for the verdict or has left by `srv.quit`, its slot is not used
  for another connection meanwhile, and it is not a peer yet. `Identified` ties ids to
  the stages of `setupConn`. `DialingExact` needs that a connection set up for a dial task
  still has that task and is its only one (`Outbound`), and that there is one lookup at most,
  a lost one included (`OneLookup`). `WithinBudget` counts on top of it, along the checkpoints
  that admit a peer and the tasks that `newTasks` makes.
- **Discovery.** Three invariants, each used by the next. `BondsExact` needs that a finished
  lookup has no bond left running under the same name (`LookExact`): `bondall` returns only
  when all the bonds it started have. The invariant carries that the set of running exchanges
  is finite, so that its cardinality can be counted; it also gives that `slots` never
  goes below zero. `TInv` says that whatever node a bond, the lookup, the database or the
  bucket speaks of has answered a ping or was stored before the run, which gives
  `BondedBeforeFind`. `UInv` says that a goroutine waiting on its `errc` has one entry in the
  list or one value in its channel, whichever entries a walk over the list removes; this is
  `PendingExact`. `EvictedForCause` follows from the three, action by action.

Where an argument is by induction over numbers (the ancestors of a block, the highest of
some numbers), it takes the least counterexample, which the library's theorem on
well-founded orders gives.

## What is only model-checked

- Liveness (`AnnouncedFetched`, `ImportForgotten`, `HeadHandled`, `CycleEnds`, `SearchEnds`,
  `BondEnds`, `RefreshReturns`): the prover does not do fairness.
- Everything about `StateSync` (`DatabaseClosed`, `DepsExact`, `CompleteWhenIdle`,
  `EntryOnePlace`, `UnavailableHasCause`). The scheduler's `commit` is recursive over the
  parents of a node, and what it computes for every trie would need induction over data.

## Disagreements met while modelling

Places where the code does something else than a comment, or than one would state as the
property. Each has been reproduced with TLC on these modules. The two that are runs are
`fast_hole` and `queue_hang` above. The others are left as definitions in the modules, or as
the guard of a property; checking the definition, or dropping the guard, gives the trace. Two
need another instance: `AnnounceLimit` has `HashLimit` 1 and `MaxNotify` 4, `QueueLimit` a
transaction `x3` in place of `y1`.

**Block import** (`core/blockchain.go`, module `BlockChain`)

- `ByNumberCanonical`: after a reorganisation to a shorter, heavier branch the numbers of the
  old branch above the new head stay (1314). Lines 81-83: "GetBlockByNumber always
  represents the canonical chain".
- `HeadsTogether`: `reorg` inserts newest first and leaves `currentHeader` and
  `currentFastBlock` at the oldest new block (1314; comment 470-472).
- `HeadNotLighter`: `localTd` is read before `mu` is locked (1060), so beside a miner the head
  can be replaced by a lighter block.
- `HeadTdReadable`: `insert` sets the head before its total difficulty is written; the other
  thread may read it as nil (1060).
- `CanonicalChain` has the guard `crashes = 0`: a crash inside `reorg` leaves mixed numbers
  that `loadLastState` does not repair (1314; comment 1313: "Order does not matter").
- `HeadComplete` speaks of the head alone once `torn`: `SetHead` deletes the blocks in the order
  of a Go map (266-270) and writes the head hash after them (288). After a crash in between, the
  old head may still be stored with an ancestor gone; `loadLastState` finds it and makes it the
  head again.
- `TxIndexExact` has the guard `ImportOnly` (no miner, no crash, no `SetHead`): transactions are
  indexed after `mu` is released (1220), so a reorganisation by the miner can come first.
- `ResetPurges`: `Reset` from `loadLastState` runs with nil heads and drops nothing (192;
  comment 408). `RewindDeletes`: `SetHead` leaves side-chain headers (246; comment 221-222).

**Fast sync** (module `FastSync`)

- `FastReceipts`: a worker of `InsertReceiptChain` writes the body first and skips a block
  whose body is there (953); after a crash between the two writes its receipts stay missing.
- `HeadPersisted`: `FastSyncCommitHead` sets the head in memory and does not write its hash
  (300-316; comment `core/database_util.go:77`).
- `HeadHasState`: a rollback past the committed pivot makes its parent the head, which has
  no state (909-912).
- `CanonicalNumbers`: a crash while `writeHeader` re-routes leaves numbers of two branches.
  `CanonicalHeaders` has the guard `crashes = 0`.
- `RollbackRemoves`: a rollback moves the heads and keeps the numbers (896-915; comment
  894-895).

**Fetcher** (`exp/fetcher/fetcher.go`)

- `AnnounceLimit`: the announce count is taken down when a fetch starts and again when it
  ends (800), so it goes below zero and `hashLimit` (40) is no bound.
- `CompletionTimesOut`: a body that never comes leaves its hash in `completing`, which no
  timer looks at (320), and blocks later announcements of it (377).
- `HonestKept` with eth/61 peers: their announcements carry number 0 (`handler.go:597`) and
  the header filter drops the announcer for the mismatch (550).

**Transaction pool** (`core/tx_pool.go`)

- `PendingNonceAhead`: a replacement with a lower nonce sets the managed nonce back (284).
- `NoGaps`: `GetTransactions` validates without resetting the managed nonces, so
  transactions behind a gap are promoted again (347; comment 465-468).
- `QueueLimit`: what `validatePool` postpones is over `maxQueued` until the next operation (49).

**Downloader** (`exp/downloader`, modules `DownloadQueue`, `StateSync`, `AncestorSearch`)

- `BusyHasRequest`: the state behind `queue_hang` (`downloader.go:1392-1393`).
- `EndsWhenEmpty`: "If there's nothing more to fetch, wait or terminate" (`downloader.go:1447`).
  The task queue and the requests are read one after the other (1448-1449); if a peer leaves in
  between, its tasks go back to the task queue and the fetcher ends nevertheless. The cycle then
  ends without an error and short of what was scheduled, which `AllHandedOut` allows in this
  case only.
- `NoLostWakeup` leaves out the pivot: `deliverNodeData` signals without the lock
  (`queue.go:1017`), so the signal may fall between the check and the wait.
- `ProcessorNeverCancels`: a processor of an earlier cycle cancels the running one
  (`queue.go:1026`, `downloader.go:1324`).
- `UsefulPeerIdle`: a delivery with good entries may count as stale (`queue.go:1005`).
- `UnavailableIsTrue`: a reservation may come back empty although the peer has an entry
  further down (`queue.go:500`, `downloader.go:1500`).
- `DatabaseClosed` with `MaxFailures = 1`: `Process` drops the error of `commit`, which has
  removed the request already (`trie/sync.go:151`).
- `AncestorHighest` has the guard `states = headers`: the head request and the bisection ask
  different questions in fast sync (`downloader.go:992`, 1048), and blocks below a pivot have
  no state.
- `HonestNotBad` has the guard `head <= height`: a shorter, heavier peer answers the head
  request with nothing and is dropped (`downloader.go:985`).
- `AncestorCommon` excludes late packets in eth/61, which numbers a hash by its place in the
  packet (`downloader.go:568`).

**Peer-to-peer server** (`p2p/server.go`, module `P2PServer`)

- `Stop` holds `srv.lock` while it waits (287-300), and may not return: `run` needs the lock
  for `srv.Self` in a checkpoint (537); a connection leaves its checkpoint by `srv.quit`
  (658-663) while `run` sends to it (477, 494); or the listener waits for slots (568) whose
  holders want the lock in `setupConn` (602).
- `scheduleTasks` drops new tasks when all task slots are taken (421-437), and the dialer
  counts their nodes as being dialled from then on (`stranded`). `AddPeer` says it "maintains
  the connection until the server is shut down" (248-250).

**Discovery** (`p2p/discover`, modules `Udp`, `Discovery`)

- A reply is said to be "dispatched to all the callback functions" (`udp.go:165-172`); the walk
  ends at the first entry that is removed.
- A clock jump removes one entry and leaves the rest without a timer (`udp.go:330-343`).
  `BondEnds` and `RefreshReturns` exclude it (`warps > 0`).
- `Close` waits for a refresh that, if it finds the table empty, waits for `refreshLoop`, which
  has ended (`table.go:224`, 269-274, 301-305). `RefreshReturns` excludes exactly that.

## Not modelled

The definitions stand for about 4,900 lines of source. The repository has about 73,600 lines
of Go without tests and vendored packages, so most of it, some 93%, is not modelled: the
models cover the concurrent core and leave out the sequential and user-facing parts around
it. Every part is listed in `PROJECT.json` with its status. In short:

- **EVM, tries, state objects, RLP, transaction and header encoding, cryptography, accounts.**
  Sequential algorithms over bytes, hashes and 256-bit words. Their state spaces are those
  of their inputs, out of TLC's reach. Where another part depends on them, their result is a
  constant or an input (a block's verdict, a node's references, a state that exists).
- **Block validation and state transition.** Arithmetic over headers, gas and balances, except
  for the known-block and missing-parent checks, which are in `BlockChain`.
- **eth/61 hash and block download** (`fetchHashes61`, `fetchBlocks61`). The legacy pair of the
  eth/62 loops; `findAncestor61` is modelled.
- **Protocol handler.** Its answers are what peers may say in the modules. Dispatch,
  broadcast, the sets of known hashes and the forced-sync ticker are left out.
- **Inside the modelled parts.** Reads of the chain during `SetHead` by those who do not take
  `mu`, and the LRU caches other than `tdCache`. Head events: `SetHead` and `FastSyncCommitHead`
  post none, and `TxPool` leaves those two changes of the head out. The pivot of `FastSync` is the
  same number in each cycle, while the code draws one per cycle (`downloader.go:386-410`).
  `LookupAnswered` of `Discovery` reads the failure count, writes it and deletes the node in one
  step (`table.go:240-246`); no property speaks of the count.
- **Miner.** Only the write of a sealed block, beside `InsertChain`.
- **RLPx, the per-peer message loop, NAT.** Framing, cryptography and I/O; `P2PServer` takes
  their outcome as an input.
- **Discovery's encoding, distances, other buckets and the `findnode` responder**, and the
  storage format of the node database.
- **Whisper, filters, gas price oracle, event multiplexer, RPC, console, command line tools.**
  Beside the chain or user interface. `TxPool` takes from the multiplexer that events may
  come late.
- **Vendored packages.** Third-party code kept in the repository.

## Running it

In this directory, `tlc -config <run>.cfg <module>` checks a run (`PROJECT.json` names the
module and the configuration of each), and `tlapm <module>.tla` checks the proofs of a
module. The runs take up to about two minutes each. From nothing, `DiscoveryProofs` takes
fifteen to twenty minutes, `DownloadQueueProofs`, `TxPoolProofs`, `P2PServerProofs` and
`BlockChainProofs` nine to thirteen, the others five or six, and `AncestorProofs` less than one.
