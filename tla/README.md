# Xero: TLA+ models, model checks and proofs

This directory specifies parts of the Xero node (a descendant of Bitcoin Core 25) in TLA+. Each
module is written from the code it names. TLC checks every model on small instances (`*.cfg`), and
TLAPS proves the main safety properties of seven of them for all values of their constants
(`*Proofs.tla`). `PROJECT.json` lists the runs, the lines of code behind every definition, the
hazards the properties are aimed at, and a mutation of the code for each property that makes it fail.

    tlc -workers 2 -config CoinsCache.cfg MCCoinsCache     # a run
    tlapm CoinsCacheProofs.tla                             # the proofs of a component

Line numbers below are those of the repository; paths are relative to `src/src/`.

## 1. The system

A node learns of headers, blocks and transactions from its peers, keeps every block it has seen in
an index, chooses the chain with the most work among those it finds valid, and maintains the set of
unspent outputs (the coins) of that chain. Its parts, the state each keeps and how they meet:

| Part | State | Operations | Meets |
|---|---|---|---|
| Block index and chain activation (`validation.cpp`, `node/blockstorage.cpp`) | `m_block_index` with status bits, `setBlockIndexCandidates`, `m_blocks_unlinked`, `m_chain` | accept header, accept block, `ActivateBestChain`, `InvalidateBlock`, `ResetBlockFailureFlags`, `PreciousBlock`, prune, load | everything; takes `cs_main` step by step |
| Coins (`coins.cpp`) | entries with `DIRTY` and `FRESH` in a stack of caches over the database | add, spend, fetch, uncache, flush, sync, batch write | activation (a view per block), flush |
| Flush and recovery (`validation.cpp`, `txdb.cpp`, `node/blockstorage.cpp`) | block and undo files, index database, coins database | `FlushStateToDisk`, `BatchWrite`, prune, `ReplayBlocks`, load | activation, coins |
| Script checks (`checkqueue.h`) | queue, `nTodo`, `nIdle`, `nTotal`, `fAllOk`, two condition variables | `Add`, `Loop`, `Wait`, start and stop of workers | `ConnectBlock` |
| Signals and scheduler (`validationinterface.cpp`, `scheduler.cpp`) | task queue, pending callbacks, list of subscribers with counts | schedule, service, enqueue, iterate, register, sync, stop | validation, wallet, indexes, shutdown |
| Transaction requests (`txrequest.cpp`) | announcements by peer and txhash, with a state and a time | `ReceivedInv`, `GetRequestable`, `RequestedTx`, `ReceivedResponse`, `ForgetTxHash`, `DisconnectedPeer` | `net_processing.cpp` |
| Mempool (`txmempool.cpp`, `MemPoolAccept` in `validation.cpp`, `policy/rbf.cpp`) | transactions with links, ancestor and descendant totals, lock points, the rolling minimum fee | accept, replace, prioritise, evict, expire, connect and disconnect blocks | activation, signals, mining |
| Peers (`net.cpp`, `net_processing.cpp`, `headerssync.cpp`) | per-peer announcements, blocks in flight, sync state, connections | messages, timeouts, requests, disconnection | index, requests, orphans |
| Indexes (`index/`) | entries by height and by hash, a locator and totals that are committed | sync thread, notifications, commit, rewind, start and stop | signals, activation, flush |
| Addresses and bans (`addrman.cpp`, `banman.cpp`) | new and tried tables; ban map | add, good, attempt, select; ban, sweep | `net.cpp` |
| Consensus rules (`pow.cpp`, `versionbits.cpp`, `consensus/`, `script/`) | none, or a cache | pure functions of the chain | validation |
| Wallet, RPC, GUI, ZeroMQ, fee estimation, orphans | their own stores | subscribers of the signals | signals |

What makes it hard is mostly concurrency and crashes. `ActivateBestChain` and `InvalidateBlock` give
up `cs_main` between steps with locals computed before. Bodies arrive before their parents'. Flags of
cache entries describe another layer, which changes meanwhile. A flush writes four stores one after
the other, and one of them in several batches. Condition variables are notified inside and outside
critical sections. Subscribers leave a list that other threads iterate over. A shutdown takes threads
down one by one while they wait for each other. Totals in the mempool are adjusted and never computed
again, while a reorganisation inserts parents below children. Peers answer late, twice or never, and
leave while a handler is at work.

## 2. Modules

| Module | Models |
|---|---|
| `UtxoStore` | what the coin views promise: one set of coins per layer |
| `CoinsCache` (`MCCoinsCache`) | `CCoinsViewCache`: database, tip cache, view of a block |
| `CoinsCacheProofs` | invariants of `CoinsCache`; `CoinsCache` implements `UtxoStore` |
| `ChainState` (`MCChainState`) | block index, candidates, activation and the operator's commands |
| `ChainStateProofs`, `ChainChoiceProofs` | its invariants: marks and links; the choice among the candidates |
| `CrashRecovery` (`MCCrashRecovery`), `CrashRecoveryProofs` | what is on disk, the order of writes, crashes, the next start |
| `CheckQueue` (`MCCheckQueue`), `CheckQueueProofs` | `CCheckQueue` and its controllers |
| `TxAnnouncements` | constants and types the next two share |
| `TxRequest`, `TxRequestProofs` | what `TxRequestTracker` promises |
| `TxRequestTracker` (`MCTxRequest`) | its implementation, which implements `TxRequest` |
| `ValidationSignals` (`MCValidationSignals`), `ValidationSignalsProofs` | scheduler, serial callback queue, subscribers, shutdown |
| `IndexSync` (`MCIndexSync`) | `BaseIndex` with the coin statistics and block filter indexes, over the chain, its notifications and crashes |
| `BlockDownload` (`MCBlockDownload`), `BlockDownloadProofs` | headers-first synchronisation and parallel block download from several peers |
| `Mempool` (`MCMempool`) | the memory pool, acceptance of transactions, blocks and reorganisations |

A definition whose name ends in `_Something` beside one without the suffix (`StopNotify_One`) is
a mutation: the code with a plausible mistake. No specification uses it.

### CoinsCache and UtxoStore

`db`, `tip` and `view` are the database, `CoinsTip()` and the view of a block that is being
connected or disconnected. An entry is a coin with its two flags, or `Absent`. Every operation of
`coins.cpp` that changes entries is an action, with the callers' contract for
`AddCoin(possible_overwrite)`; `Flush`, `Sync` and `BatchWrite` merge flags as the code does. A view is
flushed or thrown away. `UtxoStore` has one function from outpoints to coins per layer and no flags.

Left out: memory accounting, cursors, and the height and value in a coin (two coins an outpoint can
hold are told apart).

### ChainState

A status bit is a set of blocks (`received`, `haveData`, `linked`, `scripts`, `failedValid`,
`failedChild`). The tree of blocks that exist is a constant and the node learns it in any order. The
places at which `ActivateBestChain` and `InvalidateBlock` release `cs_main` are values of `pc`; what
they computed before is in `activate` and `invalidate`. `ConnectTip`, `ConnectTipFails` and
`DisconnectTip` are one step of `ActivateBestChainStep` each. `Restart` is a clean stop and
`LoadBlockIndex`.

Left out: snapshots, `MinimumChainWork`, system errors other than missing block data. Abstracted:
one block per block file; the chunks of 32 blocks by which `ActivateBestChainStep` connects are one
block each; `m_blocks_unlinked` is the set of children, as the parent is determined by the child.
`BadBody` and `BadScripts` say which blocks fail which of the two stages of validation. `highest` is a
history variable.

### CrashRecovery

A block is a sequence of transactions and a coin is the height it was created at, so that the same
transaction mined on two branches gives different coins. `FlushFiles`, `WriteBlockIndexDB`,
`UnlinkPrunedFiles`, `FirstBatch`, `PartialBatch` and `LastBatch` are the steps of `FlushStateToDisk` in
its order. `Crash(n)` stops the node anywhere and drops the last `n - 1` unsynced batches of the coins
database. `Start` loads the index, removes files that were pruned, and replays. A replay writes its
result through the same batches and may be cut off again.

Left out: blocks of which only the header is known, and the download of pruned blocks again. An I/O
error makes the node abort, which is a crash here.

### CheckQueue

Each action is one critical section of `m_mutex` or the code between two: `Loop` is split at its waits,
its batch and its notifications. `queue` is a set, since the order of checks matters to nobody.
A master is a `CCheckQueueControl` that adds checks a vector at a time; workers are started and stopped.
Spurious wakeups are allowed.

### TxRequest and TxRequestTracker

`TxRequestTracker` has the sub-states `CANDIDATE_DELAYED`, `CANDIDATE_READY` and `CANDIDATE_BEST`, the
per-peer counters, and the loops that promote, demote and reselect. `TxRequest` has one candidate state
and computes from scratch what `GetRequestable` may answer. Time is an argument of `GetRequestable`, as
in the code, and may go back. Left out: sequence numbers, which only order the answer, and the
txid/wtxid flag, which is carried along.

### ValidationSignals

A thread's step is one critical section of `newTaskMutex`, `m_callbacks_mutex` or `m_mutex`, or the call
of a callback between two. Of the clock only "future" and "due" are told apart, with one timed task
beside the `ProcessQueue` tasks, which are due at once. A `wait_until` whose time has come returns
timeout, whoever wakes it. List entries are numbers in the order of the list. `Limit` stands for the 10
of `LimitValidationInterfaceQueue`. Left out: exceptions thrown by callbacks. `owed`, `generated` and
`finished` are history variables.

### IndexSync

Three actors: validation, which moves and flushes the chain and queues notifications; the sync thread of
the index; and the notification thread, after the sync thread has set `m_synced`. `db` is what the index
has on disk: entries by height (`DB_BLOCK_HEIGHT`), entries by hash, locator and totals. Entries
are written at once, locator and totals by `Commit`. A total says how often the coins of each block
were added, so that it is right exactly if it is that of a chain; the filter index is the same code without the running
total, with each entry chained to its parent's. `Crash` and `Start` keep `db` and what the chain has
flushed. `waiter` is a caller of `BlockUntilSyncedToCurrentChain`.

Left out: the transaction index, which keeps entries of all branches and needs no rewind; errors of the
index's database; pruning.

### BlockDownload

The message thread handles one message or sends to one peer at a time. Its handler of a block gives up
`cs_main` twice (`handling.stage`); there the socket thread may run `FinalizeNode` and an RPC thread
`FetchBlock`. `lists` counts how often a block is in a peer's list, which is a different record from
`inFlight`. A peer sends any block of its chain that it was asked for or that is in `Unasked`, and the
headers up to any block in `Announced`. A `Prompt` peer stays and answers; of others nothing is known. A
timeout may fire as soon as what it measures goes on, except for a prompt peer, which is faster.
`ActivateBestChain` is one step here and `ChainState` has its steps.

Left out: compact blocks, `mapBlockSource` and punishment, the minimum chain work, the low-memory header
synchronisation, and the `NoBan` permission. `FetchBlock` looks the peer up before it takes `cs_main`; if
the peer is removed in between, `BlockRequested` asserts, and the model goes no further.

### Mempool

`pool` holds entries with links, totals, fees and lock points, `mapNextTx` and `mapDeltas`. Locks are
held through a whole operation; the steps in between are states so that `TotalsFollowLinks` can be asked
in the middle of a reorganisation, and no other operation starts there. Every transaction has the same
size, so sizes are counts and a fee rate is a fee. Relative locks are by height; coinbase maturity is a
first height, like finality. `Expire` may remove anything, as entry times are not modelled. `evicted` is
a history variable.

Left out: packages, standardness, unbroadcast transactions, fee estimation.

## 3. Model checks

Deadlock is checked except where a model may stop: the operator's commands are used up and all blocks
have arrived, the node has aborted, or it was shut down.

| Run | Instance | What it shows |
|---|---|---|
| `coins_cache` | 2 outpoints, 2 coins, 2 blocks; 30,127 states | flags never misstate the layer below (`Coherent`), the code's `SanityCheck` holds and nothing throws (`ChecksPass`), and the stack implements `UtxoStore` (`CachesTransparent`) |
| `chain_activation` | 7 blocks in two branches, one bad body, one that fails to connect, 2 threads, one restart or pruning; 104,487 states | the active chain is valid; candidates and links are exactly what they should be whenever `cs_main` is free; a reorganisation finds its data; a complete chain is adopted, overtaken or found invalid (`BestChainAdopted`) |
| `chain_commands` | 5 blocks, 2 threads, 3 commands on either branch | the same under `invalidateblock`, `reconsiderblock` and `preciousblock` step by step; no failure mark without a cause; sort keys of candidates do not change while they are in the set; the node rests on the best chain |
| `check_queue` | 2 workers, 2 controllers, 4 checks of which one fails, batches of 2; 49,976 states | `Wait` returns exactly the conjunction of its own checks; counters are exact; the next controller finds a clean queue; waits and stops end |
| `crash_recovery` | a fork of 5 blocks with a transaction on both sides, 2 files; 713,107 states | whatever a crash leaves, the coins are those of the block named, or are repaired to be; the index refers only to data that is there; the start succeeds |
| `tx_request` | 3 peers, 2 transactions, times 0 and 1 | counters and the marked best candidate are right after any calls; the tracker implements `TxRequest` |
| `validation_signals` | 2 service threads, a producer, 2 subscribers, 2 callbacks, a timed task that repeats; 283,334 states | callbacks run one at a time in order, reach every subscriber, none is forgotten; list counts are exact; waits and the shutdown end |
| `index_sync` | a fork of two branches, either index, reorganisations, a stale notification, one crash or clean restart; 218,012 states | what an index that is synced answers is right for the active chain and for blocks it has left (`QueriesAnswered`); a commit can be started from (`CommittedSound`); every append and rewind fits what is there (`IndexingFits`); the index catches up (`CatchesUp`) |
| `block_download` | 3 peers on two branches, one of them prompt, one block per peer in transit and a window of one, a bad block fetched by RPC; 200,681 states | the records of blocks in flight agree (`InFlightExact`); nothing is skipped (`LastCommonLinked`); the best chain of a prompt outbound peer arrives (`SyncCompletes`) |
| `mempool` | a family of transactions with a conflict, a chain and a relative lock, 2 blocks, a pool of 4; 88,358 states | totals follow links (`TotalsFollowLinks`); the pool is what the next block may hold (`Mineable`); limits hold after reorganisations (`LimitsHold`); what was evicted stays out (`EvictedStayOut`) |

Bounds, and why they are enough:

* Operations on one outpoint never read another, so two outpoints show all there is to see of a cache:
  entries that move together and entries that do not. Two coins are needed for an output that is
  overwritten by another of the same outpoint.
* Two branches of which the longer is two blocks ahead give a reorganisation that fails half way, one
  that succeeds, and bodies that wait for a parent that waits itself. Two threads suffice for a step
  between any two of another's. `MaxRpc` bounds the commands, not their order. Equal work
  everywhere makes every comparison meet its tie breakers.
* `MaxLag` lets the tip run three blocks ahead of the coins database, one beyond `MinBlocksToKeep`;
  `MaxUndurable` lets one batch be lost beside the one that is cut off; `Early` names the block that may be
  stored before its parent, which is what puts an older block into a later file.
* Three peers are what it takes for a request to be displaced while a second candidate is ready and
  a third delayed. Times are compared only with each other.
* Two service threads are one more than the node starts: the queue promises to be serial with any
  number. Callbacks are numbered and two are enough for one to be added while the other runs.

* A fork with a branch of two against one is enough for an index to rewind two blocks, of which the copy to
  the hash index has a first and a last. One crash suffices, as a start depends on what is on disk only.
* Three peers are what it takes for one to hold the window, a second to be blamed for it and a third to
  deliver. `Fetched`, `Unasked` and `Announced` name the blocks of which a request may be moved, that come
  unasked, and that announcements end in.
* `MaxPool`, `AncestorLimit` and `MaxDisconnected` are small enough to be reached from either side: by
  acceptance and by blocks that are disconnected.

Thread permutations are used as a symmetry in the runs of `ChainState` that check only safety.

Fairness. Threads that can run do run: weak fairness of each thread's steps inside
`ActivateBestChain`, `InvalidateBlock`, `Loop`, `Wait`, `serviceQueue` and the client. For
`m_chainstate_mutex` only some waiting thread is assumed to get it, as `std::mutex` promises no
order. Nothing is assumed of peers, producers or the operator: no message, call, command or stop need
ever happen. The exceptions are the subject of two properties: `SyncCompletes` assumes one
outbound peer that connects, tells its tip when it was asked for headers and sends what it was asked
for, and that the message thread visits every peer, sockets that are closing are closed and timeouts
that are due fire; `CatchesUp` assumes that the sync thread and the notification thread run. `Tick` is fair as time passes. `JoinImporter` is strongly fair: the importer tests
`ShutdownRequested()` between calls, so that it makes finitely many more, and a join that is possible
again and again happens.

## 4. Proofs

All of the following hold for arbitrary finite or infinite sets given as constants, under the named
assumptions of the modules (finite sets of threads, disjointness, bounds that are natural numbers).

**CoinsCacheProofs.** `IInv == TypeOK /\ Coherent /\ SanityCheck /\ NeverThrows` is inductive. `Coherent`
says for each layer that an entry without `DIRTY` shows what the layer below shows, and that a `FRESH`
entry covers an outpoint that is spent below. It is not inductive alone: when a child is flushed into a
parent entry that is `FRESH`, the merge is right only because no entry is ever `DIRTY`, `FRESH` and spent.
From it follow `CacheCoherence`, `ChecksAlwaysPass`, and `CachesRefineStore`: every step is a
step of `UtxoStore` under the mapping that forgets flags, or a stutter.

**CheckQueueProofs.** The invariant relates the counters to where the threads are (`CountersExact`),
`nTodo` to the checks queued or in some batch (`TodoExact`), batches to one another and to the queue
(disjoint), and `fAllOk` together with the results not yet booked to the checks that have run
(`ResultExact`). `LoopBody` and `Arrives` name what the body of the loop does whichever way it is reached, and
are treated once. Proved: `WaitIsExact`, `HandoverIsClean`, `NoLostWakeup`,
`CountersAreExact`.

**TxRequestProofs.** For the specification `TxRequest`: at most one request per txhash is outstanding, no
peer is asked twice, nothing is offered while it is requested, and failures are forgotten with the last
announcement. The strengthening says that whatever was requested since it was announced is past being a
candidate, and that what the last call offered is still open. The run `tx_request` shows that the
implementation implements this specification.

**ValidationSignalsProofs.** For any number of service threads, producers and
subscribers: `CallbacksInOrder`, `NoLostWork`, `SubscribersAreServed`. The inductive invariant
consists of `Serial` (the callback that runs is the one after the last finished, and the pending ones follow
without a gap), `WorkScheduled`, `Placed` (iterators are at entries that were made; an entry has one
subscriber), `EntriesCounted`, `Ahead` (what the callback still owes lies ahead of its iterator) and
`Stopped` (service threads do nothing once they were joined, without which `Clear` could meet an
iteration). Steps that neither begin nor end a callback are `Quiet` and keep most of it together.

**BlockDownloadProofs.** For any block tree, peers and limits. `Inv` consists of the types and
five parts: `Flight` (`inFlight`, lists and counts agree), `Present` (blocks are in flight from, and
headers synchronised with, connected peers only), `Stallers` (a staller has
blocks in flight), `Counted` (the two counters of peers) and `Stored` (every block up to the tip and up
to each last common block is there). The counters are cardinalities, so each step that moves a request is
a lemma about one element more or less (`DownloadsExact`). For `NothingSkipped` the block that
`FindNextBlocks` ends at has to be shown to have its whole path stored: it is the highest block of a chain
for which `HaveTxsDownloaded` holds, or the last common block before. The tree enters through
`TreeAssumption`, which says that paths are chains that end in genesis: it follows from `Prev` being
well-founded by an induction that the provers cannot do, and TLC evaluates it on the instance.

**ChainStateProofs.** For any block tree, threads, number of commands, prunings and restarts. That no block of
the active chain is marked is not inductive: `ConnectTip` connects what `FindMostWorkChain` found
earlier, and between two of its steps `ActivateBestChain` gives up `cs_main`. `TargetUsable` says that the block
worked towards keeps a path that was received and carries no mark. It survives because others mark only
descendants of marked blocks (`MarkDescendants`, the walk of `FindMostWorkChain`, `LoadBlockIndex`), which lie
above a block that is on neither path (`AboveAvoided`), or a body that was refused and so never received;
`InvalidateBlock`, which marks anything, is kept out by `m_chainstate_mutex` (`Exclusive`). `InvalidateKnows` says
that the block `InvalidateBlock` will mark is its argument or the one it disconnected last. Proved:
`ActiveChainAlwaysValid`, `InvalidateUndisturbed` and, with `Caused` added to the invariant,
`FailuresAlwaysHaveCause`, which assumes that `reconsiderblock` names no block below an invalid one
(section 5). A by-product is `Disconnects`: the branch of `InvalidateBlock` that turns `FAILED_VALID` into
`FAILED_CHILD` (`validation.cpp:3341`) is never taken.

The second half of the module is about links. `LinkInv` says what the linked blocks look like: they are closed
downwards; a block that waits in `m_blocks_unlinked` has a parent that is not linked, or rests on pruned data with all
between waiting too; candidates, the tip, the block worked towards and what `InvalidateBlock` remembers in `byWork`
are linked; only linked blocks have positive sequence ids. It needs no hypothesis and gives `IndexAlwaysSound`,
which contains `FindMostWorkChain`'s assertion. For the other direction, `LinksAlwaysExact`, it is not enough to
say that an unlinked body waits: when its parent arrives, everything above has to be released at once.
`GapBelow` says that below every stored block that is not linked, and on no invalid chain, there is one that is neither
stored nor linked; so a block that stays unlinked has its gap elsewhere than at the block that arrives
(`GapAbove`). With `reconsiderblock` both fail (section 5), hence the hypothesis.

`PathAssumption` and `WorkAssumption` are to `ChainState` what `TreeAssumption` is to `BlockDownload`: a path is a
chain that ends in genesis, and height and work grow along it.

**ChainChoiceProofs.** `ReorgAlwaysKeepsData` needs no hypothesis. `Kept` says that blocks less than
`MIN_BLOCKS_TO_KEEP` below `highest` have their data if they are on the active chain or on the one worked towards.
Pruning measures from the tip, which is never above `highest` but may be below it in the middle of a
reorganisation or an `InvalidateBlock`; hence the history variable.

The candidates are a sorted set, and all that is known of them turns on the order not changing under them.
`Order` and the lemmas after it say that `CBlockIndexWorkComparator` is a strict total order whatever the sequence ids
are, and puts every block after its ancestors. Without pruning (`Whole`) a body that arrives links only blocks
that were not linked, so no candidate gets a new id (`SortKeysAlwaysStable`) and nothing worse than the tip stays in the
set (`Trimmed`). `ChoiceInv` is the converse: every linked block without a mark that is no worse than the tip is a
candidate, except while `InvalidateBlock` is under way, which finds all of them at its end; and while
`ActivateBestChain` has the tip below the one it started from, every such block that is no worse than
that one either is. For this the old tip has to remain a choice and the block worked towards must be at least
as good (`StartKnown`), so that the loop goes on until the tip is no worse than it was. `BestInv` says that if some valid
block is better than the tip, or than the block worked towards, a thread is about to call `ActivateBestChain`. From
these follow `CandidatesAlwaysExact` and `QuiescentAlwaysBest`. They exclude pruning, `preciousblock`,
and `reconsiderblock` below an invalid block: section 5 has a counterexample for each. With these commands the
properties are checked within the bounds of the runs.

**CrashRecoveryProofs.** For any block tree, number of files, batches and crashes. The assumption
`BranchAssumption` says that `pprev` leads from every block to genesis.

* `FilesAlwaysMatchIndex`. `FilesInv` says of an index that the files removed come before its last one and are
  not referred to; of a running node that only data in the last file may be unsynced, and that an empty file
  before it has been or is about to be removed; and of a node that is down that nothing the index on disk refers to is
  unsynced. The last but one carries the argument: leaving a file syncs it, so an index is never written while it refers
  to data in an earlier file that is not on the disk.
* `StartAlwaysSucceeds`. `Supports(I, t)`: the index `I` knows the chain up to `t`, and each block of it has undo data or was
  pruned. It holds of both indexes for every tip that any surviving database may name. `Pruned`: whatever was
  pruned lies `MIN_BLOCKS_TO_KEEP` below some block that still has undo data, also after the tip has gone
  down again. If a block that the replay needs is missing, it is on one of the branches of the two tips and not on the other,
  and that block above it is then more than `MIN_BLOCKS_TO_KEEP` ahead of one of them (`FarAhead`).
* `CoinsAlwaysRecoverable`, under the hypothesis `ReplayComputes`: `ReplayBlocks` makes of any mixture of the coins of two
  tips those of the new one. The hypothesis is about pure functions of the block tree (it would need induction over
  blocks and transactions), and `MCCrashRecovery` assumes it, so that TLC evaluates it on the fork of the run. What is proved is that
  batches, crashes and replays of replays never lead to anything but such a mixture (`Explained`).

Only model-checked: all liveness (TLAPS 1.4.5 does not reason about fairness); that `TxRequestTracker`
implements `TxRequest` (its loops are recursive); what `ReplayBlocks` and `DisconnectBlock` compute
(induction over blocks and transactions); `Mempool`, whose totals are over recursively computed sets;
`IndexSync`; and of `ChainState` the completeness and order of candidates and links under
the commands that the theorems exclude.

## 5. Where code and text disagree

Two runs end in a counterexample by intention. Each checks what the repository says.

* `shutdown_hang`: `Shutdown` stops the scheduler (`init.cpp:262`) before it joins the import thread,
  which may be waiting in `LimitValidationInterfaceQueue` for a callback that nobody runs any more.
* `index_rewind`: `BaseIndex::Rewind` asserts that it starts from the best block (`index/base.cpp:253`). The
  sync thread calls it with its own position (186), which is ahead of `m_best_block_index` from one write
  of the locator (202) to the next. `IndexingFits` states what holds apart from this case.

Observations made with these models, which the properties above leave room for:

* `reconsiderblock` "Removes invalidity status of a block, its ancestors and its descendants, reconsider
  them for activation" (`rpc/blockchain.cpp:1567`). Ancestors' flags are cleared (`validation.cpp:3424`)
  without putting them back among the candidates. If the named block has no data, a valid ancestor with
  more work than the tip is not reconsidered. `QuiescentBest` is checked with `reconsider`
  naming blocks none of whose ancestors is invalid; adding `reconsiderBelow` to `Rpcs` shows the case.
* `CheckBlockIndex` asserts that a block in `m_blocks_unlinked` has data (`validation.cpp:4828`).
  `LoadBlockIndex` (`node/blockstorage.cpp:280`) also inserts pruned ones. `UnlinkedSound` asks only that
  their body was received.
* `ReceivedBlockTransactions` does not queue a body whose parent is marked invalid (`validation.cpp:3473`). After
  `reconsiderblock` for the parent, which itself still waits for a body, the child has data, is not invalid, and is in
  no list, against `validation.cpp:4826`, until the next start. `LinksExact` is checked and proved without
  `reconsider`.
* A candidate that was pruned and is stored again gets a new `nSequenceId` while it is in the sorted set
  (`validation.cpp:3460`), from which `PreciousBlock` would have taken it out first. The tip has to be
  lowered by `invalidateblock` to a block that was pruned: `Rpcs = {"invalidate", "prune"}`, `MinBlocksToKeep = 1`
  and two commands violate `SortKeysStable`, which is checked and proved without `prune`.
* `PreciousBlock` counts down from -1 anew when the tip has more work than at the last call
  (`validation.cpp:3238`). After `invalidateblock` has lowered the tip and a call was made there, the tip can go from
  -2 back to -1, and a block that was trimmed as worse is no longer worse but not a candidate. Three blocks, one thread and
  `MaxRpc = 7` with `invalidate`, `reconsider` and `precious` violate `CandidatesComplete`; `chain_commands`
  has three commands, and `CandidatesAlwaysExact` excludes `precious`.
* "First make sure all block and undo data is flushed to disk" (`validation.cpp:2520`): only the files of
  `m_last_blockfile` are. Undo data written to an earlier file may not be on disk when the index that
  refers to it is.
* After an unclean shutdown the coin statistics index refuses to start when the block it committed is not
  in the chain that was flushed (`index/coinstatsindex.cpp:236`, which expects its totals to be those of the
  best block).
* `CoinStatsIndex::CustomAppend` falls back to the parent's entry by hash with a type (142) other than the one
  stored under that key, so that the read fails and with it the append; the model has the read fail.
* "we don't allow txn to enter mempool with feerate equal to txn which were removed with no block in
  between" (`txmempool.cpp:1068`) holds of evictions that raised the minimum fee. A package evicted below a
  minimum that had begun to decay may come back; `EvictedStayOut` states this.

* `FlushStateToDisk` removes pruned files before it writes the coins. A coins write cut off then may be beyond
  repair if the node had connected more than `MIN_BLOCKS_TO_KEEP` blocks beyond the tip on disk;
  `StartSucceeds` states exactly this exception.
* `m_best_header` becomes the tip when it turns out invalid (`validation.cpp:1679`), not the best of the
  other headers.
* With several service threads a task may run before its time (`scheduler.cpp:45`), against `scheduler.h:48`;
  the node starts one.
* `BlockChecked` and `NewPoWValidBlock` run in the validating thread while queued callbacks run in
  another, so that the "one at a time" of `validationinterface.h:68` holds only of queued ones.

## 6. What is not modelled

`PROJECT.json` gives the reason for every part.

* Serialisation, cryptography, script evaluation and the difficulty computation are pure functions of
  byte strings and large integers; a finite instance says little about them.
* The GUI, ZeroMQ, RPC and REST calls are input and output around the parts above. The `.ts` files in
  `qt/locale`, by number most files of the GUI, are translated texts in XML and have no behaviour.
* LevelDB, secp256k1 and other libraries appear as what their callers rely on: batches of the
  database are atomic and become durable in order.
* The wallet is a program of its own; of its surroundings the order and completeness of notifications is
  what `ValidationSignals` shows.
* Fee estimation is floating-point statistics; compact blocks turn on hash collisions.
* The address manager, ban list, eviction of connections, orphan transactions, deployments, the
  script cache's erase flags, low-memory header synchronisation and assumeutxo have state of their own and
  touch the modelled parts at few points: `BlockDownload` lets any peer be closed at any time for any
  reason, `ChainState` accepts headers in any order from anyone, and neither depends on how.

Within the modelled parts each section above names what is left out.
