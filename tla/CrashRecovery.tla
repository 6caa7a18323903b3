--------------------------- MODULE CrashRecovery ---------------------------
(***************************************************************************)
(* What a node has on disk, the order in which FlushStateToDisk writes it, *)
(* and how the next start repairs it after a crash at any point:           *)
(*   - block and undo files (node/blockstorage.cpp), appended to at once   *)
(*     and synced to the disk now and then;                                *)
(*   - the block index database, written by one synced batch;              *)
(*   - the coins database (txdb.cpp), written by several batches, not      *)
(*     synced, of which a power failure may drop the last ones;            *)
(*   - ReplayBlocks (validation.cpp), which completes a coins write that   *)
(*     was cut off.                                                        *)
(*                                                                         *)
(* A block is a sequence of transactions that spend and create outpoints.  *)
(* A coin is the height of the block that created it and Spent is no coin  *)
(* (no coin has height 0: the outputs of the genesis block are never       *)
(* added).  Writing an entry that is already in the database changes       *)
(* nothing, so a batch is a set of outpoints whose coin changes.           *)
(***************************************************************************)
EXTENDS Integers, Sequences, FiniteSets, Functions

CONSTANTS Block, Genesis, Prev,
          Outpoint,
          vtx,              \* the transactions of each block: <<[in |-> , out |-> ], ...>>
          None,
          MinBlocksToKeep,  \* MIN_BLOCKS_TO_KEEP
          MaxFile,          \* bound: files are 0 .. MaxFile
          MaxLag,           \* bound: how far the tip runs ahead of the coins database
          MaxUndurable,     \* bound: batches that a power failure can drop
          Early             \* bound: blocks that may arrive before their parent

ASSUME TreeAssumption ==
  /\ IsFiniteSet(Block) /\ Genesis \in Block /\ None \notin Block
  /\ Prev \in [Block \ {Genesis} -> Block]
ASSUME BoundAssumption ==
  /\ MinBlocksToKeep \in Nat \ {0} /\ MaxFile \in Nat /\ MaxUndurable \in Nat /\ MaxLag \in Nat
  /\ Early \subseteq Block

Spent == 0
NoFile == -1
File == 0 .. MaxFile

(* The branch of a block: itself and its ancestors.                        *)
Branch[b \in Block] == IF b = Genesis THEN {b} ELSE {b} \cup Branch[Prev[b]]
Height(b) == Cardinality(Branch[b]) - 1

(* pprev leads from every block to genesis and never back to it, so of two *)
(* blocks of a branch one is on the branch of the other.                   *)
ASSUME BranchAssumption ==
  /\ Branch \in [Block -> SUBSET Block] /\ Branch[Genesis] = {Genesis}
  /\ \A b \in Block \ {Genesis} : Branch[b] = {b} \cup Branch[Prev[b]] /\ b \notin Branch[Prev[b]]
  /\ \A b \in Block : Genesis \in Branch[b] /\ b \in Branch[b]
  /\ \A b \in Block : \A x, y \in Branch[b] :
       Branch[x] \subseteq Branch[b] /\ (x \in Branch[y] \/ y \in Branch[x])

BranchOf(b) == IF b = None THEN {} ELSE Branch[b]
HeightOf(b) == IF b = None THEN -1 ELSE Height(b)
Highest(S) == CHOOSE b \in S : \A x \in S : Height(x) <= Height(b)
Lowest(S) == CHOOSE b \in S : \A x \in S : Height(b) <= Height(x)

-----------------------------------------------------------------------------
(* The effect of transactions and blocks on a set of coins.                *)
UpdateCoins(coins, tx, height) ==
  [o \in Outpoint |-> IF o \in tx.out THEN height ELSE IF o \in tx.in THEN Spent ELSE coins[o]]
First(S) == CHOOSE i \in S : \A j \in S : i <= j
Final(S) == CHOOSE i \in S : \A j \in S : j <= i
(* A set of the block's transactions is applied in order: Final(S) last.   *)
ConnectTxs(coins, b, S) ==
  MapThenFoldSet(LAMBDA i, c : UpdateCoins(c, vtx[b][i], Height(b)), coins, LAMBDA i : i, Final, S)
ConnectBlock(coins, b) == ConnectTxs(coins, b, DOMAIN vtx[b])

(* The coins of the chain that ends in a block.                            *)
NoCoins == [o \in Outpoint |-> Spent]
Utxo[b \in Block] == IF b = Genesis THEN NoCoins ELSE ConnectBlock(Utxo[Prev[b]], b)
CoinsAt(b) == IF b = None THEN NoCoins ELSE Utxo[b]

(* The undo data of transaction i: the coins it spent, as they were when   *)
(* ConnectBlock first reached it.                                          *)
Undo(b, i) == ConnectTxs(Utxo[Prev[b]], b, 1 .. i - 1)
UndoTx(coins, b, i) ==
  [o \in Outpoint |-> IF o \in vtx[b][i].in THEN Undo(b, i)[o]
                      ELSE IF o \in vtx[b][i].out THEN Spent ELSE coins[o]]
DisconnectBlock(coins, b) ==
  MapThenFoldSet(LAMBDA i, c : UndoTx(c, b, i), coins, LAMBDA i : i, First, DOMAIN vtx[b])

-----------------------------------------------------------------------------
VARIABLES
  pc,         \* "up", a step of FlushStateToDisk or of the start, "down" or "failed"
  tip,        \* m_chain.Tip() and the best block of CoinsTip()
  index,      \* m_block_index: blocks received (nTx # 0), the file of their data, which have undo data
  unsynced,   \* blocks whose data (blk) or undo data (rev) may not be on the disk yet
  toUnlink,   \* setFilesToPrune
  full,       \* fDoFullFlush
  target,     \* what BatchWrite writes: the coins of its cache and hashBlock
  diskIndex,  \* the block index database
  gone,       \* files that were unlinked
  db,         \* the coins database: coins, DB_BEST_BLOCK, DB_HEAD_BLOCKS
  undurable   \* its contents before each of the last batches, oldest first

memory == <<tip, index, toUnlink, full, target>>
disk == <<unsynced, diskIndex, gone, db, undurable>>
vars == <<pc, memory, disk>>

NoIndex == [known |-> {}, pos |-> [b \in Block |-> NoFile], undo |-> {}]
GenesisIndex == [NoIndex EXCEPT !.known = {Genesis}, !.pos[Genesis] = 0]
NoTarget == [coins |-> NoCoins, best |-> None]

HaveData(b) == index.pos[b] # NoFile
InFile(f) == {b \in Block : index.pos[b] = f}
(* m_last_blockfile: a file is only left for the next one, with a block.   *)
m_last_blockfile == CHOOSE f \in File : InFile(f) # {} /\ \A h \in File : InFile(h) # {} => h <= f
nHeightLast(f) == CHOOSE n \in {Height(b) : b \in InFile(f)} : \A b \in InFile(f) : Height(b) <= n
SyncedBlk(f) == [unsynced EXCEPT !.blk = @ \ InFile(f)]
SyncedRev(u, f) == [u EXCEPT !.rev = @ \ InFile(f)]

(* The first start: LoadGenesisBlock has stored the genesis block.         *)
Init ==
  /\ pc = "up" /\ tip = None /\ index = GenesisIndex
  /\ unsynced = [blk |-> {Genesis}, rev |-> {}]
  /\ toUnlink = {} /\ full = FALSE /\ target = NoTarget
  /\ diskIndex = NoIndex /\ gone = {}
  /\ db = [coins |-> NoCoins, best |-> None, heads |-> <<>>] /\ undurable = <<>>
-----------------------------------------------------------------------------
(* AcceptBlock and SaveBlockToDisk; blocks may arrive out of order.  The   *)
(* data goes to the last file or, when it is full, to the next one.  Then  *)
(* FindBlockPos calls FlushBlockFile for the file it leaves, which syncs   *)
(* the undo file only if the tip has caught up with the blocks in it.      *)
FindBlockPos_NoFlush(f) ==
  IF f = m_last_blockfile THEN unsynced ELSE SyncedRev(unsynced, m_last_blockfile)
FindBlockPos(f) ==
  LET last == m_last_blockfile
  IN  IF f = last THEN unsynced
      ELSE IF nHeightLast(last) = Height(tip) THEN SyncedRev(SyncedBlk(last), last)
      ELSE SyncedBlk(last)

AcceptBlock(b, f) ==
  /\ pc = "up" /\ tip # None /\ b \notin index.known
  /\ b \in Early \/ Prev[b] \in index.known
  /\ f \in {m_last_blockfile, m_last_blockfile + 1} \cap File
  /\ index' = [index EXCEPT !.known = @ \cup {b}, !.pos[b] = f]
  /\ unsynced' = [FindBlockPos(f) EXCEPT !.blk = @ \cup {b}]
  /\ UNCHANGED <<pc, tip, toUnlink, full, target, diskIndex, gone, db, undurable>>

(* WriteUndoDataForBlock: the undo file of an earlier block file is synced *)
(* after the block of the greatest height in it.                           *)
WriteUndoDataForBlock(b) ==
  LET f == index.pos[b]
      u == [unsynced EXCEPT !.rev = @ \cup {b}]
  IN  IF b = Genesis \/ b \in index.undo THEN UNCHANGED <<index, unsynced>>
      ELSE /\ index' = [index EXCEPT !.undo = @ \cup {b}]
           /\ unsynced' = IF f < m_last_blockfile /\ Height(b) = nHeightLast(f)
                          THEN SyncedRev(u, f) ELSE u

(* Everything the coins database may hold after a power failure.           *)
Survivors == {db} \cup Range(undurable)
Tips(d) == IF d.heads = <<>> THEN {d.best} ELSE Range(d.heads)
Lag(b, t) == Cardinality(BranchOf(b) \ BranchOf(t))

ConnectTip(b) ==
  /\ pc = "up" /\ HaveData(b)
  /\ IF b = Genesis THEN tip = None ELSE Prev[b] = tip
  /\ \A d \in Survivors : \A t \in Tips(d) : Lag(b, t) <= MaxLag
  /\ tip' = b
  /\ WriteUndoDataForBlock(b)
  /\ UNCHANGED <<pc, toUnlink, full, target, diskIndex, gone, db, undurable>>

DisconnectTip ==
  /\ pc = "up" /\ tip \notin {None, Genesis}
  /\ HaveData(tip) /\ tip \in index.undo
  /\ tip' = Prev[tip]
  /\ UNCHANGED <<pc, index, toUnlink, full, target, disk>>

-----------------------------------------------------------------------------
(* FlushStateToDisk.  FindFilesToPrune takes files from the first on, and  *)
(* skips those with a block that is too recent (nHeightLast);              *)
(* FindFilesToPruneManual does so up to a height.                          *)
Prunable(f) ==
  /\ InFile(f) # {} /\ f < m_last_blockfile
  /\ \A b \in InFile(f) : Height(b) <= HeightOf(tip) - MinBlocksToKeep
PruneOneBlockFile(S) ==
  [index EXCEPT !.pos = [b \in Block |-> IF @[b] \in S THEN NoFile ELSE @[b]],
                !.undo = {b \in @ : index.pos[b] \notin S}]

(* The files to prune are chosen, and FlushBlockFile syncs the last block  *)
(* file and its undo file.                                                 *)
FlushFiles(S, always) ==
  /\ pc = "up"
  /\ \A f \in S : Prunable(f) /\ \A h \in File : h < f /\ Prunable(h) => h \in S
  /\ index' = PruneOneBlockFile(S)
  /\ unsynced' = SyncedRev(SyncedBlk(m_last_blockfile), m_last_blockfile)
  /\ toUnlink' = S
  /\ full' = (always \/ S # {})
  /\ pc' = "index"
  /\ UNCHANGED <<tip, target, diskIndex, gone, db, undurable>>

WriteBlockIndexDB_NoUndo ==
  /\ pc = "index"
  /\ diskIndex' = [index EXCEPT !.undo = @ \ {tip}]
  /\ pc' = "unlink"
  /\ UNCHANGED <<memory, unsynced, gone, db, undurable>>
WriteBlockIndexDB ==
  /\ pc = "index"
  /\ diskIndex' = index
  /\ pc' = "unlink"
  /\ UNCHANGED <<memory, unsynced, gone, db, undurable>>

UnlinkPrunedFiles ==
  /\ pc = "unlink"
  /\ gone' = gone \cup toUnlink
  /\ toUnlink' = {}
  /\ IF full /\ tip # None
     THEN pc' = "first" /\ target' = [coins |-> CoinsAt(tip), best |-> tip]
     ELSE pc' = "up" /\ target' = target
  /\ UNCHANGED <<tip, index, full, unsynced, diskIndex, db, undurable>>

-----------------------------------------------------------------------------
(* CCoinsViewDB::BatchWrite.  The entries come in the order of a hash map: *)
(* each batch holds any of those not yet written.                          *)
Written(S) == [o \in Outpoint |-> IF o \in S THEN target.coins[o] ELSE db.coins[o]]
Changed == {o \in Outpoint : db.coins[o] # target.coins[o]}
WriteBatch(d) ==
  /\ db' = d
  /\ undurable' = LET u == Append(undurable, db)
                  IN  IF Len(u) > MaxUndurable THEN Tail(u) ELSE u

old_tip_Best == db.best
old_tip == IF db.best = None /\ db.heads # <<>> THEN db.heads[2] ELSE db.best

FirstBatch_KeepsBest(S) ==
  /\ pc = "first"
  /\ pc' = "batch"
  /\ WriteBatch([coins |-> Written(S), best |-> db.best, heads |-> <<target.best, old_tip>>])
  /\ UNCHANGED <<memory, unsynced, diskIndex, gone>>
FirstBatch(S) ==
  /\ pc = "first"
  /\ pc' = "batch"
  /\ WriteBatch([coins |-> Written(S), best |-> None, heads |-> <<target.best, old_tip>>])
  /\ UNCHANGED <<memory, unsynced, diskIndex, gone>>

PartialBatch(S) ==
  /\ pc = "batch" /\ S # {}
  /\ WriteBatch([db EXCEPT !.coins = Written(S)])
  /\ UNCHANGED <<pc, memory, unsynced, diskIndex, gone>>

(* The last batch, or the only one; after a replay the start goes on with  *)
(* LoadChainTip.                                                           *)
LastBatch ==
  /\ pc \in {"first", "batch"}
  /\ WriteBatch([coins |-> target.coins, best |-> target.best, heads |-> <<>>])
  /\ tip' = target.best
  /\ target' = NoTarget /\ full' = FALSE
  /\ pc' = "up"
  /\ UNCHANGED <<index, toUnlink, unsynced, diskIndex, gone>>

-----------------------------------------------------------------------------
(* The process dies, and in a power failure the coins database goes back   *)
(* to what it held before some of its last batches.                        *)
Crash(n) ==
  /\ pc \notin {"down", "failed"}
  /\ pc' = "down"
  /\ db' = IF n > Len(undurable) THEN db ELSE undurable[n]
  /\ undurable' = SubSeq(undurable, 1, n - 1)
  /\ tip' = None /\ index' = NoIndex /\ toUnlink' = {} /\ full' = FALSE /\ target' = NoTarget
  /\ unsynced' = [blk |-> {b \in unsynced.blk : diskIndex.pos[b] # NoFile},
                   rev |-> unsynced.rev \cap diskIndex.undo]
  /\ UNCHANGED <<diskIndex, gone>>

(* The index that a start works with: LoadBlockIndexDB, LoadGenesisBlock.  *)
Loaded == IF Genesis \in diskIndex.known THEN diskIndex ELSE GenesisIndex
FilesPresent == \A b \in Block : Loaded.pos[b] \notin gone
ScanAndUnlink ==
  {f \in File : (\E b \in Block : Loaded.pos[b] > f) /\ (\A b \in Block : Loaded.pos[b] # f)}

(* ReplayBlocks: roll back from the old tip to the fork, then forward to   *)
(* the new one, on a cache over the coins found in the database.  There is *)
(* no old tip in the first write, and nothing to connect in the genesis    *)
(* block.                                                                  *)
Rollback(new, old) == BranchOf(old) \ Branch[new]
Rollforward(new, old) == Branch[new] \ (BranchOf(old) \cup {Genesis})
Replayable(new, old) ==
  /\ new \in Loaded.known
  /\ old # None => old \in Loaded.known
  /\ \A b \in Rollback(new, old) : Loaded.pos[b] # NoFile /\ b \in Loaded.undo
  /\ \A b \in Rollforward(new, old) : Loaded.pos[b] # NoFile
ReplayBlocks(coins, new, old) ==
  LET fork == MapThenFoldSet(LAMBDA b, c : DisconnectBlock(c, b), coins, LAMBDA b : b,
                             Lowest, Rollback(new, old))
  IN  MapThenFoldSet(LAMBDA b, c : ConnectBlock(c, b), fork, LAMBDA b : b,
                     Highest, Rollforward(new, old))

(* What ReplayBlocks computes for blocks that connect: from coins some of  *)
(* which are those of the new tip already, exactly the coins of the new    *)
(* tip.                                                                    *)
Mixed(S, new, old) ==
  [o \in Outpoint |-> IF o \in S THEN CoinsAt(new)[o] ELSE CoinsAt(old)[o]]
ReplayComputes ==
  \A new \in Block, old \in Block \cup {None} : \A S \in SUBSET Outpoint :
    ReplayBlocks(Mixed(S, new, old), new, old) = CoinsAt(new)

(* A start: LoadBlockIndexDB, ReplayBlocks and, when the coins database is *)
(* in order, LoadChainTip.  One that fails leaves the disk as it was, and  *)
(* may be tried again.                                                     *)
Outcome ==
  IF ~FilesPresent THEN "failed"
  ELSE IF db.heads = <<>>
       THEN IF db.best \in Loaded.known \cup {None} THEN "up" ELSE "failed"
       ELSE IF Replayable(db.heads[1], db.heads[2]) THEN "first" ELSE "failed"
Start ==
  /\ pc \in {"down", "failed"}
  /\ pc' = Outcome
  /\ gone' = IF FilesPresent THEN gone \cup ScanAndUnlink ELSE gone
  /\ index' = Loaded
  /\ unsynced' = IF Genesis \in diskIndex.known THEN unsynced
                 ELSE [unsynced EXCEPT !.blk = @ \cup {Genesis}]
  /\ tip' = IF pc' = "up" THEN db.best ELSE None
  /\ target' = IF pc' # "first" THEN NoTarget
               ELSE [coins |-> ReplayBlocks(db.coins, db.heads[1], db.heads[2]),
                     best  |-> db.heads[1]]
  /\ UNCHANGED <<toUnlink, full, diskIndex, db, undurable>>

Writes == WriteBlockIndexDB \/ UnlinkPrunedFiles
Batches == (\E S \in SUBSET Changed : FirstBatch(S) \/ PartialBatch(S)) \/ LastBatch
Run ==
  \/ \E b \in Block, f \in File : AcceptBlock(b, f)
  \/ \E b \in Block : ConnectTip(b)
  \/ DisconnectTip
  \/ \E S \in SUBSET File, always \in BOOLEAN : FlushFiles(S, always)

Dies == \E n \in 1 .. Len(undurable) + 1 : Crash(n)

Next == Run \/ Writes \/ Batches \/ Start \/ Dies

Spec == Init /\ [][Next]_vars

-----------------------------------------------------------------------------
Index == [known : SUBSET Block, pos : [Block -> File \cup {NoFile}], undo : SUBSET Block]
Coins == [Outpoint -> Nat]
Database == [coins : Coins, best : Block \cup {None},
             heads : {<<>>} \cup (Block \X (Block \cup {None}))]

(* The state has the types of the code's fields; a database that has a     *)
(* best block is not in transition, as BatchWrite writes one key and       *)
(* erases the other.                                                       *)
TypeOK ==
  /\ pc \in {"up", "index", "unlink", "first", "batch", "down", "failed"}
  /\ tip \in Block \cup {None} /\ index \in Index /\ diskIndex \in Index
  /\ unsynced \in [blk : SUBSET Block, rev : SUBSET Block]
  /\ toUnlink \subseteq File /\ gone \subseteq File /\ full \in BOOLEAN
  /\ target \in [coins : Coins, best : Block \cup {None}]
  /\ \A d \in Survivors : d \in Database /\ (d.heads # <<>> => d.best = None)
  /\ Len(undurable) <= MaxUndurable

(* Whatever a crash leaves of the coins database: if it names a best block *)
(* it holds exactly the coins of the chain that ends there, also when that *)
(* is the result of replaying a write that was itself a replay cut off.    *)
CoinsMatchBest == \A d \in Survivors : d.heads = <<>> => d.coins = CoinsAt(d.best)

(* In transition every entry is the one of the old tip or the one of the   *)
(* new tip: BatchWrite overwrites and erases single entries and repeated   *)
(* replays bring in nothing else.                                          *)
HalfApplied ==
  \A d \in Survivors : d.heads # <<>> =>
    \A o \in Outpoint : d.coins[o] \in {CoinsAt(d.heads[1])[o], CoinsAt(d.heads[2])[o]}

(* What FlushStateToDisk and ReplayBlocks rely on: any prefix of the       *)
(* unsynced batches leaves coins that are right or can be made right.      *)
CoinsRecoverable == CoinsMatchBest /\ HalfApplied

(* BatchWrite asserts that a database in transition is being brought to    *)
(* the same block as before.                                               *)
ReplayAssert == pc = "first" /\ db.heads # <<>> => db.heads[1] = target.best

(* Wherever the last run was cut off, a start finds every block and all    *)
(* undo data that ReplayBlocks and LoadChainTip need, with one exception:  *)
(* FlushStateToDisk removes pruned files before it writes the coins, so a  *)
(* coins write that is cut off may be beyond repair if the node had        *)
(* connected more than MIN_BLOCKS_TO_KEEP blocks beyond its old or new tip.*)
(* A replay that is repeated satisfies BatchWrite's assertion.             *)
StartSucceeds ==
  /\ pc = "failed" => /\ db.heads # <<>>
                      /\ \E b \in diskIndex.undo, t \in Tips(db) : Lag(b, t) > MinBlocksToKeep
  /\ ReplayAssert

(* The index on disk refers only to data that is there, at every point of  *)
(* FlushStateToDisk: pruned files are removed after the index was written  *)
(* without them, and block files are synced before an index that refers to *)
(* them is, so that the data outlives a power failure.                     *)
IndexedDataThere ==
  \A b \in Block : diskIndex.pos[b] # NoFile => b \notin unsynced.blk /\ diskIndex.pos[b] \notin gone

(* A running node has no file left on disk that was pruned, even when it   *)
(* crashed after the index was written and before the files were removed.  *)
NoFileLeaked == pc = "up" => \A f \in File : f < m_last_blockfile /\ InFile(f) = {} => f \in gone

(* Index and block files agree across crashes: what the index refers to is *)
(* there, and what is there and prunable the index refers to.              *)
FilesMatchIndex == IndexedDataThere /\ NoFileLeaked
=============================================================================
