----------------------------- MODULE IndexSync -----------------------------
(***************************************************************************)
(* The block indexes: BaseIndex (index/base.cpp) and the two subclasses    *)
(* whose contents depend on the order of the calls, CoinStatsIndex and     *)
(* BlockFilterIndex, beside a chain that moves, a node that stops and      *)
(* crashes, and the queue of validation notifications.                     *)
(*                                                                         *)
(* A sync thread indexes the active chain block by block until it catches  *)
(* up and sets m_synced; from then on the notification thread does, and    *)
(* before that it drops what it gets.  So one program counter, step,       *)
(* serves both.  cs_main orders what is left of their overlap: the sync    *)
(* thread keeps it from setting m_synced to the end of Commit, and what    *)
(* the notification thread does then (GetLocator, CustomAppend, the        *)
(* reversal of blocks) begins by taking it.                                *)
(*                                                                         *)
(* The index database is written through, so a process that dies loses     *)
(* what is in memory and nothing else; the chain falls back to the tip     *)
(* last flushed.  Reads and writes do not fail, and nothing is pruned.     *)
(***************************************************************************)
EXTENDS Integers, Sequences, FiniteSets

CONSTANTS Block, Genesis, Prev,  \* the block tree
          None,                  \* nullptr, or a key that is not there
          Kinds,                 \* subclasses: a subset of KindNames
          FirstTips,             \* tips of the chain when the index is added
          MaxMoves,              \* bound: tip changes and flushes
          MaxStops,              \* bound: crashes and shutdowns
          MaxQueue               \* bound: notifications not yet handled

KindNames == {"coinstats", "blockfilter"}

ASSUME IndexAssumption ==
  /\ Genesis \in Block /\ None \notin Block
  /\ Prev \in [Block \ {Genesis} -> Block]
  /\ Kinds \subseteq KindNames /\ FirstTips \subseteq Block \cup {None}
  /\ MaxMoves \in Nat /\ MaxStops \in Nat /\ MaxQueue \in Nat

(* The blocks from genesis to b; what GetAncestor finds is in it.          *)
Path[b \in Block] == IF b = Genesis THEN {b} ELSE Path[Prev[b]] \cup {b}
PathTo(b) == IF b = None THEN {} ELSE Path[b]
Height(b) == Cardinality(Path[b]) - 1
Heights == {Height(b) : b \in Block}
PrevOf(b) == IF b = Genesis THEN None ELSE Prev[b]

(* CChain::FindFork, and FindForkInGlobalIndex of a locator that lists the *)
(* whole path to x: the last block they share.                             *)
FindFork(x, t) ==
  LET shared == PathTo(x) \cap PathTo(t)
  IN  IF shared = {} THEN None ELSE CHOOSE b \in shared : shared \subseteq Path[b]

(* CChain::Next and NextSyncBlock: the block of the chain to t that        *)
(* follows where the chain and p part.                                     *)
NextSyncBlock_NoFork(p, t) ==
  LET after == {b \in PathTo(t) : PrevOf(b) = p}
  IN  IF after = {} THEN None ELSE CHOOSE b \in after : TRUE
NextSyncBlock(p, t) ==
  LET after == {b \in PathTo(t) : PrevOf(b) = FindFork(p, t)}
  IN  IF after = {} THEN None ELSE CHOOSE b \in after : TRUE

VARIABLES
  kind,     \* which subclass
  tip,      \* m_chain.Tip()
  flushed,  \* the tip that the coins database holds
  queue,    \* notifications, oldest first
  node,     \* "up", "stopping", "flushed", "down", "aborted" or "broken"
  synced,   \* m_synced
  best,     \* m_best_block_index
  total,    \* m_muhash
  pindex,   \* the sync thread's pindex
  next,     \* the block being indexed
  step,     \* where the thread that indexes is
  fresh,    \* last_locator_write_time is still 0
  db,       \* the index database
  setBack,  \* history: 1 from a start without the committed block to the
            \* next commit, 2 for good if entries may be lost in between
  waiter,   \* a caller of BlockUntilSyncedToCurrentChain
  moves, stops

memory == <<synced, best, total, pindex, next, step, fresh>>
bounds == <<moves, stops>>
vars == <<kind, tip, flushed, queue, node, memory, db, setBack, waiter, bounds>>

(* m_muhash: how often the coins of each block were added, net of how      *)
(* often they were taken away; those of genesis are not.  The header of a  *)
(* block filter commits to the filters of the chain below it likewise.     *)
NoTotal == [b \in Block |-> 0]
Add(t, b) == IF b = Genesis THEN t ELSE [t EXCEPT ![b] = @ + 1]
Subtract(t, S) == [b \in Block |-> IF b \in S THEN t[b] - 1 ELSE t[b]]
TotalAt(b) == [x \in Block |-> IF x \in PathTo(b) \ {Genesis} THEN 1 ELSE 0]

Connected(b) == [type |-> "connected", block |-> b]
Flushed(b) == [type |-> "flushed", block |-> b]

NoWaiter == [tip |-> None, left |-> 0, returned |-> FALSE]
-----------------------------------------------------------------------------
(* The database: entries by height, entries by hash, and the committed     *)
(* locator with the totals that belong to it.                              *)
EmptyDb == [height |-> [h \in Heights |-> None], hash |-> [b \in Block |-> None],
            best |-> None, total |-> NoTotal]

(* LookUpOne: by height if that entry is b's, by hash if it is another's.  *)
LookUp(d, b) ==
  LET e == d.height[Height(b)]
  IN  CASE e = None -> None
        [] e # None /\ e.block = b -> e.total
        [] OTHER -> d.hash[b]

(* What CustomAppend and ReverseBlock read of the parent of b.  The filter *)
(* index does not fall back to the entry by hash.  The coin statistics     *)
(* index does, but reads it as a pair of a hash and a DBVal, whereas what  *)
(* is stored there is a DBVal: the read comes to the end of the data and   *)
(* fails.                                                                  *)
ParentEntry(b) ==
  LET e == db.height[Height(b) - 1]
  IN  IF e # None /\ e.block = Prev[b] THEN e.total ELSE None

Appendable(b) == b = Genesis \/ ParentEntry(b) # None

(* CustomAppend: the totals go on from those in memory, the header of a    *)
(* filter from that of the parent's entry.                                 *)
NewTotal(b) ==
  Add(IF kind = "coinstats" THEN total
      ELSE IF b = Genesis THEN NoTotal ELSE ParentEntry(b), b)
CustomAppend(b) ==
  /\ db' = [db EXCEPT !.height[Height(b)] = [block |-> b, total |-> NewTotal(b)]]
  /\ total' = IF kind = "coinstats" THEN NewTotal(b) ELSE total

(* SetBestBlockIndex(b) and Commit.                                        *)
Commit(b) ==
  /\ best' = b
  /\ db' = IF b = None THEN db ELSE [db EXCEPT !.best = b, !.total = total]
  /\ setBack' = IF b # None /\ setBack = 1 THEN 0 ELSE setBack

(* CopyHeightIndexToHashIndex, both ends included.                         *)
Copyable(new, current) == \A h \in Height(new) .. Height(current) : db.height[h] # None
Copied_NotLast(new, current) ==
  [b \in Block |->
     LET hs == {h \in Height(new) .. Height(current) - 1 : db.height[h].block = b}
     IN  IF hs = {} THEN db.hash[b] ELSE db.height[CHOOSE h \in hs : TRUE].total]
Copied(new, current) ==
  [b \in Block |->
     LET hs == {h \in Height(new) .. Height(current) : db.height[h].block = b}
     IN  IF hs = {} THEN db.hash[b] ELSE db.height[CHOOSE h \in hs : TRUE].total]

(* CustomRewind of the totals.  ReverseBlock leaves them alone for a block *)
(* whose parent has no entry, and its result is not looked at.             *)
Reversible_ForkToo(new, current) ==
  {b \in (Path[current] \ Path[new]) \cup ({new} \ {Genesis}) :
     kind = "coinstats" /\ ParentEntry(b) # None}
Reversible(new, current) ==
  {b \in Path[current] \ Path[new] : kind = "coinstats" /\ ParentEntry(b) # None}
ReverseAsserts(new, current) ==
  \A b \in Reversible(new, current) :
    ParentEntry(b) = Subtract(total, {x \in Reversible(new, current) : Height(x) >= Height(b)})

(* Rewind up to the write of the copies; RewindCommit does the rest.       *)
Rewind(current, b) ==
  LET new == Prev[b]
  IN  IF ~(current = best /\ new \in Path[current]) THEN
           node' = "aborted" /\ UNCHANGED <<db, total, next, step, queue>>
      ELSE IF ~Copyable(new, current) THEN   \* FatalError
           /\ node' = "stopping" /\ step' = "ready"
           /\ queue' = IF synced THEN Tail(queue) ELSE queue
           /\ UNCHANGED <<db, total, next>>
      ELSE /\ db' = [db EXCEPT !.hash = Copied(new, current)]
           /\ total' = Subtract(total, Reversible(new, current))
           /\ node' = IF ReverseAsserts(new, current) THEN node ELSE "aborted"
           /\ next' = b /\ step' = "rewind" /\ UNCHANGED queue
-----------------------------------------------------------------------------
Running == node \in {"up", "stopping", "flushed"}

(* The sync thread rewinds under cs_main.                                  *)
MainFree == ~(step = "rewind" /\ ~synced)

(* The chain.  ConnectTip and DisconnectTip may flush: the coins are those *)
(* of the new tip, the locator is still that of the old one.               *)
Move(newTip, flush, event) ==
  /\ node \in {"up", "stopping"} /\ MainFree
  /\ moves < MaxMoves /\ moves' = moves + 1
  /\ flush => tip # None
  /\ tip' = newTip
  /\ flushed' = IF flush THEN newTip ELSE flushed
  /\ queue' = queue \o (IF flush THEN <<Flushed(tip)>> ELSE <<>>) \o event
  /\ Len(queue') <= MaxQueue
  /\ UNCHANGED <<kind, setBack, node, memory, db, waiter, stops>>

ConnectTip(b, flush) == PrevOf(b) = tip /\ Move(b, flush, <<Connected(b)>>)
DisconnectTip(flush) == tip \notin {None, Genesis} /\ Move(Prev[tip], flush, <<>>)

FlushStateToDisk ==
  /\ node \in {"up", "stopping"} /\ MainFree /\ tip \notin {None, flushed}
  /\ flushed' = tip /\ queue' = Append(queue, Flushed(tip))
  /\ Len(queue') <= MaxQueue
  /\ UNCHANGED <<kind, setBack, tip, node, memory, db, waiter, bounds>>
-----------------------------------------------------------------------------
(* The sync thread.                                                        *)

SyncTop == step = "sync" /\ Running

SyncInterrupted ==
  /\ SyncTop /\ node # "up"
  /\ Commit(pindex) /\ step' = "ready"
  /\ UNCHANGED <<kind, tip, flushed, queue, node, synced, total, pindex, next, fresh, waiter, bounds>>

SyncCaughtUp ==
  /\ SyncTop /\ node = "up" /\ NextSyncBlock(pindex, tip) = None
  /\ Commit(pindex) /\ synced' = TRUE /\ step' = "ready"
  /\ UNCHANGED <<kind, tip, flushed, queue, node, total, pindex, next, fresh, waiter, bounds>>

SyncNext ==
  /\ SyncTop /\ node = "up"
  /\ LET b == NextSyncBlock(pindex, tip) IN
     /\ b # None
     /\ IF PrevOf(b) = pindex
        THEN next' = b /\ step' = "append" /\ UNCHANGED <<db, total, node, queue>>
        ELSE Rewind(pindex, b)
  /\ UNCHANGED <<kind, setBack, tip, flushed, synced, best, pindex, fresh, waiter, bounds>>

(* The locator is written in the first round and every 30 seconds.         *)
SyncWriteLocator_Ahead ==
  /\ step = "append" /\ Running
  /\ Commit(next) /\ fresh' = FALSE /\ step' = "append2"
  /\ UNCHANGED <<kind, tip, flushed, queue, node, synced, total, pindex, next, waiter, bounds>>
SyncWriteLocator ==
  /\ step = "append" /\ Running
  /\ Commit(PrevOf(next)) /\ fresh' = FALSE /\ step' = "append2"
  /\ UNCHANGED <<kind, tip, flushed, queue, node, synced, total, pindex, next, waiter, bounds>>

SyncAppend ==
  /\ step = "append2" \/ (step = "append" /\ ~fresh)
  /\ Running
  /\ IF Appendable(next)
     THEN CustomAppend(next) /\ pindex' = next /\ step' = "sync" /\ UNCHANGED node
     ELSE node' = "stopping" /\ step' = "ready" /\ UNCHANGED <<db, total, pindex>>
  /\ UNCHANGED <<kind, setBack, tip, flushed, queue, synced, best, next, fresh, waiter, bounds>>

(* The end of Rewind, for both threads.                                    *)
RewindCommit ==
  /\ step = "rewind" /\ Running
  /\ Commit(Prev[next])
  /\ step' = IF synced THEN "connect" ELSE "append"
  /\ UNCHANGED <<kind, tip, flushed, queue, node, synced, total, pindex, next, fresh, waiter, bounds>>
-----------------------------------------------------------------------------
(* The notification thread.  A notification leaves the queue when its      *)
(* handling is over, and is then one less for the waiter to wait for.      *)
Handled ==
  /\ queue' = Tail(queue)
  /\ waiter' = IF waiter.left = 0 THEN waiter
               ELSE [waiter EXCEPT !.left = @ - 1, !.returned = waiter.left = 1]

Ignore ==
  /\ Running /\ queue # <<>> /\ ~synced /\ Handled
  /\ UNCHANGED <<kind, setBack, tip, flushed, node, memory, db, bounds>>

BlockConnected ==
  /\ Running /\ queue # <<>> /\ synced /\ step = "ready" /\ Head(queue).type = "connected"
  /\ LET b == Head(queue).block
         stays == UNCHANGED <<next, step, db, total>>
     IN  \/ /\ best = None /\ b # Genesis   \* FatalError
            /\ node' = "stopping" /\ stays /\ Handled
         \/ /\ best # None /\ b # Genesis /\ Prev[b] \notin Path[best]
            /\ stays /\ Handled /\ UNCHANGED node
         \/ /\ PrevOf(b) = best
            /\ next' = b /\ step' = "connect" /\ UNCHANGED <<db, total, queue, waiter, node>>
         \/ /\ best # None /\ b # Genesis /\ Prev[b] \in Path[best] \ {best}
            /\ Rewind(best, b)
            /\ UNCHANGED waiter
  /\ UNCHANGED <<kind, setBack, tip, flushed, synced, best, pindex, fresh, bounds>>

ConnectAppend ==
  /\ step = "connect" /\ Running
  /\ IF Appendable(next)
     THEN CustomAppend(next) /\ step' = "set" /\ UNCHANGED <<node, queue, waiter>>
     ELSE node' = "stopping" /\ step' = "ready" /\ Handled /\ UNCHANGED <<db, total>>
  /\ UNCHANGED <<kind, setBack, tip, flushed, synced, best, pindex, next, fresh, bounds>>

ConnectSetBest ==
  /\ step = "set" /\ Running
  /\ best' = next /\ step' = "ready" /\ Handled
  /\ UNCHANGED <<kind, setBack, tip, flushed, node, synced, total, pindex, next, fresh, db, bounds>>

(* Without a best block GetAncestor is called on a null pointer.           *)
ChainStateFlushed ==
  /\ Running /\ queue # <<>> /\ synced /\ step = "ready" /\ Head(queue).type = "flushed"
  /\ Handled
  /\ node' = IF best = None THEN "aborted" ELSE node
  /\ IF Head(queue).block \in PathTo(best) THEN Commit(best)
     ELSE UNCHANGED <<best, db, setBack>>
  /\ UNCHANGED <<kind, tip, flushed, synced, total, pindex, next, step, fresh, bounds>>

(* BlockUntilSyncedToCurrentChain, when it is not satisfied at once.       *)
BlockUntilSyncedToCurrentChain ==
  /\ node = "up" /\ synced /\ best # None /\ MainFree /\ waiter = NoWaiter
  /\ tip \notin Path[best]
  /\ waiter' = [tip |-> tip, left |-> Len(queue), returned |-> queue = <<>>]
  /\ UNCHANGED <<kind, setBack, tip, flushed, queue, node, memory, db, bounds>>
-----------------------------------------------------------------------------
(* Start, Stop and crashes.                                                *)

(* Init and CustomInit.  The totals in memory must be those of the best    *)
(* block's entry, or the node does not start.                              *)
Start ==
  /\ node \in {"down", "aborted"}
  /\ tip' = flushed /\ queue' = <<>> /\ waiter' = NoWaiter
  /\ best' = FindFork(db.best, flushed)
  /\ synced' = (best' = tip')
  /\ setBack' = CASE setBack > 0 \/ (best' = None /\ db.total # NoTotal) -> 2
                  [] setBack = 0 /\ best' # db.best -> 1
                  [] OTHER -> 0
  /\ total' = db.total
  /\ node' = IF kind = "coinstats" /\ best' # None /\ LookUp(db, best') # db.total
             THEN "broken" ELSE "up"
  /\ pindex' = best' /\ next' = None /\ fresh' = TRUE
  /\ step' = IF synced' THEN "ready" ELSE "sync"
  /\ UNCHANGED <<kind, flushed, db, bounds>>

Crash ==
  /\ Running /\ stops < MaxStops
  /\ node' = "down" /\ stops' = stops + 1
  /\ UNCHANGED <<kind, setBack, tip, flushed, queue, memory, db, waiter, moves>>

(* Interrupt, then the flush of Shutdown, after which nothing connects     *)
(* blocks; the indexes go when the callbacks are done and the sync thread  *)
(* has ended.                                                              *)
Interrupt ==
  /\ node = "up" /\ stops < MaxStops
  /\ node' = "stopping" /\ stops' = stops + 1
  /\ UNCHANGED <<kind, setBack, tip, flushed, queue, memory, db, waiter, moves>>

ShutdownFlush ==
  /\ node = "stopping" /\ MainFree
  /\ node' = "flushed" /\ flushed' = tip
  /\ queue' = IF tip = None THEN queue ELSE Append(queue, Flushed(tip))
  /\ UNCHANGED <<kind, setBack, tip, memory, db, waiter, bounds>>

Stop ==
  /\ node = "flushed" /\ queue = <<>> /\ step = "ready"
  /\ node' = "down"
  /\ UNCHANGED <<kind, setBack, tip, flushed, queue, memory, db, waiter, bounds>>

Init ==
  /\ kind \in Kinds /\ flushed \in FirstTips
  /\ tip = flushed /\ queue = <<>> /\ node = "down" /\ db = EmptyDb
  /\ synced = FALSE /\ best = None /\ total = NoTotal /\ pindex = None /\ next = None
  /\ step = "ready" /\ fresh = TRUE /\ setBack = 0 /\ waiter = NoWaiter /\ moves = 0 /\ stops = 0

Sync ==
  \/ SyncInterrupted \/ SyncCaughtUp \/ SyncNext \/ SyncWriteLocator \/ SyncAppend
Notify ==
  \/ Ignore \/ BlockConnected \/ ConnectAppend \/ ConnectSetBest \/ ChainStateFlushed
Shutdown == ShutdownFlush \/ Stop

Next ==
  \/ \E b \in Block, flush \in BOOLEAN : ConnectTip(b, flush)
  \/ \E flush \in BOOLEAN : DisconnectTip(flush)
  \/ FlushStateToDisk
  \/ Sync \/ RewindCommit \/ Notify
  \/ BlockUntilSyncedToCurrentChain
  \/ Start \/ Crash \/ Interrupt \/ Shutdown

(* The operator starts the node again; its threads run; a shutdown goes on.*)
Fairness ==
  /\ WF_vars(Sync) /\ WF_vars(RewindCommit) /\ WF_vars(Notify)
  /\ WF_vars(Start) /\ WF_vars(Shutdown)

Spec == Init /\ [][Next]_vars
FairSpec == Spec /\ Fairness
-----------------------------------------------------------------------------
(* Properties.                                                             *)

Right(b) == LookUp(db, b) = TotalAt(b)

(* The process did not die between a start on a chain without the          *)
(* committed block and the next commit: the notification thread may have   *)
(* written over entries of the committed chain.  Nor was an index that has *)
(* committed started on an empty chain, where m_muhash is read back but    *)
(* compared with nothing.                                                  *)
Intact == setBack < 2

(* What BlockUntilSyncedToCurrentChain promises: when it returns true, at  *)
(* once or after the queue is drained, the index answers for the tip the   *)
(* caller saw, and answers right, whatever reorganisations, stale          *)
(* notifications and restarts came before.                                 *)
QueriesAnswered ==
  Intact =>
    /\ node = "up" /\ synced /\ tip \in PathTo(best) => Right(tip)
    /\ waiter.returned => Right(waiter.tip)

(* Whenever the process dies the database can be used: the committed       *)
(* locator is not ahead of the entries, and the committed totals are those *)
(* of the committed block.                                                 *)
CommittedSound ==
  setBack = 0 =>
    /\ \A b \in PathTo(db.best) : Right(b)
    /\ kind = "coinstats" => db.total = TotalAt(db.best)

(* The node starts with the index it has, unless the committed block is    *)
(* not in the chain that was flushed; CustomAppend always finds the entry  *)
(* of the parent; and no assertion of Rewind or ReverseBlock fails, but    *)
(* the first of Rewind in a sync thread ahead of m_best_block_index.       *)
IndexingFits ==
  Intact =>
    /\ node = "broken" => db.best \notin PathTo(flushed)
    /\ Running /\ step \in {"append", "append2", "connect"} => Appendable(next)
    /\ node = "aborted" => ~synced /\ pindex # best

(* Rewind's assertions hold.                                               *)
RewindAsserts == node # "aborted"

(* An index that is enabled catches up with the chain, whatever it missed, *)
(* once the tip no longer moves and the node stays up.                     *)
CatchesUp ==
  <>[](node = "broken" \/ ~Intact \/ (node = "up" /\ synced /\ (tip # None => tip \in PathTo(best))))
=============================================================================
