------------------------------ MODULE Mempool ------------------------------
(***************************************************************************)
(* The memory pool: CTxMemPool (txmempool.cpp), acceptance of a single     *)
(* transaction (MemPoolAccept in validation.cpp, policy/rbf.cpp) and what  *)
(* connecting and disconnecting blocks do to the pool.                     *)
(*                                                                         *)
(* The pool keeps links between parents and children, and for every entry  *)
(* counts and fees over all its ancestors and descendants; they are never  *)
(* computed anew, only adjusted.  In a reorganisation, confirmed           *)
(* transactions come back below children that are already in the pool, so  *)
(* links and totals are incomplete until UpdateTransactionsFromBlock.  The *)
(* locks are held throughout; the steps show the states in between.        *)
(*                                                                         *)
(* Every transaction is 1000 vbytes, so sizes are counts and a fee rate is *)
(* a fee; the memory limit is a number of transactions.  Scripts pass.     *)
(* Coinbase transactions, packages and time-based locks are left out.      *)
(***************************************************************************)
EXTENDS Integers, Sequences, FiniteSets, FiniteSetsExt, SequencesExt

CONSTANTS Tx, Coin, None,
          Inputs,          \* vin: the coins a transaction spends
          Creator,         \* the transaction of a coin, None for old coins
          BaseFee,         \* GetFee()
          NotBefore,       \* the first height at which it is final and mature
          Lock,            \* relative lock on all inputs, 0 for none
          Signals,         \* SignalsOptInRBF
          AncestorLimit, DescendantLimit, MaxReplacement,
          MinRelayFee, IncrementalFee,
          MaxPool,         \* m_max_size_bytes
          MaxDisconnected, \* MAX_DISCONNECTED_TX_POOL_SIZE
          Deltas,          \* bound: what prioritisetransaction adds to what
          Bodies,          \* bound: bodies of blocks, as sequences
          MaxHeight        \* bound: length of the chain

ASSUME MempoolAssumption ==
  /\ None \notin Tx /\ IsFiniteSet(Tx) /\ IsFiniteSet(Coin)
  /\ Inputs \in [Tx -> SUBSET Coin] /\ Creator \in [Coin -> Tx \cup {None}]
  /\ {BaseFee, NotBefore, Lock} \subseteq [Tx -> Nat] /\ Signals \subseteq Tx
  /\ {AncestorLimit, DescendantLimit} \subseteq Nat \ {0, 1}
  /\ {MaxReplacement, MinRelayFee, IncrementalFee, MaxPool, MaxDisconnected, MaxHeight} \subseteq Nat
  /\ Deltas \in [Tx -> Nat] /\ Bodies \subseteq Seq(Tx)

VARIABLES
  chain,          \* the bodies of the blocks of the active chain
  pool,           \* mapTx, mapNextTx and mapDeltas
  rolling,        \* rollingMinimumFeeRate
  blockSince,     \* blockSinceLastRollingFeeBump
  phase,          \* "rest", "disconnect", "connect", "readd", "update" or "limit"
  disconnected,   \* disconnectpool.queuedTx, oldest first
  add,            \* fAddToMempool
  toUpdate,       \* vHashUpdate, those not yet processed
  included,       \* setAlreadyIncluded
  cached,         \* mapMemPoolDescendantsToUpdate
  toRemove,       \* descendants_to_remove
  evicted         \* history: the highest rate since the last block of a
                  \* package whose eviction raised the minimum fee

reorgVars == <<disconnected, add, toUpdate, included, cached, toRemove>>
vars == <<chain, pool, rolling, blockSince, phase, reorgVars, evicted>>

Outputs(t) == {c \in Coin : Creator[c] = t}
NoSets == [t \in Tx |-> {}]
Zeros == [t \in Tx |-> 0]

(* The chain: what is confirmed, at which height, and the coins it leaves. *)
Confirmed(ch) == UNION {ToSet(ch[h]) : h \in DOMAIN ch}
Unspent(ch) ==
  {c \in Coin : /\ Creator[c] \in Confirmed(ch) \cup {None}
                /\ \A t \in Confirmed(ch) : c \notin Inputs[t]}
ConfirmedAt(ch, c) ==
  IF Creator[c] = None THEN 0 ELSE CHOOSE h \in DOMAIN ch : Creator[c] \in ToSet(ch[h])
-----------------------------------------------------------------------------
(* Entries.  lock is LockPoints: a height, and the chain up to the block   *)
(* it was computed from.                                                   *)
NoLock == [height |-> -1, block |-> <<>>]
EmptyPool ==
  [txs |-> {}, parents |-> NoSets, children |-> NoSets, next |-> [c \in Coin |-> None],
   countA |-> Zeros, feeA |-> Zeros, countD |-> Zeros, feeD |-> Zeros,
   fee |-> Zeros, lock |-> [t \in Tx |-> NoLock], deltas |-> Zeros]

RECURSIVE Reach(_, _)
Reach(S, step) ==
  LET more == S \cup UNION {step[t] : t \in S}
  IN  IF more = S THEN S ELSE Reach(more, step)

CalculateDescendants(p, S) == Reach(S, p.children)
LinkedAncestors(p, t) == Reach(p.parents[t], p.parents)

SumFees(p, S) == MapThenSumSet(LAMBDA t : p.fee[t], S)
Plus(f, S, n) == [t \in Tx |-> IF t \in S THEN f[t] + n ELSE f[t]]

(* RemoveStaged: UpdateForRemoveFromMempool and removeUnchecked.           *)
RemoveStaged(p, S, updateDescendants) ==
  LET left == p.txs \ S
      below(t) == {r \in S : t \in LinkedAncestors(p, r)}
      above(t) == {r \in S : updateDescendants /\ t # r /\ t \in CalculateDescendants(p, {r})}
      keep(f, z) == [t \in Tx |-> IF t \in left THEN f[t] ELSE z]
  IN  [txs |-> left,
       parents |-> keep([t \in Tx |-> p.parents[t] \ {r \in S : t \in p.children[r]}], {}),
       children |-> keep([t \in Tx |-> p.children[t] \ {r \in S : t \in p.parents[r]}], {}),
       next |-> [c \in Coin |-> IF \E r \in S : c \in Inputs[r] THEN None ELSE p.next[c]],
       countA |-> keep([t \in Tx |-> p.countA[t] - Cardinality(above(t))], 0),
       feeA |-> keep([t \in Tx |-> p.feeA[t] - SumFees(p, above(t))], 0),
       countD |-> keep([t \in Tx |-> p.countD[t] - Cardinality(below(t))], 0),
       feeD |-> keep([t \in Tx |-> p.feeD[t] - SumFees(p, below(t))], 0),
       fee |-> keep(p.fee, 0), lock |-> keep(p.lock, NoLock), deltas |-> p.deltas]

RemoveRecursive(p, t) ==
  LET roots == IF t \in p.txs THEN {t} ELSE {p.next[c] : c \in Outputs(t)} \ {None}
  IN  RemoveStaged(p, CalculateDescendants(p, roots), FALSE)

ClearPrioritisation(p, t) == [p EXCEPT !.deltas[t] = 0]

RemoveConflicts(p, t) ==
  FoldSet(LAMBDA c, q : IF q.next[c] \in {None, t} THEN q
                        ELSE RemoveRecursive(ClearPrioritisation(q, q.next[c]), q.next[c]),
          p, Inputs[t])

(* removeForBlock, one transaction and then all.                           *)
RemoveConfirmed(p, t) ==
  ClearPrioritisation(
    RemoveConflicts(IF t \in p.txs THEN RemoveStaged(p, {t}, TRUE) ELSE p, t), t)
RemoveForBlock(p, body) == FoldLeft(RemoveConfirmed, p, body)

(* addUnchecked, with the ancestors that the caller found.                 *)
AddUnchecked(p, t, ancestors, lock) ==
  LET fee == BaseFee[t] + p.deltas[t]
      found == {Creator[c] : c \in Inputs[t]} \cap p.txs
  IN  [p EXCEPT
         !.txs = @ \cup {t}, !.fee[t] = fee, !.lock[t] = lock,
         !.next = [c \in Coin |-> IF c \in Inputs[t] /\ @[c] = None THEN t ELSE @[c]],
         !.parents[t] = found,
         !.children = [u \in Tx |-> IF u \in found THEN @[u] \cup {t} ELSE @[u]],
         !.countA[t] = 1 + Cardinality(ancestors), !.feeA[t] = fee + SumFees(p, ancestors),
         !.countD = Plus([@ EXCEPT ![t] = 1], ancestors, 1),
         !.feeD = Plus([@ EXCEPT ![t] = fee], ancestors, fee)]
-----------------------------------------------------------------------------
(* Acceptance, on top of the chain ch.                                     *)

InPool(p, c) == Creator[c] \in p.txs
HaveCoin(p, ch, c) == InPool(p, c) \/ c \in Unspent(ch)

(* CalculateLockPointsAtTip; parents in the pool are taken to be in the    *)
(* next block.                                                             *)
LockPoints(p, ch, t) ==
  LET old == {ConfirmedAt(ch, c) : c \in {x \in Inputs[t] : ~InPool(p, x)}} \cup {0}
      last == IF \E c \in Inputs[t] : InPool(p, c) THEN Len(ch) + 1 ELSE Max(old)
  IN  IF Lock[t] = 0 THEN NoLock
      ELSE [height |-> last + Lock[t] - 1, block |-> SubSeq(ch, 1, Max(old))]

CheckFinalTxAtTip(ch, t) == NotBefore[t] <= Len(ch) + 1
CheckSequenceLocksAtTip(ch, lock) == lock.height < Len(ch) + 1
TestLockPointValidity(ch, lock) == IsPrefix(lock.block, ch)

GetMinFee == IF blockSince /\ rolling > 0 THEN Max({rolling, IncrementalFee}) ELSE rolling

Conflicts(p, t) == {p.next[c] : c \in Inputs[t]} \ {None}
Ancestors(p, t) == Reach({Creator[c] : c \in Inputs[t]} \cap p.txs, p.parents)
WithinLimits(p, t, ancestors, descendants) ==
  /\ Cardinality(Ancestors(p, t)) + 1 <= ancestors
  /\ \A a \in Ancestors(p, t) : p.countD[a] + 1 <= descendants

(* One conflict raises the descendant limit by one; the carve-out by one   *)
(* more, for a transaction with one ancestor.                              *)
PreChecks(p, ch, t, bypass) ==
  LET conflicts == Conflicts(p, t)
      most == IF Cardinality(conflicts) = 1 THEN DescendantLimit + 1 ELSE DescendantLimit
  IN  /\ CheckFinalTxAtTip(ch, t) /\ t \notin p.txs /\ conflicts \subseteq Signals
      /\ \A c \in Inputs[t] : HaveCoin(p, ch, c)
      /\ CheckSequenceLocksAtTip(ch, LockPoints(p, ch, t))
      /\ bypass \/ BaseFee[t] + p.deltas[t] >= Max({GetMinFee, MinRelayFee})
      /\ WithinLimits(p, t, AncestorLimit, most) \/ WithinLimits(p, t, 2, most + 1)
      /\ Ancestors(p, t) \cap conflicts = {}

ReplacementChecks(p, t) ==
  LET conflicts == Conflicts(p, t)
      fee == BaseFee[t] + p.deltas[t]
      known == {Creator[c] : c \in UNION {Inputs[x] : x \in conflicts}}
  IN  /\ \A x \in conflicts : fee > p.fee[x]
      /\ MapThenSumSet(LAMBDA x : p.countD[x], conflicts) <= MaxReplacement
      /\ \A c \in Inputs[t] : InPool(p, c) => Creator[c] \in known
      /\ fee - SumFees(p, CalculateDescendants(p, conflicts)) >= IncrementalFee

Accepts(p, ch, t, bypass) ==
  PreChecks(p, ch, t, bypass) /\ (Conflicts(p, t) # {} => ReplacementChecks(p, t))

(* Finalize.                                                               *)
Accepted(p, ch, t) ==
  AddUnchecked(RemoveStaged(p, CalculateDescendants(p, Conflicts(p, t)), FALSE),
               t, Ancestors(p, t), LockPoints(p, ch, t))
-----------------------------------------------------------------------------
(* LimitMempoolSize: Expire, of any transactions and what depends on them, *)
(* and TrimToSize, one package at a time.                                  *)
Limit(p) ==
  \E old \in SUBSET p.txs :
    /\ pool' = RemoveStaged(p, CalculateDescendants(p, old), FALSE)
    /\ phase' = IF Cardinality(pool'.txs) > MaxPool THEN "limit" ELSE "rest"

(* CompareTxMemPoolEntryByDescendantScore; equals are ordered by time.     *)
Score(t) ==
  IF pool.feeD[t] > pool.fee[t] * pool.countD[t]
  THEN [fee |-> pool.feeD[t], size |-> pool.countD[t]] ELSE [fee |-> pool.fee[t], size |-> 1]
LowestScore ==
  {t \in pool.txs : \A u \in pool.txs : Score(t).fee * Score(u).size <= Score(u).fee * Score(t).size}

(* The new minimum after a package of this rate was removed.               *)
Floor_Equal(rate) == rate
Floor(rate) == rate + IncrementalFee

TrimToSize ==
  /\ phase = "limit"
  /\ \E t \in LowestScore :
       LET rate == pool.feeD[t] \div pool.countD[t]
       IN  /\ rolling' = Max({rolling, Floor(rate)})
           /\ blockSince' = (blockSince /\ Floor(rate) <= rolling)
           /\ evicted' = IF Floor(rate) > rolling THEN Max({evicted, rate}) ELSE evicted
           /\ pool' = RemoveStaged(pool, CalculateDescendants(pool, {t}), FALSE)
  /\ phase' = IF Cardinality(pool'.txs) > MaxPool THEN "limit" ELSE "rest"
  /\ UNCHANGED <<chain, reorgVars>>

AcceptToMemoryPool(t) ==
  /\ phase = "rest" /\ Accepts(pool, chain, t, FALSE)
  /\ Limit(Accepted(pool, chain, t))
  /\ UNCHANGED <<chain, rolling, blockSince, reorgVars, evicted>>

(* GetMinFee lets the minimum decay by the time since the last block.      *)
RollingFeeDecays ==
  /\ phase = "rest" /\ blockSince /\ rolling > 0
  /\ rolling' \in 0 .. rolling - 1
  /\ UNCHANGED <<chain, pool, blockSince, phase, reorgVars, evicted>>

PrioritiseTransaction(t) ==
  /\ phase = "rest" /\ Deltas[t] > 0 /\ pool.deltas[t] = 0
  /\ LET d == Deltas[t]
         above == LinkedAncestors(pool, t)
         below == CalculateDescendants(pool, {t})
         q == [pool EXCEPT !.deltas[t] = @ + d]
     IN  pool' = IF t \notin pool.txs THEN q
                 ELSE [q EXCEPT !.fee[t] = @ + d,
                                !.feeD = Plus(@, above \cup {t}, d), !.feeA = Plus(@, below, d)]
  /\ UNCHANGED <<chain, rolling, blockSince, phase, reorgVars, evicted>>
-----------------------------------------------------------------------------
(* Blocks.                                                                 *)

(* ConnectBlock passes.                                                    *)
ValidBody(ch, body) ==
  \A i \in DOMAIN body :
    LET t == body[i]
        before == Append(ch, SubSeq(body, 1, i - 1))
    IN  /\ NotBefore[t] <= Len(before) /\ Inputs[t] \subseteq Unspent(before)
        /\ Lock[t] > 0 => \A c \in Inputs[t] : ConfirmedAt(before, c) + Lock[t] <= Len(before)

ConnectTip(body) ==
  /\ phase \in {"rest", "disconnect", "connect"} /\ Len(chain) < MaxHeight
  /\ ValidBody(chain, body)
  /\ chain' = Append(chain, body)
  /\ pool' = RemoveForBlock(pool, body) /\ blockSince' = TRUE /\ evicted' = -1
  /\ disconnected' = SelectSeq(disconnected, LAMBDA t : t \notin ToSet(body))
  /\ phase' = IF phase = "rest" THEN "rest" ELSE "connect"
  /\ UNCHANGED <<rolling, add, toUpdate, included, cached, toRemove>>

(* The oldest transactions are dropped when there is no room for all.      *)
DisconnectTip ==
  /\ phase \in {"rest", "disconnect"} /\ chain # <<>>
  /\ LET all == disconnected \o Reverse(Last(chain))
         n == IF Len(all) > MaxDisconnected THEN Len(all) - MaxDisconnected ELSE 0
     IN  /\ pool' = FoldLeft(RemoveRecursive, pool, SubSeq(all, 1, n))
         /\ disconnected' = SubSeq(all, n + 1, Len(all))
  /\ chain' = Front(chain) /\ phase' = "disconnect"
  /\ UNCHANGED <<rolling, blockSince, add, toUpdate, included, cached, toRemove, evicted>>

(* MaybeUpdateMempoolForReorg: at the end of a reorganisation or of one    *)
(* round of InvalidateBlock, or after an error.                            *)
MaybeUpdateMempoolForReorg ==
  /\ phase \in {"disconnect", "connect"}
  /\ phase' = "readd" /\ add' \in BOOLEAN
  /\ UNCHANGED <<chain, pool, rolling, blockSince, disconnected, toUpdate, included, cached, toRemove, evicted>>

ReAdd ==
  /\ phase = "readd" /\ disconnected # <<>>
  /\ LET t == Last(disconnected) IN
     IF add /\ Accepts(pool, chain, t, TRUE)
     THEN pool' = Accepted(pool, chain, t) /\ toUpdate' = Append(toUpdate, t)
     ELSE pool' = RemoveRecursive(pool, t) /\ UNCHANGED toUpdate
  /\ disconnected' = Front(disconnected)
  /\ UNCHANGED <<chain, rolling, blockSince, phase, add, included, cached, toRemove, evicted>>

UpdateTransactionsFromBlock ==
  /\ phase = "readd" /\ disconnected = <<>>
  /\ phase' = "update" /\ included' = ToSet(toUpdate)
  /\ UNCHANGED <<chain, pool, rolling, blockSince, disconnected, add, toUpdate, cached, toRemove, evicted>>

(* Children that were in the pool all along.                               *)
LinkChildren(p, t) ==
  LET new == {p.next[c] : c \in Outputs(t)} \ ({None} \cup included)
  IN  [p EXCEPT !.children[t] = @ \cup new,
                !.parents = [u \in Tx |-> IF u \in new THEN @[u] \cup {t} ELSE @[u]]]

(* The descendants of t outside the block, by the sets already computed.   *)
NewDescendants_Block(p, t) ==
  LET down == [u \in Tx |-> {v \in p.children[u] : cached[v] = {}}]
      walked == Reach(p.children[t], down)
  IN  walked \cup UNION {cached[v] : v \in UNION {p.children[u] : u \in walked}}
NewDescendants(p, t) ==
  LET down == [u \in Tx |-> {v \in p.children[u] : cached[v] = {}}]
      walked == Reach(p.children[t], down)
  IN  (walked \cup UNION {cached[v] : v \in UNION {p.children[u] : u \in walked}}) \ included

OverLimit_One(p, S) == {u \in S : p.countA[u] > AncestorLimit + 1}
OverLimit(p, S) == {u \in S : p.countA[u] > AncestorLimit}

UpdateForDescendants ==
  /\ phase = "update" /\ toUpdate # <<>>
  /\ LET t == Last(toUpdate)
         p == LinkChildren(pool, t)
         new == NewDescendants(p, t)
     IN  IF t \notin pool.txs THEN UNCHANGED <<pool, cached, toRemove>>
         ELSE /\ pool' = [p EXCEPT !.countA = Plus(@, new, 1), !.feeA = Plus(@, new, p.fee[t]),
                                   !.countD[t] = @ + Cardinality(new), !.feeD[t] = @ + SumFees(p, new)]
              /\ cached' = [cached EXCEPT ![t] = new]
              /\ toRemove' = toRemove \cup OverLimit(pool', new)
  /\ toUpdate' = Front(toUpdate)
  /\ UNCHANGED <<chain, rolling, blockSince, phase, disconnected, add, included, evicted>>

(* The filter of removeForReorg, and the lock points it brings up to date. *)
NewLock_Stale(p, t) == p.lock[t]
NewLock(p, t) ==
  IF TestLockPointValidity(chain, p.lock[t]) THEN p.lock[t] ELSE LockPoints(p, chain, t)
FinalAndMature(p, t) == CheckFinalTxAtTip(chain, t) /\ CheckSequenceLocksAtTip(chain, NewLock(p, t))

FinishReorg ==
  /\ phase = "update" /\ toUpdate = <<>>
  /\ LET p == RemoveStaged(pool, CalculateDescendants(pool, toRemove \cap pool.txs), FALSE)
         q == [p EXCEPT !.lock = [t \in Tx |-> IF t \in p.txs THEN NewLock(p, t) ELSE @[t]]]
     IN  Limit(RemoveStaged(q, CalculateDescendants(q, {t \in p.txs : ~FinalAndMature(p, t)}), FALSE))
  /\ toRemove' = {} /\ cached' = NoSets /\ included' = {} /\ add' = FALSE
  /\ UNCHANGED <<chain, rolling, blockSince, disconnected, toUpdate, evicted>>
-----------------------------------------------------------------------------
Init ==
  /\ chain = <<>> /\ pool = EmptyPool /\ rolling = 0 /\ blockSince = FALSE /\ phase = "rest"
  /\ disconnected = <<>> /\ add = FALSE /\ toUpdate = <<>> /\ included = {} /\ cached = NoSets
  /\ toRemove = {} /\ evicted = -1

Next ==
  \/ \E t \in Tx : AcceptToMemoryPool(t) \/ PrioritiseTransaction(t)
  \/ TrimToSize \/ RollingFeeDecays
  \/ \E body \in Bodies : ConnectTip(body)
  \/ DisconnectTip \/ MaybeUpdateMempoolForReorg \/ ReAdd
  \/ UpdateTransactionsFromBlock \/ UpdateForDescendants \/ FinishReorg

Spec == Init /\ [][Next]_vars
-----------------------------------------------------------------------------
(* Properties.                                                             *)

(* The totals of every entry are those of the entries its links lead to,   *)
(* also in the middle of a reorganisation, when the links are incomplete:  *)
(* what UpdateForRemoveFromMempool relies on.  So no count in an entry     *)
(* falls to zero, and mapNextTx names only transactions of the pool.       *)
TotalsFollowLinks ==
  phase # "update" =>
    \A t \in pool.txs :
      LET above == LinkedAncestors(pool, t) \cup {t}
          below == CalculateDescendants(pool, {t})
      IN  /\ above \cup below \subseteq pool.txs
          /\ pool.countA[t] = Cardinality(above) /\ pool.feeA[t] = SumFees(pool, above)
          /\ pool.countD[t] = Cardinality(below) /\ pool.feeD[t] = SumFees(pool, below)
          /\ \A c \in Coin : (pool.next[c] = t) <=> (c \in Inputs[t])

(* Whatever blocks, replacements, evictions and reorganisations came       *)
(* before, the pool is what the next block may hold: links are those of    *)
(* the inputs, every input is there, no two transactions spend the same    *)
(* coin, and all are final, mature and past their locks on this chain.     *)
Mineable ==
  phase \in {"rest", "limit"} =>
    \A t \in pool.txs :
      /\ pool.parents[t] = {Creator[c] : c \in Inputs[t]} \cap pool.txs
      /\ pool.children[t] = {u \in pool.txs : t \in pool.parents[u]}
      /\ \A c \in Inputs[t] : HaveCoin(pool, chain, c) /\ pool.next[c] = t
      /\ CheckFinalTxAtTip(chain, t) /\ CheckSequenceLocksAtTip(chain, LockPoints(pool, chain, t))

(* At rest the pool is within the memory limit, and no transaction has     *)
(* more unconfirmed ancestors than the limit, although blocks that are     *)
(* disconnected bring ancestors back.                                      *)
LimitsHold ==
  phase = "rest" =>
    /\ Cardinality(pool.txs) <= MaxPool
    /\ \A t \in pool.txs : Cardinality(Ancestors(pool, t)) + 1 <= AncestorLimit

(* What enters the pool pays more than any package whose eviction raised   *)
(* the minimum fee since the last block.  (One that was evicted below a    *)
(* minimum that had begun to decay may come back without a block between.) *)
EvictedStayOut ==
  [][\A t \in Tx : phase = "rest" /\ ~blockSince /\ t \in pool'.txs \ pool.txs
                     => pool'.fee[t] > evicted]_vars
=============================================================================
