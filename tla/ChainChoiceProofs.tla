------------------------- MODULE ChainChoiceProofs -------------------------
(***************************************************************************)
(* Which block the node chooses, for every block tree, every number of     *)
(* threads and every number of commands: the data a reorganisation needs   *)
(* is kept, setBlockIndexCandidates is ordered and complete, and the best  *)
(* block wins.                                                             *)
(***************************************************************************)
EXTENDS ChainStateProofs

USE Zenon
-----------------------------------------------------------------------------
(* Pruning and reorganisations.                                            *)

(* Blocks too high to be pruned.                                           *)
Recent(x) == Height(x) > highest - MinBlocksToKeep

(* Pruning never reaches the recent blocks of the active chain, nor those  *)
(* of the chain that is worked towards.                                    *)
Kept ==
  /\ highest \in Nat /\ Height(tip) <= highest
  /\ \A x \in Chain[tip] : Recent(x) => x \in haveData
  /\ \A t \in Thread : pc[t] \in Activating /\ activate.mostWork # None =>
       \A x \in Chain[activate.mostWork] : Recent(x) => x \in haveData

LEMMA Heights ==
  ASSUME NEW b \in Block
  PROVE  /\ Height(b) \in Nat
         /\ \A x \in Chain[b] : Height(x) \in Nat /\ Height(x) <= Height(b)
<1>1. Chain[b] \subseteq Block
  BY PathFacts
<1>2. QED
  BY <1>1, WorkAssumption, SMT DEF Height

(* The active chain may lose blocks at its end, and data may arrive.       *)
LEMMA KeptSame ==
  ASSUME Kept, haveData \subseteq haveData', UNCHANGED highest,
         Chain[tip'] \subseteq Chain[tip], Height(tip') <= highest,
         \A t \in Thread : pc'[t] \in Activating /\ activate'.mostWork # None =>
           activate'.mostWork = activate.mostWork /\ \E u \in Thread : pc[u] \in Activating
  PROVE  Kept'
  BY DEF Kept, Recent

LEMMA KeptStill ==
  ASSUME Kept, haveData \subseteq haveData', UNCHANGED <<highest, tip, activate>>,
         \A t \in Thread : pc'[t] \in Activating => pc[t] \in Activating
  PROVE  Kept'
  BY DEF Kept, Recent

LEMMA KeptByFind ==
  ASSUME Inv, LinkInv, Kept, NEW t \in Thread, FindMostWorkChain(t)
  PROVE  Kept'
<1>1. UNCHANGED <<haveData, tip, highest>> /\ pc[t] = "find"
  BY DEF FindMostWorkChain, indexVars
<1>2. PICK most :
        /\ most = activate.mostWork \/ (most \in candidates /\ Unusable(most) = {})
        /\ \/ activate' = [activate EXCEPT !.mostWork = most]
           \/ activate' = [activate EXCEPT !.mostWork = most, !.oldTip = tip]
  BY DEF FindMostWorkChain, Best
<1>3. activate'.mostWork = most
  BY <1>2 DEF Inv, Typed
<1>4. ASSUME most # None, NEW x \in Chain[most], Recent(x) PROVE x \in haveData
  <2>1. CASE most = activate.mostWork
    BY <1>1, <1>4, <2>1 DEF Kept, Activating, HoldsMain
  <2>2. CASE most \in candidates /\ Unusable(most) = {}
    BY <1>4, <2>2 DEF Kept, Unusable
  <2>3. QED
    BY <1>2, <2>1, <2>2
<1>5. QED
  BY <1>1, <1>3, <1>4 DEF Kept, Recent

LEMMA KeptByConnect ==
  ASSUME Inv, LinkInv, Kept, NEW t \in Thread, ConnectTip(t)
  PROVE  Kept'
<1>1. /\ UNCHANGED haveData /\ pc[t] = "connect"
      /\ activate.mostWork \in Block /\ activate.mostWork # None
  BY DEF ConnectTip, Inv, TargetUsable, Typed
<1>2. PICK next \in NextToConnect :
        \/ /\ tip' = next
           /\ highest' = IF Height(next) > highest THEN Height(next) ELSE highest
           /\ StepDone(t, activate.mostWork) \/ UNCHANGED <<pc, activate>>
        \/ Goto(t, "aborted") /\ UNCHANGED <<tip, highest, activate>>
  BY DEF ConnectTip
<1>3. \A u \in Thread : pc'[u] \in Activating => pc[u] \in Activating
  BY <1>1, <1>2, Moves DEF StepDone, Inv, Activating, HoldsMain
<1>4. CASE UNCHANGED <<tip, highest, activate>>
  BY <1>1, <1>3, <1>4, KeptStill
<1>5. CASE /\ tip' = next
           /\ highest' = IF Height(next) > highest THEN Height(next) ELSE highest
           /\ StepDone(t, activate.mostWork) \/ UNCHANGED <<pc, activate>>
  <2>1. next \in known /\ next \in Chain[activate.mostWork] /\ Chain[next] \subseteq Chain[activate.mostWork]
    BY <1>1, NextLinked, PathFacts DEF NextToConnect
  <2>2. activate'.mostWork = activate.mostWork
    BY <1>5 DEF StepDone, Inv, Typed
  <2>3. highest' \in Nat /\ Height(next) <= highest' /\ highest <= highest'
    <3>1. Height(next) \in Nat
      BY <2>1, Heights DEF Inv, Typed
    <3>2. QED
      BY <1>5, <3>1, SMT DEF Kept
  <2>4. ASSUME NEW x \in Chain[activate.mostWork], Height(x) > highest' - MinBlocksToKeep
        PROVE  x \in haveData
    <3>1. Height(x) \in Nat
      <4>1. activate.mostWork \in Block
        BY <1>1 DEF LinkInv, References, Inv, Typed, TargetUsable
      <4>2. QED
        BY <4>1, Heights
    <3>2. Height(x) > highest - MinBlocksToKeep
      BY <2>3, <2>4, <3>1, TreeAssumption, SMT DEF Kept
    <3>3. QED
      BY <1>1, <3>2 DEF Kept, Recent, Activating, HoldsMain
  <2>5. QED
    BY <1>1, <1>5, <2>1, <2>2, <2>3, <2>4 DEF Kept, Recent
<1>6. QED
  BY <1>2, <1>4, <1>5

(* What pruneblockchain removes is far below the highest tip.              *)
LEMMA KeptByPrune ==
  ASSUME Inv, LinkInv, Kept, NEW b \in Block, PruneOneBlockFile(b)
  PROVE  Kept'
<1>1. /\ UNCHANGED <<tip, highest, pc, activate>> /\ haveData' = haveData \ {b}
      /\ b \in haveData /\ Height(b) <= Height(tip) - MinBlocksToKeep
  BY DEF PruneOneBlockFile, Prunable
<1>2. Height(b) \in Nat /\ Height(tip) \in Nat
  BY <1>1, Heights DEF Inv, Typed
<1>3. ~Recent(b)
  BY <1>1, <1>2, TreeAssumption, SMT DEF Kept, Recent
<1>4. QED
  BY <1>1, <1>3 DEF Kept, Recent

(* DisconnectTip, also in InvalidateBlock: the tip's parent is the tip.    *)
LEMMA TipDown ==
  ASSUME Inv, NEW t \in Thread, DisconnectTip(t) \/ InvalidateStep(t), tip' # tip
  PROVE  tip \in Block \ {Genesis} /\ tip' = Prev[tip] /\ tip' \in Chain[tip] /\ tip' \in Block
<1>1. tip \in Block /\ tip # Genesis /\ tip' = Prev[tip]
  <2>1. CASE DisconnectTip(t)
    <3>1. activate.mostWork \in Block
      BY <2>1 DEF DisconnectTip, Inv, TargetUsable, Typed
    <3>2. QED
      BY <2>1, <3>1, PathFacts DEF DisconnectTip, Inv, Typed
  <2>2. CASE InvalidateStep(t)
    <3>1. invalidate.pindex \in Block \ {Genesis}
      BY <2>2 DEF InvalidateStep, Inv, InvalidateKnows, Invalidating
    <3>2. Chain[Genesis] = {Genesis}
      BY PathAssumption
    <3>3. QED
      BY <2>2, <3>1, <3>2 DEF InvalidateStep, Inv, Typed
  <2>3. QED
    BY <2>1, <2>2
<1>2. QED
  BY <1>1, ParentOnPath

LEMMA KeptByDisconnect ==
  ASSUME Inv, LinkInv, Kept, NEW t \in Thread, DisconnectTip(t) \/ InvalidateStep(t)
  PROVE  Kept'
<1>1. UNCHANGED <<haveData, highest, activate>>
  BY DEF DisconnectTip, InvalidateStep, indexVars
<1>2. \A u \in Thread : pc'[u] \in Activating => pc[u] \in Activating
  <2>1. \/ pc' = pc
        \/ pc[t] = "disconnect" /\ Goto(t, "connect")
        \/ \E label \in {"aborted", "markInvalid", "activate"} : Goto(t, label)
    BY DEF DisconnectTip, InvalidateStep
  <2>2. QED
    BY <2>1, Moves DEF Inv, Activating, HoldsMain
<1>3. tip \in known /\ tip \in Block
  BY DEF Inv, Typed
<1>4. tip' \in Chain[tip]
  BY <1>3, TipDown, PathFacts
<1>5. Chain[tip'] \subseteq Chain[tip]
  BY <1>3, <1>4, PathFacts
<1>6. Height(tip') <= highest
  <2>1. Height(tip') \in Nat /\ Height(tip) \in Nat /\ Height(tip') <= Height(tip)
    BY <1>3, <1>4, Heights
  <2>2. QED
    BY <2>1, SMT DEF Kept
<1>7. QED
  BY <1>1, <1>2, <1>5, <1>6, KeptSame

LEMMA KeptNext ==
  ASSUME Inv, LinkInv, Kept, [Next]_vars
  PROVE  Kept'
<1>1. ASSUME NEW b \in Block \ {Genesis}, AcceptBlockHeader(b) PROVE Kept'
  BY <1>1, KeptStill DEF AcceptBlockHeader
<1>2. ASSUME NEW b \in Block \ {Genesis}, NEW t \in Thread, NEW requested \in BOOLEAN,
             ProcessNewBlock(t, b, requested)
      PROVE  Kept'
  <2>1. UNCHANGED <<tip, activate, highest>> /\ haveData \subseteq haveData'
    BY <1>2 DEF ProcessNewBlock, SkipBlock, RejectBody, StoreBlock, ReceivedBlockTransactions
  <2>2. pc' = pc \/ Goto(t, "activate")
    BY <1>2 DEF ProcessNewBlock, SkipBlock, RejectBody, StoreBlock
  <2>3. \A u \in Thread : pc'[u] \in Activating => pc[u] \in Activating
    BY <2>2, Moves DEF Inv, Activating, HoldsMain
  <2>4. QED
    BY <2>1, <2>3, KeptStill
<1>3. ASSUME NEW t \in Thread, ActivateEnter(t) \/ ActivateUnlock(t) PROVE Kept'
  <2>1. /\ UNCHANGED <<haveData, tip, highest>>
        /\ activate' = NoActivate \/ (pc[t] = "unlock" /\ activate' = activate)
    BY <1>3 DEF ActivateEnter, ActivateUnlock, indexVars
  <2>2. activate'.mostWork # None =>
          activate'.mostWork = activate.mostWork /\ \E u \in Thread : pc[u] \in Activating
    <3>1. CASE activate' = NoActivate
      BY <3>1 DEF NoActivate
    <3>2. CASE pc[t] = "unlock" /\ activate' = activate
      BY <3>2 DEF Activating, HoldsMain
    <3>3. QED
      BY <2>1, <3>1, <3>2
  <2>3. QED
    BY <2>1, <2>2, KeptSame DEF Kept
<1>4. ASSUME NEW t \in Thread, ActivateLock(t) PROVE Kept'
  <2>1. /\ UNCHANGED <<haveData, tip, highest>> /\ pc[t] = "lock"
        /\ activate' = [activate EXCEPT !.startTip = tip, !.oldTip = None]
    BY <1>4 DEF ActivateLock, indexVars
  <2>2. activate'.mostWork = activate.mostWork
    BY <2>1 DEF Inv, Typed
  <2>3. QED
    BY <2>1, <2>2, KeptSame DEF Kept, Activating
<1>5. ASSUME NEW t \in Thread, ConnectTipFails(t) PROVE Kept'
  <2>1. UNCHANGED <<haveData, tip, highest>> /\ StepDone(t, None)
    BY <1>5 DEF ConnectTipFails
  <2>2. activate'.mostWork = None
    BY <2>1 DEF StepDone, Inv, Typed
  <2>3. QED
    BY <2>1, <2>2, KeptSame DEF Kept
<1>6. ASSUME NEW t \in Thread, ActivateStep(t) PROVE Kept'
  <2>1. CASE RejectCandidate(t)
    BY <2>1, KeptStill DEF RejectCandidate, indexVars
  <2>2. QED
    BY <1>3, <1>4, <1>5, <1>6, <2>1, KeptByFind, KeptByDisconnect, KeptByConnect DEF ActivateStep
<1>7. ASSUME NEW t \in Thread, InvalidateFinish(t) PROVE Kept'
  <2>1. UNCHANGED <<haveData, tip, highest, activate>> /\ Goto(t, "activate")
    BY <1>7 DEF InvalidateFinish
  <2>2. \A u \in Thread : pc'[u] \in Activating => pc[u] \in Activating
    BY <2>1, Moves DEF Inv, Activating, HoldsMain
  <2>3. QED
    BY <2>1, <2>2, KeptStill
<1>8. ASSUME NEW b \in RpcTarget, NEW t \in Thread,
             InvalidateStart(t, b) \/ ResetBlockFailureFlags(t, b) \/ PreciousBlock(t, b)
      PROVE  Kept'
  <2>1. /\ UNCHANGED <<haveData, tip, highest, activate>>
        /\ \E label \in {"invalidate", "activate"} : Goto(t, label)
    BY <1>8 DEF InvalidateStart, ResetBlockFailureFlags, PreciousBlock, indexVars
  <2>2. \A u \in Thread : pc'[u] \in Activating => pc[u] \in Activating
    BY <2>1, Moves DEF Inv, Activating, HoldsMain
  <2>3. QED
    BY <2>1, <2>2, KeptStill
<1>9. ASSUME NEW t \in Thread, Restart(t) PROVE Kept'
  <2>1. UNCHANGED <<haveData, tip, highest>> /\ activate' = NoActivate
    BY <1>9 DEF Restart
  <2>2. activate'.mostWork = None
    BY <2>1 DEF NoActivate
  <2>3. QED
    BY <2>1, <2>2, KeptSame DEF Kept
<1>10. ASSUME UNCHANGED vars PROVE Kept'
  BY <1>10, KeptStill DEF vars, indexVars
<1>11. QED
  BY <1>1, <1>2, <1>3, <1>6, <1>7, <1>8, <1>9, <1>10, KeptByDisconnect, KeptByPrune
     DEF Next, InvalidateNext

(* Of the blocks a reorganisation disconnects and connects, only those     *)
(* MIN_BLOCKS_TO_KEEP or more below the highest tip ever can lack their    *)
(* data: pruning never makes a shallower one stop half-way.                *)
THEOREM ReorgAlwaysKeepsData == Spec => []ReorgKeepsData
<1>1. Init => Kept
  <2>1. SUFFICES ASSUME Init PROVE Kept
    OBVIOUS
  <2>2. Height(Genesis) = 0
    BY WorkAssumption DEF Height
  <2>3. highest \in Nat /\ Height(tip) <= highest
    BY <2>1, <2>2, SMT DEF Init
  <2>4. QED
    BY <2>1, <2>3, PathAssumption DEF Init, Kept, Activating, HoldsMain
<1>2. Inv /\ LinkInv /\ Kept /\ [Next]_vars => Kept'
  BY KeptNext
<1>3. Inv /\ Kept => ReorgKeepsData
  BY DEF Inv, TargetUsable, Kept, Recent, ReorgKeepsData, Activating, HoldsMain
<1>4. QED
  BY <1>1, <1>2, <1>3, LinkInvariance, PTL DEF Spec
-----------------------------------------------------------------------------
(* The order of the candidates.                                            *)

(* CBlockIndexWorkComparator is a strict total order, whatever the         *)
(* sequence ids, because no two blocks have the same address ...           *)
LEMMA Order ==
  ASSUME NEW s \in [Block -> Int], NEW x \in Block, NEW y \in Block
  PROVE  /\ ~SortsBefore(s, x, x)
         /\ SortsBefore(s, x, y) => ~SortsBefore(s, y, x)
         /\ x # y /\ ~SortsBefore(s, x, y) => SortsBefore(s, y, x)
<1>1. /\ ChainWork[x] \in Nat /\ ChainWork[y] \in Nat /\ s[x] \in Int /\ s[y] \in Int
      /\ Addr[x] \in Nat /\ Addr[y] \in Nat /\ (x # y => Addr[x] # Addr[y])
  BY WorkAssumption, TreeAssumption
<1>2. QED
  BY <1>1, SMT DEF SortsBefore

LEMMA OrderTransitive ==
  ASSUME NEW s \in [Block -> Int], NEW x \in Block, NEW y \in Block, NEW z \in Block,
         ~SortsBefore(s, x, y), ~SortsBefore(s, y, z)
  PROVE  ~SortsBefore(s, x, z)
<1>1. /\ ChainWork[x] \in Nat /\ ChainWork[y] \in Nat /\ ChainWork[z] \in Nat
      /\ s[x] \in Int /\ s[y] \in Int /\ s[z] \in Int
      /\ Addr[x] \in Nat /\ Addr[y] \in Nat /\ Addr[z] \in Nat
  BY WorkAssumption, TreeAssumption
<1>2. QED
  BY <1>1, SMT DEF SortsBefore

(* ... in which every block comes after its ancestors ...                  *)
LEMMA AncestorsBefore ==
  ASSUME NEW s, NEW y \in Block, NEW x \in Chain[y], x # y
  PROVE  SortsBefore(s, x, y)
  BY WorkAssumption DEF SortsBefore

(* ... and which depends on the sequence ids of the two blocks only.       *)
LEMMA OrderKept ==
  ASSUME NEW s, NEW r, NEW x, NEW y, s[x] = r[x], s[y] = r[y]
  PROVE  SortsBefore(s, x, y) <=> SortsBefore(r, x, y)
  BY DEF SortsBefore
-----------------------------------------------------------------------------
(* Without pruning every received body stays, and no candidate is worse    *)
(* than the tip.                                                           *)
Whole == haveData = received
Trimmed == \A x \in candidates : ~Worse(x, tip)

(* The blocks that become linked were not linked before, so that none of   *)
(* them is a candidate or the tip.                                         *)
LEMMA NewlyLinked ==
  ASSUME Inv, LinkInv, Whole, NEW b \in Block \ {Genesis}, b \notin haveData
  PROVE  ({b} \cup Released(b)) \cap linked = {}
<1>1. b \notin linked
  BY DEF Whole, LinkInv, LinkShape
<1>2. ASSUME NEW x \in Released(b) PROVE x \notin linked
  BY <1>1 DEF Released, LinkInv, LinkShape
<1>3. QED
  BY <1>1, <1>2

(* ReceivedBlockTransactions: the sequence ids of the others stay.         *)
LEMMA StoreOrder ==
  ASSUME Inv, LinkInv, Whole, NEW b \in Block \ {Genesis}, b \notin haveData,
         ReceivedBlockTransactions(b)
  PROVE  /\ \A x \in linked : seq'[x] = seq[x]
         /\ linked \subseteq linked' /\ candidates \subseteq candidates'
         /\ \A x \in candidates' \ candidates : ~SortsBefore(seq', x, tip)
         /\ \A x \in linked' \ linked : ~SortsBefore(seq', x, tip) => x \in candidates'
         /\ haveData' = received'
<1>1. received' = received \cup {b} /\ haveData' = haveData \cup {b} /\ b \notin linked
  BY NewlyLinked DEF ReceivedBlockTransactions
<1>2. CASE ParentLinked(b)
  <2> DEFINE D == {b} \cup Released(b)
  <2>1. /\ linked' = linked \cup D
        /\ candidates' = candidates \cup {x \in D : ~SortsBefore(seq', x, tip)}
        /\ \E f \in QueueOrders(D) :
             seq' = [x \in Block |-> IF x \in D THEN nextSeq + f[x] ELSE seq[x]]
    BY <1>2 DEF ReceivedBlockTransactions
  <2>2. D \cap linked = {}
    BY NewlyLinked
  <2> HIDE DEF D
  <2>3. \A x \in Block : x \notin D => seq'[x] = seq[x]
    BY <2>1
  <2>4. QED
    BY <1>1, <2>1, <2>2, <2>3 DEF Whole, LinkInv, LinkShape, Inv, Typed
<1>3. CASE ~ParentLinked(b)
  <2>1. linked' = linked \ {b} /\ UNCHANGED <<seq, candidates>>
    BY <1>3 DEF ReceivedBlockTransactions
  <2>2. QED
    BY <1>1, <2>1 DEF Whole
<1>4. QED
  BY <1>2, <1>3

(* ProcessNewBlock stores a body or leaves the candidates alone.           *)
LEMMA BlockStored ==
  ASSUME NEW t \in Thread, NEW b \in Block \ {Genesis}, NEW requested \in BOOLEAN,
         ProcessNewBlock(t, b, requested)
  PROVE  \/ /\ b \notin haveData /\ StoreBlock(t, b) /\ UNCHANGED <<failedValid, failedChild>>
         \/ /\ UNCHANGED <<received, haveData, linked, scripts, seq, candidates>>
            /\ pc' = pc \/ Goto(t, "activate")
            /\ failedValid \subseteq failedValid' /\ failedChild \subseteq failedChild'
<1>1. CASE MarkDescendants(b) /\ UNCHANGED <<received, haveData, linked, scripts, choiceVars, pc>>
  BY <1>1 DEF MarkDescendants, choiceVars
<1>2. CASE ~Wanted(b, requested) /\ SkipBlock(t) /\ UNCHANGED failedChild
  BY <1>2 DEF SkipBlock, choiceVars
<1>3. CASE Wanted(b, requested) /\ RejectBody(b) /\ UNCHANGED failedChild
  BY <1>3 DEF RejectBody, choiceVars
<1>4. CASE Wanted(b, requested) /\ StoreBlock(t, b) /\ UNCHANGED failedChild
  BY <1>4 DEF StoreBlock, Wanted
<1>5. QED
  BY <1>1, <1>2, <1>3, <1>4 DEF ProcessNewBlock

(* The tip after a block of it is disconnected comes before it.            *)
LEMMA DownBefore ==
  ASSUME Inv, NEW t \in Thread, DisconnectTip(t) \/ InvalidateStep(t), tip' # tip
  PROVE  tip' \in Block /\ Worse(tip', tip)
  BY TipDown, AncestorsBefore DEF Worse

LEMMA TrimmedKept ==
  ASSUME Trimmed, UNCHANGED <<seq, tip>>, \A x \in candidates' \ candidates : ~Worse(x, tip)
  PROVE  Trimmed'
  BY DEF Trimmed, Worse

LEMMA TrimmedByBlock ==
  ASSUME Inv, LinkInv, Whole, Trimmed, NEW b \in Block \ {Genesis}, NEW t \in Thread,
         NEW requested \in BOOLEAN, ProcessNewBlock(t, b, requested)
  PROVE  Whole' /\ Trimmed'
<1>1. UNCHANGED tip
  BY DEF ProcessNewBlock
<1>2. CASE UNCHANGED <<received, haveData, seq, candidates>>
  BY <1>1, <1>2 DEF Whole, Trimmed, Worse
<1>3. CASE b \notin haveData /\ StoreBlock(t, b)
  <2>1. /\ \A x \in linked : seq'[x] = seq[x]
        /\ \A x \in candidates' \ candidates : ~SortsBefore(seq', x, tip)
        /\ haveData' = received'
    BY <1>3, StoreOrder DEF StoreBlock
  <2>2. ASSUME NEW x \in candidates PROVE ~SortsBefore(seq', x, tip)
    <3>1. seq'[x] = seq[x] /\ seq'[tip] = seq[tip] /\ ~SortsBefore(seq, x, tip)
      BY <2>1 DEF Trimmed, Worse, LinkInv, LinkUsed
    <3>2. QED
      BY <3>1, OrderKept
  <2>3. QED
    BY <1>1, <2>1, <2>2 DEF Whole, Trimmed, Worse
<1>4. QED
  BY <1>2, <1>3, BlockStored

LEMMA TrimmedByDisconnect ==
  ASSUME Inv, LinkInv, Trimmed, NEW t \in Thread, DisconnectTip(t) \/ InvalidateStep(t)
  PROVE  Trimmed'
<1>1. UNCHANGED seq /\ seq \in [Block -> Int] /\ tip \in Block /\ candidates \subseteq Block
  BY DEF DisconnectTip, InvalidateStep, choiceVars, LinkInv, Sequenced, Inv, Typed
<1>2. tip' \in Block
  BY <1>1, DownBefore
<1>3. ASSUME NEW x \in candidates PROVE ~Worse(x, tip')
  <2>1. ~Worse(x, tip)
    BY DEF Trimmed
  <2>2. CASE tip' # tip
    <3>1. ~Worse(tip, tip')
      BY <1>1, <1>2, <2>2, DownBefore, Order DEF Worse
    <3>2. QED
      BY <1>1, <1>2, <2>1, <3>1, OrderTransitive DEF Worse
  <2>3. QED
    BY <2>1, <2>2
<1>4. \A x \in candidates' \ candidates : x = tip' \/ ~Worse(x, tip')
  <2>1. CASE invalidate.pindex \in Chain[tip] /\ tip \in haveData /\ InvalidateStep(t)
    <3>1. /\ tip' = Prev[tip]
          /\ candidates' = (candidates \ {tip}) \cup {Prev[tip]} \cup
                           {x \in invalidate.byWork : ~Worse(x, Prev[tip])}
      BY <2>1 DEF InvalidateStep
    <3>2. QED
      BY <3>1
  <2>2. CASE ~(invalidate.pindex \in Chain[tip] /\ tip \in haveData /\ InvalidateStep(t))
    <3>1. UNCHANGED candidates
      BY <2>2 DEF DisconnectTip, InvalidateStep, choiceVars
    <3>2. QED
      BY <3>1
  <2>3. QED
    BY <2>1, <2>2
<1>5. ~Worse(tip', tip')
  BY <1>1, <1>2, Order DEF Worse
<1>6. QED
  BY <1>1, <1>3, <1>4, <1>5 DEF Trimmed, Worse

LEMMA TrimmedByPrecious ==
  ASSUME Inv, LinkInv, Trimmed, NEW t \in Thread, NEW b \in RpcTarget, PreciousBlock(t, b)
  PROVE  Trimmed'
<1>1. UNCHANGED tip /\ \A x \in Block \ {b} : seq'[x] = seq[x]
  BY DEF PreciousBlock, LinkInv, Sequenced
<1>2. CASE ValidTransactions(b) /\ b \in linked
  <2>1. candidates' = {x \in candidates \cup {b} : ~SortsBefore(seq', x, tip)}
    BY <1>2 DEF PreciousBlock
  <2>2. QED
    BY <1>1, <2>1 DEF Trimmed, Worse
<1>3. CASE ~(ValidTransactions(b) /\ b \in linked)
  <2>1. candidates' = candidates \ {b}
    BY <1>3 DEF PreciousBlock
  <2>2. tip # b /\ tip \in Block
    BY <1>3, PathFacts DEF ValidTransactions, Failed, LinkInv, LinkUsed, LinkShape, Inv, Sound, Typed, Marked
  <2>3. ASSUME NEW x \in candidates' PROVE ~SortsBefore(seq', x, tip)
    <3>1. x \in Block /\ seq'[x] = seq[x] /\ seq'[tip] = seq[tip] /\ ~SortsBefore(seq, x, tip)
      BY <1>1, <2>1, <2>2 DEF Trimmed, Worse, Inv, Typed
    <3>2. QED
      BY <3>1, OrderKept
  <2>4. QED
    BY <1>1, <2>3 DEF Trimmed, Worse
<1>4. QED
  BY <1>2, <1>3

LEMMA TrimmedByReset ==
  ASSUME Inv, LinkInv, Trimmed, NEW t \in Thread, NEW b \in RpcTarget, ResetBlockFailureFlags(t, b)
  PROVE  Trimmed'
<1>1. /\ UNCHANGED <<tip, seq>>
      /\ \A x \in candidates' \ candidates : x \in received /\ Worse(tip, x)
  BY DEF ResetBlockFailureFlags, Reconsidered
<1>2. \A x \in candidates' \ candidates : ~Worse(x, tip)
  BY <1>1, Order DEF Worse, LinkInv, Sequenced, Inv, Typed
<1>3. QED
  BY <1>1, <1>2, TrimmedKept

LEMMA TrimmedByRestart ==
  ASSUME NEW t \in Thread, Restart(t)
  PROVE  Trimmed'
<1>1. /\ UNCHANGED tip /\ seq' = [b \in Block |-> 0]
      /\ \A x \in candidates' : ~SortsBefore([b \in Block |-> 0], x, tip)
  BY DEF Restart, LoadedCandidates
<1>2. QED
  BY <1>1 DEF Trimmed, Worse

LEMMA TrimmedNext ==
  ASSUME "prune" \notin Rpcs, Inv, LinkInv, Whole, Trimmed, [Next]_vars
  PROVE  Whole' /\ Trimmed'
<1>1. ASSUME NEW b \in Block \ {Genesis}, AcceptBlockHeader(b) PROVE Whole' /\ Trimmed'
  BY <1>1, TrimmedKept DEF AcceptBlockHeader, choiceVars, Whole
<1>2. ASSUME NEW t \in Thread, ActivateEnter(t) \/ ActivateStep(t) PROVE Whole' /\ Trimmed'
  <2>1. UNCHANGED <<received, haveData>>
    BY <1>2 DEF ActivateEnter, ActivateStep, ActivateLock, RejectCandidate, FindMostWorkChain,
       DisconnectTip, ConnectTip, ConnectTipFails, ActivateUnlock, indexVars
  <2>2. CASE ActivateEnter(t) \/ ActivateLock(t) \/ RejectCandidate(t) \/ FindMostWorkChain(t)
             \/ ConnectTipFails(t) \/ ActivateUnlock(t)
    <3>1. UNCHANGED <<seq, tip>> /\ candidates' \subseteq candidates
      BY <2>2 DEF ActivateEnter, ActivateLock, RejectCandidate, FindMostWorkChain,
         ConnectTipFails, ActivateUnlock, choiceVars
    <3>2. QED
      BY <2>1, <3>1, TrimmedKept DEF Whole
  <2>3. CASE ConnectTip(t)
    <3>1. UNCHANGED seq /\ (UNCHANGED <<tip, candidates>> \/ candidates' = PruneBlockIndexCandidates(tip'))
      BY <2>3 DEF ConnectTip
    <3>2. QED
      BY <2>1, <3>1 DEF Whole, Trimmed, PruneBlockIndexCandidates, Worse
  <2>4. QED
    BY <1>2, <2>1, <2>2, <2>3, TrimmedByDisconnect DEF ActivateStep, Whole
<1>3. ASSUME NEW t \in Thread, InvalidateNext(t) PROVE Whole' /\ Trimmed'
  <2>1. UNCHANGED <<received, haveData>>
    BY <1>3 DEF InvalidateNext, InvalidateStep, InvalidateFinish, indexVars
  <2>2. CASE InvalidateFinish(t)
    <3>1. UNCHANGED <<seq, tip>> /\ \A x \in candidates' \ candidates : ~Worse(x, tip)
      BY <2>2 DEF InvalidateFinish, MissedCandidates
    <3>2. QED
      BY <2>1, <3>1, TrimmedKept DEF Whole
  <2>3. QED
    BY <1>3, <2>1, <2>2, TrimmedByDisconnect DEF InvalidateNext, Whole
<1>4. ASSUME NEW b \in RpcTarget, NEW t \in Thread,
             InvalidateStart(t, b) \/ ResetBlockFailureFlags(t, b) \/ PreciousBlock(t, b)
      PROVE  Whole' /\ Trimmed'
  <2>1. UNCHANGED <<received, haveData>>
    BY <1>4 DEF InvalidateStart, ResetBlockFailureFlags, PreciousBlock, indexVars
  <2>2. CASE InvalidateStart(t, b)
    BY <2>1, <2>2, TrimmedKept DEF InvalidateStart, choiceVars, Whole
  <2>3. QED
    BY <1>4, <2>1, <2>2, TrimmedByReset, TrimmedByPrecious DEF Whole
<1>5. ASSUME NEW b \in Block, PruneOneBlockFile(b) PROVE Whole' /\ Trimmed'
  BY <1>5 DEF PruneOneBlockFile, Command
<1>6. ASSUME NEW t \in Thread, Restart(t) PROVE Whole' /\ Trimmed'
  BY <1>6, TrimmedByRestart DEF Restart, Whole
<1>7. ASSUME UNCHANGED vars PROVE Whole' /\ Trimmed'
  BY <1>7 DEF vars, indexVars, choiceVars, Whole, Trimmed, Worse
<1>8. QED
  BY <1>1, <1>2, <1>3, <1>4, <1>5, <1>6, <1>7, TrimmedByBlock DEF Next

(* Without pruning, a block keeps its sort key while it is in the sorted   *)
(* set: new sequence ids go to blocks outside it, and PreciousBlock's are  *)
(* negative.                                                               *)
LEMMA KeysKept ==
  ASSUME "prune" \notin Rpcs, Inv, LinkInv, Whole, [Next]_vars,
         \A t \in Thread : ~Restart(t), NEW c \in candidates
  PROVE  seq'[c] = seq[c] \/ seq'[c] < 0
<1>1. CASE UNCHANGED seq
  BY <1>1
<1>2. ASSUME NEW b \in Block \ {Genesis}, NEW t \in Thread, NEW requested \in BOOLEAN,
             ProcessNewBlock(t, b, requested)
      PROVE  seq'[c] = seq[c]
  <2>1. CASE b \notin haveData /\ StoreBlock(t, b)
    BY <2>1, StoreOrder DEF StoreBlock, LinkInv, LinkUsed
  <2>2. QED
    BY <1>2, <2>1, BlockStored
<1>3. ASSUME NEW b \in RpcTarget, NEW t \in Thread, PreciousBlock(t, b)
      PROVE  seq'[c] = seq[c] \/ seq'[c] < 0
  <2>1. PICK reverse \in {-1, precious.reverse} : seq' = [seq EXCEPT ![b] = reverse]
    BY <1>3 DEF PreciousBlock
  <2>2. reverse < 0
    BY <2>1, SMT DEF LinkInv, Sequenced
  <2>3. seq'[c] \in {seq[c], reverse}
    BY <2>1 DEF LinkInv, Sequenced, Inv, Typed
  <2>4. QED
    BY <2>2, <2>3
<1>4. UNCHANGED seq \/ (\E b \in Block \ {Genesis}, t \in Thread, requested \in BOOLEAN :
        ProcessNewBlock(t, b, requested)) \/ \E b \in RpcTarget, t \in Thread : PreciousBlock(t, b)
  BY DEF Next, AcceptBlockHeader, ActivateEnter, ActivateStep, ActivateLock, RejectCandidate,
     FindMostWorkChain, DisconnectTip, ConnectTip, ConnectTipFails, ActivateUnlock, InvalidateNext,
     InvalidateStep, InvalidateFinish, InvalidateStart, ResetBlockFailureFlags, PruneOneBlockFile,
     vars, choiceVars
<1>5. QED
  BY <1>1, <1>2, <1>3, <1>4

LEMMA TrimmedInvariance ==
  ASSUME "prune" \notin Rpcs
  PROVE  Spec => [](Inv /\ LinkInv /\ Whole /\ Trimmed)
<1>1. Init => Whole /\ Trimmed
  <2>1. SUFFICES ASSUME Init PROVE Whole /\ Trimmed
    OBVIOUS
  <2>2. seq \in [Block -> Int] /\ Genesis \in Block
    BY <2>1, TreeAssumption, SMT DEF Init
  <2>3. ~Worse(Genesis, Genesis)
    BY <2>2, Order DEF Worse
  <2>4. QED
    BY <2>1, <2>3 DEF Init, Whole, Trimmed
<1>2. Inv /\ LinkInv /\ Whole /\ Trimmed /\ [Next]_vars => (Whole /\ Trimmed)'
  BY TrimmedNext
<1>3. QED
  BY <1>1, <1>2, LinkInvariance, PTL DEF Spec

(* While a block is in setBlockIndexCandidates its key in that sorted set  *)
(* does not change, except in PreciousBlock, which takes it out first, and *)
(* over a restart, provided no block file is pruned.  A pruned block that  *)
(* is downloaded again gets a new nSequenceId while it may be in the set.  *)
THEOREM SortKeysAlwaysStable ==
  ASSUME "prune" \notin Rpcs
  PROVE  Spec => SortKeysStable
<1>1. Inv /\ LinkInv /\ Whole /\ [Next]_vars =>
        [(\E t \in Thread : Restart(t)) \/ \A b \in candidates : seq'[b] = seq[b] \/ seq'[b] < 0]_vars
  BY KeysKept
<1>2. QED
  BY <1>1, TrimmedInvariance, PTL DEF Spec, SortKeysStable
-----------------------------------------------------------------------------
(* No candidate is missing.                                                *)

Deciding == {"find", "disconnect", "connect"}

(* Every linked block that bears no mark, also one with a marked ancestor, *)
(* is a candidate if it is no worse than the tip; while                    *)
(* ActivateBestChain has the tip below where it started, if it is no worse *)
(* than that either.                                                       *)
AllListed == \A x \in linked \ Marked : ~Worse(x, tip) => x \in candidates
StartListed ==
  \A x \in linked \ Marked : ~Worse(x, tip) /\ ~Worse(x, activate.startTip) => x \in candidates

(* The tip ActivateBestChain started from stays a choice, and the block it *)
(* works towards is at least as good.                                      *)
StartKnown ==
  /\ activate.startTip \in linked /\ Chain[activate.startTip] \cap Marked = {}
  /\ Chain[activate.startTip] \ {Genesis} \subseteq scripts
  /\ activate.mostWork # None => ~Worse(activate.mostWork, activate.startTip)
BelowStart == tip = activate.startTip \/ Worse(tip, activate.startTip)

ChoiceInv ==
  /\ scripts \cap BadScripts = {} /\ \A t \in Thread : pc[t] # "aborted"
  /\ (\A t \in Thread : pc[t] \notin Deciding \cup Invalidating) => AllListed
  /\ \A t \in Thread :
       /\ pc[t] \in Deciding => StartListed /\ StartKnown
       /\ pc[t] \in {"find", "disconnect"} => BelowStart
       /\ pc[t] \in {"lock", "unlock"} /\ activate.mostWork # None =>
            tip \in Chain[activate.mostWork]

(* The hypotheses of the steps.                                            *)
Before == Inv /\ LinkInv /\ Whole /\ Trimmed /\ ChoiceInv

LEMMA BeforeTypes ==
  ASSUME Before
  PROVE  /\ seq \in [Block -> Int] /\ tip \in Block /\ tip \in linked
         /\ linked \subseteq Block /\ candidates \subseteq linked /\ linked = linked \cap haveData
  BY DEF Before, Inv, Typed, LinkInv, LinkShape, LinkUsed, Sequenced, Whole
-----------------------------------------------------------------------------
(* Steps of threads that hold neither lock: AllListed is all there is to   *)
(* show.                                                                   *)
LEMMA OutsideChoice ==
  ASSUME Before, MainFree, UNCHANGED <<scripts, tip, activate>>,
         \A u \in Thread : pc'[u] = pc[u] \/ (pc'[u] = "activate" /\ pc[u] = "idle"),
         AllListed => AllListed'
  PROVE  ChoiceInv'
<1>1. \A u \in Thread : pc'[u] \notin Deciding /\ pc'[u] # "unlock"
  BY DEF MainFree, HoldsMain, Deciding
<1>2. (\A u \in Thread : pc'[u] \notin Deciding \cup Invalidating) => AllListed'
  BY <1>1 DEF MainFree, HoldsMain, Deciding, Before, ChoiceInv, Invalidating
<1>3. \A u \in Thread : pc'[u] # "aborted" /\ (pc'[u] = "lock" => pc[u] = "lock")
  BY DEF Before, ChoiceInv
<1>4. QED
  BY <1>1, <1>2, <1>3 DEF Before, ChoiceInv, Deciding

LEMMA ThreadLeaves ==
  ASSUME Before, NEW t \in Thread, pc[t] = "idle", Goto(t, "activate") \/ pc' = pc
  PROVE  \A u \in Thread : pc'[u] = pc[u] \/ (pc'[u] = "activate" /\ pc[u] = "idle")
<1>1. CASE Goto(t, "activate")
  BY <1>1, Moves DEF Before, Inv
<1>2. QED
  BY <1>1

LEMMA MarkedMore ==
  ASSUME AllListed, UNCHANGED <<linked, seq, candidates, tip>>,
         failedValid \subseteq failedValid', failedChild \subseteq failedChild'
  PROVE  AllListed'
  BY DEF AllListed, Marked, Worse

LEMMA HeaderChoice ==
  ASSUME Before, NEW b \in Block \ {Genesis}, AcceptBlockHeader(b)
  PROVE  ChoiceInv'
<1>1. /\ UNCHANGED <<linked, scripts, seq, candidates, tip, pc, activate>> /\ MainFree
      /\ failedValid \subseteq failedValid' /\ failedChild \subseteq failedChild'
  BY DEF AcceptBlockHeader, MarkDescendants, failVars, choiceVars
<1>2. QED
  <2>1. AllListed => AllListed'
    BY <1>1, MarkedMore
  <2>2. QED
    BY <1>1, <2>1, OutsideChoice

LEMMA BlockChoice ==
  ASSUME Before, NEW b \in Block \ {Genesis}, NEW t \in Thread, NEW requested \in BOOLEAN,
         ProcessNewBlock(t, b, requested)
  PROVE  ChoiceInv'
<1>1. UNCHANGED <<tip, activate>> /\ MainFree /\ pc[t] = "idle"
  BY DEF ProcessNewBlock
<1>2. UNCHANGED scripts /\ (pc' = pc \/ Goto(t, "activate"))
  BY BlockStored DEF StoreBlock
<1>3. \A u \in Thread : pc'[u] = pc[u] \/ (pc'[u] = "activate" /\ pc[u] = "idle")
  BY <1>1, <1>2, ThreadLeaves
<1>4. ASSUME AllListed, b \notin haveData, StoreBlock(t, b), UNCHANGED <<failedValid, failedChild>>
      PROVE  AllListed'
  <2>1. /\ \A x \in linked : seq'[x] = seq[x]
        /\ linked \subseteq linked' /\ candidates \subseteq candidates'
        /\ \A x \in linked' \ linked : ~SortsBefore(seq', x, tip) => x \in candidates'
    BY <1>4, StoreOrder DEF StoreBlock, Before
  <2>2. ASSUME NEW x \in linked' \ Marked', ~SortsBefore(seq', x, tip) PROVE x \in candidates'
    <3>1. CASE x \in linked
      <4>1. seq'[x] = seq[x] /\ seq'[tip] = seq[tip] /\ x \notin Marked
        BY <1>4, <2>1, <3>1, BeforeTypes DEF Marked
      <4>2. ~SortsBefore(seq, x, tip)
        BY <2>2, <4>1, OrderKept
      <4>3. QED
        BY <1>4, <2>1, <3>1, <4>1, <4>2 DEF AllListed, Worse
    <3>2. QED
      BY <2>1, <2>2, <3>1
  <2>3. QED
    BY <1>1, <2>2 DEF AllListed, Worse
<1>5. AllListed => AllListed'
  <2>1. ASSUME UNCHANGED <<linked, seq, candidates>>,
               failedValid \subseteq failedValid', failedChild \subseteq failedChild'
        PROVE  AllListed => AllListed'
    BY <1>1, <2>1, MarkedMore
  <2>2. QED
    BY <1>4, <2>1, BlockStored
<1>6. QED
  BY <1>1, <1>2, <1>3, <1>5, OutsideChoice

(* What reconsiderblock unmarks and is better than the tip is added.       *)
LEMMA ResetChoice ==
  ASSUME Before, "reconsiderBelow" \notin Rpcs, NEW t \in Thread, NEW b \in RpcTarget,
         ResetBlockFailureFlags(t, b)
  PROVE  ChoiceInv'
<1>1. /\ UNCHANGED <<scripts, linked, seq, tip, activate>> /\ MainFree /\ b \in known
      /\ pc[t] = "idle" /\ Goto(t, "activate")
      /\ \A x \in Chain[b] \ {b} : x \notin Marked
      /\ candidates' = candidates \cup Reconsidered(NotValidBelow(b))
  BY DEF ResetBlockFailureFlags, indexVars, Failed, Marked
<1>2. Marked' = Marked \ (NotValidBelow(b) \cup Chain[b])
  BY DEF ResetBlockFailureFlags, Marked
<1>3. \A u \in Thread : pc'[u] = pc[u] \/ (pc'[u] = "activate" /\ pc[u] = "idle")
  BY <1>1, ThreadLeaves
<1>4. ASSUME AllListed, NEW x \in linked \ Marked', ~Worse(x, tip) PROVE x \in candidates'
  <2>1. CASE x \notin Marked
    BY <1>1, <1>4, <2>1 DEF AllListed
  <2>2. CASE x \in Marked
    <3>1. x \in NotValidBelow(b)
      <4>1. b \in Chain[b]
        BY <1>1, PathFacts DEF Before, Inv, Typed
      <4>2. b \in Marked => b \in NotValidBelow(b)
        BY <1>1, <4>1 DEF NotValidBelow, ValidTransactions, Failed, Marked
      <4>3. QED
        BY <1>1, <1>2, <1>4, <2>2, <4>2
    <3>2. x # tip
      BY <2>2, PathFacts DEF Before, Inv, Sound, Typed
    <3>3. Worse(tip, x)
      BY <1>4, <3>2, BeforeTypes, Order DEF Worse
    <3>4. x \in received
      BY <1>4 DEF Before, LinkInv, LinkShape
    <3>5. QED
      BY <1>1, <1>4, <3>1, <3>3, <3>4 DEF Reconsidered
  <2>3. QED
    BY <2>1, <2>2
<1>5. AllListed => AllListed'
  BY <1>1, <1>4 DEF AllListed, Worse
<1>6. QED
  BY <1>1, <1>3, <1>5, OutsideChoice
-----------------------------------------------------------------------------
(* Steps of the thread that holds m_chainstate_mutex.                      *)

LEMMA HolderChoice ==
  ASSUME NEW t \in Thread, \A u \in Thread : pc'[u] \in HoldsChainMutex => u = t,
         scripts' \cap BadScripts = {}, \A u \in Thread : pc'[u] # "aborted",
         pc'[t] \notin Deciding \cup Invalidating => AllListed',
         pc'[t] \in Deciding => StartListed' /\ StartKnown',
         pc'[t] \in {"find", "disconnect"} => BelowStart',
         pc'[t] \in {"lock", "unlock"} /\ activate'.mostWork # None =>
           tip' \in Chain[activate'.mostWork]
  PROVE  ChoiceInv'
<1>1. \A u \in Thread : pc'[u] \in Deciding \cup Invalidating \cup {"lock", "unlock"} => u = t
  BY DEF HoldsChainMutex, HoldsMain, Deciding, Invalidating
<1>2. \A u \in Thread :
        /\ pc'[u] \in Deciding => StartListed' /\ StartKnown'
        /\ pc'[u] \in {"find", "disconnect"} => BelowStart'
        /\ pc'[u] \in {"lock", "unlock"} /\ activate'.mostWork # None =>
             tip' \in Chain[activate'.mostWork]
  BY <1>1 DEF Deciding
<1>3. (\A u \in Thread : pc'[u] \notin Deciding \cup Invalidating) => AllListed'
  OBVIOUS
<1>4. QED
  BY <1>2, <1>3 DEF ChoiceInv

(* ... when it was inside ActivateBestChain.                               *)
LEMMA InsideChoice ==
  ASSUME Before, NEW t \in Thread, pc[t] \in Activating,
         \A u \in Thread : u # t => pc'[u] = pc[u],
         pc'[t] \notin Invalidating \cup {"aborted"},
         scripts' \cap BadScripts = {},
         pc'[t] \notin Deciding => AllListed',
         pc'[t] \in Deciding => StartListed' /\ StartKnown',
         pc'[t] \in {"find", "disconnect"} => BelowStart',
         pc'[t] \in {"lock", "unlock"} /\ activate'.mostWork # None =>
           tip' \in Chain[activate'.mostWork]
  PROVE  ChoiceInv'
<1>1. \A u \in Thread : pc'[u] \in HoldsChainMutex => u = t
  BY Alone DEF Before
<1>2. \A u \in Thread : pc'[u] # "aborted"
  BY DEF Before, ChoiceInv
<1>3. QED
  BY <1>1, <1>2, HolderChoice

(* ... or nobody had it.                                                   *)
LEMMA EnterChoice ==
  ASSUME Before, NEW t \in Thread, ActivateEnter(t)
  PROVE  ChoiceInv'
<1>1. /\ UNCHANGED <<linked, scripts, failedValid, failedChild, seq, candidates, tip>>
      /\ ChainMutexFree /\ Goto(t, "lock") /\ activate' = NoActivate
  BY DEF ActivateEnter, indexVars, failVars, choiceVars
<1>2. pc'[t] = "lock" /\ \A u \in Thread : u # t => pc'[u] = pc[u]
  BY <1>1, Moves DEF Before, Inv
<1>3. AllListed
  BY <1>1 DEF ChainMutexFree, Before, ChoiceInv, HoldsChainMutex, HoldsMain, Deciding, Invalidating
<1>4. AllListed'
  BY <1>1, <1>3, MarkedMore
<1>5. \A u \in Thread : pc'[u] \in HoldsChainMutex => u = t
  BY <1>1, <1>2 DEF ChainMutexFree
<1>6. \A u \in Thread : pc'[u] # "aborted"
  BY <1>2 DEF Before, ChoiceInv
<1>7. activate'.mostWork = None /\ scripts' \cap BadScripts = {}
  BY <1>1 DEF NoActivate, Before, ChoiceInv
<1>8. QED
  BY <1>2, <1>4, <1>5, <1>6, <1>7, HolderChoice DEF Deciding

LEMMA LockChoice ==
  ASSUME Before, NEW t \in Thread, ActivateLock(t)
  PROVE  ChoiceInv'
<1>1. /\ UNCHANGED <<linked, scripts, failedValid, failedChild, seq, candidates, tip>>
      /\ pc[t] = "lock" /\ Goto(t, "find")
  BY DEF ActivateLock, indexVars, failVars, choiceVars
<1>2. pc'[t] = "find" /\ \A u \in Thread : u # t => pc'[u] = pc[u]
  BY <1>1, Moves DEF Before, Inv
<1>3. activate' = [activate EXCEPT !.startTip = tip, !.oldTip = None]
  BY DEF ActivateLock
<1>4. activate'.startTip = tip /\ activate'.mostWork = activate.mostWork
  BY <1>3 DEF Before, Inv, Typed
<1>5. AllListed
  <2>1. \A u \in Thread : u # t => pc[u] \notin HoldsChainMutex
    BY <1>1 DEF Before, Inv, Exclusive, HoldsChainMutex
  <2>2. QED
    BY <1>1, <2>1 DEF Before, ChoiceInv, HoldsChainMutex, HoldsMain, Deciding, Invalidating
<1>6. StartListed'
  BY <1>1, <1>4, <1>5 DEF StartListed, AllListed, Worse, Marked
<1>7. activate.mostWork # None => ~Worse(activate.mostWork, tip)
  <2>1. SUFFICES ASSUME activate.mostWork # None PROVE ~Worse(activate.mostWork, tip)
    OBVIOUS
  <2>2. activate.mostWork \in Block /\ tip \in Chain[activate.mostWork]
    BY <1>1, <2>1 DEF Before, ChoiceInv, Inv, Typed
  <2>3. tip = activate.mostWork \/ Worse(tip, activate.mostWork)
    BY <2>2, AncestorsBefore DEF Worse
  <2>4. QED
    BY <2>2, <2>3, BeforeTypes, Order DEF Worse
<1>8. StartKnown'
  <2>1. tip \in linked /\ Chain[tip] \cap Marked = {} /\ Chain[tip] \ {Genesis} \subseteq scripts
    BY BeforeTypes DEF Before, Inv, Sound
  <2>2. QED
    BY <1>1, <1>4, <1>7, <2>1 DEF StartKnown, Worse, Marked
<1>9. BelowStart'
  BY <1>1, <1>4 DEF BelowStart
<1>10. scripts' \cap BadScripts = {} /\ pc[t] \in Activating
  BY <1>1 DEF Before, ChoiceInv, Activating
<1>11. QED
  BY <1>2, <1>6, <1>8, <1>9, <1>10, InsideChoice DEF Deciding, Invalidating

LEMMA DecidingFacts ==
  ASSUME Before, NEW t \in Thread, pc[t] \in Deciding
  PROVE  /\ StartListed /\ StartKnown /\ pc[t] \in Activating
         /\ activate.startTip \in Block /\ scripts \cap BadScripts = {}
         /\ pc[t] # "connect" => BelowStart
<1>1. StartListed /\ StartKnown /\ scripts \cap BadScripts = {} /\ (pc[t] # "connect" => BelowStart)
  BY DEF Before, ChoiceInv, Deciding
<1>2. QED
  BY <1>1, BeforeTypes DEF StartKnown, Deciding, Activating, HoldsMain

(* The tip ActivateBestChain started from is a candidate, so the set is    *)
(* not empty and the best in it is no worse.                               *)
LEMMA StartIsCandidate ==
  ASSUME Before, NEW t \in Thread, pc[t] = "find"
  PROVE  activate.startTip \in candidates
<1>1. /\ StartListed /\ BelowStart /\ activate.startTip \in Block
      /\ activate.startTip \in linked /\ activate.startTip \notin Marked
  BY DecidingFacts, PathFacts DEF Deciding, StartKnown
<1>2. ~Worse(activate.startTip, activate.startTip) /\ ~Worse(activate.startTip, tip)
  BY <1>1, BeforeTypes, Order DEF Worse, BelowStart
<1>3. QED
  BY <1>1, <1>2 DEF StartListed

LEMMA MostIsGood ==
  ASSUME Before, NEW t \in Thread, pc[t] = "find", NEW most,
         IF activate.mostWork # None \/ candidates = {} THEN most = activate.mostWork
         ELSE most \in Best(seq, candidates)
  PROVE  /\ most \in Block /\ most # None /\ ~Worse(most, activate.startTip)
         /\ most = tip => tip = activate.startTip
<1>1. candidates # {}
  BY StartIsCandidate
<1>2. StartKnown /\ BelowStart /\ activate.startTip \in Block
  BY DecidingFacts DEF Deciding
<1>3. CASE activate.mostWork # None
  BY <1>2, <1>3 DEF StartKnown, BelowStart, Before, Inv, Typed
<1>4. CASE activate.mostWork = None
  <2>1. most \in candidates /\ \A y \in candidates \ {most} : SortsBefore(seq, y, most)
    BY <1>1, <1>4 DEF Best
  <2>2. most \in Block /\ most # None
    <3>1. most \in Block
      BY <2>1, BeforeTypes
    <3>2. QED
      BY <3>1, TreeAssumption
  <2>3. most = activate.startTip \/ SortsBefore(seq, activate.startTip, most)
    BY <2>1, StartIsCandidate
  <2>4. ~Worse(most, activate.startTip)
    <3>1. seq \in [Block -> Int]
      BY BeforeTypes
    <3>2. CASE most = activate.startTip
      BY <2>2, <3>1, <3>2, Order DEF Worse
    <3>3. CASE SortsBefore(seq, activate.startTip, most)
      BY <1>2, <2>2, <3>1, <3>3, Order DEF Worse
    <3>4. QED
      BY <2>3, <3>2, <3>3
  <2>5. QED
    BY <1>2, <2>2, <2>4 DEF BelowStart
<1>5. QED
  BY <1>3, <1>4

(* FindMostWorkChain drops only blocks that it marks or that are marked:   *)
(* no data is missing.                                                     *)
LEMMA RejectChoice ==
  ASSUME Before, NEW t \in Thread, RejectCandidate(t)
  PROVE  ChoiceInv'
<1>1. /\ UNCHANGED <<linked, scripts, failedValid, seq, tip, pc, activate>>
      /\ pc[t] = "find"
  BY DEF RejectCandidate, indexVars
<1>2. StartListed /\ StartKnown /\ BelowStart /\ scripts \cap BadScripts = {} /\ pc[t] \in Activating
  BY <1>1, DecidingFacts DEF Deciding
<1>3. PICK new \in candidates : \E bad \in Unusable(new) :
        /\ candidates' = candidates \ ((Chain[new] \ Chain[bad]) \cup {bad})
        /\ Failed(bad) => failedChild' = failedChild \cup (Chain[new] \ Chain[bad])
  BY DEF RejectCandidate, Best
<1>4. PICK bad \in Unusable(new) :
        /\ candidates' = candidates \ ((Chain[new] \ Chain[bad]) \cup {bad})
        /\ Failed(bad) => failedChild' = failedChild \cup (Chain[new] \ Chain[bad])
  BY <1>3
<1>5. new \in Block /\ bad \in Chain[new] /\ bad \in Marked
  <2>1. new \in Block /\ new \in linked /\ bad \in Chain[new] /\ (Failed(bad) \/ bad \notin haveData)
    BY BeforeTypes DEF Unusable
  <2>2. bad \in haveData
    BY <2>1, BeforeTypes DEF Before, LinkInv, LinkShape
  <2>3. QED
    BY <2>1, <2>2 DEF Failed, Marked
<1>6. Marked' = Marked \cup (Chain[new] \ Chain[bad])
  BY <1>1, <1>4, <1>5 DEF Failed, Marked
<1>7. StartListed'
  BY <1>1, <1>2, <1>4, <1>5, <1>6 DEF StartListed, Worse
<1>8. StartKnown'
  <2>1. bad \notin Chain[activate.startTip] /\ activate.startTip \in Block
    BY <1>2, <1>5, BeforeTypes DEF StartKnown
  <2>2. (Chain[new] \ Chain[bad]) \cap Chain[activate.startTip] = {}
    BY <1>5, <2>1, AboveAvoided
  <2>3. QED
    BY <1>1, <1>2, <1>6, <2>2 DEF StartKnown, Worse
<1>9. BelowStart'
  BY <1>1, <1>2 DEF BelowStart, Worse
<1>10. QED
  BY <1>1, <1>2, <1>7, <1>8, <1>9, InsideChoice DEF Deciding, Invalidating

LEMMA FindChoice ==
  ASSUME Before, NEW t \in Thread, FindMostWorkChain(t)
  PROVE  ChoiceInv'
<1>1. /\ UNCHANGED <<linked, scripts, failedValid, failedChild, seq, candidates, tip>>
      /\ pc[t] = "find"
  BY DEF FindMostWorkChain, indexVars, failVars, choiceVars
<1>2. PICK most :
        /\ IF activate.mostWork # None \/ candidates = {} THEN most = activate.mostWork
           ELSE most \in Best(seq, candidates)
        /\ \/ /\ most \in {None, tip} /\ activate' = [activate EXCEPT !.mostWork = most]
              /\ Goto(t, "unlock")
           \/ /\ most \notin {None, tip} /\ Goto(t, "disconnect")
              /\ activate' = [activate EXCEPT !.mostWork = most, !.oldTip = tip]
  BY DEF FindMostWorkChain
<1>3. /\ most \in Block /\ most # None /\ ~Worse(most, activate.startTip)
      /\ most = tip => tip = activate.startTip
  BY <1>1, <1>2, MostIsGood
<1>4. activate'.mostWork = most /\ activate'.startTip = activate.startTip
  BY <1>2 DEF Before, Inv, Typed
<1>5. StartListed /\ StartKnown /\ BelowStart /\ scripts \cap BadScripts = {} /\ pc[t] \in Activating
  BY <1>1, DecidingFacts DEF Deciding
<1>6. CASE most = tip /\ Goto(t, "unlock")
  <2>1. pc'[t] = "unlock" /\ \A u \in Thread : u # t => pc'[u] = pc[u]
    BY <1>6, Moves DEF Before, Inv
  <2>2. AllListed'
    <3>1. AllListed
      BY <1>3, <1>5, <1>6 DEF StartListed, AllListed
    <3>2. QED
      BY <1>1, <3>1, MarkedMore
  <2>3. tip' \in Chain[activate'.mostWork]
    <3>1. most \in Chain[most] /\ tip' = most
      BY <1>1, <1>3, <1>6, PathFacts
    <3>2. QED
      BY <1>4, <3>1
  <2>4. QED
    BY <1>1, <1>5, <2>1, <2>2, <2>3, InsideChoice DEF Deciding, Invalidating
<1>7. CASE Goto(t, "disconnect")
  <2>1. pc'[t] = "disconnect" /\ \A u \in Thread : u # t => pc'[u] = pc[u]
    BY <1>7, Moves DEF Before, Inv
  <2>2. StartListed' /\ BelowStart'
    BY <1>1, <1>4, <1>5 DEF StartListed, BelowStart, Worse, Marked
  <2>3. StartKnown'
    BY <1>1, <1>3, <1>4, <1>5 DEF StartKnown, Worse, Marked
  <2>4. QED
    BY <1>1, <1>5, <2>1, <2>2, <2>3, InsideChoice DEF Deciding, Invalidating
<1>8. QED
  BY <1>2, <1>3, <1>6, <1>7

LEMMA DisconnectChoice ==
  ASSUME Before, NEW t \in Thread, DisconnectTip(t)
  PROVE  ChoiceInv'
<1>1. /\ UNCHANGED <<linked, scripts, failedValid, failedChild, seq, candidates, activate>>
      /\ pc[t] = "disconnect" /\ tip \in haveData
  BY BeforeTypes DEF DisconnectTip, indexVars, failVars, choiceVars
<1>2. /\ StartListed /\ StartKnown /\ BelowStart /\ scripts \cap BadScripts = {}
      /\ pc[t] \in Activating /\ activate.startTip \in Block
  BY <1>1, DecidingFacts DEF Deciding
<1>3. (UNCHANGED tip /\ Goto(t, "connect")) \/ UNCHANGED pc
  BY <1>1 DEF DisconnectTip
<1>4. /\ pc'[t] \in {"connect", "disconnect"}
      /\ \A u \in Thread : u # t => pc'[u] = pc[u]
  BY <1>1, <1>3, Moves DEF Before, Inv
<1>5. StartKnown'
  BY <1>1, <1>2 DEF StartKnown, Worse, Marked
<1>6. StartListed' /\ BelowStart'
  <2>1. CASE UNCHANGED tip
    BY <1>1, <1>2, <2>1 DEF StartListed, BelowStart, Worse, Marked
  <2>2. CASE tip' # tip
    <3>1. tip' \in Block /\ Worse(tip', tip)
      BY <2>2, DownBefore DEF Before
    <3>2. Worse(tip', activate.startTip)
      <4>1. CASE tip = activate.startTip
        BY <3>1, <4>1
      <4>2. CASE Worse(tip, activate.startTip)
        <5>1. ~Worse(tip, tip') /\ ~Worse(activate.startTip, tip)
          BY <1>2, <3>1, <4>2, BeforeTypes, Order DEF Worse
        <5>2. ~Worse(activate.startTip, tip')
          BY <1>2, <3>1, <5>1, BeforeTypes, OrderTransitive DEF Worse
        <5>3. tip' # activate.startTip
          BY <3>1, <5>1
        <5>4. QED
          BY <1>2, <3>1, <5>2, <5>3, BeforeTypes, Order DEF Worse
      <4>3. QED
        BY <1>2, <4>1, <4>2 DEF BelowStart
    <3>3. ASSUME NEW x \in linked, ~Worse(x, activate.startTip) PROVE ~Worse(x, tip)
      <4>1. ~Worse(activate.startTip, tip) /\ x \in Block
        BY <1>2, BeforeTypes, Order DEF Worse, BelowStart
      <4>2. QED
        BY <1>2, <3>3, <4>1, BeforeTypes, OrderTransitive DEF Worse
    <3>4. QED
      BY <1>1, <1>2, <3>2, <3>3 DEF StartListed, BelowStart, Worse, Marked
  <2>3. QED
    BY <2>1, <2>2
<1>7. QED
  BY <1>1, <1>2, <1>4, <1>5, <1>6, InsideChoice DEF Deciding, Invalidating

(* The loop stops when the tip is no worse than the one it started from,   *)
(* and then every block that is no worse than the tip counts.              *)
LEMMA DoneChoice ==
  ASSUME Before, NEW t \in Thread, pc[t] = "connect", NEW most, StepDone(t, most),
         tip' \in Block, linked' = linked, seq' = seq,
         scripts \subseteq scripts', scripts' \cap BadScripts = {},
         Chain[activate.startTip] \cap Marked' = {}, most \in {None, activate.mostWork},
         \A x \in linked \ Marked' :
           ~Worse(x, tip') /\ ~Worse(x, activate.startTip) => x \in candidates',
         most # None => tip' \in Chain[most]
  PROVE  ChoiceInv'
<1>1. StartKnown /\ activate.startTip \in Block /\ pc[t] \in Activating
  BY DecidingFacts DEF Deciding
<1>2. activate'.mostWork = most /\ activate'.startTip = activate.startTip
  BY DEF StepDone, Before, Inv, Typed
<1>3. pc'[t] = (IF Worse(tip', activate.startTip) THEN "find" ELSE "unlock")
      /\ \A u \in Thread : u # t => pc'[u] = pc[u]
  BY Moves DEF StepDone, Before, Inv
<1>4. StartKnown'
  BY <1>1, <1>2 DEF StartKnown, Worse
<1>5. StartListed'
  BY <1>2 DEF StartListed, Worse
<1>6. CASE Worse(tip', activate.startTip)
  <2>1. BelowStart'
    BY <1>2, <1>6 DEF BelowStart, Worse
  <2>2. QED
    BY <1>1, <1>3, <1>4, <1>5, <1>6, <2>1, InsideChoice DEF Deciding, Invalidating
<1>7. CASE ~Worse(tip', activate.startTip)
  <2>1. ASSUME NEW x \in linked \ Marked', ~Worse(x, tip') PROVE x \in candidates'
    <3>1. x \in Block
      BY BeforeTypes
    <3>2. ~Worse(x, activate.startTip)
      BY <1>1, <1>7, <2>1, <3>1, BeforeTypes, OrderTransitive DEF Worse
    <3>3. QED
      BY <2>1, <3>2
  <2>2. AllListed'
    BY <2>1 DEF AllListed, Worse
  <2>3. QED
    BY <1>1, <1>2, <1>3, <1>7, <2>2, InsideChoice DEF Deciding, Invalidating
<1>8. QED
  BY <1>6, <1>7

LEMMA ConnectChoice ==
  ASSUME Before, NEW t \in Thread, ConnectTip(t)
  PROVE  ChoiceInv'
<1>1. /\ UNCHANGED <<linked, failedValid, failedChild, seq>>
      /\ pc[t] = "connect"
  BY DEF ConnectTip, failVars
<1>2. /\ StartListed /\ StartKnown /\ scripts \cap BadScripts = {}
      /\ pc[t] \in Activating /\ activate.startTip \in Block
  BY <1>1, DecidingFacts DEF Deciding
<1>3. PICK next \in NextToConnect :
        IF next \in haveData
        THEN /\ next \notin BadScripts /\ tip' = next
             /\ scripts' \in {scripts, scripts \cup {next}}
             /\ candidates' = PruneBlockIndexCandidates(next)
             /\ StepDone(t, activate.mostWork) \/ UNCHANGED <<pc, activate>>
        ELSE Goto(t, "aborted")
  BY DEF ConnectTip
<1>4. next \in linked /\ next \in known \ {Genesis} /\ Prev[next] = tip
  BY <1>1, NextLinked DEF Before
<1>5. /\ next \notin BadScripts /\ tip' = next
      /\ scripts' \in {scripts, scripts \cup {next}}
      /\ candidates' = PruneBlockIndexCandidates(next)
      /\ StepDone(t, activate.mostWork) \/ UNCHANGED <<pc, activate>>
  BY <1>3, <1>4, BeforeTypes
<1>6. scripts \subseteq scripts' /\ scripts' \cap BadScripts = {} /\ Marked' = Marked
  BY <1>1, <1>2, <1>5 DEF Marked
<1>7. next \in Block /\ ~Worse(next, tip)
  <2>1. next \in Block \ {Genesis}
    BY <1>4, BeforeTypes
  <2>2. tip \in Chain[next] /\ tip # next
    BY <1>4, <2>1, ParentOnPath, PathFacts
  <2>3. Worse(tip, next)
    BY <2>1, <2>2, AncestorsBefore DEF Worse
  <2>4. QED
    BY <2>1, <2>3, BeforeTypes, Order DEF Worse
<1>8. ASSUME NEW x \in linked \ Marked', ~Worse(x, next), ~Worse(x, activate.startTip)
      PROVE  x \in candidates'
  <2>1. x \in Block
    BY BeforeTypes
  <2>2. ~Worse(x, tip)
    BY <1>7, <1>8, <2>1, BeforeTypes, OrderTransitive DEF Worse
  <2>3. x \in candidates
    BY <1>2, <1>6, <1>8, <2>2 DEF StartListed
  <2>4. QED
    BY <1>5, <1>8, <2>3 DEF PruneBlockIndexCandidates
<1>9. CASE StepDone(t, activate.mostWork)
  <2>1. Chain[activate.startTip] \cap Marked' = {} /\ tip' \in Chain[activate.mostWork]
    BY <1>2, <1>5, <1>6 DEF StartKnown, NextToConnect
  <2>2. QED
    BY <1>1, <1>5, <1>6, <1>7, <1>8, <1>9, <2>1, DoneChoice
<1>10. CASE UNCHANGED <<pc, activate>>
  <2>1. StartListed'
    BY <1>1, <1>5, <1>8, <1>10 DEF StartListed, Worse
  <2>2. StartKnown'
    BY <1>1, <1>2, <1>6, <1>10 DEF StartKnown, Worse
  <2>3. QED
    BY <1>1, <1>2, <1>6, <1>10, <2>1, <2>2, InsideChoice DEF Deciding, Invalidating
<1>11. QED
  BY <1>5, <1>9, <1>10

LEMMA ConnectFailsChoice ==
  ASSUME Before, NEW t \in Thread, ConnectTipFails(t)
  PROVE  ChoiceInv'
<1>1. /\ UNCHANGED <<linked, scripts, failedChild, seq, tip>>
      /\ pc[t] = "connect" /\ StepDone(t, None)
  BY DEF ConnectTipFails
<1>2. /\ StartListed /\ StartKnown /\ scripts \cap BadScripts = {}
  BY <1>1, DecidingFacts DEF Deciding
<1>3. PICK next \in NextToConnect \cap BadScripts :
        failedValid' = failedValid \cup {next} /\ candidates' = candidates \ {next}
  BY DEF ConnectTipFails
<1>4. Marked' = Marked \cup {next} /\ next # Genesis
  BY <1>1, <1>3 DEF Marked, NextToConnect
<1>5. Chain[activate.startTip] \cap Marked' = {}
  BY <1>2, <1>3, <1>4 DEF StartKnown
<1>6. \A x \in linked \ Marked' :
        ~Worse(x, tip') /\ ~Worse(x, activate.startTip) => x \in candidates'
  BY <1>1, <1>2, <1>3, <1>4 DEF StartListed
<1>7. QED
  BY <1>1, <1>2, <1>5, <1>6, BeforeTypes, DoneChoice

LEMMA UnlockChoice ==
  ASSUME Before, NEW t \in Thread, ActivateUnlock(t)
  PROVE  ChoiceInv'
<1>1. /\ UNCHANGED <<linked, scripts, failedValid, failedChild, seq, candidates, tip>>
      /\ pc[t] = "unlock"
      /\ \/ Goto(t, "idle") /\ activate' = NoActivate
         \/ Goto(t, "lock") /\ activate' = activate
  BY DEF ActivateUnlock, indexVars, failVars, choiceVars
<1>2. pc'[t] \in {"idle", "lock"} /\ \A u \in Thread : u # t => pc'[u] = pc[u]
  BY <1>1, Moves DEF Before, Inv
<1>3. AllListed
  <2>1. \A u \in Thread : u # t => pc[u] \notin HoldsChainMutex
    BY <1>1 DEF Before, Inv, Exclusive, HoldsChainMutex, HoldsMain
  <2>2. QED
    BY <1>1, <2>1 DEF Before, ChoiceInv, HoldsChainMutex, HoldsMain, Deciding, Invalidating
<1>4. AllListed'
  BY <1>1, <1>3, MarkedMore
<1>5. pc'[t] = "lock" /\ activate'.mostWork # None => tip' \in Chain[activate'.mostWork]
  <2>1. CASE Goto(t, "lock") /\ activate' = activate
    BY <1>1, <2>1 DEF Before, ChoiceInv
  <2>2. CASE activate' = NoActivate
    BY <2>2 DEF NoActivate
  <2>3. QED
    BY <1>1, <2>1, <2>2
<1>6. scripts' \cap BadScripts = {} /\ pc[t] \in Activating
  BY <1>1 DEF Before, ChoiceInv, Activating, HoldsMain
<1>7. QED
  BY <1>2, <1>4, <1>5, <1>6, InsideChoice DEF Deciding, Invalidating

(* InvalidateBlock drops candidates as it goes and, at the end, adds all   *)
(* those it missed.                                                        *)
LEMMA InvalidateChoice ==
  ASSUME Before, NEW t \in Thread,
         InvalidateNext(t) \/ \E b \in RpcTarget : InvalidateStart(t, b)
  PROVE  ChoiceInv'
<1>1. UNCHANGED <<linked, scripts, seq>>
  BY DEF InvalidateNext, InvalidateStart, InvalidateStep, InvalidateFinish, indexVars, choiceVars
<1>2. tip \in haveData
  BY BeforeTypes
<1>3. \/ /\ pc[t] \in Invalidating \/ ChainMutexFree
         /\ \/ pc[t] \in Invalidating /\ pc' = pc
            \/ \E label \in Invalidating : Goto(t, label)
      \/ InvalidateFinish(t)
  BY <1>2 DEF InvalidateNext, InvalidateStart, InvalidateStep, Invalidating
<1>4. CASE /\ pc[t] \in Invalidating \/ ChainMutexFree
           /\ \/ pc[t] \in Invalidating /\ pc' = pc
              \/ \E label \in Invalidating : Goto(t, label)
  <2>1. pc'[t] \in Invalidating /\ \A u \in Thread : u # t => pc'[u] = pc[u]
    BY <1>4, Moves DEF Before, Inv
  <2>2. \A u \in Thread : pc'[u] \in HoldsChainMutex => u = t
    BY <1>4, <2>1 DEF ChainMutexFree, Before, Inv, Exclusive, Invalidating, HoldsChainMutex
  <2>3. \A u \in Thread : pc'[u] # "aborted"
    BY <2>1 DEF Before, ChoiceInv, Invalidating
  <2>4. pc'[t] \notin Deciding \cup {"lock", "unlock"} /\ scripts' \cap BadScripts = {}
    BY <1>1, <2>1 DEF Before, ChoiceInv, Deciding, Invalidating
  <2>5. QED
    BY <2>1, <2>2, <2>3, <2>4, HolderChoice DEF Deciding
<1>5. CASE InvalidateFinish(t)
  <2>1. pc[t] = "markInvalid" /\ Goto(t, "activate") /\ UNCHANGED tip
    BY <1>5 DEF InvalidateFinish
  <2>2. invalidate.toMark \notin Chain[tip]
    BY <2>1 DEF Before, Inv, InvalidateKnows, Invalidating
  <2>3. /\ failedValid' = failedValid \cup {invalidate.toMark} /\ UNCHANGED failedChild
        /\ candidates' = (candidates \ {invalidate.toMark}) \cup
                         {x \in (received \cap linked) \ (failedValid' \cup failedChild) : ~Worse(x, tip)}
    BY <1>5, <2>2 DEF InvalidateFinish, MissedCandidates
  <2>4. linked \subseteq received
    BY DEF Before, LinkInv, LinkShape
  <2>5. AllListed'
    BY <1>1, <2>1, <2>3, <2>4 DEF AllListed, Marked, Worse
  <2>6. pc'[t] = "activate" /\ \A u \in Thread : u # t => pc'[u] = pc[u]
    BY <2>1, Moves DEF Before, Inv
  <2>7. \A u \in Thread : pc'[u] \in HoldsChainMutex => u = t
    BY <2>1, <2>6 DEF Before, Inv, Exclusive, HoldsChainMutex
  <2>8. (\A u \in Thread : pc'[u] # "aborted") /\ scripts' \cap BadScripts = {}
    BY <1>1, <2>6 DEF Before, ChoiceInv
  <2>9. QED
    BY <2>5, <2>6, <2>7, <2>8, HolderChoice DEF Deciding
<1>6. QED
  BY <1>3, <1>4, <1>5

LEMMA RestartChoice ==
  ASSUME Before, NEW t \in Thread, Restart(t)
  PROVE  ChoiceInv'
<1>1. /\ UNCHANGED <<scripts, failedValid, tip>> /\ seq' = [b \in Block |-> 0]
      /\ candidates' = {x \in linked' \ (failedValid \cup failedChild') :
                          ~SortsBefore([b \in Block |-> 0], x, tip)}
      /\ pc' = [u \in Thread |-> IF u = t THEN "activate" ELSE "idle"]
  BY DEF Restart, LoadedCandidates
<1>2. AllListed'
  BY <1>1 DEF AllListed, Marked, Worse
<1>3. \A u \in Thread : pc'[u] \in {"activate", "idle"}
  BY <1>1
<1>4. QED
  BY <1>1, <1>2, <1>3 DEF Before, ChoiceInv, Deciding

LEMMA ChoiceNext ==
  ASSUME {"prune", "precious", "reconsiderBelow"} \cap Rpcs = {}, Before, [Next]_vars
  PROVE  ChoiceInv'
<1>1. ASSUME NEW t \in Thread, ActivateStep(t) PROVE ChoiceInv'
  BY <1>1, LockChoice, RejectChoice, FindChoice, DisconnectChoice, ConnectChoice,
     ConnectFailsChoice, UnlockChoice DEF ActivateStep
<1>2. ASSUME NEW b \in RpcTarget, NEW t \in Thread,
             InvalidateStart(t, b) \/ ResetBlockFailureFlags(t, b) \/ PreciousBlock(t, b)
      PROVE  ChoiceInv'
  <2>1. CASE PreciousBlock(t, b)
    BY <2>1 DEF PreciousBlock, Command
  <2>2. QED
    BY <1>2, <2>1, InvalidateChoice, ResetChoice
<1>3. ASSUME NEW b \in Block, PruneOneBlockFile(b) PROVE ChoiceInv'
  BY <1>3 DEF PruneOneBlockFile, Command
<1>4. ASSUME UNCHANGED vars PROVE ChoiceInv'
  BY <1>4 DEF vars, indexVars, failVars, choiceVars, Before, ChoiceInv, AllListed, StartListed,
     StartKnown, BelowStart, Marked, Worse
<1>5. QED
  BY <1>1, <1>2, <1>3, <1>4, HeaderChoice, BlockChoice, EnterChoice, InvalidateChoice,
     RestartChoice DEF Next

LEMMA ChoiceInit == Init => ChoiceInv
  BY DEF Init, ChoiceInv, AllListed, Deciding

LEMMA ChoiceIsExact ==
  ASSUME Before, Caused
  PROVE  CandidatesExact
<1>1. CandidatesLinked /\ CandidatesTrimmed
  BY DEF Before, LinkInv, LinkShape, LinkUsed, CandidatesLinked, Trimmed, CandidatesTrimmed
<1>2. ASSUME Settled, NEW b \in known, Complete(b) PROVE b \in candidates
  <2>1. AllListed
    BY <1>2 DEF Settled, Before, ChoiceInv, Deciding, Invalidating
  <2>2. b \in linked /\ b \notin Marked /\ ~Worse(b, tip)
    BY <1>2 DEF Complete, Caused
  <2>3. QED
    BY <2>1, <2>2 DEF AllListed
<1>3. QED
  BY <1>1, <1>2 DEF CandidatesExact, CandidatesComplete
-----------------------------------------------------------------------------
(* The best block wins.                                                    *)

(* No linked block on an unmarked chain is better than y.                  *)
NoneBetter(y) == \A x \in linked : Chain[x] \cap Marked = {} => ~Worse(y, x)

(* A thread is about to call ActivateBestChain.                            *)
Pending == \E u \in Thread : pc[u] = "activate"

(* Whoever brings a better block than the one ActivateBestChain works      *)
(* towards will call it; and it does not end before it has arrived there.  *)
BestInv ==
  /\ ChainMutexFree => Pending \/ NoneBetter(tip)
  /\ \A t \in Thread :
       /\ pc[t] \in Activating /\ activate.mostWork # None => Pending \/ NoneBetter(activate.mostWork)
       /\ pc[t] \in {"disconnect", "connect"} => activate.oldTip # None
       /\ pc[t] = "unlock" /\ activate.mostWork = None =>
            activate.oldTip # None /\ activate.newTip # None
       /\ pc[t] = "unlock" /\ activate.mostWork # None =>
            \/ activate.oldTip # None /\ activate.newTip # activate.mostWork
            \/ tip = activate.mostWork

LEMMA PendingBest ==
  ASSUME Pending', \A u \in Thread : pc'[u] \notin {"disconnect", "connect", "unlock"}
  PROVE  BestInv'
  BY DEF BestInv

LEMMA MarkedBest ==
  ASSUME BestInv, UNCHANGED <<linked, seq, tip, pc, activate>>,
         failedValid \subseteq failedValid', failedChild \subseteq failedChild'
  PROVE  BestInv'
<1>1. Pending' = Pending /\ ChainMutexFree' = ChainMutexFree
  BY DEF Pending, ChainMutexFree
<1>2. /\ NoneBetter(tip) => NoneBetter(tip)'
      /\ NoneBetter(activate.mostWork) => NoneBetter(activate.mostWork)'
  BY DEF NoneBetter, Worse, Marked
<1>3. QED
  BY <1>1, <1>2 DEF BestInv

LEMMA InvalidatingBest ==
  ASSUME NEW t \in Thread, pc'[t] \in Invalidating,
         \A u \in Thread : pc'[u] \in HoldsChainMutex => u = t
  PROVE  BestInv'
<1>1. ~ChainMutexFree'
  BY DEF ChainMutexFree, Invalidating, HoldsChainMutex
<1>2. \A u \in Thread : pc'[u] \notin Activating
  BY DEF Invalidating, HoldsChainMutex, Activating, HoldsMain
<1>3. QED
  BY <1>1, <1>2 DEF BestInv, Activating, HoldsMain

(* The thread stays inside ActivateBestChain, or enters it.                *)
LEMMA InsideBest ==
  ASSUME NEW t \in Thread, \A u \in Thread : pc'[u] \in HoldsChainMutex => u = t,
         pc'[t] \in Activating,
         activate'.mostWork # None => Pending' \/ NoneBetter(activate.mostWork)',
         pc'[t] \in {"disconnect", "connect"} => activate'.oldTip # None,
         pc'[t] = "unlock" /\ activate'.mostWork = None =>
           activate'.oldTip # None /\ activate'.newTip # None,
         pc'[t] = "unlock" /\ activate'.mostWork # None =>
            \/ activate'.oldTip # None /\ activate'.newTip # activate'.mostWork
            \/ tip' = activate'.mostWork
  PROVE  BestInv'
<1>1. ~ChainMutexFree'
  BY DEF ChainMutexFree, HoldsChainMutex, Activating
<1>2. \A u \in Thread : pc'[u] \in Activating => u = t
  BY DEF HoldsChainMutex, Activating
<1>3. QED
  BY <1>1, <1>2 DEF BestInv, Activating, HoldsMain

(* ... and keeps what it works towards.                                    *)
LEMMA TargetKept ==
  ASSUME Before, BestInv, NEW t \in Thread, pc[t] \in Activating,
         \A u \in Thread : u # t => pc'[u] = pc[u],
         UNCHANGED <<linked, seq, failedValid, failedChild>>,
         activate'.mostWork = activate.mostWork, activate.mostWork # None
  PROVE  Pending' \/ NoneBetter(activate.mostWork)'
<1>1. Pending => Pending'
  BY DEF Pending, Activating, HoldsMain
<1>2. NoneBetter(activate.mostWork) => NoneBetter(activate.mostWork)'
  BY DEF NoneBetter, Worse, Marked
<1>3. QED
  BY <1>1, <1>2 DEF BestInv
-----------------------------------------------------------------------------
LEMMA OutsideBest ==
  ASSUME Before, BestInv, NEW t \in Thread, MainFree, pc[t] = "idle", Goto(t, "activate")
  PROVE  BestInv'
<1>1. pc'[t] = "activate" /\ \A u \in Thread : u # t => pc'[u] = pc[u]
  BY Moves DEF Before, Inv
<1>2. Pending'
  BY <1>1 DEF Pending
<1>3. \A u \in Thread : pc'[u] \notin {"disconnect", "connect", "unlock"}
  BY <1>1 DEF MainFree, HoldsMain
<1>4. QED
  BY <1>2, <1>3, PendingBest

LEMMA BlockBest ==
  ASSUME Before, BestInv, NEW b \in Block \ {Genesis}, NEW t \in Thread, NEW requested \in BOOLEAN,
         ProcessNewBlock(t, b, requested)
  PROVE  BestInv'
<1>1. UNCHANGED <<tip, activate>> /\ MainFree /\ pc[t] = "idle"
  BY DEF ProcessNewBlock
<1>2. CASE Goto(t, "activate")
  BY <1>1, <1>2, OutsideBest
<1>3. CASE /\ UNCHANGED <<linked, seq>> /\ pc' = pc
           /\ failedValid \subseteq failedValid' /\ failedChild \subseteq failedChild'
  BY <1>1, <1>3, MarkedBest
<1>4. QED
  BY <1>2, <1>3, BlockStored DEF StoreBlock

(* The candidate found is the best of all, since no better one is missing. *)
LEMMA FindsBest ==
  ASSUME Before, NEW t \in Thread, pc[t] = "find", activate.mostWork = None,
         NEW most \in Best(seq, candidates)
  PROVE  NoneBetter(most)
<1>1. most \in candidates /\ \A y \in candidates \ {most} : SortsBefore(seq, y, most)
  BY DEF Best
<1>2. most \in Block /\ ~Worse(most, activate.startTip)
  BY StartIsCandidate, MostIsGood
<1>3. StartListed /\ activate.startTip \in Block
  BY DecidingFacts DEF Deciding
<1>4. ~Worse(most, tip)
  BY <1>1 DEF Before, Trimmed
<1>5. ASSUME NEW x \in linked, Chain[x] \cap Marked = {}, Worse(most, x) PROVE FALSE
  <2>1. x \in Block /\ x \notin Marked
    BY <1>5, BeforeTypes, PathFacts
  <2>2. ~Worse(x, most)
    BY <1>2, <1>5, <2>1, BeforeTypes, Order DEF Worse
  <2>3. ~Worse(x, tip) /\ ~Worse(x, activate.startTip)
    BY <1>2, <1>3, <1>4, <2>1, <2>2, BeforeTypes, OrderTransitive DEF Worse
  <2>4. x \in candidates
    BY <1>3, <1>5, <2>1, <2>3 DEF StartListed
  <2>5. ~SortsBefore(seq, most, most)
    BY <1>2, BeforeTypes, Order
  <2>6. QED
    BY <1>1, <1>5, <2>2, <2>4, <2>5 DEF Worse
<1>6. QED
  BY <1>5 DEF NoneBetter

LEMMA FindBest ==
  ASSUME Before, BestInv, NEW t \in Thread, FindMostWorkChain(t)
  PROVE  BestInv'
<1>1. /\ UNCHANGED <<linked, failedValid, failedChild, seq, candidates, tip>>
      /\ pc[t] = "find" /\ pc[t] \in Activating
  BY DEF FindMostWorkChain, indexVars, failVars, choiceVars, Activating, HoldsMain
<1>2. PICK most :
        /\ IF activate.mostWork # None \/ candidates = {} THEN most = activate.mostWork
           ELSE most \in Best(seq, candidates)
        /\ \/ /\ most \in {None, tip} /\ activate' = [activate EXCEPT !.mostWork = most]
              /\ Goto(t, "unlock")
           \/ /\ Goto(t, "disconnect")
              /\ activate' = [activate EXCEPT !.mostWork = most, !.oldTip = tip]
  BY DEF FindMostWorkChain
<1>3. most \in Block /\ most # None
  BY <1>1, <1>2, MostIsGood
<1>4. activate'.mostWork = most
  BY <1>2 DEF Before, Inv, Typed
<1>5. \/ most = tip /\ Goto(t, "unlock")
      \/ Goto(t, "disconnect") /\ activate'.oldTip = tip
  BY <1>2, <1>3 DEF Before, Inv, Typed
<1>6. pc'[t] \in {"unlock", "disconnect"} /\ \A u \in Thread : u # t => pc'[u] = pc[u]
  BY <1>5, Moves DEF Before, Inv
<1>7. Pending' \/ NoneBetter(activate.mostWork)'
  <2>1. CASE activate.mostWork # None
    <3>1. activate'.mostWork = activate.mostWork
      BY <1>2, <1>4, <2>1
    <3>2. QED
      BY <1>1, <1>6, <2>1, <3>1, TargetKept
  <2>2. CASE activate.mostWork = None
    <3>1. candidates # {}
      BY <1>1, StartIsCandidate
    <3>2. NoneBetter(most)
      BY <1>1, <1>2, <2>2, <3>1, FindsBest
    <3>3. QED
      BY <1>1, <1>4, <3>2 DEF NoneBetter, Worse, Marked
  <2>3. QED
    BY <2>1, <2>2
<1>8. \A u \in Thread : pc'[u] \in HoldsChainMutex => u = t
  BY <1>1, <1>6, Alone DEF Before, Invalidating
<1>9. tip # None
  BY BeforeTypes, TreeAssumption
<1>10. \/ pc'[t] = "unlock" /\ tip' = activate'.mostWork
       \/ pc'[t] = "disconnect" /\ activate'.oldTip # None
  <2>1. CASE most = tip /\ Goto(t, "unlock")
    BY <1>1, <1>4, <2>1, Moves DEF Before, Inv
  <2>2. CASE Goto(t, "disconnect") /\ activate'.oldTip = tip
    BY <1>9, <2>2, Moves DEF Before, Inv
  <2>3. QED
    BY <1>5, <2>1, <2>2
<1>12. QED
  BY <1>3, <1>4, <1>6, <1>7, <1>8, <1>10, InsideBest DEF Activating, HoldsMain

LEMMA EnterBest ==
  ASSUME Before, NEW t \in Thread, ActivateEnter(t)
  PROVE  BestInv'
<1>1. pc'[t] = "lock" /\ \A u \in Thread : u # t => pc'[u] = pc[u]
  BY Moves DEF ActivateEnter, Before, Inv
<1>2. \A u \in Thread : pc'[u] \in HoldsChainMutex => u = t
  BY <1>1 DEF ActivateEnter, ChainMutexFree
<1>3. activate'.mostWork = None
  BY DEF ActivateEnter, NoActivate
<1>4. QED
  BY <1>1, <1>2, <1>3, InsideBest DEF Activating

LEMMA LockBest ==
  ASSUME Before, BestInv, NEW t \in Thread, ActivateLock(t)
  PROVE  BestInv'
<1>1. /\ UNCHANGED <<linked, seq, failedValid, failedChild>> /\ pc[t] \in Activating
      /\ Goto(t, "find") /\ activate' = [activate EXCEPT !.startTip = tip, !.oldTip = None]
  BY DEF ActivateLock, indexVars, failVars, choiceVars, Activating
<1>2. activate'.mostWork = activate.mostWork
  BY <1>1 DEF Before, Inv, Typed
<1>3. pc'[t] = "find" /\ \A u \in Thread : u # t => pc'[u] = pc[u]
  BY <1>1, Moves DEF Before, Inv
<1>4. \A u \in Thread : pc'[u] \in HoldsChainMutex => u = t
  BY <1>1, <1>3, Alone DEF Before, Invalidating
<1>5. activate'.mostWork # None => Pending' \/ NoneBetter(activate.mostWork)'
  BY <1>1, <1>2, <1>3, TargetKept
<1>6. QED
  BY <1>3, <1>4, <1>5, InsideBest DEF Activating, HoldsMain

LEMMA DisconnectBest ==
  ASSUME Before, BestInv, NEW t \in Thread, DisconnectTip(t)
  PROVE  BestInv'
<1>1. /\ UNCHANGED <<linked, seq, failedValid, failedChild, activate>>
      /\ pc[t] = "disconnect" /\ pc[t] \in Activating
  BY DEF DisconnectTip, indexVars, failVars, choiceVars, Activating, HoldsMain
<1>2. Goto(t, "connect") \/ pc' = pc
  BY BeforeTypes DEF DisconnectTip
<1>3. pc'[t] \in {"disconnect", "connect"} /\ \A u \in Thread : u # t => pc'[u] = pc[u]
  BY <1>1, <1>2, Moves DEF Before, Inv
<1>4. \A u \in Thread : pc'[u] \in HoldsChainMutex => u = t
  BY <1>1, <1>3, Alone DEF Before, Invalidating
<1>5. activate'.mostWork # None => Pending' \/ NoneBetter(activate.mostWork)'
  BY <1>1, <1>3, TargetKept
<1>6. activate'.oldTip # None
  BY <1>1 DEF BestInv
<1>7. QED
  BY <1>3, <1>4, <1>5, <1>6, InsideBest DEF Activating, HoldsMain

LEMMA ConnectBest ==
  ASSUME Before, BestInv, NEW t \in Thread, ConnectTip(t)
  PROVE  BestInv'
<1>1. /\ UNCHANGED <<linked, seq, failedValid, failedChild>>
      /\ pc[t] = "connect" /\ pc[t] \in Activating
  BY DEF ConnectTip, failVars, Activating, HoldsMain
<1>2. activate.mostWork # None /\ activate.oldTip # None
  BY <1>1 DEF BestInv, Before, Inv, TargetUsable
<1>3. StepDone(t, activate.mostWork) \/ UNCHANGED <<pc, activate>>
  <2>1. PICK next \in NextToConnect :
          IF next \in haveData
          THEN StepDone(t, activate.mostWork) \/ UNCHANGED <<pc, activate>>
          ELSE Goto(t, "aborted")
    BY DEF ConnectTip
  <2>2. next \in haveData
    BY <1>1, NextLinked, BeforeTypes DEF Before
  <2>3. QED
    BY <2>1, <2>2
<1>4. /\ activate'.mostWork = activate.mostWork /\ activate'.oldTip = activate.oldTip
      /\ activate' = activate \/ activate'.newTip = tip'
  BY <1>3 DEF StepDone, Before, Inv, Typed
<1>5. \/ Goto(t, "find")
      \/ Goto(t, "unlock") /\ activate'.newTip = tip'
      \/ UNCHANGED <<pc, activate>>
  BY <1>3 DEF StepDone, Before, Inv, Typed
<1>6. /\ pc'[t] \in {"find", "unlock", "connect"} /\ \A u \in Thread : u # t => pc'[u] = pc[u]
      /\ pc'[t] = "unlock" => activate'.newTip = tip'
  <2>1. ASSUME Goto(t, "find")
        PROVE  pc'[t] = "find" /\ \A u \in Thread : u # t => pc'[u] = pc[u]
    BY <2>1, Moves DEF Before, Inv
  <2>2. CASE Goto(t, "unlock") /\ activate'.newTip = tip'
    BY <2>2, Moves DEF Before, Inv
  <2>3. QED
    BY <1>1, <1>5, <2>1, <2>2
<1>7. \A u \in Thread : pc'[u] \in HoldsChainMutex => u = t
  BY <1>1, <1>6, Alone DEF Before, Invalidating
<1>8. activate'.mostWork # None => Pending' \/ NoneBetter(activate.mostWork)'
  BY <1>1, <1>4, <1>6, TargetKept
<1>9. QED
  BY <1>2, <1>4, <1>6, <1>7, <1>8, InsideBest DEF Activating, HoldsMain

(* The block that failed is no longer worked towards, and the loop goes on.*)
LEMMA ConnectFailsBest ==
  ASSUME Before, BestInv, NEW t \in Thread, ConnectTipFails(t)
  PROVE  BestInv'
<1>1. /\ UNCHANGED tip /\ pc[t] = "connect" /\ pc[t] \in Activating /\ StepDone(t, None)
  BY DEF ConnectTipFails, Activating, HoldsMain
<1>2. activate'.mostWork = None /\ activate'.newTip = tip /\ activate'.oldTip = activate.oldTip
  BY <1>1 DEF StepDone, Before, Inv, Typed
<1>3. activate.oldTip # None /\ tip # None
  BY <1>1, BeforeTypes, TreeAssumption DEF BestInv
<1>4. pc'[t] \in {"find", "unlock"} /\ \A u \in Thread : u # t => pc'[u] = pc[u]
  <2>1. Goto(t, "find") \/ Goto(t, "unlock")
    BY <1>1 DEF StepDone
  <2>2. QED
    BY <2>1, Moves DEF Before, Inv
<1>5. \A u \in Thread : pc'[u] \in HoldsChainMutex => u = t
  BY <1>1, <1>4, Alone DEF Before, Invalidating
<1>6. QED
  BY <1>2, <1>3, <1>4, <1>5, InsideBest DEF Activating, HoldsMain

(* The loop ends at the block it worked towards.                           *)
LEMMA UnlockBest ==
  ASSUME Before, BestInv, NEW t \in Thread, ActivateUnlock(t)
  PROVE  BestInv'
<1>1. /\ UNCHANGED <<linked, seq, failedValid, failedChild, tip>>
      /\ pc[t] = "unlock" /\ pc[t] \in Activating
  BY DEF ActivateUnlock, indexVars, failVars, choiceVars, Activating, HoldsMain
<1>2. CASE ~(activate.oldTip = None \/ activate.newTip = activate.mostWork)
  <2>1. Goto(t, "lock") /\ activate' = activate
    BY <1>2 DEF ActivateUnlock
  <2>2. pc'[t] = "lock" /\ \A u \in Thread : u # t => pc'[u] = pc[u]
    BY <2>1, Moves DEF Before, Inv
  <2>3. \A u \in Thread : pc'[u] \in HoldsChainMutex => u = t
    BY <1>1, <2>2, Alone DEF Before, Invalidating
  <2>4. activate'.mostWork # None => Pending' \/ NoneBetter(activate.mostWork)'
    BY <1>1, <2>1, <2>2, TargetKept
  <2>5. QED
    BY <2>2, <2>3, <2>4, InsideBest DEF Activating
<1>3. CASE activate.oldTip = None \/ activate.newTip = activate.mostWork
  <2>1. Goto(t, "idle")
    BY <1>3 DEF ActivateUnlock
  <2>2. pc'[t] = "idle" /\ \A u \in Thread : u # t => pc'[u] = pc[u]
    BY <2>1, Moves DEF Before, Inv
  <2>3. activate.mostWork # None
    BY <1>1, <1>3 DEF BestInv
  <2>4. tip = activate.mostWork /\ (Pending \/ NoneBetter(tip))
    BY <1>1, <1>3, <2>3 DEF BestInv
  <2>5. Pending => Pending'
    BY <1>1, <2>2 DEF Pending
  <2>6. NoneBetter(tip) => NoneBetter(tip)'
    BY <1>1 DEF NoneBetter, Worse, Marked
  <2>7. \A u \in Thread : u # t => pc[u] \notin HoldsChainMutex
    BY <1>1 DEF Before, Inv, Exclusive, HoldsChainMutex, Activating
  <2>8. \A u \in Thread : pc'[u] \notin Activating
    BY <2>2, <2>7 DEF HoldsChainMutex, Activating, HoldsMain
  <2>9. QED
    BY <2>4, <2>5, <2>6, <2>8 DEF BestInv, Activating, HoldsMain
<1>4. QED
  BY <1>2, <1>3

LEMMA InvalidateBest ==
  ASSUME Before, NEW t \in Thread,
         InvalidateNext(t) \/ \E b \in RpcTarget : InvalidateStart(t, b)
  PROVE  BestInv'
<1>1. tip \in haveData
  BY BeforeTypes
<1>2. \/ /\ pc[t] \in Invalidating \/ ChainMutexFree
         /\ \/ pc[t] \in Invalidating /\ pc' = pc
            \/ \E label \in Invalidating : Goto(t, label)
      \/ InvalidateFinish(t)
  BY <1>1 DEF InvalidateNext, InvalidateStart, InvalidateStep, Invalidating
<1>3. CASE /\ pc[t] \in Invalidating \/ ChainMutexFree
           /\ \/ pc[t] \in Invalidating /\ pc' = pc
              \/ \E label \in Invalidating : Goto(t, label)
  <2>1. pc'[t] \in Invalidating /\ \A u \in Thread : u # t => pc'[u] = pc[u]
    BY <1>3, Moves DEF Before, Inv
  <2>2. \A u \in Thread : pc'[u] \in HoldsChainMutex => u = t
    BY <1>3, <2>1 DEF ChainMutexFree, Before, Inv, Exclusive, Invalidating, HoldsChainMutex
  <2>3. QED
    BY <2>1, <2>2, InvalidatingBest
<1>4. CASE InvalidateFinish(t)
  <2>1. pc[t] = "markInvalid" /\ Goto(t, "activate")
    BY <1>4 DEF InvalidateFinish
  <2>2. pc'[t] = "activate" /\ \A u \in Thread : u # t => pc'[u] = pc[u]
    BY <2>1, Moves DEF Before, Inv
  <2>3. \A u \in Thread : u # t => pc[u] \notin HoldsChainMutex
    BY <2>1 DEF Before, Inv, Exclusive, HoldsChainMutex
  <2>4. \A u \in Thread : pc'[u] \notin {"disconnect", "connect", "unlock"}
    BY <2>2, <2>3 DEF HoldsChainMutex, HoldsMain
  <2>5. QED
    BY <2>2, <2>4, PendingBest DEF Pending
<1>5. QED
  BY <1>2, <1>3, <1>4

LEMMA RestartBest ==
  ASSUME NEW t \in Thread, Restart(t)
  PROVE  BestInv'
<1>1. pc' = [u \in Thread |-> IF u = t THEN "activate" ELSE "idle"]
  BY DEF Restart
<1>2. Pending'
  BY <1>1 DEF Pending
<1>3. \A u \in Thread : pc'[u] \notin {"disconnect", "connect", "unlock"}
  BY <1>1
<1>4. QED
  BY <1>2, <1>3, PendingBest

LEMMA BestNext ==
  ASSUME {"prune", "precious", "reconsiderBelow"} \cap Rpcs = {}, Before, BestInv, [Next]_vars
  PROVE  BestInv'
<1>1. ASSUME NEW t \in Thread, RejectCandidate(t) PROVE BestInv'
  <2>1. /\ UNCHANGED <<linked, seq, tip, pc, activate>>
        /\ failedValid \subseteq failedValid' /\ failedChild \subseteq failedChild'
    BY <1>1 DEF RejectCandidate, indexVars
  <2>2. QED
    BY <2>1, MarkedBest
<1>2. ASSUME NEW t \in Thread, ActivateStep(t) PROVE BestInv'
  BY <1>1, <1>2, LockBest, FindBest, DisconnectBest, ConnectBest, ConnectFailsBest, UnlockBest
     DEF ActivateStep
<1>3. ASSUME NEW b \in RpcTarget, NEW t \in Thread,
             InvalidateStart(t, b) \/ ResetBlockFailureFlags(t, b) \/ PreciousBlock(t, b)
      PROVE  BestInv'
  <2>1. CASE PreciousBlock(t, b)
    BY <2>1 DEF PreciousBlock, Command
  <2>2. CASE ResetBlockFailureFlags(t, b)
    BY <2>2, OutsideBest DEF ResetBlockFailureFlags
  <2>3. QED
    BY <1>3, <2>1, <2>2, InvalidateBest
<1>4. ASSUME NEW b \in Block, PruneOneBlockFile(b) PROVE BestInv'
  BY <1>4 DEF PruneOneBlockFile, Command
<1>5. ASSUME NEW b \in Block \ {Genesis}, AcceptBlockHeader(b) PROVE BestInv'
  <2>1. /\ UNCHANGED <<linked, seq, tip, pc, activate>>
        /\ failedValid \subseteq failedValid' /\ failedChild \subseteq failedChild'
    BY <1>5 DEF AcceptBlockHeader, MarkDescendants, failVars, choiceVars
  <2>2. QED
    BY <2>1, MarkedBest
<1>6. ASSUME UNCHANGED vars PROVE BestInv'
  BY <1>6, MarkedBest DEF vars, indexVars, failVars, choiceVars
<1>7. QED
  BY <1>2, <1>3, <1>4, <1>5, <1>6, BlockBest, EnterBest, InvalidateBest, RestartBest DEF Next
-----------------------------------------------------------------------------
LEMMA ChoiceInvariance ==
  ASSUME {"prune", "precious", "reconsiderBelow"} \cap Rpcs = {}
  PROVE  Spec => [](Before /\ Caused /\ BestInv)
<1>1. "prune" \notin Rpcs /\ "reconsiderBelow" \notin Rpcs
  OBVIOUS
<1>2. Init => ChoiceInv /\ Caused
  BY ChoiceInit DEF Init, Caused, Marked
<1>3. Init => BestInv
  <2>1. SUFFICES ASSUME Init PROVE BestInv
    OBVIOUS
  <2>2. seq \in [Block -> Int] /\ Genesis \in Block
    BY <2>1, TreeAssumption, SMT DEF Init
  <2>3. ~SortsBefore(seq, Genesis, Genesis) /\ tip = Genesis /\ linked = {Genesis}
    BY <2>1, <2>2, Order DEF Init
  <2>4. \A t \in Thread : pc[t] = "idle"
    BY <2>1 DEF Init
  <2>5. QED
    BY <2>3, <2>4 DEF BestInv, NoneBetter, Worse, Activating, HoldsMain
<1>4. Before /\ [Next]_vars => ChoiceInv'
  BY ChoiceNext
<1>5. Before /\ BestInv /\ [Next]_vars => BestInv'
  BY BestNext
<1>6. Inv /\ Caused /\ [Next]_vars => Caused'
  BY <1>1, CausedNext
<1>7. Spec => [](Inv /\ LinkInv /\ Whole /\ Trimmed)
  BY <1>1, TrimmedInvariance
<1>8. Before <=> (Inv /\ LinkInv /\ Whole /\ Trimmed /\ ChoiceInv)
  BY DEF Before
<1>9. QED
  BY <1>2, <1>3, <1>4, <1>5, <1>6, <1>7, <1>8, PTL DEF Spec

(* setBlockIndexCandidates is what CheckBlockIndex demands of it whenever  *)
(* no thread is deciding: it holds every valid block with all its data     *)
(* that is no worse than the tip, and nothing worse than the tip.  It      *)
(* holds for headers, blocks, invalidateblock, reconsiderblock and         *)
(* restarts, without pruning and preciousblock, and if reconsiderblock     *)
(* names no block below an invalid one.                                    *)
THEOREM CandidatesAlwaysExact ==
  ASSUME {"prune", "precious", "reconsiderBelow"} \cap Rpcs = {}
  PROVE  Spec => [](CandidatesExact /\ CandidatesComplete)
<1>1. Before /\ Caused => CandidatesExact /\ CandidatesComplete
  BY ChoiceIsExact DEF CandidatesExact
<1>2. QED
  BY <1>1, ChoiceInvariance, PTL

(* When every thread has left ActivateBestChain and none is about to call  *)
(* it, no valid block that could be connected is better than the tip.      *)
(* The hypothesis is that of CandidatesAlwaysExact.                        *)
THEOREM QuiescentAlwaysBest ==
  ASSUME {"prune", "precious", "reconsiderBelow"} \cap Rpcs = {}
  PROVE  Spec => []QuiescentBest
<1>1. ASSUME BestInv PROVE QuiescentBest
  <2>1. ASSUME \A t \in Thread : pc[t] = "idle" PROVE NoneBetter(tip)
    BY <1>1, <2>1 DEF BestInv, ChainMutexFree, HoldsChainMutex, HoldsMain, Pending
  <2>2. \A b \in linked : (\A x \in Chain[b] : ~Failed(x)) => Chain[b] \cap Marked = {}
    BY DEF Failed, Marked
  <2>3. QED
    BY <2>1, <2>2 DEF QuiescentBest, NoneBetter
<1>2. QED
  BY <1>1, ChoiceInvariance, PTL
=============================================================================
