-------------------------- MODULE ChainStateProofs --------------------------
(***************************************************************************)
(* The active chain is valid, InvalidateBlock is not interfered with,      *)
(* every failure mark has a cause, and the block index knows which blocks  *)
(* have all their data: for every block tree, every number of threads and  *)
(* every number of commands.                                               *)
(***************************************************************************)
EXTENDS ChainState, TLAPS

Activating == HoldsMain \cup {"lock"}
Invalidating == {"invalidate", "markInvalid"}
Marked == failedValid \cup failedChild

(* The part of the types that the argument needs: the index holds the      *)
(* ancestors of its blocks, and a block whose body fails                   *)
(* ContextualCheckBlock never becomes one with transactions.               *)
Typed ==
  /\ known \subseteq Block /\ \A x \in known : Chain[x] \subseteq known
  /\ received \subseteq known /\ haveData \subseteq received
  /\ scripts \subseteq received /\ received \cap BadBody = {} /\ Genesis \in received
  /\ Marked \subseteq known /\ candidates \subseteq known /\ tip \in known
  /\ pc \in [Thread -> HoldsChainMutex \cup {"idle", "activate", "aborted"}]
  /\ activate \in [mostWork : Block \cup {None}, newTip : Block \cup {None},
                   startTip : Block \cup {None}, oldTip : Block \cup {None}]
  /\ invalidate \in [pindex : Block \cup {None}, toMark : Block \cup {None},
                     byWork : SUBSET known]

(* m_chainstate_mutex, and so cs_main between actions, has one holder.     *)
Exclusive ==
  \A t, u \in Thread : pc[t] \in HoldsChainMutex /\ pc[u] \in HoldsChainMutex => t = u

(* The active chain is unmarked and fully validated.                       *)
Sound ==
  /\ Chain[tip] \cap Marked = {} /\ Chain[tip] \ {Genesis} \subseteq scripts
  /\ \A x \in scripts : Chain[x] \ {Genesis} \subseteq scripts
  /\ failedBlocks \subseteq failedValid

(* The block worked towards stays reachable over unmarked blocks, also     *)
(* while ActivateBestChain has given up cs_main between two steps.         *)
TargetUsable ==
  \A t \in Thread :
    /\ pc[t] \in Activating /\ activate.mostWork # None =>
         Chain[activate.mostWork] \subseteq received /\ Chain[activate.mostWork] \cap Marked = {}
    /\ pc[t] \in {"disconnect", "connect"} => activate.mostWork # None
    /\ pc[t] = "connect" => tip \in Chain[activate.mostWork]

(* What InvalidateBlock has in hand: its argument, before anything is      *)
(* disconnected, or the block disconnected last.                           *)
InvalidateKnows ==
  \A t \in Thread :
    /\ pc[t] \in Invalidating =>
         /\ invalidate.pindex \in Block \ {Genesis} /\ invalidate.toMark \in known
         /\ invalidate.toMark = invalidate.pindex \/ invalidate.toMark \notin Chain[tip]
    /\ pc[t] = "markInvalid" => invalidate.pindex \notin Chain[tip]

Inv == Typed /\ Exclusive /\ Sound /\ TargetUsable /\ InvalidateKnows
-----------------------------------------------------------------------------
(* Most leaves are first-order; the few that are not name SMT.             *)
USE Zenon

(* Paths.                                                                  *)

(* What the assumptions on the tree say of one block.                      *)
LEMMA PathFacts ==
  ASSUME NEW b \in Block
  PROVE  /\ Chain[b] \subseteq Block /\ b \in Chain[b] /\ Genesis \in Chain[b]
         /\ \A x \in Chain[b] : Chain[x] \subseteq Chain[b]
         /\ b # Genesis => /\ Prev[b] \in Block /\ Chain[b] = Chain[Prev[b]] \cup {b}
                           /\ b \notin Chain[Prev[b]]
  BY TreeAssumption, PathAssumption

(* The blocks of a path above one of its blocks descend from that block,   *)
(* so that a path which avoids it avoids them.                             *)
LEMMA Above ==
  ASSUME NEW b \in Block, NEW f \in Chain[b], NEW x \in Chain[b] \ Chain[f]
  PROVE  x \in Block /\ f \in Block /\ f \in Chain[x] /\ Chain[f] \subseteq Chain[x]
<1>1. x \in Block /\ f \in Block
  BY PathFacts
<1>2. f \in Chain[x]
  BY PathAssumption
<1>3. QED
  BY <1>1, <1>2, PathFacts

LEMMA AboveAvoided ==
  ASSUME NEW b \in Block, NEW f \in Chain[b], NEW c \in Block, f \notin Chain[c]
  PROVE  (Chain[b] \ Chain[f]) \cap Chain[c] = {}
<1>1. SUFFICES ASSUME NEW x \in Chain[b] \ Chain[f], x \in Chain[c] PROVE FALSE
  OBVIOUS
<1>2. f \in Chain[x]
  BY Above
<1>3. QED
  BY <1>1, <1>2, PathFacts

(* A thread that moves leaves the others where they are.                   *)
LEMMA Moves ==
  ASSUME Typed, NEW t \in Thread, NEW label, Goto(t, label)
  PROVE  pc'[t] = label /\ \A u \in Thread : u # t => pc'[u] = pc[u]
  BY DEF Typed, Goto

LEMMA MovesTyped ==
  ASSUME Typed, NEW t \in Thread,
         NEW label \in HoldsChainMutex \cup {"idle", "activate", "aborted"}, Goto(t, label)
  PROVE  pc' \in [Thread -> HoldsChainMutex \cup {"idle", "activate", "aborted"}]
  BY DEF Typed, Goto
-----------------------------------------------------------------------------
LEMMA InitInv == Init => Inv
<1> SUFFICES ASSUME Init PROVE Inv
  OBVIOUS
<1>1. Typed
  BY TreeAssumption, PathAssumption DEF Init, Typed, Marked, NoActivate, NoInvalidate
<1>2. Exclusive /\ TargetUsable /\ InvalidateKnows
  BY DEF Init, Exclusive, TargetUsable, InvalidateKnows, Activating, Invalidating,
         HoldsMain, HoldsChainMutex
<1>3. Sound
  BY PathAssumption DEF Init, Sound, Marked
<1>4. QED
  BY <1>1, <1>2, <1>3 DEF Inv

(* Steps that touch neither the tip nor the locals of the two loops, mark  *)
(* nothing on the two paths, and after which no thread holds the mutex     *)
(* that did not.                                                           *)
LEMMA IndexStep ==
  ASSUME Inv, Typed', UNCHANGED <<scripts, tip, activate, invalidate>>,
         known \subseteq known', received \subseteq received',
         failedBlocks \subseteq failedValid => failedBlocks' \subseteq failedValid',
         \A t \in Thread : pc'[t] = pc[t] \/ pc'[t] \notin HoldsChainMutex,
         Chain[tip] \cap Marked' = {},
         \A t \in Thread : pc[t] \in Activating /\ activate.mostWork # None =>
           Chain[activate.mostWork] \cap Marked' = {}
  PROVE  Inv'
<1>1. Exclusive'
  BY DEF Inv, Exclusive
<1>2. Sound'
  BY DEF Inv, Sound
<1>3. TargetUsable'
  BY DEF Inv, TargetUsable, Activating, HoldsMain, HoldsChainMutex
<1>4. InvalidateKnows'
  BY DEF Inv, InvalidateKnows, Invalidating, HoldsChainMutex
<1>5. QED
  BY <1>1, <1>2, <1>3, <1>4 DEF Inv

(* A refused header marks only descendants of an invalid block.            *)
LEMMA MarkDescendantsAvoids ==
  ASSUME Inv, NEW b \in Block \ {Genesis}, MarkDescendants(b), NEW c \in Block,
         Chain[c] \cap Marked = {}
  PROVE  Chain[c] \cap Marked' = {} /\ Marked' \subseteq known
<1>1. PICK f \in FailedAncestors(b) : failedChild' = failedChild \cup (Chain[Prev[b]] \ Chain[f])
  BY DEF MarkDescendants
<1>2. f \in Chain[Prev[b]] /\ f \in failedValid /\ Prev[b] \in Block
  BY <1>1, PathFacts DEF FailedAncestors, Inv, Sound
<1>3. (Chain[Prev[b]] \ Chain[f]) \cap Chain[c] = {}
  BY <1>2, AboveAvoided DEF Marked
<1>4. Chain[Prev[b]] \subseteq known
  BY DEF MarkDescendants, NewHeader, Inv, Typed
<1>5. QED
  BY <1>1, <1>3, <1>4 DEF MarkDescendants, Marked, Inv, Typed

(* The index grows by a block whose parent it holds.                       *)
LEMMA IndexGrows ==
  ASSUME Inv, NEW b \in Block \ {Genesis}, AddHeader(b) \/ UNCHANGED known
  PROVE  /\ known \subseteq known' /\ known' \subseteq Block
         /\ \A x \in known' : Chain[x] \subseteq known'
         /\ invalidate \in [pindex : Block \cup {None}, toMark : Block \cup {None},
                            byWork : SUBSET known']
<1>1. Chain[b] = Chain[Prev[b]] \cup {b}
  BY PathFacts
<1>2. known' = known \/ (known' = known \cup {b} /\ Prev[b] \in known)
  BY DEF AddHeader, NewHeader
<1>3. known \subseteq known' /\ known' \subseteq Block /\ \A x \in known' : Chain[x] \subseteq known'
  BY <1>1, <1>2 DEF Inv, Typed
<1>4. QED
  BY <1>3 DEF Inv, Typed

LEMMA HeaderStep ==
  ASSUME Inv, NEW b \in Block \ {Genesis}, AcceptBlockHeader(b)
  PROVE  Inv'
<1>1. UNCHANGED <<received, haveData, scripts, candidates, tip, pc, activate, invalidate>>
  BY DEF AcceptBlockHeader, choiceVars
<1>2. CASE AddHeader(b) /\ UNCHANGED failVars
  <2>1. UNCHANGED <<Marked, failedValid, failedBlocks>>
    BY <1>2 DEF failVars, Marked
  <2>2. /\ known \subseteq known' /\ known' \subseteq Block
        /\ \A x \in known' : Chain[x] \subseteq known'
        /\ invalidate \in [pindex : Block \cup {None}, toMark : Block \cup {None},
                           byWork : SUBSET known']
    BY <1>2, IndexGrows
  <2>3. Typed'
    BY <1>1, <2>1, <2>2 DEF Inv, Typed
  <2>4. QED
    BY <1>1, <2>1, <2>2, <2>3, IndexStep DEF Inv, Sound, TargetUsable
<1>3. CASE MarkDescendants(b)
  <2>1. UNCHANGED <<known, failedValid, failedBlocks>>
    BY <1>3 DEF MarkDescendants
  <2>2. Chain[tip] \cap Marked' = {} /\ Marked' \subseteq known
    BY <1>3, MarkDescendantsAvoids DEF Inv, Sound, Typed
  <2>3. ASSUME NEW t \in Thread, pc[t] \in Activating, activate.mostWork # None
        PROVE  Chain[activate.mostWork] \cap Marked' = {}
    BY <1>3, <2>3, MarkDescendantsAvoids DEF Inv, TargetUsable, Typed
  <2>4. Typed'
    BY <1>1, <2>1, <2>2 DEF Inv, Typed
  <2>5. QED
    BY <1>1, <2>1, <2>2, <2>3, <2>4, IndexStep
<1>4. QED
  BY <1>2, <1>3 DEF AcceptBlockHeader

(* A body that is stored has no bad transactions, and one that is refused  *)
(* was never received, so it is on neither path.                           *)
LEMMA BlockStep ==
  ASSUME Inv, NEW b \in Block \ {Genesis}, NEW t \in Thread, NEW requested \in BOOLEAN,
         ProcessNewBlock(t, b, requested)
  PROVE  Inv'
<1>1. UNCHANGED <<tip, activate, invalidate>> /\ pc[t] = "idle"
  BY DEF ProcessNewBlock
<1>2. CASE /\ MarkDescendants(b)
           /\ UNCHANGED <<received, haveData, linked, scripts, choiceVars, pc>>
  <2>1. UNCHANGED <<known, failedValid, failedBlocks, received, haveData, scripts, candidates, pc>>
    BY <1>2 DEF MarkDescendants, choiceVars
  <2>2. Chain[tip] \cap Marked' = {} /\ Marked' \subseteq known
    BY <1>2, MarkDescendantsAvoids DEF Inv, Sound, Typed
  <2>3. ASSUME NEW u \in Thread, pc[u] \in Activating, activate.mostWork # None
        PROVE  Chain[activate.mostWork] \cap Marked' = {}
    BY <1>2, <2>3, MarkDescendantsAvoids DEF Inv, TargetUsable, Typed
  <2>4. Typed'
    BY <1>1, <2>1, <2>2 DEF Inv, Typed
  <2>5. QED
    BY <1>1, <2>1, <2>2, <2>3, <2>4, IndexStep
<1>3. CASE /\ AddHeader(b) \/ (b \in known /\ UNCHANGED <<known, bestHeader>>)
           /\ UNCHANGED <<failedChild, failedBlocks, bestInvalid>>
           /\ \/ SkipBlock(t)
              \/ Wanted(b, requested) /\ b \in BadBody /\ RejectBody(b)
              \/ b \notin BadBody /\ StoreBlock(t, b)
  <2>1. /\ known \subseteq known' /\ known' \subseteq Block /\ b \in known'
        /\ \A x \in known' : Chain[x] \subseteq known'
        /\ invalidate \in [pindex : Block \cup {None}, toMark : Block \cup {None},
                           byWork : SUBSET known']
    BY <1>3, IndexGrows DEF AddHeader
  <2>2. CASE SkipBlock(t)
    <3>1. /\ UNCHANGED <<failedValid, failedBlocks, Marked, received, haveData, scripts, candidates>>
          /\ Goto(t, "activate")
      BY <1>3, <2>2 DEF SkipBlock, choiceVars, Marked
    <3>2. \A u \in Thread : pc'[u] = pc[u] \/ pc'[u] \notin HoldsChainMutex
      BY <3>1, Moves DEF Inv, HoldsChainMutex, HoldsMain
    <3>3. Typed'
      BY <1>1, <2>1, <3>1, MovesTyped DEF Inv, Typed
    <3>4. QED
      BY <1>1, <2>1, <3>1, <3>2, <3>3, IndexStep DEF Inv, Sound, TargetUsable
  <2>3. CASE Wanted(b, requested) /\ b \in BadBody /\ RejectBody(b)
    <3>1. /\ UNCHANGED <<failedBlocks, received, haveData, scripts, candidates, pc>>
          /\ failedValid' = failedValid \cup {b} /\ Marked' = Marked \cup {b}
      BY <1>3, <2>3 DEF RejectBody, choiceVars, Marked
    <3>2. b \notin received
      BY <2>3 DEF Inv, Typed
    <3>3. Chain[tip] \cap Marked' = {}
      BY <3>1, <3>2 DEF Inv, Sound, Typed
    <3>4. ASSUME NEW u \in Thread, pc[u] \in Activating, activate.mostWork # None
          PROVE  Chain[activate.mostWork] \cap Marked' = {}
      BY <3>1, <3>2, <3>4 DEF Inv, TargetUsable
    <3>5. Typed'
      BY <1>1, <2>1, <3>1 DEF Inv, Typed
    <3>6. QED
      BY <1>1, <2>1, <3>1, <3>3, <3>4, <3>5, IndexStep
  <2>4. CASE b \notin BadBody /\ StoreBlock(t, b)
    <3>1. /\ UNCHANGED <<failedValid, failedBlocks, Marked, scripts>>
          /\ received' = received \cup {b} /\ haveData' = haveData \cup {b}
          /\ Goto(t, "activate")
      BY <1>3, <2>4 DEF StoreBlock, ReceivedBlockTransactions, Marked
    <3>2. candidates' \subseteq known'
      <4>1. Released(b) \subseteq known'
        BY <2>1 DEF Released
      <4>2. CASE ParentLinked(b)
        <5>1. \E S : candidates' = candidates \cup {x \in {b} \cup Released(b) : x \in S}
          <6>1. candidates' = candidates \cup {x \in {b} \cup Released(b) : ~SortsBefore(seq', x, tip)}
            BY <2>4, <4>2 DEF StoreBlock, ReceivedBlockTransactions
          <6>2. WITNESS {x \in {b} \cup Released(b) : ~SortsBefore(seq', x, tip)}
          <6>3. QED
            BY <6>1
        <5>2. QED
          BY <2>1, <4>1, <5>1 DEF Inv, Typed
      <4>3. CASE ~ParentLinked(b)
        BY <2>1, <2>4, <4>3 DEF StoreBlock, ReceivedBlockTransactions, Inv, Typed
      <4>4. QED
        BY <4>2, <4>3
    <3>3. \A u \in Thread : pc'[u] = pc[u] \/ pc'[u] \notin HoldsChainMutex
      BY <3>1, Moves DEF Inv, HoldsChainMutex, HoldsMain
    <3>4. Typed'
      BY <1>1, <2>1, <2>4, <3>1, <3>2, MovesTyped DEF Inv, Typed
    <3>5. QED
      BY <1>1, <2>1, <3>1, <3>3, <3>4, IndexStep DEF Inv, Sound, TargetUsable
  <2>5. QED
    BY <1>3, <2>2, <2>3, <2>4
<1>4. QED
  BY <1>2, <1>3 DEF ProcessNewBlock
-----------------------------------------------------------------------------
(* ActivateBestChain.                                                      *)

LEMMA EnterStep ==
  ASSUME Inv, NEW t \in Thread, ActivateEnter(t)
  PROVE  Inv'
<1>1. /\ UNCHANGED <<known, received, haveData, scripts, Marked, failedValid, failedBlocks,
                     candidates, tip, invalidate>>
      /\ ChainMutexFree /\ Goto(t, "lock") /\ activate' = NoActivate
  BY DEF ActivateEnter, indexVars, failVars, choiceVars, Marked
<1>2. pc'[t] = "lock" /\ \A u \in Thread : u # t => pc'[u] = pc[u]
  BY <1>1, Moves DEF Inv
<1>3. Typed'
  BY <1>1, MovesTyped DEF Inv, Typed, NoActivate, HoldsChainMutex
<1>4. Exclusive'
  BY <1>1, <1>2 DEF ChainMutexFree, Exclusive
<1>5. Sound'
  BY <1>1 DEF Inv, Sound
<1>6. TargetUsable' /\ InvalidateKnows'
  BY <1>1, <1>2 DEF ChainMutexFree, TargetUsable, InvalidateKnows, NoActivate, Activating,
     Invalidating, HoldsChainMutex, HoldsMain
<1>7. QED
  BY <1>3, <1>4, <1>5, <1>6 DEF Inv

(* A step of the thread inside ActivateBestChain after which it is inside  *)
(* or has left: no other thread is inside it or InvalidateBlock.           *)
LEMMA Alone ==
  ASSUME Inv, NEW t \in Thread, pc[t] \in Activating,
         \A u \in Thread : u # t => pc'[u] = pc[u], pc'[t] \notin Invalidating
  PROVE  /\ Exclusive' /\ InvalidateKnows'
         /\ \A u \in Thread : pc'[u] \in HoldsChainMutex => u = t
<1>1. \A u \in Thread : u # t => pc[u] \notin HoldsChainMutex
  BY DEF Inv, Exclusive, Activating, HoldsChainMutex
<1>2. \A u \in Thread : pc'[u] \in HoldsChainMutex => u = t
  BY <1>1
<1>3. QED
  BY <1>2 DEF Exclusive, InvalidateKnows, Invalidating, HoldsChainMutex

LEMMA LockStep ==
  ASSUME Inv, NEW t \in Thread, ActivateLock(t)
  PROVE  Inv'
<1>1. /\ UNCHANGED <<known, received, haveData, scripts, Marked, failedValid, failedBlocks,
                     candidates, tip, invalidate>>
      /\ pc[t] = "lock" /\ Goto(t, "find")
  BY DEF ActivateLock, indexVars, failVars, choiceVars, Marked
<1>2. pc'[t] = "find" /\ \A u \in Thread : u # t => pc'[u] = pc[u]
  BY <1>1, Moves DEF Inv
<1>3. activate' = [activate EXCEPT !.startTip = tip, !.oldTip = None]
  BY DEF ActivateLock
<1>4. Typed'
  BY <1>1, <1>3, MovesTyped DEF Inv, Typed, HoldsChainMutex, HoldsMain
<1>5. /\ Exclusive' /\ InvalidateKnows'
      /\ \A u \in Thread : pc'[u] \in HoldsChainMutex => u = t
  BY <1>1, <1>2, Alone DEF Activating, Invalidating
<1>6. activate'.mostWork = activate.mostWork
  BY <1>3 DEF Inv, Typed
<1>7. Sound'
  BY <1>1 DEF Inv, Sound
<1>8. TargetUsable'
  BY <1>1, <1>2, <1>5, <1>6 DEF Inv, TargetUsable, Activating, HoldsChainMutex, HoldsMain
<1>9. QED
  BY <1>4, <1>5, <1>7, <1>8 DEF Inv

(* What FindMostWorkChain marks lies above a block already marked.         *)
LEMMA RejectStep ==
  ASSUME Inv, NEW t \in Thread, RejectCandidate(t)
  PROVE  Inv'
<1>1. /\ UNCHANGED <<known, received, haveData, scripts, failedValid, failedBlocks, tip, pc,
                     activate, invalidate>>
      /\ pc[t] = "find" /\ activate.mostWork = None
  BY DEF RejectCandidate, indexVars
<1>2. PICK new \in candidates : \E bad \in Unusable(new) :
        /\ candidates' \subseteq candidates
        /\ \/ UNCHANGED failedChild
           \/ Failed(bad) /\ failedChild' = failedChild \cup (Chain[new] \ Chain[bad])
  BY DEF RejectCandidate, Best
<1>3. PICK bad \in Unusable(new) :
        /\ candidates' \subseteq candidates
        /\ \/ UNCHANGED failedChild
           \/ Failed(bad) /\ failedChild' = failedChild \cup (Chain[new] \ Chain[bad])
  BY <1>2
<1>4. new \in Block /\ bad \in Chain[new]
  BY <1>2, <1>3 DEF Inv, Typed, Unusable
<1>5. Chain[tip] \cap Marked' = {} /\ Marked' \subseteq known
  <2>1. CASE UNCHANGED failedChild
    BY <1>1, <2>1 DEF Marked, Inv, Sound, Typed
  <2>2. CASE Failed(bad) /\ failedChild' = failedChild \cup (Chain[new] \ Chain[bad])
    <3>1. bad \notin Chain[tip]
      BY <2>2 DEF Failed, Marked, Inv, Sound
    <3>2. (Chain[new] \ Chain[bad]) \cap Chain[tip] = {}
      BY <1>4, <3>1, AboveAvoided DEF Inv, Typed
    <3>3. Chain[new] \subseteq Block
      BY <1>4, PathFacts
    <3>4. QED
      BY <1>1, <2>2, <3>2, <3>3 DEF Marked, Inv, Sound, Typed
  <2>3. QED
    BY <1>3, <2>1, <2>2
<1>6. Typed'
  BY <1>1, <1>3, <1>5 DEF Inv, Typed
<1>7. QED
  BY <1>1, <1>5, <1>6, IndexStep

LEMMA FindStep ==
  ASSUME Inv, NEW t \in Thread, FindMostWorkChain(t)
  PROVE  Inv'
<1>1. /\ UNCHANGED <<known, received, haveData, scripts, Marked, failedValid, failedBlocks,
                     candidates, tip, invalidate>>
      /\ pc[t] = "find"
  BY DEF FindMostWorkChain, indexVars, failVars, choiceVars, Marked
<1>2. PICK most :
        /\ most = activate.mostWork \/ (most \in candidates /\ Unusable(most) = {})
        /\ \/ /\ activate' = [activate EXCEPT !.mostWork = most]
              /\ Goto(t, "unlock")
           \/ /\ most # None /\ Goto(t, "disconnect")
              /\ activate' = [activate EXCEPT !.mostWork = most, !.oldTip = tip]
  BY DEF FindMostWorkChain, Best
<1>3. most \in Block \cup {None}
  BY <1>2 DEF Inv, Typed
<1>4. most # None => Chain[most] \subseteq received /\ Chain[most] \cap Marked = {}
  <2>1. CASE most = activate.mostWork
    BY <1>1, <2>1 DEF Inv, TargetUsable, Activating, HoldsMain
  <2>2. CASE most \in candidates /\ Unusable(most) = {}
    <3>1. Chain[most] \ Chain[tip] \subseteq haveData /\ (Chain[most] \ Chain[tip]) \cap Marked = {}
      BY <2>2 DEF Unusable, Failed, Marked
    <3>2. Chain[tip] \cap Marked = {} /\ Chain[tip] \ {Genesis} \subseteq received /\ haveData \subseteq received
      BY DEF Inv, Sound, Typed
    <3>3. Genesis \in received
      BY DEF Inv, Typed
    <3>4. QED
      BY <3>1, <3>2, <3>3
  <2>3. QED
    BY <1>2, <2>1, <2>2
<1>5. pc'[t] \in {"unlock", "disconnect"} /\ \A u \in Thread : u # t => pc'[u] = pc[u]
  BY <1>2, Moves DEF Inv
<1>6. activate'.mostWork = most /\ (pc'[t] = "disconnect" => most # None)
  <2>1. activate'.mostWork = most
    BY <1>2 DEF Inv, Typed
  <2>2. pc'[t] = "disconnect" => most # None
    BY <1>2, Moves, SMT DEF Inv
  <2>3. QED
    BY <2>1, <2>2
<1>7. Typed'
  BY <1>1, <1>2, <1>3, MovesTyped DEF Inv, Typed, HoldsChainMutex, HoldsMain
<1>8. /\ Exclusive' /\ InvalidateKnows'
      /\ \A u \in Thread : pc'[u] \in HoldsChainMutex => u = t
  BY <1>1, <1>5, Alone DEF Activating, Invalidating, HoldsMain
<1>9. Sound'
  BY <1>1 DEF Inv, Sound
<1>10. TargetUsable'
  BY <1>1, <1>4, <1>5, <1>6, <1>8 DEF TargetUsable, Activating, HoldsChainMutex, HoldsMain
<1>11. QED
  BY <1>7, <1>8, <1>9, <1>10 DEF Inv

(* Disconnecting stops at the fork, so never at genesis.                   *)
LEMMA DisconnectStep ==
  ASSUME Inv, NEW t \in Thread, DisconnectTip(t)
  PROVE  Inv'
<1>1. /\ UNCHANGED <<known, received, haveData, scripts, Marked, failedValid, failedBlocks,
                     candidates, activate, invalidate>>
      /\ pc[t] = "disconnect"
  BY DEF DisconnectTip, indexVars, failVars, choiceVars, Marked
<1>2. activate.mostWork \in Block /\ tip \in Block
  BY <1>1 DEF Inv, TargetUsable, Typed
<1>3. \/ tip \in Chain[activate.mostWork] /\ Goto(t, "connect") /\ tip' = tip
      \/ tip \notin Chain[activate.mostWork] /\ tip' = Prev[tip] /\ pc' = pc
      \/ Goto(t, "aborted") /\ tip' = tip
  BY DEF DisconnectTip
<1>4. tip' \in known /\ Chain[tip'] \subseteq Chain[tip]
  <2>1. tip \in known /\ Chain[tip] \subseteq known
    BY DEF Inv, Typed
  <2>2. tip # Genesis => Prev[tip] \in Chain[tip] /\ Chain[Prev[tip]] \subseteq Chain[tip]
    BY <1>2, PathFacts
  <2>3. tip' = tip \/ (tip # Genesis /\ tip' = Prev[tip])
    BY <1>2, <1>3, PathFacts
  <2>4. QED
    BY <2>1, <2>2, <2>3
<1>5. /\ pc'[t] \in {"connect", "disconnect", "aborted"}
      /\ pc'[t] = "connect" => tip' \in Chain[activate.mostWork]
      /\ \A u \in Thread : u # t => pc'[u] = pc[u]
  BY <1>1, <1>3, Moves, SMT DEF Inv
<1>6. Typed'
  BY <1>1, <1>3, <1>4, MovesTyped DEF Inv, Typed, HoldsChainMutex, HoldsMain
<1>7. /\ Exclusive' /\ InvalidateKnows'
      /\ \A u \in Thread : pc'[u] \in HoldsChainMutex => u = t
  BY <1>1, <1>5, Alone DEF Activating, Invalidating, HoldsMain
<1>8. Sound'
  BY <1>1, <1>4 DEF Inv, Sound
<1>9. TargetUsable'
  BY <1>1, <1>5, <1>7 DEF Inv, TargetUsable, Activating, HoldsChainMutex, HoldsMain
<1>10. QED
  BY <1>6, <1>7, <1>8, <1>9 DEF Inv

(* The end of a step, with the block that is worked towards from now on.   *)
LEMMA DoneStep ==
  ASSUME Inv, NEW t \in Thread, NEW most \in Block \cup {None}, tip' \in Block, StepDone(t, most)
  PROVE  /\ pc' \in [Thread -> HoldsChainMutex \cup {"idle", "activate", "aborted"}]
         /\ pc'[t] \in {"find", "unlock"} /\ \A u \in Thread : u # t => pc'[u] = pc[u]
         /\ activate'.mostWork = most
         /\ activate' \in [mostWork : Block \cup {None}, newTip : Block \cup {None},
                           startTip : Block \cup {None}, oldTip : Block \cup {None}]
<1>1. activate' = [activate EXCEPT !.mostWork = most, !.newTip = tip']
  BY DEF StepDone
<1>2. PICK label \in {"find", "unlock"} : Goto(t, label)
  BY DEF StepDone
<1>3. /\ pc' \in [Thread -> HoldsChainMutex \cup {"idle", "activate", "aborted"}]
      /\ pc'[t] \in {"find", "unlock"} /\ \A u \in Thread : u # t => pc'[u] = pc[u]
  BY <1>2, Moves, MovesTyped DEF Inv, HoldsChainMutex, HoldsMain
<1>4. QED
  BY <1>1, <1>3 DEF Inv, Typed

(* The next block is on the unmarked path, so connecting it extends the    *)
(* validated chain.                                                        *)
LEMMA ConnectStep ==
  ASSUME Inv, NEW t \in Thread, ConnectTip(t)
  PROVE  Inv'
<1>1. /\ UNCHANGED <<known, received, haveData, Marked, failedValid, failedBlocks, invalidate>>
      /\ pc[t] = "connect"
  BY DEF ConnectTip, failVars, Marked
<1>2. PICK next \in NextToConnect :
        \/ /\ next \in haveData /\ tip' = next
           /\ scripts' = (IF Failed(next) THEN scripts ELSE scripts \cup {next})
           /\ candidates' = PruneBlockIndexCandidates(next)
           /\ StepDone(t, activate.mostWork) \/ UNCHANGED <<pc, activate>>
        \/ Goto(t, "aborted") /\ UNCHANGED <<tip, scripts, candidates, activate>>
  BY DEF ConnectTip
<1>3. /\ activate.mostWork \in Block /\ tip \in Block
      /\ Chain[activate.mostWork] \cap Marked = {}
  BY <1>1 DEF Inv, Typed, TargetUsable, Activating, HoldsMain
<1>4. /\ next \in Block \ {Genesis} /\ next \in Chain[activate.mostWork]
      /\ Chain[next] = Chain[tip] \cup {next} /\ ~Failed(next)
  <2>1. next \in Chain[activate.mostWork] /\ next # Genesis /\ Prev[next] = tip
    BY DEF NextToConnect
  <2>2. next \in Block
    BY <1>3, <2>1, PathFacts
  <2>3. QED
    BY <1>3, <2>1, <2>2, PathFacts DEF Failed, Marked
<1>5. CASE /\ next \in haveData /\ tip' = next
           /\ scripts' = (IF Failed(next) THEN scripts ELSE scripts \cup {next})
           /\ candidates' = PruneBlockIndexCandidates(next)
           /\ StepDone(t, activate.mostWork) \/ UNCHANGED <<pc, activate>>
  <2>1. scripts' = scripts \cup {next} /\ candidates' \subseteq candidates
    BY <1>4, <1>5 DEF PruneBlockIndexCandidates
  <2>2. /\ pc' \in [Thread -> HoldsChainMutex \cup {"idle", "activate", "aborted"}]
        /\ pc'[t] \in {"find", "unlock", "connect"} /\ \A u \in Thread : u # t => pc'[u] = pc[u]
        /\ activate'.mostWork = activate.mostWork
        /\ activate' \in [mostWork : Block \cup {None}, newTip : Block \cup {None},
                          startTip : Block \cup {None}, oldTip : Block \cup {None}]
    <3>1. CASE StepDone(t, activate.mostWork)
      BY <1>3, <1>4, <1>5, <3>1, DoneStep
    <3>2. CASE UNCHANGED <<pc, activate>>
      BY <1>1, <3>2 DEF Inv, Typed
    <3>3. QED
      BY <1>5, <3>1, <3>2
  <2>3. Typed'
    BY <1>1, <1>4, <1>5, <2>1, <2>2 DEF Inv, Typed
  <2>4. /\ Exclusive' /\ InvalidateKnows'
        /\ \A u \in Thread : pc'[u] \in HoldsChainMutex => u = t
    BY <1>1, <2>2, Alone DEF Activating, Invalidating, HoldsMain
  <2>5. Sound'
    <3>1. Chain[tip'] \cap Marked' = {}
      BY <1>1, <1>4, <1>5 DEF Inv, Sound, Failed, Marked
    <3>2. /\ Chain[tip'] \ {Genesis} \subseteq scripts'
          /\ \A x \in scripts' : Chain[x] \ {Genesis} \subseteq scripts'
      BY <1>4, <1>5, <2>1 DEF Inv, Sound
    <3>3. QED
      BY <1>1, <3>1, <3>2 DEF Inv, Sound
  <2>6. TargetUsable'
    BY <1>1, <1>3, <1>4, <1>5, <2>2, <2>4
       DEF Inv, TargetUsable, Activating, HoldsChainMutex, HoldsMain
  <2>7. QED
    BY <2>3, <2>4, <2>5, <2>6 DEF Inv
<1>6. CASE Goto(t, "aborted") /\ UNCHANGED <<tip, scripts, candidates, activate>>
  <2>1. Typed'
    BY <1>1, <1>6, MovesTyped DEF Inv, Typed
  <2>2. \A u \in Thread : pc'[u] = pc[u] \/ pc'[u] \notin HoldsChainMutex
    BY <1>6, Moves DEF Inv, HoldsChainMutex, HoldsMain
  <2>3. QED
    BY <1>1, <1>6, <2>1, <2>2, IndexStep DEF Inv, Sound, TargetUsable
<1>7. QED
  BY <1>2, <1>5, <1>6

(* A block that does not connect is not on the active chain.               *)
LEMMA ConnectFailsStep ==
  ASSUME Inv, NEW t \in Thread, ConnectTipFails(t)
  PROVE  Inv'
<1>1. /\ UNCHANGED <<known, received, haveData, scripts, failedChild, tip, invalidate>>
      /\ pc[t] = "connect" /\ StepDone(t, None)
  BY DEF ConnectTipFails
<1>2. PICK next \in NextToConnect :
        /\ failedValid' = failedValid \cup {next} /\ failedBlocks' = failedBlocks \cup {next}
        /\ candidates' \subseteq candidates
  BY DEF ConnectTipFails
<1>3. activate.mostWork \in Block /\ tip \in Block
  BY <1>1 DEF Inv, Typed, TargetUsable
<1>4. next \in known /\ next \notin Chain[tip]
  <2>1. next \in Chain[activate.mostWork] /\ next # Genesis /\ Prev[next] = tip
    BY DEF NextToConnect
  <2>2. next \in Block
    BY <1>3, <2>1, PathFacts
  <2>3. next \in known
    BY <1>1, <1>3, <2>1, TreeAssumption DEF Inv, Typed, TargetUsable, Activating, HoldsMain
  <2>4. QED
    BY <2>1, <2>2, <2>3, PathFacts
<1>5. /\ pc' \in [Thread -> HoldsChainMutex \cup {"idle", "activate", "aborted"}]
      /\ pc'[t] \in {"find", "unlock"} /\ \A u \in Thread : u # t => pc'[u] = pc[u]
      /\ activate'.mostWork = None
      /\ activate' \in [mostWork : Block \cup {None}, newTip : Block \cup {None},
                        startTip : Block \cup {None}, oldTip : Block \cup {None}]
  BY <1>1, <1>3, DoneStep
<1>6. Marked' = Marked \cup {next}
  BY <1>1, <1>2 DEF Marked
<1>7. Typed'
  BY <1>1, <1>2, <1>4, <1>5, <1>6 DEF Inv, Typed
<1>8. /\ Exclusive' /\ InvalidateKnows'
      /\ \A u \in Thread : pc'[u] \in HoldsChainMutex => u = t
  BY <1>1, <1>5, Alone DEF Activating, Invalidating, HoldsMain
<1>9. Sound'
  BY <1>1, <1>2, <1>4, <1>6 DEF Inv, Sound
<1>10. TargetUsable'
  BY <1>5, <1>8 DEF TargetUsable, Activating, HoldsChainMutex, HoldsMain
<1>11. QED
  BY <1>7, <1>8, <1>9, <1>10 DEF Inv

LEMMA UnlockStep ==
  ASSUME Inv, NEW t \in Thread, ActivateUnlock(t)
  PROVE  Inv'
<1>1. /\ UNCHANGED <<known, received, haveData, scripts, Marked, failedValid, failedBlocks,
                     candidates, tip, invalidate>>
      /\ pc[t] = "unlock"
      /\ \/ Goto(t, "idle") /\ activate' = NoActivate
         \/ Goto(t, "lock") /\ activate' = activate
  BY DEF ActivateUnlock, indexVars, failVars, choiceVars, Marked
<1>2. pc'[t] \in {"idle", "lock"} /\ \A u \in Thread : u # t => pc'[u] = pc[u]
  BY <1>1, Moves DEF Inv
<1>3. Typed'
  <2>1. pc' \in [Thread -> HoldsChainMutex \cup {"idle", "activate", "aborted"}]
    BY <1>1, MovesTyped DEF Inv, HoldsChainMutex
  <2>2. QED
    BY <1>1, <2>1, SMT DEF Inv, Typed, NoActivate
<1>4. /\ Exclusive' /\ InvalidateKnows'
      /\ \A u \in Thread : pc'[u] \in HoldsChainMutex => u = t
  BY <1>1, <1>2, Alone DEF Activating, Invalidating, HoldsMain
<1>5. Sound'
  BY <1>1 DEF Inv, Sound
<1>6. TargetUsable'
  BY <1>1, <1>2, <1>4, SMT DEF Inv, TargetUsable, Activating, HoldsChainMutex, HoldsMain, NoActivate
<1>7. QED
  BY <1>3, <1>4, <1>5, <1>6 DEF Inv
-----------------------------------------------------------------------------
(* InvalidateBlock.                                                        *)

LEMMA InvalidateStartStep ==
  ASSUME Inv, NEW t \in Thread, NEW b \in RpcTarget, InvalidateStart(t, b)
  PROVE  Inv'
<1>1. /\ UNCHANGED <<known, received, haveData, scripts, Marked, failedValid, failedBlocks,
                     candidates, tip, activate>>
      /\ ChainMutexFree /\ Goto(t, "invalidate")
  BY DEF InvalidateStart, indexVars, failVars, choiceVars, Marked
<1>2. pc'[t] = "invalidate" /\ \A u \in Thread : u # t => pc'[u] = pc[u]
  BY <1>1, Moves DEF Inv
<1>3. b \in Block \ {Genesis} /\ b \in known
  BY TreeAssumption DEF InvalidateStart
<1>4. PICK S \in SUBSET known : invalidate' = [pindex |-> b, toMark |-> b, byWork |-> S]
  <2>1. {x \in known \ Chain[tip] :
           ~Worse(x, Prev[b]) /\ ValidTransactions(x) /\ x \in linked} \in SUBSET known
    OBVIOUS
  <2>2. QED
    BY <2>1 DEF InvalidateStart
<1>5. Typed'
  BY <1>1, <1>3, <1>4, MovesTyped DEF Inv, Typed, HoldsChainMutex
<1>6. Exclusive'
  BY <1>1, <1>2 DEF ChainMutexFree, Exclusive
<1>7. Sound'
  BY <1>1 DEF Inv, Sound
<1>8. TargetUsable' /\ InvalidateKnows'
  BY <1>1, <1>2, <1>3, <1>4 DEF ChainMutexFree, TargetUsable, InvalidateKnows, Activating,
     Invalidating, HoldsChainMutex, HoldsMain
<1>9. QED
  BY <1>5, <1>6, <1>7, <1>8 DEF Inv

(* While a thread is inside InvalidateBlock no thread is inside            *)
(* ActivateBestChain.                                                      *)
LEMMA AloneInvalidating ==
  ASSUME Inv, NEW t \in Thread, pc[t] \in Invalidating,
         \A u \in Thread : u # t => pc'[u] = pc[u], pc'[t] \notin Activating
  PROVE  /\ Exclusive' /\ TargetUsable'
         /\ \A u \in Thread : pc'[u] \in HoldsChainMutex => u = t
<1>1. \A u \in Thread : u # t => pc[u] \notin HoldsChainMutex
  BY DEF Inv, Exclusive, Invalidating, HoldsChainMutex
<1>2. \A u \in Thread : pc'[u] \in HoldsChainMutex => u = t
  BY <1>1
<1>3. QED
  BY <1>2 DEF Exclusive, TargetUsable, Activating, HoldsChainMutex, HoldsMain

(* What a round that disconnects does.  FAILED_VALID never moves to        *)
(* FAILED_CHILD here, as the parent of the tip carries no mark.            *)
LEMMA Disconnects ==
  ASSUME Inv, NEW t \in Thread, InvalidateStep(t), invalidate.pindex \in Chain[tip],
         tip \in haveData
  PROVE  /\ tip \in known \ {Genesis} /\ tip' = Prev[tip] /\ tip' \in known
         /\ Chain[tip] = Chain[tip'] \cup {tip} /\ tip \notin Chain[tip']
         /\ failedValid' = failedValid \cup {tip} /\ failedChild' = failedChild
         /\ candidates' \subseteq candidates \cup {tip'} \cup invalidate.byWork
         /\ \E S : invalidate' = [invalidate EXCEPT !.toMark = tip, !.byWork = @ \ S]
<1>1. /\ tip' = Prev[tip] /\ failedValid' = (failedValid \cup {tip}) \ Demoted(tip)
      /\ failedChild' = failedChild \cup Demoted(tip)
      /\ candidates' \subseteq candidates \cup {Prev[tip]} \cup invalidate.byWork
      /\ \E S : invalidate' = [invalidate EXCEPT !.toMark = tip, !.byWork = @ \ S]
  BY DEF InvalidateStep
<1>2. pc[t] = "invalidate" /\ invalidate.pindex # Genesis
  BY DEF InvalidateStep, Inv, InvalidateKnows, Invalidating
<1>3. tip \in Block \ {Genesis}
  BY <1>2, PathAssumption, SMT DEF Inv, Typed
<1>4. Prev[tip] \in Block /\ Chain[tip] = Chain[Prev[tip]] \cup {tip} /\ tip \notin Chain[Prev[tip]]
  BY <1>3, PathFacts
<1>5. Prev[tip] \in Chain[tip]
  BY <1>4, PathFacts
<1>6. Demoted(tip) = {}
  BY <1>5 DEF Demoted, Inv, Sound, Marked
<1>7. tip \in known /\ Prev[tip] \in known
  BY <1>5 DEF Inv, Typed
<1>8. QED
  BY <1>1, <1>3, <1>4, <1>6, <1>7

LEMMA InvalidateStepStep ==
  ASSUME Inv, NEW t \in Thread, InvalidateStep(t)
  PROVE  Inv'
<1>1. /\ UNCHANGED <<known, received, haveData, scripts, failedBlocks, activate>>
      /\ pc[t] = "invalidate"
  BY DEF InvalidateStep, indexVars
<1>2. /\ invalidate.pindex \in Block \ {Genesis} /\ invalidate.toMark \in known
      /\ invalidate.toMark = invalidate.pindex \/ invalidate.toMark \notin Chain[tip]
  BY <1>1 DEF Inv, InvalidateKnows, Invalidating
<1>3. CASE invalidate.pindex \notin Chain[tip]
  <2>1. /\ UNCHANGED <<tip, failedValid, Marked, candidates, invalidate>>
        /\ Goto(t, "markInvalid")
    BY <1>3 DEF InvalidateStep, Marked
  <2>2. pc'[t] = "markInvalid" /\ \A u \in Thread : u # t => pc'[u] = pc[u]
    BY <2>1, Moves DEF Inv
  <2>3. Typed'
    BY <1>1, <2>1, MovesTyped DEF Inv, Typed, HoldsChainMutex
  <2>4. /\ Exclusive' /\ TargetUsable'
        /\ \A u \in Thread : pc'[u] \in HoldsChainMutex => u = t
    BY <1>1, <2>2, AloneInvalidating DEF Activating, Invalidating, HoldsMain
  <2>5. Sound'
    BY <1>1, <2>1 DEF Inv, Sound
  <2>6. InvalidateKnows'
    BY <1>1, <1>2, <1>3, <2>1, <2>4 DEF InvalidateKnows, Invalidating, HoldsChainMutex
  <2>7. QED
    BY <2>3, <2>4, <2>5, <2>6 DEF Inv
<1>4. CASE invalidate.pindex \in Chain[tip] /\ tip \notin haveData
  <2>1. /\ UNCHANGED <<tip, failedValid, Marked, candidates>>
        /\ Goto(t, "activate") /\ invalidate' = NoInvalidate
    BY <1>4 DEF InvalidateStep, Marked
  <2>2. pc'[t] = "activate" /\ \A u \in Thread : u # t => pc'[u] = pc[u]
    BY <2>1, Moves DEF Inv
  <2>3. Typed'
    BY <1>1, <2>1, MovesTyped DEF Inv, Typed, NoInvalidate
  <2>4. /\ Exclusive' /\ TargetUsable'
        /\ \A u \in Thread : pc'[u] \in HoldsChainMutex => u = t
    BY <1>1, <2>2, AloneInvalidating DEF Activating, Invalidating, HoldsMain
  <2>5. Sound'
    BY <1>1, <2>1 DEF Inv, Sound
  <2>6. InvalidateKnows'
    BY <2>2, <2>4 DEF InvalidateKnows, Invalidating, HoldsChainMutex
  <2>7. QED
    BY <2>3, <2>4, <2>5, <2>6 DEF Inv
<1>5. CASE invalidate.pindex \in Chain[tip] /\ tip \in haveData
  <2>1. /\ tip \in known \ {Genesis} /\ tip' = Prev[tip] /\ tip' \in known
        /\ Chain[tip] = Chain[tip'] \cup {tip} /\ tip \notin Chain[tip']
        /\ failedValid' = failedValid \cup {tip} /\ failedChild' = failedChild
        /\ candidates' \subseteq candidates \cup {tip'} \cup invalidate.byWork
    BY <1>5, Disconnects
  <2>2. PICK S : invalidate' = [invalidate EXCEPT !.toMark = tip, !.byWork = @ \ S]
    BY <1>5, Disconnects
  <2>3. pc' = pc
    BY <1>5 DEF InvalidateStep
  <2>4. Marked' = Marked \cup {tip}
    BY <2>1 DEF Marked
  <2>5. Typed'
    BY <1>1, <2>1, <2>2, <2>3, <2>4 DEF Inv, Typed
  <2>6. /\ Exclusive' /\ TargetUsable'
        /\ \A u \in Thread : pc'[u] \in HoldsChainMutex => u = t
    BY <1>1, <2>3, AloneInvalidating DEF Activating, Invalidating, HoldsMain
  <2>7. Sound'
    BY <1>1, <2>1, <2>4 DEF Inv, Sound
  <2>8. InvalidateKnows'
    <3>1. invalidate'.toMark = tip /\ invalidate'.pindex = invalidate.pindex
      BY <2>2 DEF Inv, Typed
    <3>2. QED
      BY <1>1, <1>2, <2>1, <2>3, <2>6, <3>1 DEF InvalidateKnows, Invalidating, HoldsChainMutex
  <2>9. QED
    BY <2>5, <2>6, <2>7, <2>8 DEF Inv
<1>6. QED
  BY <1>3, <1>4, <1>5

LEMMA InvalidateFinishStep ==
  ASSUME Inv, NEW t \in Thread, InvalidateFinish(t)
  PROVE  Inv'
<1>1. /\ UNCHANGED <<known, received, haveData, scripts, tip, activate>>
      /\ pc[t] = "markInvalid" /\ invalidate' = NoInvalidate /\ Goto(t, "activate")
  BY DEF InvalidateFinish
<1>2. invalidate.toMark \in known /\ invalidate.toMark \notin Chain[tip]
  BY <1>1 DEF Inv, InvalidateKnows, Invalidating
<1>3. /\ failedValid' = failedValid \cup {invalidate.toMark} /\ failedChild' = failedChild
      /\ failedBlocks' = failedBlocks \cup {invalidate.toMark}
      /\ candidates' \subseteq candidates \cup received
  BY <1>2 DEF InvalidateFinish, MissedCandidates
<1>4. Marked' = Marked \cup {invalidate.toMark}
  BY <1>3 DEF Marked
<1>5. pc'[t] = "activate" /\ \A u \in Thread : u # t => pc'[u] = pc[u]
  BY <1>1, Moves DEF Inv
<1>6. Typed'
  BY <1>1, <1>2, <1>3, <1>4, MovesTyped DEF Inv, Typed, NoInvalidate
<1>7. /\ Exclusive' /\ TargetUsable'
      /\ \A u \in Thread : pc'[u] \in HoldsChainMutex => u = t
  BY <1>1, <1>5, AloneInvalidating DEF Activating, Invalidating, HoldsMain
<1>8. Sound'
  BY <1>1, <1>2, <1>3, <1>4 DEF Inv, Sound
<1>9. InvalidateKnows'
  BY <1>5, <1>7 DEF InvalidateKnows, Invalidating, HoldsChainMutex
<1>10. QED
  BY <1>6, <1>7, <1>8, <1>9 DEF Inv
-----------------------------------------------------------------------------
(* The other commands.                                                     *)

LEMMA ResetStep ==
  ASSUME Inv, NEW t \in Thread, NEW b \in RpcTarget, ResetBlockFailureFlags(t, b)
  PROVE  Inv'
<1>1. /\ UNCHANGED <<known, received, haveData, scripts, tip, activate, invalidate>>
      /\ Goto(t, "activate")
  BY DEF ResetBlockFailureFlags, indexVars
<1>2. PICK cleared :
        /\ failedValid' = failedValid \ cleared /\ failedChild' = failedChild \ cleared
        /\ failedBlocks' = failedBlocks \ cleared
        /\ candidates' \subseteq candidates \cup received
  BY DEF ResetBlockFailureFlags, Reconsidered
<1>3. Marked' \subseteq Marked
  BY <1>2 DEF Marked
<1>4. \A u \in Thread : pc'[u] = pc[u] \/ pc'[u] \notin HoldsChainMutex
  BY <1>1, Moves DEF Inv, HoldsChainMutex, HoldsMain
<1>5. Typed'
  BY <1>1, <1>2, <1>3, MovesTyped DEF Inv, Typed
<1>6. Chain[tip] \cap Marked' = {}
  BY <1>3 DEF Inv, Sound
<1>7. \A u \in Thread : pc[u] \in Activating /\ activate.mostWork # None =>
        Chain[activate.mostWork] \cap Marked' = {}
  BY <1>3 DEF Inv, TargetUsable
<1>8. failedBlocks \subseteq failedValid => failedBlocks' \subseteq failedValid'
  BY <1>2
<1>9. QED
  BY <1>1, <1>4, <1>5, <1>6, <1>7, <1>8, IndexStep

LEMMA PreciousStep ==
  ASSUME Inv, NEW t \in Thread, NEW b \in RpcTarget, PreciousBlock(t, b)
  PROVE  Inv'
<1>1. /\ UNCHANGED <<known, received, haveData, scripts, Marked, failedValid, failedBlocks, tip,
                     activate, invalidate>>
      /\ Goto(t, "activate")
  BY DEF PreciousBlock, indexVars, failVars, Marked
<1>2. candidates' \subseteq candidates \cup {b}
  BY DEF PreciousBlock
<1>3. b \in known
  BY DEF PreciousBlock
<1>4. \A u \in Thread : pc'[u] = pc[u] \/ pc'[u] \notin HoldsChainMutex
  BY <1>1, Moves DEF Inv, HoldsChainMutex, HoldsMain
<1>5. Typed'
  BY <1>1, <1>2, <1>3, MovesTyped DEF Inv, Typed
<1>6. QED
  BY <1>1, <1>4, <1>5, IndexStep DEF Inv, Sound, TargetUsable

LEMMA PruneStep ==
  ASSUME Inv, NEW b \in Block, PruneOneBlockFile(b)
  PROVE  Inv'
<1>1. /\ UNCHANGED <<known, received, scripts, Marked, failedValid, failedBlocks, candidates, tip,
                     pc, activate, invalidate>>
      /\ haveData' \subseteq haveData
  BY DEF PruneOneBlockFile, failVars, Marked
<1>2. Typed'
  BY <1>1 DEF Inv, Typed
<1>3. QED
  BY <1>1, <1>2, IndexStep DEF Inv, Sound, TargetUsable

(* LoadBlockIndex marks only descendants of marked blocks.                 *)
LEMMA RestartStep ==
  ASSUME Inv, NEW t \in Thread, Restart(t)
  PROVE  Inv'
<1>1. /\ UNCHANGED <<known, received, haveData, scripts, failedValid, tip>>
      /\ failedBlocks' = {} /\ activate' = NoActivate /\ invalidate' = NoInvalidate
      /\ pc' = [u \in Thread |-> IF u = t THEN "activate" ELSE "idle"]
      /\ failedChild' = failedChild \cup {x \in known : ~Failed(x) /\ \E y \in Chain[x] : Failed(y)}
      /\ candidates' \subseteq received
  BY DEF Restart, LoadedCandidates, LoadedLinked
<1>2. Chain[tip] \cap Marked' = {} /\ Marked' \subseteq known
  <2>1. ASSUME NEW x \in known, NEW y \in Chain[x], Failed(y) PROVE x \notin Chain[tip]
    BY <2>1, PathFacts DEF Inv, Typed, Sound, Failed, Marked
  <2>2. QED
    BY <1>1, <2>1 DEF Inv, Typed, Sound, Marked
<1>3. Typed'
  BY <1>1, <1>2 DEF Inv, Typed, NoActivate, NoInvalidate
<1>4. Exclusive' /\ TargetUsable' /\ InvalidateKnows'
  BY <1>1 DEF Exclusive, TargetUsable, InvalidateKnows, Activating, Invalidating,
     HoldsChainMutex, HoldsMain
<1>5. Sound'
  BY <1>1, <1>2 DEF Inv, Sound
<1>6. QED
  BY <1>3, <1>4, <1>5 DEF Inv
-----------------------------------------------------------------------------
LEMMA StutterInv == Inv /\ UNCHANGED vars => Inv'
<1> SUFFICES ASSUME Inv, UNCHANGED vars PROVE Inv'
  OBVIOUS
<1>1. UNCHANGED <<known, received, haveData, scripts, Marked, failedValid, failedBlocks, candidates,
                  tip, pc, activate, invalidate>>
  BY DEF vars, indexVars, failVars, choiceVars, Marked
<1>2. Typed'
  BY <1>1 DEF Inv, Typed
<1>3. QED
  BY <1>1, <1>2, IndexStep DEF Inv, Sound, TargetUsable

LEMMA NextInv == Inv /\ Next => Inv'
<1> SUFFICES ASSUME Inv, Next PROVE Inv'
  OBVIOUS
<1>1. ASSUME NEW b \in Block \ {Genesis}, AcceptBlockHeader(b) PROVE Inv'
  BY <1>1, HeaderStep
<1>2. ASSUME NEW b \in Block \ {Genesis}, NEW t \in Thread, NEW requested \in BOOLEAN,
             ProcessNewBlock(t, b, requested)
      PROVE  Inv'
  BY <1>2, BlockStep
<1>3. ASSUME NEW t \in Thread, ActivateEnter(t) \/ ActivateStep(t) PROVE Inv'
  BY <1>3, EnterStep, LockStep, RejectStep, FindStep, DisconnectStep, ConnectStep,
     ConnectFailsStep, UnlockStep DEF ActivateStep
<1>4. ASSUME NEW t \in Thread, InvalidateNext(t) PROVE Inv'
  BY <1>4, InvalidateStepStep, InvalidateFinishStep DEF InvalidateNext
<1>5. ASSUME NEW b \in RpcTarget, NEW t \in Thread,
             InvalidateStart(t, b) \/ ResetBlockFailureFlags(t, b) \/ PreciousBlock(t, b)
      PROVE  Inv'
  BY <1>5, InvalidateStartStep, ResetStep, PreciousStep
<1>6. ASSUME NEW b \in Block, PruneOneBlockFile(b) PROVE Inv'
  BY <1>6, PruneStep
<1>7. ASSUME NEW t \in Thread, Restart(t) PROVE Inv'
  BY <1>7, RestartStep
<1>8. QED
  BY <1>1, <1>2, <1>3, <1>4, <1>5, <1>6, <1>7 DEF Next

(* The inductive invariant.                                                *)
LEMMA Invariance == Spec => []Inv
<1>1. Inv /\ [Next]_vars => Inv'
  BY NextInv, StutterInv
<1>2. QED
  BY InitInv, <1>1, PTL DEF Spec

(* No block of the active chain is ever marked invalid, whatever headers,  *)
(* bodies, commands and restarts interleave with ActivateBestChain, and it *)
(* is validated throughout.                                                *)
THEOREM ActiveChainAlwaysValid == Spec => []ActiveChainValid
<1>1. Inv => ActiveChainValid
  BY DEF Inv, Sound, ActiveChainValid, Failed, Marked
<1>2. QED
  BY Invariance, <1>1, PTL

(* The check at the end of InvalidateBlock ("something is interfering")    *)
(* never fails, although it gave up cs_main between its rounds.            *)
THEOREM InvalidateUndisturbed == Spec => []NothingInterferes
<1>1. Inv => NothingInterferes
  BY DEF Inv, InvalidateKnows, Invalidating, NothingInterferes
<1>2. QED
  BY Invariance, <1>1, PTL
-----------------------------------------------------------------------------
(* Some block on the path to a marked block is marked for its own fault.   *)
Caused == \A x \in Marked : Chain[x] \cap failedValid # {}

(* Marks may be added above blocks that are marked already.                *)
LEMMA CausedGrows ==
  ASSUME Caused, failedValid \subseteq failedValid',
         \A x \in Marked' \ Marked : Chain[x] \cap failedValid' # {}
  PROVE  Caused'
  BY DEF Caused

LEMMA CausedAbove ==
  ASSUME Caused, NEW b \in Block, NEW f \in Chain[b], f \in Marked, NEW x \in Chain[b] \ Chain[f]
  PROVE  Chain[x] \cap failedValid # {}
  BY Above, SMT DEF Caused

LEMMA CausedByHeader ==
  ASSUME Inv, Caused, NEW b \in Block \ {Genesis}, MarkDescendants(b)
  PROVE  Caused'
<1>1. PICK f \in FailedAncestors(b) : failedChild' = failedChild \cup (Chain[Prev[b]] \ Chain[f])
  BY DEF MarkDescendants
<1>2. f \in Chain[Prev[b]] /\ f \in Marked /\ Prev[b] \in Block
  BY <1>1, PathFacts DEF FailedAncestors, Inv, Sound, Marked
<1>3. failedValid' = failedValid
  BY DEF MarkDescendants
<1>4. \A x \in Marked' \ Marked : x \in Chain[Prev[b]] \ Chain[f]
  BY <1>1, <1>3 DEF Marked
<1>5. QED
  BY <1>2, <1>3, <1>4, CausedAbove, CausedGrows

LEMMA CausedByBlock ==
  ASSUME Inv, Caused, NEW b \in Block \ {Genesis}, NEW t \in Thread, NEW requested \in BOOLEAN,
         ProcessNewBlock(t, b, requested)
  PROVE  Caused'
<1>1. \/ MarkDescendants(b)
      \/ UNCHANGED failedChild /\ failedValid' \in {failedValid, failedValid \cup {b}}
  BY DEF ProcessNewBlock, SkipBlock, RejectBody, StoreBlock
<1>2. CASE UNCHANGED failedChild /\ failedValid' \in {failedValid, failedValid \cup {b}}
  <2>1. \A x \in Marked' \ Marked : x = b /\ b \in failedValid'
    BY <1>2 DEF Marked
  <2>2. QED
    BY <1>2, <2>1, CausedGrows, PathFacts
<1>3. QED
  BY <1>1, <1>2, CausedByHeader

LEMMA CausedByReject ==
  ASSUME Inv, Caused, NEW t \in Thread, RejectCandidate(t)
  PROVE  Caused'
<1>1. PICK new \in candidates : \E bad \in Unusable(new) :
        \/ UNCHANGED failedChild
        \/ Failed(bad) /\ failedChild' = failedChild \cup (Chain[new] \ Chain[bad])
  BY DEF RejectCandidate, Best
<1>2. PICK bad \in Unusable(new) :
        \/ UNCHANGED failedChild
        \/ Failed(bad) /\ failedChild' = failedChild \cup (Chain[new] \ Chain[bad])
  BY <1>1
<1>3. new \in Block /\ bad \in Chain[new] /\ failedValid' = failedValid
  BY <1>2 DEF Inv, Typed, Unusable, RejectCandidate
<1>4. \A x \in Marked' \ Marked : bad \in Marked /\ x \in Chain[new] \ Chain[bad]
  BY <1>2, <1>3 DEF Marked, Failed
<1>5. QED
  BY <1>3, <1>4, CausedAbove, CausedGrows

LEMMA CausedByConnect ==
  ASSUME Inv, Caused, NEW t \in Thread, ConnectTipFails(t)
  PROVE  Caused'
<1>1. PICK next \in NextToConnect : failedValid' = failedValid \cup {next}
  BY DEF ConnectTipFails
<1>2. failedChild' = failedChild /\ pc[t] = "connect"
  BY DEF ConnectTipFails
<1>3. next \in Block
  <2>1. activate.mostWork \in Block
    BY <1>2 DEF Inv, TargetUsable, Typed
  <2>2. QED
    BY <2>1, PathFacts DEF NextToConnect
<1>4. \A x \in Marked' \ Marked : x = next
  BY <1>1, <1>2 DEF Marked
<1>5. QED
  BY <1>1, <1>3, <1>4, CausedGrows, PathFacts

LEMMA CausedByInvalidate ==
  ASSUME Inv, Caused, NEW t \in Thread, InvalidateNext(t)
  PROVE  Caused'
<1>1. \/ UNCHANGED <<failedValid, failedChild>>
      \/ /\ failedChild' = failedChild
         /\ \E b \in Block : failedValid' = failedValid \cup {b}
  <2>1. CASE InvalidateStep(t)
    <3>1. CASE invalidate.pindex \in Chain[tip] /\ tip \in haveData
      BY <2>1, <3>1, Disconnects DEF Inv, Typed
    <3>2. CASE ~(invalidate.pindex \in Chain[tip] /\ tip \in haveData)
      BY <2>1, <3>2 DEF InvalidateStep
    <3>3. QED
      BY <3>1, <3>2
  <2>2. CASE InvalidateFinish(t)
    <3>1. invalidate.toMark \in known
      BY <2>2 DEF InvalidateFinish, Inv, InvalidateKnows, Invalidating
    <3>2. QED
      BY <2>2, <3>1 DEF InvalidateFinish, failVars, Inv, Typed
  <2>3. QED
    BY <2>1, <2>2 DEF InvalidateNext
<1>2. CASE UNCHANGED <<failedValid, failedChild>>
  BY <1>2 DEF Caused, Marked
<1>3. ASSUME NEW b \in Block, failedValid' = failedValid \cup {b}, failedChild' = failedChild
      PROVE  Caused'
  <2>1. \A x \in Marked' \ Marked : x = b
    BY <1>3 DEF Marked
  <2>2. QED
    BY <1>3, <2>1, CausedGrows, PathFacts
<1>4. QED
  BY <1>1, <1>2, <1>3

(* The blocks that ResetBlockFailureFlags clears: if the cause of a mark   *)
(* is among them, and no ancestor of the block is marked, the mark is too. *)
LEMMA CausedByReset ==
  ASSUME Inv, Caused, "reconsiderBelow" \notin Rpcs, NEW t \in Thread, NEW b \in RpcTarget,
         ResetBlockFailureFlags(t, b)
  PROVE  Caused'
<1> DEFINE cleared == NotValidBelow(b) \cup Chain[b]
<1>1. failedValid' = failedValid \ cleared /\ failedChild' = failedChild \ cleared
  BY DEF ResetBlockFailureFlags
<1>2. \A x \in Chain[b] \ {b} : x \notin Marked
  BY DEF ResetBlockFailureFlags, Failed, Marked
<1>3. \A x \in Marked : b \in Chain[x] => x \in cleared
  BY DEF NotValidBelow, ValidTransactions, Failed, Marked, Inv, Typed
<1>4. ASSUME NEW x \in Marked' PROVE Chain[x] \cap failedValid' # {}
  <2>1. x \in Marked /\ x \notin cleared /\ x \in Block
    BY <1>1 DEF Marked, Inv, Typed
  <2>2. PICK y \in Chain[x] : y \in failedValid
    BY <2>1 DEF Caused
  <2>3. y \in Block /\ Chain[y] \subseteq Chain[x] /\ y \in Marked
    BY <2>1, <2>2, PathFacts DEF Marked
  <2>4. y \notin Chain[b]
    BY <1>2, <1>3, <2>1, <2>2, <2>3
  <2>5. b \notin Chain[y]
    BY <1>3, <2>1, <2>3
  <2>6. y \notin cleared
    BY <2>4, <2>5 DEF NotValidBelow
  <2>7. QED
    BY <1>1, <2>2, <2>6
<1>5. QED
  BY <1>4 DEF Caused

LEMMA CausedByRestart ==
  ASSUME Inv, Caused, NEW t \in Thread, Restart(t)
  PROVE  Caused'
<1>1. /\ failedValid' = failedValid
      /\ failedChild' = failedChild \cup {x \in known : ~Failed(x) /\ \E y \in Chain[x] : Failed(y)}
  BY DEF Restart
<1>2. ASSUME NEW x \in known, NEW y \in Chain[x], Failed(y) PROVE Chain[x] \cap failedValid # {}
  BY <1>2, PathFacts, SMT DEF Inv, Typed, Caused, Failed, Marked
<1>3. \A x \in Marked' \ Marked : x \in known /\ \E y \in Chain[x] : Failed(y)
  BY <1>1 DEF Marked
<1>4. QED
  BY <1>1, <1>2, <1>3, CausedGrows

LEMMA CausedNext ==
  ASSUME "reconsiderBelow" \notin Rpcs, Inv, Caused, [Next]_vars
  PROVE  Caused'
<1>1. ASSUME UNCHANGED <<failedValid, failedChild>> PROVE Caused'
  BY <1>1 DEF Caused, Marked
<1>2. ASSUME NEW b \in Block \ {Genesis}, AcceptBlockHeader(b) PROVE Caused'
  BY <1>1, <1>2, CausedByHeader DEF AcceptBlockHeader, failVars
<1>3. ASSUME NEW b \in Block \ {Genesis}, NEW t \in Thread, NEW requested \in BOOLEAN,
             ProcessNewBlock(t, b, requested)
      PROVE  Caused'
  BY <1>3, CausedByBlock
<1>4. ASSUME NEW t \in Thread, ActivateEnter(t) \/ ActivateStep(t) PROVE Caused'
  <2>1. CASE RejectCandidate(t) \/ ConnectTipFails(t)
    BY <2>1, CausedByReject, CausedByConnect
  <2>2. CASE ActivateEnter(t) \/ ActivateLock(t) \/ FindMostWorkChain(t) \/ DisconnectTip(t)
             \/ ConnectTip(t) \/ ActivateUnlock(t)
    BY <1>1, <2>2 DEF ActivateEnter, ActivateLock, FindMostWorkChain, DisconnectTip, ConnectTip,
       ActivateUnlock, failVars
  <2>3. QED
    BY <1>4, <2>1, <2>2 DEF ActivateStep
<1>5. ASSUME NEW t \in Thread, InvalidateNext(t) PROVE Caused'
  BY <1>5, CausedByInvalidate
<1>6. ASSUME NEW b \in RpcTarget, NEW t \in Thread,
             InvalidateStart(t, b) \/ ResetBlockFailureFlags(t, b) \/ PreciousBlock(t, b)
      PROVE  Caused'
  BY <1>1, <1>6, CausedByReset DEF InvalidateStart, PreciousBlock, failVars
<1>7. ASSUME NEW b \in Block, PruneOneBlockFile(b) PROVE Caused'
  BY <1>1, <1>7 DEF PruneOneBlockFile, failVars
<1>8. ASSUME NEW t \in Thread, Restart(t) PROVE Caused'
  BY <1>8, CausedByRestart
<1>9. ASSUME UNCHANGED vars PROVE Caused'
  BY <1>1, <1>9 DEF vars, failVars
<1>10. QED
  BY <1>2, <1>3, <1>4, <1>5, <1>6, <1>7, <1>8, <1>9 DEF Next

(* Every block marked FAILED_VALID or FAILED_CHILD descends from one       *)
(* marked FAILED_VALID, and m_failed_blocks holds only such blocks, as     *)
(* long as reconsiderblock names no block below an invalid one.            *)
THEOREM FailuresAlwaysHaveCause ==
  ASSUME "reconsiderBelow" \notin Rpcs
  PROVE  Spec => []FailuresHaveCause
<1>1. Init => Caused
  BY DEF Init, Caused, Marked
<1>2. Inv /\ Caused /\ [Next]_vars => Caused'
  BY CausedNext
<1>3. Inv /\ Caused => FailuresHaveCause
  BY DEF Inv, Sound, Caused, Marked, FailuresHaveCause
<1>4. QED
  BY <1>1, <1>2, <1>3, Invariance, PTL DEF Spec
-----------------------------------------------------------------------------
(* The block index.                                                        *)

(* The linked blocks form a tree.  A block that waits in m_blocks_unlinked *)
(* without being linked waits for its parent.  One that is linked had to   *)
(* go back there because an ancestor's data is missing, and so did all the *)
(* blocks between that ancestor and it.                                    *)
LinkShape ==
  /\ Genesis \in linked /\ linked \subseteq received /\ \A x \in linked : Chain[x] \subseteq linked
  /\ unlinked \subseteq received \ {Genesis}
  /\ \A x \in unlinked \ linked : Prev[x] \notin linked
  /\ \A x \in unlinked \cap linked :
       x \in haveData /\ \E m \in Chain[x] \ haveData : Chain[x] \ Chain[m] \subseteq unlinked

(* Whatever is, may become or is about to become part of the active chain  *)
(* is linked.                                                              *)
LinkUsed ==
  /\ scripts \cup candidates \cup {tip} \cup invalidate.byWork \subseteq linked
  /\ \A t \in Thread : pc[t] \in Activating /\ activate.mostWork # None =>
       activate.mostWork \in linked

(* Sequence ids: positive ones only for linked blocks.                     *)
Sequenced ==
  /\ seq \in [Block -> Int] /\ nextSeq \in Nat
  /\ \A b \in Block \ linked : seq[b] <= 0
  /\ precious \in [reverse : Int, lastWork : Nat] /\ precious.reverse < 0

(* The rest of the types.                                                  *)
References ==
  /\ bestInvalid \in known \cup {None} /\ bestHeader \in known /\ rpcs \in 0 .. MaxRpc
  /\ activate \in [mostWork : known \cup {None}, newTip : known \cup {None},
                   startTip : known \cup {None}, oldTip : known \cup {None}]
  /\ invalidate.pindex \in known \cup {None} /\ invalidate.toMark \in known \cup {None}

LinkInv == LinkShape /\ LinkUsed /\ Sequenced /\ References
-----------------------------------------------------------------------------
(* Leaves that need more than first-order reasoning name SMT.              *)

LEMMA ParentOnPath ==
  ASSUME NEW b \in Block \ {Genesis}
  PROVE  Prev[b] \in Block /\ Prev[b] \in Chain[b]
<1>1. Prev[b] \in Block /\ Chain[b] = Chain[Prev[b]] \cup {b}
  BY PathFacts
<1>2. Prev[b] \in Chain[Prev[b]]
  BY <1>1, PathFacts
<1>3. QED
  BY <1>1, <1>2

LEMMA LinkInit == Init => LinkInv
<1> SUFFICES ASSUME Init PROVE LinkInv
  OBVIOUS
<1>1. LinkShape
  BY PathAssumption DEF Init, LinkShape
<1>2. LinkUsed
  BY DEF Init, LinkUsed, NoInvalidate, NoActivate
<1>3. Sequenced
  BY SMT DEF Init, Sequenced
<1>4. References
  BY TreeAssumption, SMT DEF Init, References, NoActivate, NoInvalidate
<1>5. QED
  BY <1>1, <1>2, <1>3, <1>4 DEF LinkInv

(* Most steps leave the links and the sequence ids alone.                  *)
LEMMA ShapeKept ==
  ASSUME LinkInv, UNCHANGED <<known, received, haveData, linked, unlinked, seq, nextSeq, precious>>
  PROVE  LinkShape' /\ Sequenced'
<1>1. LinkShape'
  BY DEF LinkInv, LinkShape
<1>2. Sequenced'
  BY DEF LinkInv, Sequenced
<1>3. QED
  BY <1>1, <1>2

(* Fewer candidates, or a different step of a thread, need no new links.   *)
LEMMA UsedKept ==
  ASSUME LinkInv, linked \subseteq linked', UNCHANGED <<scripts, tip, activate>>,
         candidates' \subseteq linked', invalidate'.byWork \subseteq linked',
         \A t \in Thread : pc'[t] = pc[t] \/ pc'[t] \notin Activating
  PROVE  LinkUsed'
  BY DEF LinkInv, LinkUsed
-----------------------------------------------------------------------------
(* Headers and bodies.                                                     *)

(* The index gets at most one block more, and the references into it stay. *)
LEMMA HeaderAdded ==
  ASSUME Inv, LinkInv, NEW b \in Block \ {Genesis},
         AddHeader(b) \/ UNCHANGED <<known, bestHeader>>,
         UNCHANGED <<bestInvalid, rpcs, activate, invalidate>>
  PROVE  References' /\ known \subseteq known'
<1>1. known' \in {known, known \cup {b}} /\ bestHeader' \in {bestHeader, b}
      /\ (bestHeader' = b => b \in known')
  <2>1. CASE AddHeader(b)
    BY <2>1, SMT DEF AddHeader
  <2>2. CASE UNCHANGED <<known, bestHeader>>
    BY <2>2 DEF LinkInv, References
  <2>3. QED
    BY <2>1, <2>2
<1>2. References'
  BY <1>1, SMT DEF LinkInv, References
<1>3. QED
  BY <1>1, <1>2

LEMMA HeaderLinks ==
  ASSUME Inv, LinkInv, NEW b \in Block \ {Genesis}, AcceptBlockHeader(b)
  PROVE  LinkInv'
<1>1. UNCHANGED <<received, haveData, linked, scripts, seq, nextSeq, candidates, unlinked, tip,
                  precious, pc, activate, invalidate, rpcs>>
  BY DEF AcceptBlockHeader, choiceVars
<1>2. /\ AddHeader(b) \/ UNCHANGED <<known, bestHeader>>
      /\ UNCHANGED bestInvalid
  BY DEF AcceptBlockHeader, MarkDescendants, failVars
<1>3. References'
  BY <1>1, <1>2, HeaderAdded
<1>4. LinkShape' /\ LinkUsed' /\ Sequenced'
  BY <1>1, <1>3 DEF LinkInv, LinkShape, LinkUsed, Sequenced
<1>5. QED
  BY <1>3, <1>4 DEF LinkInv

(* The blocks that the queue of ReceivedBlockTransactions visits: the new  *)
(* one and those that waited, directly or not, for it.                     *)
LEMMA QueueBlocks ==
  ASSUME Inv, LinkInv, NEW b \in Block \ {Genesis}, ParentLinked(b), NEW D, D = {b} \cup Released(b)
  PROVE  /\ D \subseteq received \cup {b} /\ b \in D
         /\ \A x \in D : Chain[x] \subseteq linked \cup D
         /\ \A x \in unlinked : x \in D => b \in Chain[x] /\ Chain[x] \ Chain[b] \subseteq unlinked
         /\ \A x \in D : b \in Chain[x]
<1>1. Chain[b] = Chain[Prev[b]] \cup {b} /\ Chain[Prev[b]] \subseteq linked
  BY PathFacts DEF ParentLinked, LinkInv, LinkShape
<1>2. ASSUME NEW x \in Released(b)
      PROVE  x \in received \cup {b} /\ Chain[x] \subseteq linked \cup D /\ b \in Chain[x]
  <2>1. x \in known /\ x \in Block /\ b \in Chain[x] /\ Chain[x] \ Chain[b] \subseteq unlinked
    BY DEF Released, Inv, Typed
  <2>2. ASSUME NEW y \in Chain[x] \ Chain[b] PROVE y \in Released(b)
    <3>1. y \in Block /\ b \in Chain[y] /\ Chain[y] \subseteq Chain[x]
      BY <2>1, <2>2, Above, PathFacts
    <3>2. y \in known
      BY <2>1, <2>2 DEF LinkInv, LinkShape, Inv, Typed
    <3>3. QED
      BY <2>1, <3>1, <3>2 DEF Released
  <2>3. x \in received \cup {b}
    <3>1. CASE x \in Chain[b]
      <4>1. x = b \/ x \in linked
        BY <1>1, <3>1
      <4>2. QED
        BY <4>1 DEF LinkInv, LinkShape
    <3>2. CASE x \notin Chain[b]
      BY <2>1, <3>2, PathFacts DEF LinkInv, LinkShape
    <3>3. QED
      BY <3>1, <3>2
  <2>4. QED
    BY <1>1, <2>1, <2>2, <2>3
<1>3. QED
  BY <1>1, <1>2, PathFacts DEF Released

(* ReceivedBlockTransactions when the parent is linked ...                 *)
LEMMA LinkedBlockShape ==
  ASSUME Inv, LinkInv, NEW b \in Block \ {Genesis}, b \notin haveData, ParentLinked(b),
         received' = received \cup {b}, haveData' = haveData \cup {b},
         NEW D, D = {b} \cup Released(b),
         linked' = linked \cup D, unlinked' = Dequeued(b, D)
  PROVE  LinkShape'
<1>1. /\ D \subseteq received \cup {b} /\ b \in D
      /\ \A x \in D : Chain[x] \subseteq linked \cup D
      /\ \A x \in unlinked : x \in D => b \in Chain[x] /\ Chain[x] \ Chain[b] \subseteq unlinked
      /\ \A x \in D : b \in Chain[x]
  BY QueueBlocks, SMT
<1>2. unlinked' \subseteq unlinked /\ \A x \in unlinked' : x \notin D \/ x = b
  BY DEF Dequeued
<1>3. b \notin unlinked
  BY DEF ParentLinked, LinkInv, LinkShape
<1>4. unlinked \subseteq Block \ {Genesis} /\ unlinked \subseteq known
  BY DEF LinkInv, LinkShape, Inv, Typed
<1>5. ASSUME NEW x \in unlinked' \ linked' PROVE Prev[x] \notin linked'
  <2>1. x \in unlinked /\ x \notin linked /\ x \notin D /\ x \in Block \ {Genesis} /\ x \in known
    BY <1>2, <1>4
  <2>2. Prev[x] \notin linked
    BY <2>1 DEF LinkInv, LinkShape
  <2>3. Prev[x] \in Block /\ Chain[x] = Chain[Prev[x]] \cup {x}
    BY <2>1, PathFacts
  <2>4. ASSUME Prev[x] \in D PROVE FALSE
    <3>1. b \in Chain[Prev[x]] /\ Chain[Prev[x]] \ Chain[b] \subseteq unlinked
      BY <2>4, PathFacts DEF Released
    <3>2. x \in Released(b)
      BY <2>1, <2>3, <3>1 DEF Released
    <3>3. QED
      BY <2>1, <3>2
  <2>5. QED
    BY <2>2, <2>4
<1>6. ASSUME NEW x \in unlinked' \cap linked'
      PROVE  x \in haveData' /\ \E m \in Chain[x] \ haveData' : Chain[x] \ Chain[m] \subseteq unlinked'
  <2>1. x \in unlinked /\ x \in linked /\ x \notin D /\ x \in Block /\ x \in known
    BY <1>2, <1>3, <1>4
  <2>2. PICK m \in Chain[x] \ haveData : Chain[x] \ Chain[m] \subseteq unlinked
    BY <2>1 DEF LinkInv, LinkShape
  <2>3. m \in Block /\ Chain[m] \subseteq Chain[x]
    BY <2>1, <2>2, PathFacts
  <2>4. ~(b \in Chain[x] /\ Chain[x] \ Chain[b] \subseteq unlinked)
    BY <2>1 DEF Released
  <2>5. m # b
    BY <2>2, <2>4
  <2>6. ASSUME NEW z \in Chain[x] \ Chain[m] PROVE z \notin D
    <3>1. SUFFICES ASSUME z \in D PROVE FALSE
      OBVIOUS
    <3>2. z \in unlinked /\ b \in Chain[z] /\ Chain[z] \ Chain[b] \subseteq unlinked
      BY <1>1, <2>2, <2>6, <3>1
    <3>3. z \in Block /\ Chain[m] \subseteq Chain[z] /\ Chain[z] \subseteq Chain[x]
      BY <2>1, <2>2, <2>6, Above, PathFacts
    <3>4. QED
      BY <2>2, <2>4, <3>2, <3>3
  <2>7. m \notin haveData' /\ Chain[x] \ Chain[m] \subseteq unlinked' /\ x \in haveData
    BY <2>1, <2>2, <2>5, <2>6 DEF Dequeued, LinkInv, LinkShape
  <2>8. QED
    BY <2>2, <2>7
<1>7. /\ Genesis \in linked' /\ linked' \subseteq received'
      /\ \A x \in linked' : Chain[x] \subseteq linked'
      /\ unlinked' \subseteq received' \ {Genesis}
  BY <1>1, <1>2 DEF LinkInv, LinkShape
<1>8. QED
  BY <1>5, <1>6, <1>7 DEF LinkShape

(* ... and when the block has to wait for it.                              *)
LEMMA WaitingBlockShape ==
  ASSUME Inv, LinkInv, NEW b \in Block \ {Genesis}, ~ParentLinked(b),
         received' = received \cup {b}, haveData' = haveData \cup {b},
         linked' = linked \ {b}, unlinked' = WaitForParent(b)
  PROVE  LinkShape' /\ linked' = linked
<1>1. b \notin linked
  BY PathFacts DEF ParentLinked, LinkInv, LinkShape
<1>2. linked' = linked /\ unlinked' \in {unlinked, unlinked \cup {b}}
  BY <1>1 DEF WaitForParent
<1>3. ASSUME NEW x \in unlinked' \ linked' PROVE Prev[x] \notin linked'
  BY <1>2 DEF ParentLinked, LinkInv, LinkShape
<1>4. ASSUME NEW x \in unlinked' \cap linked'
      PROVE  x \in haveData' /\ \E m \in Chain[x] \ haveData' : Chain[x] \ Chain[m] \subseteq unlinked'
  <2>1. x \in unlinked /\ x \in linked /\ Chain[x] \subseteq linked
    BY <1>1, <1>2 DEF LinkInv, LinkShape
  <2>2. PICK m \in Chain[x] \ haveData : Chain[x] \ Chain[m] \subseteq unlinked
    BY <2>1 DEF LinkInv, LinkShape
  <2>3. m # b /\ x \in haveData
    BY <1>1, <2>1 DEF LinkInv, LinkShape
  <2>4. QED
    BY <1>2, <2>2, <2>3
<1>5. QED
  BY <1>2, <1>3, <1>4 DEF LinkInv, LinkShape

LEMMA StoreLinks ==
  ASSUME Inv, LinkInv, NEW b \in Block \ {Genesis}, NEW t \in Thread, b \notin haveData,
         References', known \subseteq known', b \in known',
         StoreBlock(t, b), UNCHANGED <<tip, precious, activate, invalidate>>
  PROVE  LinkInv'
<1>1. /\ UNCHANGED scripts /\ Goto(t, "activate")
      /\ received' = received \cup {b} /\ haveData' = haveData \cup {b}
  BY DEF StoreBlock, ReceivedBlockTransactions
<1>2. \A u \in Thread : pc'[u] = pc[u] \/ pc'[u] \notin Activating
  BY <1>1, Moves DEF Inv, Activating, HoldsMain
<1>3. CASE ParentLinked(b)
  <2> DEFINE D == {b} \cup Released(b)
  <2>1. /\ linked' = linked \cup D /\ unlinked' = Dequeued(b, D)
        /\ \E f \in QueueOrders(D) : \E last \in D :
             /\ seq' = [x \in Block |-> IF x \in D THEN nextSeq + f[x] ELSE seq[x]]
             /\ nextSeq' = nextSeq + f[last] + 1
        /\ candidates' \subseteq candidates \cup D
    BY <1>3 DEF StoreBlock, ReceivedBlockTransactions
  <2> HIDE DEF D
  <2>2. LinkShape'
    BY <1>1, <1>3, <2>1, LinkedBlockShape DEF D
  <2>3. LinkUsed'
    BY <1>1, <1>2, <2>1, UsedKept DEF LinkInv, LinkUsed
  <2>4. Sequenced'
    <3>1. PICK f \in QueueOrders(D) : \E last \in D :
            /\ seq' = [x \in Block |-> IF x \in D THEN nextSeq + f[x] ELSE seq[x]]
            /\ nextSeq' = nextSeq + f[last] + 1
      BY <2>1
    <3>2. seq' \in [Block -> Int] /\ nextSeq' \in Nat
      <4>1. \A x \in D : f[x] \in Nat
        BY SMT DEF QueueOrders
      <4>2. QED
        BY <3>1, <4>1, SMT DEF LinkInv, Sequenced
    <3>3. \A x \in Block \ linked' : seq'[x] <= 0
      <4>1. \A x \in Block \ linked' : seq'[x] = seq[x] /\ x \notin linked
        BY <2>1, <3>1
      <4>2. QED
        BY <4>1 DEF LinkInv, Sequenced
    <3>4. QED
      BY <3>2, <3>3 DEF LinkInv, Sequenced
  <2>5. QED
    BY <2>2, <2>3, <2>4 DEF LinkInv
<1>4. CASE ~ParentLinked(b)
  <2>1. /\ linked' = linked \ {b} /\ unlinked' = WaitForParent(b)
        /\ UNCHANGED <<seq, nextSeq, candidates>>
    BY <1>4 DEF StoreBlock, ReceivedBlockTransactions
  <2>2. LinkShape' /\ linked' = linked
    BY <1>1, <1>4, <2>1, WaitingBlockShape
  <2>3. LinkUsed'
    BY <1>1, <1>2, <2>1, <2>2, UsedKept DEF LinkInv, LinkUsed
  <2>4. Sequenced'
    BY <2>1, <2>2 DEF LinkInv, Sequenced
  <2>5. QED
    BY <2>2, <2>3, <2>4 DEF LinkInv
<1>5. QED
  BY <1>3, <1>4

LEMMA BlockLinks ==
  ASSUME Inv, LinkInv, NEW b \in Block \ {Genesis}, NEW t \in Thread, NEW requested \in BOOLEAN,
         ProcessNewBlock(t, b, requested)
  PROVE  LinkInv'
<1>1. UNCHANGED <<tip, precious, activate, invalidate, rpcs>>
  BY DEF ProcessNewBlock
<1>2. /\ AddHeader(b) \/ UNCHANGED <<known, bestHeader>>
      /\ UNCHANGED bestInvalid
  BY DEF ProcessNewBlock, MarkDescendants
<1>3. References' /\ known \subseteq known'
  BY <1>1, <1>2, HeaderAdded
<1>4. CASE /\ UNCHANGED <<received, haveData, linked, scripts, choiceVars>>
           /\ pc' = pc \/ Goto(t, "activate")
  <2>1. UNCHANGED <<seq, nextSeq, candidates, unlinked>>
    BY <1>4 DEF choiceVars
  <2>2. \A u \in Thread : pc'[u] = pc[u] \/ pc'[u] \notin Activating
    BY <1>4, Moves DEF Inv, Activating, HoldsMain
  <2>3. LinkUsed'
    BY <1>1, <1>4, <2>1, <2>2, UsedKept DEF LinkInv, LinkUsed
  <2>4. LinkShape' /\ Sequenced'
    BY <1>1, <1>3, <1>4, <2>1 DEF LinkInv, LinkShape, Sequenced
  <2>5. QED
    BY <1>3, <2>3, <2>4 DEF LinkInv
<1>5. CASE b \notin haveData /\ b \in known' /\ StoreBlock(t, b)
  BY <1>1, <1>3, <1>5, StoreLinks
<1>6. QED
  BY <1>4, <1>5 DEF ProcessNewBlock, SkipBlock, RejectBody, Wanted, AddHeader
-----------------------------------------------------------------------------
(* ActivateBestChain.                                                      *)

LEMMA EnterLinks ==
  ASSUME Inv, LinkInv, NEW t \in Thread, ActivateEnter(t) \/ ActivateUnlock(t)
  PROVE  LinkInv'
<1>1. /\ UNCHANGED <<known, received, haveData, linked, scripts, bestHeader, bestInvalid, seq,
                     nextSeq, candidates, unlinked, tip, precious, invalidate, rpcs>>
      /\ \/ \E label \in {"lock", "idle"} : Goto(t, label) /\ activate' = NoActivate
         \/ pc[t] = "unlock" /\ Goto(t, "lock") /\ activate' = activate
  BY DEF ActivateEnter, ActivateUnlock, indexVars, failVars, choiceVars
<1>2. LinkShape' /\ Sequenced'
  BY <1>1, ShapeKept
<1>3. References'
  BY <1>1, SMT DEF LinkInv, References, NoActivate
<1>4. \A u \in Thread : pc'[u] \in Activating /\ activate'.mostWork # None =>
        pc[u] \in Activating /\ activate'.mostWork = activate.mostWork
  <2>1. CASE activate' = NoActivate
    BY <2>1 DEF NoActivate
  <2>2. CASE pc[t] = "unlock" /\ Goto(t, "lock") /\ activate' = activate
    BY <2>2, Moves DEF Inv, Activating, HoldsMain
  <2>3. QED
    BY <1>1, <2>1, <2>2
<1>5. LinkUsed'
  BY <1>1, <1>4 DEF LinkInv, LinkUsed
<1>6. QED
  BY <1>2, <1>3, <1>5 DEF LinkInv

LEMMA LockLinks ==
  ASSUME Inv, LinkInv, NEW t \in Thread, ActivateLock(t)
  PROVE  LinkInv'
<1>1. /\ UNCHANGED <<known, received, haveData, linked, scripts, bestHeader, bestInvalid, seq,
                     nextSeq, candidates, unlinked, tip, precious, invalidate, rpcs>>
      /\ pc[t] = "lock" /\ Goto(t, "find")
  BY DEF ActivateLock, indexVars, failVars, choiceVars
<1>2. activate' = [activate EXCEPT !.startTip = tip, !.oldTip = None]
  BY DEF ActivateLock
<1>3. LinkShape' /\ Sequenced'
  BY <1>1, ShapeKept
<1>4. References'
  <2>1. tip \in known
    BY DEF Inv, Typed
  <2>2. QED
    BY <1>1, <1>2, <2>1 DEF LinkInv, References
<1>5. activate'.mostWork = activate.mostWork
  BY <1>2 DEF Inv, Typed
<1>6. \A u \in Thread : pc'[u] \in Activating => pc[u] \in Activating
  BY <1>1, Moves DEF Inv, Activating, HoldsMain
<1>7. LinkUsed'
  BY <1>1, <1>5, <1>6 DEF LinkInv, LinkUsed
<1>8. QED
  BY <1>3, <1>4, <1>7 DEF LinkInv

(* What FindMostWorkChain puts back into m_blocks_unlinked is linked and   *)
(* lies above a block whose data is missing.                               *)
LEMMA RejectLinks ==
  ASSUME Inv, LinkInv, NEW t \in Thread, RejectCandidate(t)
  PROVE  LinkInv'
<1>1. UNCHANGED <<known, received, haveData, linked, scripts, bestHeader, seq, nextSeq, tip,
                  precious, pc, activate, invalidate, rpcs>>
  BY DEF RejectCandidate, indexVars
<1>2. PICK new \in candidates : \E bad \in Unusable(new) :
        /\ Unusable(new) \cap (Chain[new] \ Chain[bad]) = {}
        /\ candidates' \subseteq candidates
        /\ bestInvalid' \in {bestInvalid, new}
        /\ \/ UNCHANGED unlinked
           \/ ~Failed(bad) /\ unlinked' = unlinked \cup (Chain[new] \ Chain[bad])
  BY DEF RejectCandidate, Best, MoreInvalid
<1>3. PICK bad \in Unusable(new) :
        /\ Unusable(new) \cap (Chain[new] \ Chain[bad]) = {}
        /\ candidates' \subseteq candidates
        /\ bestInvalid' \in {bestInvalid, new}
        /\ \/ UNCHANGED unlinked
           \/ ~Failed(bad) /\ unlinked' = unlinked \cup (Chain[new] \ Chain[bad])
  BY <1>2
<1> DEFINE above == Chain[new] \ Chain[bad]
<1>4. new \in known /\ new \in Block /\ new \in linked /\ bad \in Chain[new] /\ bad \notin Chain[tip]
  BY DEF Unusable, Inv, Typed, LinkInv, LinkUsed
<1>5. References'
  BY <1>1, <1>3, <1>4 DEF LinkInv, References
<1>6. Sequenced'
  BY <1>1 DEF LinkInv, Sequenced
<1>7. LinkUsed'
  BY <1>1, <1>3 DEF LinkInv, LinkUsed
<1>8. LinkShape'
  <2>1. CASE UNCHANGED unlinked
    BY <1>1, <2>1 DEF LinkInv, LinkShape
  <2>2. CASE ~Failed(bad) /\ unlinked' = unlinked \cup above
    <3>1. above \cap Chain[tip] = {}
      BY <1>4, AboveAvoided DEF Inv, Typed
    <3>2. above \subseteq haveData /\ bad \notin haveData
      BY <1>3, <2>2, <3>1 DEF Unusable
    <3>3. above \subseteq linked /\ above \subseteq received \ {Genesis}
      <4>1. Genesis \in Chain[bad]
        BY <1>4, PathFacts
      <4>2. QED
        BY <1>4, <4>1 DEF LinkInv, LinkShape
    <3>4. ASSUME NEW x \in above
          PROVE  bad \in Chain[x] \ haveData /\ Chain[x] \ Chain[bad] \subseteq unlinked'
      BY <1>4, <2>2, <3>2, Above, PathFacts
    <3>5. ASSUME NEW x \in unlinked' \cap linked'
          PROVE  /\ x \in haveData
                 /\ \E m \in Chain[x] \ haveData : Chain[x] \ Chain[m] \subseteq unlinked'
      <4>1. CASE x \in above
        BY <3>2, <3>4, <4>1
      <4>2. CASE x \in unlinked
        <5>1. PICK m \in Chain[x] \ haveData : Chain[x] \ Chain[m] \subseteq unlinked
          BY <1>1, <4>2 DEF LinkInv, LinkShape
        <5>2. QED
          BY <1>1, <2>2, <4>2, <5>1 DEF LinkInv, LinkShape
      <4>3. QED
        BY <2>2, <4>1, <4>2
    <3>6. QED
      BY <1>1, <2>2, <3>3, <3>5 DEF LinkInv, LinkShape
  <2>3. QED
    BY <1>3, <2>1, <2>2
<1>9. QED
  BY <1>5, <1>6, <1>7, <1>8 DEF LinkInv

LEMMA FindLinks ==
  ASSUME Inv, LinkInv, NEW t \in Thread, FindMostWorkChain(t)
  PROVE  LinkInv'
<1>1. /\ UNCHANGED <<known, received, haveData, linked, scripts, bestHeader, bestInvalid, seq,
                     nextSeq, candidates, unlinked, tip, precious, invalidate, rpcs>>
      /\ pc[t] = "find"
  BY DEF FindMostWorkChain, indexVars, failVars, choiceVars
<1>2. PICK most :
        /\ most = activate.mostWork \/ most \in candidates
        /\ \/ activate' = [activate EXCEPT !.mostWork = most] /\ Goto(t, "unlock")
           \/ /\ activate' = [activate EXCEPT !.mostWork = most, !.oldTip = tip]
              /\ Goto(t, "disconnect")
  BY DEF FindMostWorkChain, Best
<1>3. LinkShape' /\ Sequenced'
  BY <1>1, ShapeKept
<1>4. most \in known \cup {None} /\ (most # None => most \in linked) /\ tip \in known
  BY <1>1, <1>2 DEF LinkInv, LinkUsed, References, Activating, HoldsMain, Inv, Typed
<1>5. References' /\ activate'.mostWork = most
  BY <1>1, <1>2, <1>4 DEF LinkInv, References
<1>6. LinkUsed'
  BY <1>1, <1>4, <1>5 DEF LinkInv, LinkUsed
<1>7. QED
  BY <1>3, <1>5, <1>6 DEF LinkInv

LEMMA DisconnectLinks ==
  ASSUME Inv, LinkInv, NEW t \in Thread, DisconnectTip(t)
  PROVE  LinkInv'
<1>1. /\ UNCHANGED <<known, received, haveData, linked, scripts, bestHeader, bestInvalid, seq,
                     nextSeq, candidates, unlinked, precious, activate, invalidate, rpcs>>
      /\ pc[t] = "disconnect"
  BY DEF DisconnectTip, indexVars, failVars, choiceVars
<1>2. /\ tip' = tip \/ (tip \notin Chain[activate.mostWork] /\ tip' = Prev[tip])
      /\ pc' = pc \/ \E label \in {"connect", "aborted"} : Goto(t, label)
  BY DEF DisconnectTip
<1>3. tip' \in linked
  <2>1. activate.mostWork \in Block /\ tip \in Block /\ tip \in linked
    BY <1>1 DEF Inv, TargetUsable, Typed, LinkInv, LinkUsed
  <2>2. tip # Genesis => Prev[tip] \in Chain[tip]
    BY <2>1, PathFacts
  <2>3. tip' = tip \/ (tip # Genesis /\ tip' = Prev[tip])
    BY <1>2, <2>1, PathFacts
  <2>4. QED
    BY <2>1, <2>2, <2>3 DEF LinkInv, LinkShape
<1>4. LinkShape' /\ Sequenced'
  BY <1>1, ShapeKept
<1>5. References'
  BY <1>1 DEF LinkInv, References
<1>6. \A u \in Thread : pc'[u] \in Activating => pc[u] \in Activating
  BY <1>1, <1>2, Moves DEF Inv, Activating, HoldsMain
<1>7. LinkUsed'
  BY <1>1, <1>3, <1>6 DEF LinkInv, LinkUsed
<1>8. QED
  BY <1>4, <1>5, <1>7 DEF LinkInv

(* The next block to connect is linked, as the block worked towards is.    *)
LEMMA NextLinked ==
  ASSUME Inv, LinkInv, NEW t \in Thread, pc[t] = "connect", NEW next \in NextToConnect
  PROVE  next \in linked /\ next \in known \ {Genesis} /\ Prev[next] = tip
<1>1. activate.mostWork \in linked
  BY DEF Inv, TargetUsable, LinkInv, LinkUsed, Activating, HoldsMain
<1>2. next \in Chain[activate.mostWork] \ {Genesis} /\ Prev[next] = tip
  BY DEF NextToConnect
<1>3. QED
  BY <1>1, <1>2 DEF LinkInv, LinkShape, Inv, Typed

LEMMA DoneReferences ==
  ASSUME LinkInv, NEW t \in Thread, NEW most \in known \cup {None}, tip' \in known,
         StepDone(t, most), UNCHANGED <<known, rpcs, invalidate>>,
         bestInvalid' \in known \cup {None}, bestHeader' \in known
  PROVE  References' /\ activate'.mostWork = most
<1>1. activate' = [activate EXCEPT !.mostWork = most, !.newTip = tip']
  BY DEF StepDone
<1>2. QED
  BY <1>1 DEF LinkInv, References

LEMMA ConnectLinks ==
  ASSUME Inv, LinkInv, NEW t \in Thread, ConnectTip(t)
  PROVE  LinkInv'
<1>1. /\ UNCHANGED <<known, received, haveData, linked, bestHeader, bestInvalid, seq,
                     nextSeq, unlinked, precious, invalidate, rpcs>>
      /\ pc[t] = "connect"
  BY DEF ConnectTip, failVars
<1>2. PICK next \in NextToConnect :
        /\ candidates' \subseteq candidates
        /\ \/ /\ tip' = next /\ scripts' \subseteq scripts \cup {next}
              /\ StepDone(t, activate.mostWork) \/ UNCHANGED <<pc, activate>>
           \/ Goto(t, "aborted") /\ UNCHANGED <<tip, scripts, activate>>
  BY DEF ConnectTip, PruneBlockIndexCandidates
<1>3. next \in linked /\ next \in known
  BY <1>1, NextLinked
<1>4. LinkShape' /\ Sequenced'
  BY <1>1, ShapeKept
<1>5. References' /\ activate'.mostWork = activate.mostWork
  <2>1. CASE UNCHANGED activate
    BY <1>1, <2>1 DEF LinkInv, References
  <2>2. CASE tip' = next /\ StepDone(t, activate.mostWork)
    BY <1>1, <1>3, <2>2, DoneReferences DEF LinkInv, References
  <2>3. QED
    BY <1>2, <2>1, <2>2
<1>6. \A u \in Thread : pc'[u] \in Activating => pc[u] \in Activating
  BY <1>1, <1>2, Moves DEF StepDone, Inv, Activating, HoldsMain
<1>7. scripts' \cup candidates' \cup {tip'} \subseteq linked
  BY <1>2, <1>3 DEF LinkInv, LinkUsed
<1>8. LinkUsed'
  BY <1>1, <1>5, <1>6, <1>7 DEF LinkInv, LinkUsed
<1>9. QED
  BY <1>4, <1>5, <1>8 DEF LinkInv

LEMMA ConnectFailsLinks ==
  ASSUME Inv, LinkInv, NEW t \in Thread, ConnectTipFails(t)
  PROVE  LinkInv'
<1>1. /\ UNCHANGED <<known, received, haveData, linked, scripts, seq, nextSeq, unlinked, tip,
                     precious, invalidate, rpcs>>
      /\ pc[t] = "connect" /\ StepDone(t, None)
  BY DEF ConnectTipFails
<1>2. PICK next \in NextToConnect :
        /\ candidates' \subseteq candidates
        /\ bestInvalid' \in {bestInvalid, next, activate.mostWork}
        /\ bestHeader' \in {tip, bestHeader}
  BY DEF ConnectTipFails, MoreInvalid
<1>3. next \in known /\ tip \in known
  BY <1>1, NextLinked DEF Inv, Typed
<1>4. LinkShape' /\ Sequenced'
  BY <1>1, ShapeKept
<1>5. References' /\ activate'.mostWork = None
  <2>1. bestInvalid' \in known \cup {None} /\ bestHeader' \in known
    BY <1>2, <1>3 DEF LinkInv, References
  <2>2. QED
    BY <1>1, <1>3, <2>1, DoneReferences
<1>6. LinkUsed'
  BY <1>1, <1>2, <1>5 DEF LinkInv, LinkUsed
<1>7. QED
  BY <1>4, <1>5, <1>6 DEF LinkInv
-----------------------------------------------------------------------------
(* The commands.                                                           *)

LEMMA Counted ==
  ASSUME LinkInv, NEW name, Command(name)
  PROVE  rpcs' \in 0 .. MaxRpc
  BY TreeAssumption, SMT DEF Command, LinkInv, References

LEMMA InvalidateStartLinks ==
  ASSUME Inv, LinkInv, NEW t \in Thread, NEW b \in RpcTarget, InvalidateStart(t, b)
  PROVE  LinkInv'
<1>1. /\ UNCHANGED <<known, received, haveData, linked, scripts, bestHeader, bestInvalid, seq,
                     nextSeq, candidates, unlinked, tip, precious, activate>>
      /\ Goto(t, "invalidate") /\ b \in known /\ Command("invalidate")
  BY DEF InvalidateStart, indexVars, failVars, choiceVars
<1>2. PICK S \in SUBSET linked : invalidate' = [pindex |-> b, toMark |-> b, byWork |-> S]
  <2>1. {x \in known \ Chain[tip] :
           ~Worse(x, Prev[b]) /\ ValidTransactions(x) /\ x \in linked} \in SUBSET linked
    OBVIOUS
  <2>2. QED
    BY <2>1 DEF InvalidateStart
<1>3. LinkShape' /\ Sequenced'
  BY <1>1, ShapeKept
<1>4. References'
  BY <1>1, <1>2, Counted DEF LinkInv, References
<1>5. \A u \in Thread : pc'[u] = pc[u] \/ pc'[u] \notin Activating
  BY <1>1, Moves DEF Inv, Activating, HoldsMain
<1>6. LinkUsed'
  BY <1>1, <1>2, <1>5, UsedKept DEF LinkInv, LinkUsed
<1>7. QED
  BY <1>3, <1>4, <1>6 DEF LinkInv

LEMMA InvalidateStepLinks ==
  ASSUME Inv, LinkInv, NEW t \in Thread, InvalidateStep(t)
  PROVE  LinkInv'
<1>1. /\ UNCHANGED <<known, received, haveData, linked, scripts, bestHeader, bestInvalid, seq,
                     nextSeq, unlinked, precious, activate, rpcs>>
      /\ pc[t] = "invalidate"
  BY DEF InvalidateStep, indexVars
<1>2. LinkShape' /\ Sequenced'
  BY <1>1, ShapeKept
<1>3. CASE ~(invalidate.pindex \in Chain[tip] /\ tip \in haveData)
  <2>1. /\ UNCHANGED <<tip, candidates>>
        /\ invalidate' \in {invalidate, NoInvalidate}
        /\ \E label \in {"markInvalid", "activate"} : Goto(t, label)
    BY <1>3 DEF InvalidateStep
  <2>2. \A u \in Thread : pc'[u] = pc[u] \/ pc'[u] \notin Activating
    BY <2>1, Moves DEF Inv, Activating, HoldsMain
  <2>3. /\ invalidate'.byWork \subseteq linked
        /\ invalidate'.pindex \in known \cup {None} /\ invalidate'.toMark \in known \cup {None}
    <3>1. CASE invalidate' = invalidate
      BY <3>1 DEF LinkInv, LinkUsed, References
    <3>2. CASE invalidate' = NoInvalidate
      BY <3>2 DEF NoInvalidate
    <3>3. QED
      BY <2>1, <3>1, <3>2
  <2>4. LinkUsed'
    BY <1>1, <2>1, <2>2, <2>3, UsedKept DEF LinkInv, LinkUsed
  <2>5. References'
    BY <1>1, <2>3 DEF LinkInv, References
  <2>6. QED
    BY <1>2, <2>4, <2>5 DEF LinkInv
<1>4. CASE invalidate.pindex \in Chain[tip] /\ tip \in haveData
  <2>1. /\ tip' = Prev[tip] /\ tip \in known /\ tip' \in Chain[tip]
        /\ candidates' \subseteq candidates \cup {tip'} \cup invalidate.byWork
    BY <1>4, Disconnects, PathFacts DEF Inv, Typed
  <2>2. PICK S : invalidate' = [invalidate EXCEPT !.toMark = tip, !.byWork = @ \ S]
    BY <1>4, Disconnects
  <2>3. /\ invalidate'.toMark = tip /\ invalidate'.pindex = invalidate.pindex
        /\ invalidate'.byWork \subseteq invalidate.byWork /\ pc' = pc
    BY <1>4, <2>2 DEF Inv, Typed, InvalidateStep
  <2>4. tip' \in linked
    BY <2>1 DEF LinkInv, LinkShape, LinkUsed
  <2>5. LinkUsed'
    BY <1>1, <2>1, <2>3, <2>4 DEF LinkInv, LinkUsed
  <2>6. References'
    BY <1>1, <2>1, <2>3 DEF LinkInv, References
  <2>7. QED
    BY <1>2, <2>5, <2>6 DEF LinkInv
<1>5. QED
  BY <1>3, <1>4

LEMMA InvalidateFinishLinks ==
  ASSUME Inv, LinkInv, NEW t \in Thread, InvalidateFinish(t)
  PROVE  LinkInv'
<1>1. /\ UNCHANGED <<known, received, haveData, linked, scripts, seq, nextSeq, unlinked, tip,
                     precious, activate, rpcs>>
      /\ pc[t] = "markInvalid" /\ invalidate' = NoInvalidate /\ Goto(t, "activate")
  BY DEF InvalidateFinish
<1>2. invalidate.toMark \in known /\ invalidate.toMark \notin Chain[tip] /\ tip \in known
  BY <1>1 DEF Inv, InvalidateKnows, Invalidating, Typed
<1>3. /\ candidates' \subseteq candidates \cup linked
      /\ bestInvalid' \in {bestInvalid, invalidate.toMark}
      /\ bestHeader' \in {tip, bestHeader}
  BY <1>2 DEF InvalidateFinish, MissedCandidates, MoreInvalid
<1>4. LinkShape' /\ Sequenced'
  BY <1>1, ShapeKept
<1>5. References'
  BY <1>1, <1>2, <1>3 DEF LinkInv, References, NoInvalidate
<1>6. \A u \in Thread : pc'[u] = pc[u] \/ pc'[u] \notin Activating
  BY <1>1, Moves DEF Inv, Activating, HoldsMain
<1>7. candidates' \subseteq linked' /\ invalidate'.byWork \subseteq linked'
  BY <1>1, <1>3 DEF LinkInv, LinkUsed, NoInvalidate
<1>8. LinkUsed'
  BY <1>1, <1>6, <1>7, UsedKept
<1>9. QED
  BY <1>4, <1>5, <1>8 DEF LinkInv

LEMMA ResetLinks ==
  ASSUME Inv, LinkInv, NEW t \in Thread, NEW b \in RpcTarget, ResetBlockFailureFlags(t, b)
  PROVE  LinkInv'
<1>1. /\ UNCHANGED <<known, received, haveData, linked, scripts, bestHeader, seq, nextSeq,
                     unlinked, tip, precious, activate, invalidate>>
      /\ Goto(t, "activate") /\ Command("reconsider")
      /\ bestInvalid' \in {None, bestInvalid} /\ candidates' \subseteq candidates \cup linked
  BY DEF ResetBlockFailureFlags, indexVars, Reconsidered
<1>2. LinkShape' /\ Sequenced'
  BY <1>1, ShapeKept
<1>3. References'
  BY <1>1, Counted DEF LinkInv, References
<1>4. \A u \in Thread : pc'[u] = pc[u] \/ pc'[u] \notin Activating
  BY <1>1, Moves DEF Inv, Activating, HoldsMain
<1>5. LinkUsed'
  BY <1>1, <1>4, UsedKept DEF LinkInv, LinkUsed
<1>6. QED
  BY <1>2, <1>3, <1>5 DEF LinkInv

(* The sequence ids that PreciousBlock gives out are negative.             *)
LEMMA PreciousLinks ==
  ASSUME Inv, LinkInv, NEW t \in Thread, NEW b \in RpcTarget, PreciousBlock(t, b)
  PROVE  LinkInv'
<1>1. /\ UNCHANGED <<known, received, haveData, linked, scripts, bestHeader, bestInvalid, nextSeq,
                     unlinked, tip, activate, invalidate>>
      /\ Goto(t, "activate") /\ Command("precious") /\ b \in known
      /\ candidates' \subseteq candidates \cup linked
  BY DEF PreciousBlock, indexVars, failVars
<1>2. LinkShape'
  BY <1>1 DEF LinkInv, LinkShape
<1>3. PICK reverse \in {-1, precious.reverse} :
        /\ precious' = [reverse |-> reverse - 1, lastWork |-> ChainWork[tip]]
        /\ seq' = [seq EXCEPT ![b] = reverse]
  BY DEF PreciousBlock
<1>4. reverse \in Int /\ reverse < 0
  BY <1>3, SMT DEF LinkInv, Sequenced
<1>5. Sequenced'
  <2>1. ChainWork[tip] \in Nat
    BY WorkAssumption DEF Inv, Typed
  <2>2. precious' \in [reverse : Int, lastWork : Nat] /\ precious'.reverse < 0
    BY <1>3, <1>4, <2>1, SMT
  <2>3. seq' \in [Block -> Int] /\ \A x \in Block \ linked : seq'[x] <= 0
    <3>1. seq \in [Block -> Int] /\ \A x \in Block \ linked : seq[x] <= 0
      BY DEF LinkInv, Sequenced
    <3>2. seq' \in [Block -> Int] /\ \A x \in Block : seq'[x] \in {seq[x], reverse}
      BY <1>3, <1>4, <3>1
    <3>3. reverse <= 0
      BY <1>4, SMT
    <3>4. QED
      BY <3>1, <3>2, <3>3
  <2>4. QED
    BY <1>1, <2>2, <2>3 DEF LinkInv, Sequenced
<1>6. References'
  BY <1>1, Counted DEF LinkInv, References
<1>7. \A u \in Thread : pc'[u] = pc[u] \/ pc'[u] \notin Activating
  BY <1>1, Moves DEF Inv, Activating, HoldsMain
<1>8. LinkUsed'
  BY <1>1, <1>7, UsedKept DEF LinkInv, LinkUsed
<1>9. QED
  BY <1>2, <1>5, <1>6, <1>8 DEF LinkInv

(* A block that waits above the one whose data goes waits on.              *)
LEMMA PruneLinks ==
  ASSUME Inv, LinkInv, NEW b \in Block, PruneOneBlockFile(b)
  PROVE  LinkInv'
<1>1. /\ UNCHANGED <<known, received, linked, scripts, bestHeader, bestInvalid, seq, nextSeq,
                     candidates, tip, precious, pc, activate, invalidate>>
      /\ haveData' = haveData \ {b} /\ unlinked' = unlinked \ {b} /\ Command("prune")
  BY DEF PruneOneBlockFile, failVars
<1>2. ASSUME NEW x \in unlinked' \cap linked'
      PROVE  x \in haveData' /\ \E m \in Chain[x] \ haveData' : Chain[x] \ Chain[m] \subseteq unlinked'
  <2>1. x \in unlinked /\ x \in linked /\ x # b /\ x \in haveData
    BY <1>1 DEF LinkInv, LinkShape
  <2>2. x \in Block
    BY <2>1 DEF LinkInv, LinkShape, Inv, Typed
  <2>3. PICK m \in Chain[x] \ haveData : Chain[x] \ Chain[m] \subseteq unlinked
    BY <2>1 DEF LinkInv, LinkShape
  <2>4. CASE b \in Chain[x] \ Chain[m]
    <3>1. Chain[m] \subseteq Chain[b] /\ b \in Chain[b]
      BY <2>2, <2>3, <2>4, Above, PathFacts
    <3>2. Chain[x] \ Chain[b] \subseteq unlinked'
      BY <1>1, <2>3, <3>1
    <3>3. QED
      BY <1>1, <2>1, <2>4, <3>2
  <2>5. CASE b \notin Chain[x] \ Chain[m]
    BY <1>1, <2>1, <2>3, <2>5
  <2>6. QED
    BY <2>4, <2>5
<1>3. LinkShape'
  BY <1>1, <1>2 DEF LinkInv, LinkShape
<1>4. LinkUsed' /\ Sequenced'
  BY <1>1 DEF LinkInv, LinkUsed, Sequenced
<1>5. References'
  BY <1>1, Counted DEF LinkInv, References
<1>6. QED
  BY <1>3, <1>4, <1>5 DEF LinkInv

(* LoadBlockIndex links every block whose whole path was received, and so  *)
(* all that were linked before.                                            *)
LEMMA RestartLinks ==
  ASSUME Inv, LinkInv, NEW t \in Thread, Restart(t)
  PROVE  LinkInv'
<1>1. /\ UNCHANGED <<known, received, haveData, scripts, failedValid, tip>>
      /\ linked' = LoadedLinked
      /\ unlinked' = {x \in received \ {Genesis} : Prev[x] \notin linked'}
      /\ seq' = [b \in Block |-> 0] /\ nextSeq' = 1
      /\ precious' = [reverse |-> -1, lastWork |-> 0]
      /\ activate' = NoActivate /\ invalidate' = NoInvalidate
      /\ candidates' \subseteq linked' /\ Command("restart")
      /\ bestInvalid' \in {None} \cup failedValid \cup failedChild'
      /\ failedChild' \subseteq failedChild \cup known
      /\ bestHeader' \in known
  BY DEF Restart, LoadedCandidates, Best
<1>2. received \subseteq Block /\ \A x \in received : x \in Chain[x] /\ Chain[x] \subseteq Block
  BY PathFacts DEF Inv, Typed
<1>3. linked \subseteq linked' /\ Genesis \in linked' /\ linked' \subseteq received
  BY <1>1, PathAssumption DEF LoadedLinked, LinkInv, LinkShape
<1>4. \A x \in linked' : Chain[x] \subseteq linked'
  BY <1>1, <1>2, PathFacts DEF LoadedLinked
<1>5. \A x \in unlinked' : Prev[x] \notin linked' /\ x \notin linked'
  <2>1. ASSUME NEW x \in unlinked', x \in linked' PROVE FALSE
    <3>1. x \in Block \ {Genesis} /\ Prev[x] \notin linked'
      BY <1>1, <1>2, <2>1
    <3>2. Prev[x] \in Chain[x]
      BY <3>1, ParentOnPath
    <3>3. QED
      BY <1>4, <2>1, <3>1, <3>2
  <2>2. QED
    BY <1>1, <2>1
<1>6. LinkShape'
  BY <1>1, <1>3, <1>4, <1>5 DEF LinkShape
<1>7. LinkUsed'
  <2>1. scripts' \cup candidates' \cup {tip'} \cup invalidate'.byWork \subseteq linked'
    BY <1>1, <1>3 DEF LinkInv, LinkUsed, NoInvalidate
  <2>2. QED
    BY <1>1, <2>1 DEF LinkUsed, NoActivate
<1>8. Sequenced'
  BY <1>1, SMT DEF Sequenced
<1>9. References'
  <2>1. bestInvalid' \in known \cup {None}
    BY <1>1 DEF Inv, Typed, Marked
  <2>2. QED
    BY <1>1, <2>1, Counted DEF References, NoActivate, NoInvalidate
<1>10. QED
  BY <1>6, <1>7, <1>8, <1>9 DEF LinkInv
-----------------------------------------------------------------------------
LEMMA LinkNext == Inv /\ LinkInv /\ [Next]_vars => LinkInv'
<1> SUFFICES ASSUME Inv, LinkInv, [Next]_vars PROVE LinkInv'
  OBVIOUS
<1>1. ASSUME NEW b \in Block \ {Genesis}, AcceptBlockHeader(b) PROVE LinkInv'
  BY <1>1, HeaderLinks
<1>2. ASSUME NEW b \in Block \ {Genesis}, NEW t \in Thread, NEW requested \in BOOLEAN,
             ProcessNewBlock(t, b, requested)
      PROVE  LinkInv'
  BY <1>2, BlockLinks
<1>3. ASSUME NEW t \in Thread, ActivateEnter(t) \/ ActivateStep(t) PROVE LinkInv'
  BY <1>3, EnterLinks, LockLinks, RejectLinks, FindLinks, DisconnectLinks, ConnectLinks,
     ConnectFailsLinks DEF ActivateStep
<1>4. ASSUME NEW t \in Thread, InvalidateNext(t) PROVE LinkInv'
  BY <1>4, InvalidateStepLinks, InvalidateFinishLinks DEF InvalidateNext
<1>5. ASSUME NEW b \in RpcTarget, NEW t \in Thread,
             InvalidateStart(t, b) \/ ResetBlockFailureFlags(t, b) \/ PreciousBlock(t, b)
      PROVE  LinkInv'
  BY <1>5, InvalidateStartLinks, ResetLinks, PreciousLinks
<1>6. ASSUME NEW b \in Block, PruneOneBlockFile(b) PROVE LinkInv'
  BY <1>6, PruneLinks
<1>7. ASSUME NEW t \in Thread, Restart(t) PROVE LinkInv'
  BY <1>7, RestartLinks
<1>8. ASSUME UNCHANGED vars PROVE LinkInv'
  <2>1. /\ UNCHANGED <<known, received, haveData, linked, scripts, bestHeader, bestInvalid, seq>>
        /\ UNCHANGED <<nextSeq, candidates, unlinked, tip, precious, pc, activate, invalidate, rpcs>>
    BY <1>8 DEF vars, indexVars, failVars, choiceVars
  <2>2. LinkShape' /\ Sequenced'
    BY <2>1, ShapeKept
  <2>3. LinkUsed' /\ References'
    BY <2>1 DEF LinkInv, LinkUsed, References
  <2>4. QED
    BY <2>2, <2>3 DEF LinkInv
<1>9. QED
  BY <1>1, <1>2, <1>3, <1>4, <1>5, <1>6, <1>7, <1>8 DEF Next

LEMMA LinkInvariance == Spec => [](Inv /\ LinkInv)
<1>1. Inv /\ [Next]_vars => Inv'
  BY NextInv, StutterInv
<1>2. QED
  BY InitInv, LinkInit, <1>1, LinkNext, PTL DEF Spec

(* UnlinkedSound is about blocks that wait for their parent, and for data  *)
(* that pruning removed; LinkShape says both.                              *)
LEMMA ShapeIsSound ==
  ASSUME Inv, LinkInv
  PROVE  UnlinkedSound
<1>1. SUFFICES ASSUME NEW b \in unlinked
               PROVE  IF b \in linked THEN b \in haveData /\ ~(Chain[b] \subseteq haveData)
                      ELSE b \in received /\ Prev[b] \notin linked
  BY DEF UnlinkedSound
<1>2. CASE b \in linked
  BY <1>2 DEF LinkInv, LinkShape
<1>3. CASE b \notin linked
  BY <1>3 DEF LinkInv, LinkShape
<1>4. QED
  BY <1>2, <1>3

LEMMA InvIsTypeOK ==
  ASSUME Inv, LinkInv
  PROVE  TypeOK
<1>1. /\ haveData \subseteq received /\ received \subseteq known /\ known \subseteq Block
      /\ linked \subseteq received /\ scripts \subseteq linked
      /\ failedValid \cup failedChild \cup candidates \cup unlinked \subseteq known
      /\ tip \in known
      /\ pc \in [Thread -> HoldsChainMutex \cup {"idle", "activate", "aborted"}]
  BY DEF Inv, Typed, LinkInv, LinkShape, LinkUsed, Marked
<1>2. /\ bestInvalid \in known \cup {None} /\ bestHeader \in known
      /\ seq \in [Block -> Int] /\ nextSeq \in Nat /\ rpcs \in 0 .. MaxRpc
      /\ precious \in [reverse : Int, lastWork : Nat]
  BY DEF LinkInv, Sequenced, References
<1>3. /\ DOMAIN activate = DOMAIN NoActivate
      /\ \A f \in DOMAIN activate : activate[f] \in known \cup {None}
  BY SMT DEF LinkInv, References, NoActivate
<1>4. invalidate \in [pindex : known \cup {None}, toMark : known \cup {None}, byWork : SUBSET known]
  BY SMT DEF Inv, Typed, LinkInv, References
<1>5. QED
  BY <1>1, <1>2, <1>3, <1>4 DEF TypeOK

(* Candidates never rest on a gap (FindMostWorkChain's assertion), a block *)
(* that waits has something to wait for, and the links are well-formed,    *)
(* whatever the commands.                                                  *)
THEOREM IndexAlwaysSound == Spec => [](TypeOK /\ CandidatesLinked /\ UnlinkedSound)
<1>1. Inv /\ LinkInv => TypeOK /\ CandidatesLinked /\ UnlinkedSound
  BY InvIsTypeOK, ShapeIsSound DEF LinkInv, LinkShape, LinkUsed, CandidatesLinked
<1>2. QED
  BY <1>1, LinkInvariance, PTL
-----------------------------------------------------------------------------
(* While no mark is taken back, a block whose body came before its         *)
(* parent's waits in m_blocks_unlinked; and one that is not linked has an  *)
(* ancestor that is not linked either and whose body is missing.           *)
GapBelow ==
  \A x \in haveData \ linked : Chain[x] \cap failedValid = {} =>
    \E y \in Chain[x] : y \notin haveData /\ y \notin linked

Waiting == UnlinkedComplete /\ GapBelow

LEMMA WaitingKept ==
  ASSUME Waiting, haveData' \subseteq haveData, linked' = linked,
         failedValid \subseteq failedValid', unlinked \subseteq unlinked'
  PROVE  Waiting'
  BY DEF Waiting, UnlinkedComplete, GapBelow

(* The body of b links the blocks that wait above it.  If one above b is   *)
(* not linked, some block between them does not wait.                      *)
LEMMA GapAbove ==
  ASSUME Inv, LinkInv, Waiting, NEW b \in Block \ {Genesis}, NEW x \in known,
         Chain[x] \cap failedValid = {}, NEW y \in Chain[x], y \notin linked,
         y \in {b} \cup Released(b), x \notin Released(b)
  PROVE  \E z \in Chain[x] : z \notin haveData \cup linked \cup {b} \cup Released(b)
<1>1. x \in Block /\ y \in Block /\ b \in Chain[y] /\ Chain[y] \subseteq Chain[x]
  BY PathFacts DEF Inv, Typed, Released
<1>2. PICK z \in Chain[x] \ Chain[b] : z \notin unlinked
  BY <1>1 DEF Released
<1>3. z \in Block /\ z \in Chain[z] /\ Chain[z] \subseteq Chain[x] /\ b \in Chain[b]
  BY <1>1, PathFacts
<1>4. z \notin Chain[y]
  <2>1. CASE y = b
    BY <1>2, <2>1
  <2>2. CASE y \in Released(b)
    BY <1>2, <2>2 DEF Released
  <2>3. QED
    BY <2>1, <2>2
<1>5. y \in Chain[z]
  <2>1. \A u, v \in Chain[x] : u \in Chain[v] \/ v \in Chain[u]
    BY <1>1, PathAssumption
  <2>2. QED
    BY <1>2, <1>4, <2>1
<1>6. z \notin linked
  BY <1>5 DEF LinkInv, LinkShape
<1>7. z \notin haveData
  <2>1. Chain[z] \cap failedValid = {}
    BY <1>3
  <2>2. QED
    BY <1>2, <1>6, <2>1 DEF Waiting, UnlinkedComplete
<1>8. z \notin {b} \cup Released(b)
  BY <1>2, <1>3 DEF Released
<1>9. QED
  BY <1>6, <1>7, <1>8

LEMMA WaitingStored ==
  ASSUME Inv, LinkInv, Caused, Waiting, NEW b \in Block \ {Genesis}, NEW t \in Thread,
         StoreBlock(t, b)
  PROVE  Waiting'
<1>1. /\ UNCHANGED failedValid
      /\ received' = received \cup {b} /\ haveData' = haveData \cup {b}
  BY DEF StoreBlock, ReceivedBlockTransactions
<1>2. haveData \subseteq known
  BY DEF Inv, Typed
<1>3. CASE ParentLinked(b)
  <2>1. /\ linked' = linked \cup {b} \cup Released(b)
        /\ unlinked' = unlinked \ (({b} \cup Released(b)) \ {b})
    BY <1>3 DEF StoreBlock, ReceivedBlockTransactions, Dequeued
  <2>2. UnlinkedComplete'
    BY <1>1, <2>1 DEF Waiting, UnlinkedComplete
  <2>3. ASSUME NEW x \in haveData' \ linked', Chain[x] \cap failedValid = {}
        PROVE  \E y \in Chain[x] : y \notin haveData' /\ y \notin linked'
    <3>1. x \in known /\ x \in haveData \ linked /\ x \notin Released(b)
      BY <1>1, <1>2, <2>1, <2>3
    <3>2. PICK y \in Chain[x] : y \notin haveData /\ y \notin linked
      BY <2>3, <3>1 DEF Waiting, GapBelow
    <3>3. CASE y \notin {b} \cup Released(b)
      BY <1>1, <2>1, <3>2, <3>3
    <3>4. CASE y \in {b} \cup Released(b)
      <4>1. PICK z \in Chain[x] : z \notin haveData \cup linked \cup {b} \cup Released(b)
        BY <2>3, <3>1, <3>2, <3>4, GapAbove
      <4>2. QED
        BY <1>1, <2>1, <4>1
    <3>5. QED
      BY <3>3, <3>4
  <2>4. QED
    BY <1>1, <2>2, <2>3 DEF Waiting, GapBelow
<1>4. CASE ~ParentLinked(b)
  <2>1. linked' = linked \ {b} /\ unlinked' = WaitForParent(b)
    BY <1>4 DEF StoreBlock, ReceivedBlockTransactions
  <2>2. linked' = linked
    BY <1>1, <1>4, <2>1, WaitingBlockShape
  <2>3. Chain[b] = Chain[Prev[b]] \cup {b} /\ b \notin Chain[Prev[b]]
    BY PathFacts
  <2>4. UnlinkedComplete'
    <3>1. Prev[b] \in Marked => Chain[b] \cap failedValid # {}
      BY <2>3 DEF Caused
    <3>2. unlinked \subseteq unlinked' /\ (Chain[b] \cap failedValid = {} => b \in unlinked')
      BY <2>1, <3>1 DEF WaitForParent, Failed, Marked
    <3>3. QED
      BY <1>1, <2>2, <3>2 DEF Waiting, UnlinkedComplete
  <2>5. ASSUME Chain[b] \cap failedValid = {}
        PROVE  \E y \in Chain[b] \ {b} : y \notin haveData /\ y \notin linked
    <3>1. Prev[b] \in Chain[Prev[b]] /\ Prev[b] \notin linked
      BY <1>4, TreeAssumption, PathFacts DEF ParentLinked
    <3>2. CASE Prev[b] \notin haveData
      BY <2>3, <3>1, <3>2
    <3>3. CASE Prev[b] \in haveData
      <4>1. PICK y \in Chain[Prev[b]] : y \notin haveData /\ y \notin linked
        BY <2>3, <2>5, <3>1, <3>3 DEF Waiting, GapBelow
      <4>2. QED
        BY <2>3, <4>1
    <3>4. QED
      BY <3>2, <3>3
  <2>6. ASSUME NEW x \in haveData' \ linked', Chain[x] \cap failedValid = {}
        PROVE  \E y \in Chain[x] : y \notin haveData' /\ y \notin linked'
    <3>1. CASE b \in Chain[x]
      <4>1. Chain[b] \subseteq Chain[x]
        BY <1>1, <1>2, <3>1, PathFacts DEF Inv, Typed
      <4>2. PICK y \in Chain[b] \ {b} : y \notin haveData /\ y \notin linked
        BY <2>5, <2>6, <4>1
      <4>3. QED
        BY <1>1, <2>2, <4>1, <4>2
    <3>2. CASE b \notin Chain[x]
      <4>1. x \in haveData \ linked
        BY <1>1, <2>2, <2>6, <3>2, PathFacts
      <4>2. PICK y \in Chain[x] : y \notin haveData /\ y \notin linked
        BY <2>6, <4>1 DEF Waiting, GapBelow
      <4>3. QED
        BY <1>1, <2>2, <3>2, <4>2
    <3>3. QED
      BY <3>1, <3>2
  <2>7. QED
    BY <1>1, <2>4, <2>6 DEF Waiting, GapBelow
<1>5. QED
  BY <1>3, <1>4

LEMMA WaitingLoaded ==
  ASSUME Inv, NEW t \in Thread, Restart(t)
  PROVE  Waiting'
<1>1. /\ linked' = {x \in received : Chain[x] \subseteq received}
      /\ unlinked' = {x \in received \ {Genesis} : Prev[x] \notin linked'}
      /\ haveData' = haveData /\ haveData \subseteq received
  BY DEF Restart, LoadedLinked, Inv, Typed
<1>2. ASSUME NEW b \in haveData' \ linked' PROVE b \in unlinked'
  <2>1. b \in received /\ b \in Block
    BY <1>1 DEF Inv, Typed
  <2>2. b # Genesis
    <3>1. Chain[Genesis] = {Genesis} /\ Genesis \in received
      BY PathAssumption DEF Inv, Typed
    <3>2. QED
      BY <1>1, <3>1
  <2>3. Chain[b] = Chain[Prev[b]] \cup {b}
    BY <2>1, <2>2, PathFacts
  <2>4. Prev[b] \notin linked'
    BY <1>1, <2>1, <2>3
  <2>5. QED
    BY <1>1, <2>1, <2>2, <2>4
<1>3. ASSUME NEW b \in haveData' \ linked'
      PROVE  \E y \in Chain[b] : y \notin haveData' /\ y \notin linked'
  BY <1>1
<1>4. QED
  BY <1>2, <1>3 DEF Waiting, UnlinkedComplete, GapBelow

LEMMA WaitingNext ==
  ASSUME "reconsider" \notin Rpcs, Inv, LinkInv, Caused, Waiting, [Next]_vars
  PROVE  Waiting'
<1>1. ASSUME NEW b \in Block \ {Genesis}, AcceptBlockHeader(b) PROVE Waiting'
  BY <1>1, WaitingKept DEF AcceptBlockHeader, MarkDescendants, failVars, choiceVars
<1>2. ASSUME NEW b \in Block \ {Genesis}, NEW t \in Thread, NEW requested \in BOOLEAN,
             ProcessNewBlock(t, b, requested)
      PROVE  Waiting'
  <2>1. CASE StoreBlock(t, b)
    BY <2>1, WaitingStored
  <2>2. CASE ~StoreBlock(t, b)
    BY <1>2, <2>2, WaitingKept DEF ProcessNewBlock, MarkDescendants, SkipBlock, RejectBody, choiceVars
  <2>3. QED
    BY <2>1, <2>2
<1>3. ASSUME NEW t \in Thread, ActivateEnter(t) \/ ActivateStep(t) PROVE Waiting'
  <2>1. CASE RejectCandidate(t)
    <3>1. UNCHANGED <<haveData, linked, failedValid>> /\ unlinked \subseteq unlinked'
      BY <2>1 DEF RejectCandidate, indexVars
    <3>2. QED
      BY <3>1, WaitingKept
  <2>2. CASE ConnectTipFails(t)
    BY <2>2, WaitingKept DEF ConnectTipFails
  <2>3. CASE ActivateEnter(t) \/ ActivateLock(t) \/ FindMostWorkChain(t) \/ DisconnectTip(t)
             \/ ConnectTip(t) \/ ActivateUnlock(t)
    BY <2>3, WaitingKept DEF ActivateEnter, ActivateLock, FindMostWorkChain, DisconnectTip, ConnectTip,
       ActivateUnlock, failVars, indexVars, choiceVars
  <2>4. QED
    BY <1>3, <2>1, <2>2, <2>3 DEF ActivateStep
<1>4. ASSUME NEW t \in Thread, InvalidateNext(t) PROVE Waiting'
  <2>1. UNCHANGED <<haveData, linked, unlinked>>
    BY <1>4 DEF InvalidateNext, InvalidateStep, InvalidateFinish, indexVars
  <2>2. failedValid \subseteq failedValid'
    <3>1. CASE InvalidateStep(t) /\ invalidate.pindex \in Chain[tip] /\ tip \in haveData
      BY <3>1, Disconnects
    <3>2. CASE InvalidateStep(t) /\ ~(invalidate.pindex \in Chain[tip] /\ tip \in haveData)
      BY <3>2 DEF InvalidateStep
    <3>3. CASE InvalidateFinish(t)
      BY <3>3 DEF InvalidateFinish, failVars
    <3>4. QED
      BY <1>4, <3>1, <3>2, <3>3 DEF InvalidateNext
  <2>3. QED
    BY <2>1, <2>2, WaitingKept
<1>5. ASSUME NEW b \in RpcTarget, NEW t \in Thread,
             InvalidateStart(t, b) \/ ResetBlockFailureFlags(t, b) \/ PreciousBlock(t, b)
      PROVE  Waiting'
  <2>1. UNCHANGED <<haveData, linked, unlinked, failedValid>>
    BY <1>5 DEF InvalidateStart, ResetBlockFailureFlags, PreciousBlock, Command, indexVars, choiceVars,
       failVars
  <2>2. QED
    BY <2>1, WaitingKept
<1>6. ASSUME NEW b \in Block, PruneOneBlockFile(b) PROVE Waiting'
  BY <1>6 DEF PruneOneBlockFile, failVars, Waiting, UnlinkedComplete,
     GapBelow
<1>7. ASSUME NEW t \in Thread, Restart(t) PROVE Waiting'
  BY <1>7, WaitingLoaded
<1>8. ASSUME UNCHANGED vars PROVE Waiting'
  BY <1>8 DEF vars, failVars, indexVars, choiceVars, Waiting, UnlinkedComplete, GapBelow
<1>9. QED
  BY <1>1, <1>2, <1>3, <1>4, <1>5, <1>6, <1>7, <1>8 DEF Next

(* A path whose bodies are all there has no gap.                           *)
LEMMA CompleteIsLinked ==
  ASSUME Waiting, NEW b \in Block, Chain[b] \subseteq haveData, Chain[b] \cap failedValid = {}
  PROVE  b \in linked
<1>1. b \in Chain[b]
  BY PathFacts
<1>2. QED
  BY <1>1 DEF Waiting, GapBelow

(* nStatus, nTx, nChainTx and m_blocks_unlinked together say which bodies  *)
(* are there, in whatever order they came, also after pruning and          *)
(* restarts, as long as no failure mark is taken back.                     *)
THEOREM LinksAlwaysExact ==
  ASSUME "reconsider" \notin Rpcs, "reconsiderBelow" \notin Rpcs
  PROVE  Spec => []LinksExact
<1>1. Init => Caused /\ Waiting
  BY DEF Init, Caused, Marked, Waiting, UnlinkedComplete, GapBelow
<1>2. Inv /\ Caused /\ [Next]_vars => Caused'
  BY CausedNext
<1>3. Inv /\ LinkInv /\ Caused /\ Waiting /\ [Next]_vars => Waiting'
  BY WaitingNext
<1>4. Inv /\ LinkInv /\ Waiting => LinksExact
  <2>1. SUFFICES ASSUME Inv, LinkInv, Waiting PROVE LinksExact
    OBVIOUS
  <2>2. LinkedExact
    BY <2>1, CompleteIsLinked DEF LinkedExact, LinkInv, LinkShape, Sequenced
  <2>3. QED
    BY <2>1, <2>2, InvIsTypeOK, ShapeIsSound DEF LinksExact, Waiting
<1>5. QED
  BY <1>1, <1>2, <1>3, <1>4, LinkInvariance, PTL DEF Spec
=============================================================================
