----------------------------- MODULE ChainState -----------------------------
(***************************************************************************)
(* The block index and the choice of the active chain: Chainstate and      *)
(* ChainstateManager in validation.cpp, BlockManager in blockstorage.cpp.  *)
(*                                                                         *)
(* The block tree that peers, miners and RPC users may present is fixed by *)
(* the constants; the node learns it in any order.  Threads run            *)
(* ProcessNewBlock, ProcessNewBlockHeaders and the invalidateblock,        *)
(* reconsiderblock, preciousblock and pruneblockchain RPCs.  cs_main       *)
(* protects everything; ActivateBestChain and InvalidateBlock also hold    *)
(* m_chainstate_mutex throughout and take cs_main step by step, so other   *)
(* threads work on the index between their steps.  An action that names no *)
(* lock takes and releases cs_main itself.                                 *)
(*                                                                         *)
(* A status bit is a set of blocks; m_blocks_unlinked, a multimap from     *)
(* parent to child, is the set of the children.  Snapshots                 *)
(* (assumed-valid blocks) and system errors are left out, except for       *)
(* block data that pruning removed.                                        *)
(***************************************************************************)
EXTENDS Integers, FiniteSets

CONSTANTS Block,       \* the blocks that exist, known to the node or not
          Genesis,
          Prev,        \* hashPrevBlock of the other blocks
          Proof,       \* GetBlockProof
          Addr,        \* the address of the CBlockIndex, the last tie breaker
          BadBody,     \* blocks that fail ContextualCheckBlock
          BadScripts,  \* blocks that fail ConnectBlock
          Thread,
          None,        \* nullptr
          MinBlocksToKeep,  \* MIN_BLOCKS_TO_KEEP
          Rpcs,        \* operator commands that occur: a subset of RpcNames
          RpcTarget,   \* bound: blocks they name
          MaxRpc       \* bound: how many of them there are

(* "reconsider" names blocks none of whose ancestors is invalid, unless    *)
(* "reconsiderBelow" is there too.                                         *)
RpcNames == {"invalidate", "reconsider", "reconsiderBelow", "precious", "prune", "restart"}

ASSUME TreeAssumption ==
  /\ Genesis \in Block /\ None \notin Block
  /\ Prev \in [Block \ {Genesis} -> Block]
  /\ Proof \in [Block -> Nat \ {0}]
  /\ Addr \in [Block -> Nat] /\ \A x, y \in Block : Addr[x] = Addr[y] => x = y
  /\ BadBody \cup BadScripts \cup RpcTarget \subseteq Block \ {Genesis}
  /\ MinBlocksToKeep \in Nat /\ MaxRpc \in Nat /\ Rpcs \subseteq RpcNames

(* The path from genesis: pprev followed to the end.                       *)
Chain[b \in Block] == IF b = Genesis THEN {b} ELSE Chain[Prev[b]] \cup {b}

(* pprev leads from every block to genesis and never back to it, so a path *)
(* is a path of its parent and one block more, and of two blocks on a path *)
(* one is an ancestor of the other.                                        *)
ASSUME PathAssumption ==
  /\ Chain \in [Block -> SUBSET Block] /\ Chain[Genesis] = {Genesis}
  /\ \A b \in Block \ {Genesis} : Chain[b] = Chain[Prev[b]] \cup {b} /\ b \notin Chain[Prev[b]]
  /\ \A b \in Block : Genesis \in Chain[b] /\ b \in Chain[b]
  /\ \A b \in Block : \A x, y \in Chain[b] :
       Chain[x] \subseteq Chain[b] /\ (x \in Chain[y] \/ y \in Chain[x])

nHeight[b \in Block] == IF b = Genesis THEN 0 ELSE nHeight[Prev[b]] + 1
Height(b) == nHeight[b]
ChainWork[b \in Block] == Proof[b] + (IF b = Genesis THEN 0 ELSE ChainWork[Prev[b]])

(* Every block adds to the height and the work of its path.                *)
ASSUME WorkAssumption ==
  /\ nHeight \in [Block -> Nat] /\ nHeight[Genesis] = 0 /\ ChainWork \in [Block -> Nat]
  /\ \A b \in Block : \A x \in Chain[b] \ {b} :
       nHeight[x] < nHeight[b] /\ ChainWork[x] < ChainWork[b]

VARIABLES
  known,         \* m_block_index
  received,      \* BLOCK_VALID_TRANSACTIONS reached: nTx > 0
  haveData,      \* BLOCK_HAVE_DATA
  linked,        \* HaveTxsDownloaded(): nChainTx > 0
  scripts,       \* BLOCK_VALID_SCRIPTS reached
  failedValid,   \* BLOCK_FAILED_VALID
  failedChild,   \* BLOCK_FAILED_CHILD
  failedBlocks,  \* m_failed_blocks
  bestInvalid,   \* m_best_invalid
  bestHeader,    \* m_best_header
  seq,           \* nSequenceId
  nextSeq,       \* nBlockSequenceId
  candidates,    \* setBlockIndexCandidates
  unlinked,      \* m_blocks_unlinked
  tip,           \* m_chain.Tip()
  precious,      \* nBlockReverseSequenceId and nLastPreciousChainwork
  pc,            \* where each thread is
  activate,      \* locals of ActivateBestChain
  invalidate,    \* locals of InvalidateBlock
  rpcs,          \* operator commands so far
  highest        \* history: the greatest height the tip has had

indexVars == <<known, received, haveData, linked, scripts, bestHeader>>
failVars == <<failedValid, failedChild, failedBlocks, bestInvalid>>
choiceVars == <<seq, nextSeq, candidates, unlinked>>
vars == <<indexVars, failVars, choiceVars, tip, precious, pc, activate, invalidate, rpcs,
          highest>>

(* The thread at one of these places holds the lock; m_chainstate_mutex is *)
(* taken before cs_main, and cs_main is never kept between other actions.  *)
HoldsMain == {"find", "disconnect", "connect", "unlock"}
HoldsChainMutex == HoldsMain \cup {"lock", "invalidate", "markInvalid"}
MainFree == \A t \in Thread : pc[t] \notin HoldsMain
ChainMutexFree == \A t \in Thread : pc[t] \notin HoldsChainMutex
Goto(t, label) == pc' = [pc EXCEPT ![t] = label]

NoActivate == [mostWork |-> None, newTip |-> None, startTip |-> None, oldTip |-> None]
NoInvalidate == [pindex |-> None, toMark |-> None, byWork |-> {}]

Failed(b) == b \in failedValid \cup failedChild
ValidTransactions(b) == ~Failed(b) /\ b \in received
ValidScripts(b) == ~Failed(b) /\ b \in scripts

(* CBlockIndexWorkComparator, with the sequence ids s: x sorts before y.   *)
SortsBefore(s, x, y) ==
  \/ ChainWork[x] < ChainWork[y]
  \/ /\ ChainWork[x] = ChainWork[y]
     /\ s[x] > s[y] \/ (s[x] = s[y] /\ Addr[x] > Addr[y])
Worse(x, y) == SortsBefore(seq, x, y)

(* The last of a non-empty set in that order, as the only member of a set. *)
Best(s, S) == {x \in S : \A y \in S \ {x} : SortsBefore(s, y, x)}
-----------------------------------------------------------------------------
(* LoadGenesisBlock and the first ActivateBestChain are done.              *)
Init ==
  /\ known = {Genesis} /\ received = known /\ haveData = known /\ linked = known
  /\ scripts = {} /\ failedValid = {} /\ failedChild = {} /\ failedBlocks = {}
  /\ bestInvalid = None /\ bestHeader = Genesis /\ tip = Genesis
  /\ seq = [b \in Block |-> IF b = Genesis THEN 1 ELSE 0] /\ nextSeq = 2
  /\ candidates = known /\ unlinked = {}
  /\ precious = [reverse |-> -1, lastWork |-> 0]
  /\ pc = [t \in Thread |-> "idle"]
  /\ activate = NoActivate /\ invalidate = NoInvalidate /\ rpcs = 0 /\ highest = 0

-----------------------------------------------------------------------------
(* AcceptBlockHeader.                                                      *)

(* Invalid ancestors are looked for only when the parent was never fully   *)
(* validated.                                                              *)
FailedAncestors(b) ==
  IF ValidScripts(Prev[b]) THEN {} ELSE failedBlocks \cap Chain[Prev[b]]

NewHeader(b) == b \notin known /\ Prev[b] \in known /\ ~Failed(Prev[b])

(* AddToBlockIndex.                                                        *)
AddHeader(b) ==
  /\ NewHeader(b) /\ FailedAncestors(b) = {}
  /\ known' = known \cup {b}
  /\ bestHeader' = IF ChainWork[bestHeader] < ChainWork[b] THEN b ELSE bestHeader

(* A header on an invalid chain is refused, and the blocks between its     *)
(* invalid ancestor, one of them if there are several, and it are marked.  *)
MarkDescendants_PastFailed(b) ==
  /\ NewHeader(b) /\ FailedAncestors(b) # {}
  /\ failedChild' = failedChild \cup Chain[Prev[b]]
  /\ UNCHANGED <<known, bestHeader, failedValid, failedBlocks, bestInvalid>>
MarkDescendants(b) ==
  /\ NewHeader(b)
  /\ \E f \in FailedAncestors(b) :
       failedChild' = failedChild \cup (Chain[Prev[b]] \ Chain[f])
  /\ UNCHANGED <<known, bestHeader, failedValid, failedBlocks, bestInvalid>>

(* ProcessNewBlockHeaders, one header.                                     *)
AcceptBlockHeader(b) ==
  /\ MainFree
  /\ \/ AddHeader(b) /\ UNCHANGED failVars
     \/ MarkDescendants(b)
  /\ UNCHANGED <<received, haveData, linked, scripts, choiceVars, tip, precious, pc,
                 activate, invalidate, rpcs, highest>>

-----------------------------------------------------------------------------
(* AcceptBlock and ReceivedBlockTransactions.                              *)

(* The blocks that become connected to genesis when b's data arrives, and  *)
(* the orders in which the queue can visit them: by height.                *)
Released(b) == {x \in known : b \in Chain[x] /\ Chain[x] \ Chain[b] \subseteq unlinked}
QueueOrders(D) ==
  {f \in [D -> 0 .. Cardinality(D) - 1] :
     \A x, y \in D : x # y => /\ f[x] # f[y]
                              /\ Height(x) < Height(y) => f[x] < f[y]}

(* m_blocks_unlinked after the queue has taken the children, and after a   *)
(* block has to wait for its parent.                                       *)
Dequeued_Kept(b, D) == unlinked
Dequeued(b, D) == unlinked \ (D \ {b})
WaitForParent(b) == IF Failed(Prev[b]) THEN unlinked ELSE unlinked \cup {b}

ParentLinked(b) == Prev[b] \in linked

ReceivedBlockTransactions(b) ==
  /\ received' = received \cup {b}
  /\ haveData' = haveData \cup {b}
  /\ IF ParentLinked(b)
     THEN LET D == {b} \cup Released(b) IN
          /\ linked' = linked \cup D
          /\ unlinked' = Dequeued(b, D)
          /\ \E f \in QueueOrders(D) : \E last \in D :
               /\ seq' = [x \in Block |-> IF x \in D THEN nextSeq + f[x] ELSE seq[x]]
               /\ (\A x \in D : f[x] <= f[last]) /\ nextSeq' = nextSeq + f[last] + 1
          /\ candidates' = candidates \cup {x \in D : ~SortsBefore(seq', x, tip)}
     ELSE /\ linked' = linked \ {b}
          /\ unlinked' = WaitForParent(b)
          /\ UNCHANGED <<seq, nextSeq, candidates>>

(* A block we have is not stored again; one we did not ask for must be     *)
(* new, have enough work and not be too far ahead.                         *)
Wanted_Again(b, requested) ==
  requested \/ (b \notin received /\ ChainWork[b] >= ChainWork[tip])
Wanted(b, requested) ==
  /\ b \notin haveData
  /\ requested \/ /\ b \notin received
                  /\ ChainWork[b] >= ChainWork[tip]
                  /\ Height(b) <= Height(tip) + MinBlocksToKeep

StoreBlock(t, b) ==
  /\ ReceivedBlockTransactions(b)
  /\ Goto(t, "activate")
  /\ UNCHANGED <<failedValid, scripts>>

RejectBody(b) ==
  /\ failedValid' = failedValid \cup {b}
  /\ UNCHANGED <<received, haveData, linked, scripts, choiceVars, pc>>

SkipBlock(t) ==
  /\ Goto(t, "activate")
  /\ UNCHANGED <<received, haveData, linked, scripts, failedValid, choiceVars>>

(* ProcessNewBlock up to its call of ActivateBestChain, which is not       *)
(* reached when the header or the body is refused.                         *)
ProcessNewBlock(t, b, requested) ==
  /\ pc[t] = "idle" /\ MainFree
  /\ \/ /\ MarkDescendants(b)
        /\ UNCHANGED <<received, haveData, linked, scripts, choiceVars, pc>>
     \/ /\ \/ AddHeader(b)
           \/ b \in known /\ ~Failed(b) /\ UNCHANGED <<known, bestHeader>>
        /\ UNCHANGED <<failedChild, failedBlocks, bestInvalid>>
        /\ \/ ~Wanted(b, requested) /\ SkipBlock(t)
           \/ Wanted(b, requested) /\ b \in BadBody /\ RejectBody(b)
           \/ Wanted(b, requested) /\ b \notin BadBody /\ StoreBlock(t, b)
  /\ UNCHANGED <<tip, precious, activate, invalidate, rpcs, highest>>

-----------------------------------------------------------------------------
(* ActivateBestChain: m_chainstate_mutex from ActivateEnter on, cs_main    *)
(* from ActivateLock to ActivateUnlock.                                    *)

ActivateEnter_DuringInvalidate(t) ==
  /\ pc[t] = "activate" /\ \A u \in Thread : pc[u] \notin HoldsMain \cup {"lock"}
  /\ Goto(t, "lock") /\ activate' = NoActivate
  /\ UNCHANGED <<indexVars, failVars, choiceVars, tip, precious, invalidate, rpcs, highest>>
ActivateEnter(t) ==
  /\ pc[t] = "activate" /\ ChainMutexFree
  /\ Goto(t, "lock") /\ activate' = NoActivate
  /\ UNCHANGED <<indexVars, failVars, choiceVars, tip, precious, invalidate, rpcs, highest>>

ActivateLock(t) ==
  /\ pc[t] = "lock" /\ MainFree
  /\ Goto(t, "find")
  /\ activate' = [activate EXCEPT !.startTip = tip, !.oldTip = None]
  /\ UNCHANGED <<indexVars, failVars, choiceVars, tip, precious, invalidate, rpcs, highest>>

(* FindMostWorkChain.  The first block on a candidate's path, from the     *)
(* top, that is invalid or whose data is missing disqualifies the          *)
(* candidate and what lies between.                                        *)
Unusable(b) == {x \in Chain[b] \ Chain[tip] : Failed(x) \/ x \notin haveData}
MoreInvalid(sofar, b) ==
  IF sofar = None \/ ChainWork[b] > ChainWork[sofar] THEN b ELSE sofar

RejectCandidate(t) ==
  /\ pc[t] = "find" /\ activate.mostWork = None /\ candidates # {}
  /\ \E new \in Best(seq, candidates) : \E bad \in Unusable(new) :
       LET above == Chain[new] \ Chain[bad] IN
       /\ Unusable(new) \cap above = {}
       /\ candidates' = candidates \ (above \cup {bad})
       /\ IF Failed(bad)
          THEN /\ failedChild' = failedChild \cup above
               /\ bestInvalid' = MoreInvalid(bestInvalid, new)
               /\ UNCHANGED unlinked
          ELSE /\ unlinked' = unlinked \cup above
               /\ UNCHANGED <<failedChild, bestInvalid>>
  /\ UNCHANGED <<indexVars, failedValid, failedBlocks, seq, nextSeq, tip, precious, pc,
                 activate, invalidate, rpcs, highest>>

(* The candidate found, or the one already being worked towards; nothing   *)
(* is to be done when it is the tip.                                       *)
FindMostWorkChain(t) ==
  /\ pc[t] = "find"
  /\ \E most \in IF activate.mostWork # None \/ candidates = {} THEN {activate.mostWork}
                 ELSE {x \in Best(seq, candidates) : Unusable(x) = {}} :
       IF most \in {None, tip}
       THEN /\ activate' = [activate EXCEPT !.mostWork = most]
            /\ Goto(t, "unlock")
       ELSE /\ activate' = [activate EXCEPT !.mostWork = most, !.oldTip = tip]
            /\ Goto(t, "disconnect")
  /\ UNCHANGED <<indexVars, failVars, choiceVars, tip, precious, invalidate, rpcs, highest>>

(* ActivateBestChainStep.  It disconnects down to the fork; a tip whose    *)
(* data was pruned cannot be disconnected, and the node stops.             *)
DisconnectTip(t) ==
  /\ pc[t] = "disconnect"
  /\ IF tip \in Chain[activate.mostWork] THEN Goto(t, "connect") /\ UNCHANGED tip
     ELSE IF tip \in haveData THEN tip' = Prev[tip] /\ UNCHANGED pc
     ELSE Goto(t, "aborted") /\ UNCHANGED tip
  /\ UNCHANGED <<indexVars, failVars, choiceVars, precious, activate, invalidate, rpcs, highest>>

(* The next of vpindexToConnect, as the only member of a set.              *)
NextToConnect == {x \in Chain[activate.mostWork] \ {Genesis} : Prev[x] = tip}

(* The loop of ActivateBestChain keeps cs_main while the tip is worse than *)
(* the one it started from.                                                *)
StepDone(t, most) ==
  /\ activate' = [activate EXCEPT !.mostWork = most, !.newTip = tip']
  /\ Goto(t, IF Worse(tip', activate.startTip) THEN "find" ELSE "unlock")

PruneBlockIndexCandidates(newTip) == {x \in candidates : ~Worse(x, newTip)}

(* ... and connects upwards, until the tip has more work than before, with *)
(* PruneBlockIndexCandidates after each block.                             *)
ConnectTip(t) ==
  /\ pc[t] = "connect"
  /\ \E next \in NextToConnect :
       IF next \in haveData
       THEN /\ next \notin BadScripts
            /\ tip' = next
            /\ highest' = IF Height(next) > highest THEN Height(next) ELSE highest
            /\ scripts' = IF Failed(next) THEN scripts ELSE scripts \cup {next}
            /\ candidates' = PruneBlockIndexCandidates(next)
            /\ IF ChainWork[next] > ChainWork[activate.oldTip] \/ next = activate.mostWork
               THEN StepDone(t, activate.mostWork)
               ELSE UNCHANGED <<pc, activate>>
       ELSE Goto(t, "aborted") /\ UNCHANGED <<tip, highest, scripts, candidates, activate>>
  /\ UNCHANGED <<known, received, haveData, linked, bestHeader, failVars, seq, nextSeq,
                 unlinked, precious, invalidate, rpcs>>

(* A block that does not connect: InvalidBlockFound for it, and            *)
(* InvalidChainFound for the chain above it (vpindexToConnect.front(), at  *)
(* most 32 blocks up); the block worked towards is forgotten.              *)
ConnectTipFails(t) ==
  /\ pc[t] = "connect"
  /\ \E next \in NextToConnect \cap BadScripts \cap haveData :
       /\ failedValid' = failedValid \cup {next}
       /\ failedBlocks' = failedBlocks \cup {next}
       /\ candidates' = candidates \ {next}
       /\ bestInvalid' = MoreInvalid(MoreInvalid(bestInvalid, next), activate.mostWork)
       /\ bestHeader' = IF next \in Chain[bestHeader] THEN tip ELSE bestHeader
  /\ UNCHANGED tip
  /\ StepDone(t, None)
  /\ UNCHANGED <<known, received, haveData, linked, scripts, failedChild, seq, nextSeq,
                 unlinked, precious, invalidate, rpcs, highest>>

(* cs_main is released; the loop ends when nothing was to be done or the   *)
(* tip is the block aimed at.                                              *)
ActivateUnlock_OneStep(t) ==
  /\ pc[t] = "unlock"
  /\ Goto(t, "idle") /\ activate' = NoActivate
  /\ UNCHANGED <<indexVars, failVars, choiceVars, tip, precious, invalidate, rpcs, highest>>
ActivateUnlock(t) ==
  /\ pc[t] = "unlock"
  /\ IF activate.oldTip = None \/ activate.newTip = activate.mostWork
     THEN Goto(t, "idle") /\ activate' = NoActivate
     ELSE Goto(t, "lock") /\ UNCHANGED activate
  /\ UNCHANGED <<indexVars, failVars, choiceVars, tip, precious, invalidate, rpcs, highest>>

-----------------------------------------------------------------------------
(* The operator's commands.                                                *)

Command(name) == name \in Rpcs /\ rpcs < MaxRpc /\ rpcs' = rpcs + 1

(* InvalidateBlock: the mutex, and the blocks off the active chain that    *)
(* may become candidates, computed once.                                   *)
InvalidateStart(t, b) ==
  /\ Command("invalidate")
  /\ pc[t] = "idle" /\ MainFree /\ ChainMutexFree /\ b \in known
  /\ invalidate' =
       [pindex |-> b, toMark |-> b,
        byWork |-> {x \in known \ Chain[tip] :
                      ~Worse(x, Prev[b]) /\ ValidTransactions(x) /\ x \in linked}]
  /\ Goto(t, "invalidate")
  /\ UNCHANGED <<indexVars, failVars, choiceVars, tip, precious, activate, highest>>

(* A FAILED_VALID mark moves to FAILED_CHILD only if the block whose child *)
(* was just disconnected is the last one marked.                           *)
Demoted(walk) ==
  IF Prev[walk] = invalidate.toMark /\ invalidate.toMark \in failedValid
  THEN {invalidate.toMark} ELSE {}

(* One round of its loop, with cs_main; a block whose data was pruned ends *)
(* the command.                                                            *)
InvalidateStep(t) ==
  /\ pc[t] = "invalidate" /\ MainFree
  /\ IF invalidate.pindex \notin Chain[tip]
     THEN /\ Goto(t, "markInvalid")
          /\ UNCHANGED <<tip, failedValid, failedChild, candidates, invalidate>>
     ELSE IF tip \notin haveData
     THEN /\ Goto(t, "activate") /\ invalidate' = NoInvalidate
          /\ UNCHANGED <<tip, failedValid, failedChild, candidates>>
     ELSE LET added == {x \in invalidate.byWork : ~Worse(x, Prev[tip])} IN
          /\ tip' = Prev[tip]
          /\ failedValid' = (failedValid \cup {tip}) \ Demoted(tip)
          /\ failedChild' = failedChild \cup Demoted(tip)
          /\ candidates' = (candidates \ {tip}) \cup {Prev[tip]} \cup added
          /\ invalidate' = [invalidate EXCEPT !.toMark = tip, !.byWork = @ \ added]
          /\ UNCHANGED pc
  /\ UNCHANGED <<indexVars, failedBlocks, bestInvalid, seq, nextSeq, unlinked, precious,
                 activate, rpcs, highest>>

(* The last block is marked, and the candidates that the rounds missed are *)
(* added; then the command activates the best chain.                       *)
MissedCandidates_None(failed) == {}
MissedCandidates(failed) == {x \in (received \cap linked) \ failed : ~Worse(x, tip)}

InvalidateFinish(t) ==
  /\ pc[t] = "markInvalid" /\ MainFree
  /\ LET marked == invalidate.toMark IN
     IF marked \in Chain[tip]
     THEN UNCHANGED <<failVars, candidates, bestHeader>>
     ELSE /\ failedValid' = failedValid \cup {marked}
          /\ failedBlocks' = failedBlocks \cup {marked}
          /\ candidates' = (candidates \ {marked}) \cup
                           MissedCandidates(failedValid' \cup failedChild)
          /\ bestInvalid' = MoreInvalid(bestInvalid, marked)
          /\ bestHeader' = IF marked \in Chain[bestHeader] THEN tip ELSE bestHeader
          /\ UNCHANGED failedChild
  /\ invalidate' = NoInvalidate /\ Goto(t, "activate")
  /\ UNCHANGED <<known, received, haveData, linked, scripts, seq, nextSeq,
                 unlinked, tip, precious, activate, rpcs, highest>>

(* ResetBlockFailureFlags, with cs_main, for the block and its             *)
(* descendants, and then for its ancestors.                                *)
NotValidBelow_OnlyIt(b) == {b} \cap failedValid
NotValidBelow(b) == {x \in known : b \in Chain[x] /\ ~ValidTransactions(x)}
Reconsidered_None(below) == {}
Reconsidered(below) == {x \in below \cap received \cap linked : Worse(tip, x)}

ResetBlockFailureFlags(t, b) ==
  /\ Command("reconsider")
  /\ "reconsiderBelow" \notin Rpcs => \A x \in Chain[b] \ {b} : ~Failed(x)
  /\ pc[t] = "idle" /\ MainFree /\ b \in known
  /\ LET below == NotValidBelow(b)
         cleared == below \cup Chain[b]
     IN  /\ failedValid' = failedValid \ cleared
         /\ failedChild' = failedChild \ cleared
         /\ failedBlocks' = failedBlocks \ cleared
         /\ bestInvalid' = IF bestInvalid \in below THEN None ELSE bestInvalid
         /\ candidates' = candidates \cup Reconsidered(below)
  /\ Goto(t, "activate")
  /\ UNCHANGED <<indexVars, seq, nextSeq, unlinked, tip, precious, activate, invalidate,
                 highest>>

(* PreciousBlock: a block with as much work as the tip gets a sequence id  *)
(* below all others; it leaves the sorted set while its id changes.        *)
PreciousBlock(t, b) ==
  /\ Command("precious")
  /\ pc[t] = "idle" /\ MainFree /\ b \in known
  /\ ChainWork[b] >= ChainWork[tip]
  /\ LET reverse == IF ChainWork[tip] > precious.lastWork THEN -1 ELSE precious.reverse
     IN  /\ precious' = [reverse |-> reverse - 1, lastWork |-> ChainWork[tip]]
         /\ seq' = [seq EXCEPT ![b] = reverse]
         /\ candidates' = IF ValidTransactions(b) /\ b \in linked
                          THEN {x \in candidates \cup {b} : ~SortsBefore(seq', x, tip)}
                          ELSE candidates \ {b}
  /\ Goto(t, "activate")
  /\ UNCHANGED <<indexVars, failVars, nextSeq, unlinked, tip, activate, invalidate, highest>>

(* FindFilesToPrune and PruneOneBlockFile, from pruneblockchain or from    *)
(* FlushStateToDisk anywhere, also within DisconnectTip and ConnectTip; a  *)
(* block file holds one block.                                             *)
Prunable_UpToTip(b) == b \in haveData /\ Height(b) <= Height(tip)
Prunable(b) == b \in haveData /\ Height(b) <= Height(tip) - MinBlocksToKeep

PruneOneBlockFile(b) ==
  /\ Command("prune")
  /\ \A t \in Thread : pc[t] \notin {"find", "unlock"}
  /\ Prunable(b)
  /\ haveData' = haveData \ {b}
  /\ unlinked' = unlinked \ {b}
  /\ UNCHANGED <<known, received, linked, scripts, bestHeader, failVars, seq, nextSeq,
                 candidates, tip, precious, pc, activate, invalidate, highest>>

(* A shutdown, which ActivateBestChain notices between two steps, and the  *)
(* next start: LoadBlockIndex, LoadChainTip and ActivateBestChain.         *)
LoadedLinked == {x \in received : Chain[x] \subseteq received}
LoadedCandidates_Validated(loaded) == {x \in (loaded \cap scripts) \cup {tip} : Height(x) >= Height(tip)}
LoadedCandidates(loaded) == {x \in loaded : ~SortsBefore([b \in Block |-> 0], x, tip)}

Restart(t) ==
  /\ Command("restart")
  /\ \A u \in Thread : /\ pc[u] \in {"idle", "aborted", "lock"}
                       /\ pc[u] = "lock" => activate.newTip # None
  /\ seq' = [b \in Block |-> 0] /\ nextSeq' = 1
  /\ linked' = LoadedLinked
  /\ unlinked' = {x \in received \ {Genesis} : Prev[x] \notin linked'}
  /\ failedChild' = failedChild \cup
                    {x \in known : ~Failed(x) /\ \E y \in Chain[x] : Failed(y)}
  /\ LET failed == failedValid \cup failedChild' IN
     /\ candidates' = LoadedCandidates(linked' \ failed)
     /\ IF failed = {} THEN bestInvalid' = None
        ELSE bestInvalid' \in {x \in failed : \A y \in failed : ChainWork[y] <= ChainWork[x]}
     /\ bestHeader' \in Best(seq', known \ failed)
  /\ failedBlocks' = {} /\ precious' = [reverse |-> -1, lastWork |-> 0]
  /\ activate' = NoActivate /\ invalidate' = NoInvalidate
  /\ pc' = [u \in Thread |-> IF u = t THEN "activate" ELSE "idle"]
  /\ UNCHANGED <<known, received, haveData, scripts, failedValid, tip, highest>>

-----------------------------------------------------------------------------
ActivateStep(t) ==
  \/ ActivateLock(t) \/ RejectCandidate(t) \/ FindMostWorkChain(t)
  \/ DisconnectTip(t) \/ ConnectTip(t) \/ ConnectTipFails(t) \/ ActivateUnlock(t)

InvalidateNext(t) == InvalidateStep(t) \/ InvalidateFinish(t)

Next ==
  \/ \E b \in Block \ {Genesis} :
       \/ AcceptBlockHeader(b)
       \/ \E t \in Thread, requested \in BOOLEAN : ProcessNewBlock(t, b, requested)
  \/ \E t \in Thread : ActivateEnter(t) \/ ActivateStep(t) \/ InvalidateNext(t)
  \/ \E b \in RpcTarget, t \in Thread :
       InvalidateStart(t, b) \/ ResetBlockFailureFlags(t, b) \/ PreciousBlock(t, b)
  \/ \E b \in Block : PruneOneBlockFile(b)
  \/ \E t \in Thread : Restart(t)

(* A thread inside ActivateBestChain or InvalidateBlock is scheduled, and  *)
(* a free m_chainstate_mutex is taken by one of the threads that want it.  *)
Fairness ==
  /\ WF_vars(\E t \in Thread : ActivateEnter(t))
  /\ \A t \in Thread : WF_vars(ActivateStep(t)) /\ WF_vars(InvalidateNext(t))

Spec == Init /\ [][Next]_vars
FairSpec == Spec /\ Fairness
-----------------------------------------------------------------------------
(* Properties.                                                             *)

(* Types, and what nStatus and nTx of a block imply of each other: data    *)
(* only where a body was received, links only over received bodies,        *)
(* VALID_SCRIPTS only where the chain is linked.                           *)
TypeOK ==
  /\ haveData \subseteq received /\ received \subseteq known /\ known \subseteq Block
  /\ linked \subseteq received /\ scripts \subseteq linked
  /\ failedValid \cup failedChild \cup candidates \cup unlinked \subseteq known
  /\ bestInvalid \in known \cup {None} /\ bestHeader \in known /\ tip \in known
  /\ seq \in [Block -> Int] /\ nextSeq \in Nat /\ rpcs \in 0 .. MaxRpc
  /\ precious \in [reverse : Int, lastWork : Nat]
  /\ pc \in [Thread -> HoldsChainMutex \cup {"idle", "activate", "aborted"}]
  /\ DOMAIN activate = DOMAIN NoActivate
  /\ \A f \in DOMAIN activate : activate[f] \in known \cup {None}
  /\ invalidate \in [pindex : known \cup {None}, toMark : known \cup {None},
                     byWork : SUBSET known]

(* The active chain is fully validated and valid: no thread ever marks a   *)
(* block of it invalid, whatever headers, bodies and commands interleave   *)
(* with ActivateBestChain, and VALID_SCRIPTS implies it for all parents.   *)
ActiveChainValid ==
  /\ \A x \in Chain[tip] : ~Failed(x)
  /\ \A x \in scripts \cup {tip} : Chain[x] \ {Genesis} \subseteq scripts

(* FindMostWorkChain's assertion: it only ever walks over blocks whose     *)
(* chains are complete, so a candidate never rests on a gap.               *)
CandidatesLinked == \A b \in candidates : Chain[b] \subseteq linked

(* CheckBlockIndex on setBlockIndexCandidates, whenever cs_main is free,   *)
(* no InvalidateBlock is under way and the node is not being stopped:      *)
(* every valid block with all its data that is not worse than the tip is a *)
(* candidate, and the tip is.  A long series of commands breaks this: once *)
(* invalidateblock has lowered the tip, PreciousBlock starts again from -1 *)
(* and may rank the tip lower among its equals than it had ranked it.      *)
Complete(b) ==
  /\ b \in linked /\ ~Worse(b, tip)
  /\ Chain[b] \cap failedValid = {}
  /\ Chain[b] \subseteq haveData \/ b = tip
Settled == \A t \in Thread : pc[t] \in {"idle", "activate", "lock"}
CandidatesComplete ==
  Settled => \A b \in known : Complete(b) => b \in candidates

(* ... and no block worse than the tip is left among the candidates, so    *)
(* the set does not grow without bound.                                    *)
CandidatesTrimmed == MainFree => \A b \in candidates : ~Worse(b, tip)

(* setBlockIndexCandidates holds what it should and nothing else.          *)
CandidatesExact == CandidatesLinked /\ CandidatesComplete /\ CandidatesTrimmed

(* HaveTxsDownloaded holds only of blocks whose whole chain was received,  *)
(* in whatever order the bodies came, and it holds of every block whose    *)
(* whole chain has its data and is not invalid; only linked blocks have    *)
(* positive sequence ids.                                                  *)
LinkedExact ==
  /\ \A b \in linked : Chain[b] \subseteq linked
  /\ \A b \in Block : Chain[b] \subseteq haveData /\ Chain[b] \cap failedValid = {} => b \in linked
  /\ \A b \in Block \ linked : seq[b] <= 0

(* A body that came before its parent's waits in m_blocks_unlinked, or it  *)
(* would never be linked; ReceivedBlockTransactions does not queue it when *)
(* its parent is invalid, which reconsiderblock would not make up for.     *)
UnlinkedComplete ==
  \A b \in haveData \ linked : Chain[b] \cap failedValid = {} => b \in unlinked

(* ... and a block that waits there has something to wait for: its parent  *)
(* is not linked, or pruning took the data of an ancestor.                 *)
UnlinkedSound ==
  \A b \in unlinked :
    IF b \in linked THEN b \in haveData /\ ~(Chain[b] \subseteq haveData)
    ELSE b \in received /\ Prev[b] \notin linked

(* nStatus, nTx, nChainTx and m_blocks_unlinked together say which bodies  *)
(* are there, in whatever order they came and also after a restart.        *)
LinksExact == TypeOK /\ LinkedExact /\ UnlinkedComplete /\ UnlinkedSound

(* When all threads are done the tip is the best block, in the order of    *)
(* CBlockIndexWorkComparator, of those that are valid and whose data is    *)
(* there: no candidate is lost between the threads.                        *)
QuiescentBest ==
  (\A t \in Thread : pc[t] = "idle") =>
    \A b \in linked : Unusable(b) = {} /\ (\A x \in Chain[b] : ~Failed(x)) => ~Worse(tip, b)

(* A block is marked invalid only because it or an ancestor is:            *)
(* CheckBlockIndex's "failed mask cannot be set ...".                      *)
FailuresHaveCause ==
  /\ \A b \in failedValid \cup failedChild : Chain[b] \cap failedValid # {}
  /\ failedBlocks \subseteq failedValid

(* Blocks of the active chain are not what InvalidateBlock marks at its    *)
(* end ("something is interfering"), although it gave up cs_main.          *)
NothingInterferes ==
  \A t \in Thread : pc[t] = "markInvalid" => invalidate.toMark \notin Chain[tip]

(* Of the blocks a reorganisation has to disconnect and to connect, only   *)
(* those MIN_BLOCKS_TO_KEEP or more below the highest tip the node has had *)
(* can lack their data, although pruning goes on after FindMostWorkChain   *)
(* has looked: a shallower reorganisation is never stopped half-way.       *)
ReorgKeepsData ==
  (\E t \in Thread : pc[t] \in {"disconnect", "connect"}) =>
    LET most == activate.mostWork IN
    \A x \in (Chain[most] \ Chain[tip]) \cup (Chain[tip] \ Chain[most]) :
      Height(x) > highest - MinBlocksToKeep => x \in haveData

(* A block keeps its sort key while it is in the sorted set of candidates: *)
(* PreciousBlock takes it out and puts it back, and a restart builds the   *)
(* set anew.  No pruning is assumed: a candidate that was pruned and is    *)
(* stored again gets another nSequenceId where it is.                      *)
SortKeysStable ==
  [][(\E t \in Thread : Restart(t)) \/
       \A b \in candidates : seq'[b] = seq[b] \/ seq'[b] < 0]_vars

(* A block whose chain is complete is eventually adopted or overtaken,     *)
(* unless it turns out to be invalid, even if the thread that brought it   *)
(* never gets the mutex.                                                   *)
BestChainAdopted ==
  \A b \in Block : b \in linked ~>
    (ChainWork[tip] >= ChainWork[b] \/ \E x \in Chain[b] : Failed(x))
=============================================================================
