--------------------------- MODULE BlockDownload ---------------------------
(***************************************************************************)
(* Headers-first synchronisation and parallel block download:              *)
(* PeerManagerImpl in net_processing.cpp, with as much of the chain state  *)
(* as it looks at.                                                         *)
(*                                                                         *)
(* One thread runs ProcessMessages and SendMessages for all peers;         *)
(* cs_main is given up inside the handler of a block, where the thread     *)
(* that closes sockets may run FinalizeNode and an RPC thread FetchBlock.  *)
(* Whatever a peer sends is about a block of its chain; it may send it     *)
(* unasked, twice, late or never.                                          *)
(*                                                                         *)
(* Time is abstract: a timeout may fire as soon as what it times goes on.  *)
(* Every block has the same work.  Compact blocks, the minimum chain work  *)
(* and peers without witnesses are left out, and no peer has the NoBan     *)
(* permission.  A peer may be closed for any other reason at any time.     *)
(***************************************************************************)
EXTENDS Integers, FiniteSets

CONSTANTS Block, Genesis, Prev,  \* the block tree
          Bad,                   \* blocks that turn out to be invalid
          Peer,
          None,
          PeerTip,       \* the tip of each peer's chain
          Preferred,     \* fPreferredDownload: the outbound peers
          Prompt,        \* peers that stay and answer before any timeout
          MaxInTransit,  \* MAX_BLOCKS_IN_TRANSIT_PER_PEER
          Window,        \* BLOCK_DOWNLOAD_WINDOW
          TooFarAhead,   \* MIN_BLOCKS_TO_KEEP
          RecentHeight,  \* blocks this high are less than a day old
          Announced,     \* bound: blocks that announcements end in
          Unasked,       \* bound: blocks that are also sent unasked
          Fetched        \* bound: blocks for getblockfrompeer, once each

ASSUME DownloadAssumption ==
  /\ Genesis \in Block /\ None \notin Block \cup Peer
  /\ Prev \in [Block \ {Genesis} -> Block]
  /\ IsFiniteSet(Block) /\ IsFiniteSet(Peer)
  /\ Bad \subseteq Block \ {Genesis} /\ Announced \cup Unasked \cup Fetched \subseteq Block
  /\ PeerTip \in [Peer -> Block]
  /\ Preferred \subseteq Peer /\ Prompt \subseteq Peer
  /\ {MaxInTransit, Window, TooFarAhead, RecentHeight} \subseteq Nat

Path[b \in Block] == IF b = Genesis THEN {b} ELSE Path[Prev[b]] \cup {b}

(* Prev leads every block to genesis, so paths are chains.                 *)
ASSUME TreeAssumption ==
  /\ Path[Genesis] = {Genesis}
  /\ \A b \in Block :
       /\ Path[b] \subseteq Block /\ {Genesis, b} \subseteq Path[b]
       /\ \A x \in Path[b] : Path[x] \subseteq Path[b]
       /\ \A x, y \in Path[b] : x \in Path[y] \/ y \in Path[x]

HeightOf == [b \in Block |-> Cardinality(Path[b]) - 1]
Height(b) == HeightOf[b]
LastCommonAncestor(x, y) == CHOOSE b \in Path[x] \cap Path[y] : Path[x] \cap Path[y] \subseteq Path[b]

(* The n lowest blocks of a set in one chain.                              *)
Lowest(n, S) == {b \in S : Cardinality({x \in S : Height(x) < Height(b)}) < n}

VARIABLES
  known,           \* m_block_index
  have,            \* BLOCK_HAVE_DATA
  failed,          \* BLOCK_FAILED_MASK
  tip,             \* m_chain.Tip()
  status,          \* of a connection: "new", "up", "closing" (fDisconnect) or "gone"
  best,            \* pindexBestKnownBlock
  lastUnknown,     \* hashLastUnknownBlock
  lastCommon,      \* pindexLastCommonBlock
  inFlight,        \* mapBlocksInFlight: the peer asked for each block
  lists,           \* vBlocksInFlight: how often a block is in a peer's list
  count,           \* nBlocksInFlight
  stalling,        \* peers with m_stalling_since set
  downloadingFrom, \* m_peers_downloading_from
  numPreferred,    \* m_num_preferred_download_peers
  syncStarted,     \* peers with fSyncStarted
  nSyncStarted,
  handling,        \* the block message being handled
  rpc,             \* the getblockfrompeer being handled
  fetches

chainVars == <<known, have, failed, tip>>
availVars == <<best, lastUnknown, lastCommon>>
flightVars == <<inFlight, lists, count, stalling, downloadingFrom>>
syncVars == <<syncStarted, nSyncStarted>>
vars == <<chainVars, status, availVars, flightVars, numPreferred, syncVars, handling, rpc, fetches>>

NoBlockMessage == [peer |-> None, block |-> None, requested |-> FALSE, stage |-> "none"]
NoRpc == [peer |-> None, block |-> None]

Linked(h) == {b \in Block : Path[b] \subseteq h}
Work(b) == IF b = None THEN -1 ELSE Height(b)
Near == Height(tip) >= RecentHeight                        \* CanDirectFetch
HeadersRecent == \E b \in known : Height(b) >= RecentHeight  \* m_best_header
IsInitialBlockDownload == ~Near
IsBlockRequested(b) == inFlight[b] # None

(* The message handling thread is between two messages.                    *)
Idle == handling = NoBlockMessage
-----------------------------------------------------------------------------
(* RemoveBlockRequest, for a block in flight from o.                       *)
Removed(b, o) ==
  /\ inFlight' = [inFlight EXCEPT ![b] = None]
  /\ lists' = [lists EXCEPT ![o][b] = @ - 1]
  /\ count' = [count EXCEPT ![o] = @ - 1]
  /\ downloadingFrom' = IF count[o] = 1 THEN downloadingFrom - 1 ELSE downloadingFrom
  /\ stalling' = stalling \ {o}

(* ... from one peer only, or from whichever it is (None).                 *)
RemoveBlockRequest(b, from) ==
  IF inFlight[b] = None \/ (from # None /\ inFlight[b] # from) THEN UNCHANGED flightVars
  ELSE Removed(b, inFlight[b])

(* BlockRequested for blocks S that are not in flight.                     *)
Requested(p, S) ==
  /\ inFlight' = [b \in Block |-> IF b \in S THEN p ELSE inFlight[b]]
  /\ lists' = [lists EXCEPT ![p] = [b \in Block |-> IF b \in S THEN @[b] + 1 ELSE @[b]]]
  /\ count' = [count EXCEPT ![p] = @ + Cardinality(S)]
  /\ downloadingFrom' = IF S # {} /\ count[p] = 0 THEN downloadingFrom + 1 ELSE downloadingFrom

(* BlockRequested for one block, in flight from another peer or not.       *)
BlockRequested_KeepsCount(p, b) ==
  IF inFlight[b] = p THEN UNCHANGED flightVars
  ELSE Requested(p, {b}) /\ UNCHANGED stalling
BlockRequested(p, b) ==
  LET o == inFlight[b]
  IN  CASE o = p -> UNCHANGED flightVars
        [] o = None -> Requested(p, {b}) /\ UNCHANGED stalling
        [] OTHER ->
             /\ inFlight' = [inFlight EXCEPT ![b] = p]
             /\ lists' = [lists EXCEPT ![o][b] = @ - 1, ![p][b] = @ + 1]
             /\ count' = [count EXCEPT ![o] = @ - 1, ![p] = @ + 1]
             /\ downloadingFrom' = downloadingFrom - (IF count[o] = 1 THEN 1 ELSE 0)
                                                   + (IF count[p] = 0 THEN 1 ELSE 0)
             /\ stalling' = stalling \ {o}
-----------------------------------------------------------------------------
(* Connections.                                                            *)

(* InitializeNode and the version message.                                 *)
InitializeNode(p) ==
  /\ Idle /\ status[p] = "new"
  /\ status' = [status EXCEPT ![p] = "up"]
  /\ numPreferred' = IF p \in Preferred THEN numPreferred + 1 ELSE numPreferred
  /\ UNCHANGED <<chainVars, availVars, flightVars, syncVars, handling, rpc, fetches>>

Close(p) == status' = [status EXCEPT ![p] = "closing"]

DisconnectNode(p) ==
  /\ status[p] = "up" /\ p \notin Prompt /\ Close(p)
  /\ UNCHANGED <<chainVars, availVars, flightVars, numPreferred, syncVars, handling, rpc, fetches>>

(* The socket thread, when the message thread is not at this peer.         *)
FinalizeNode(p) ==
  /\ status[p] = "closing" /\ handling.peer # p
  /\ status' = [status EXCEPT ![p] = "gone"]
  /\ IF p \in syncStarted THEN nSyncStarted' = nSyncStarted - 1 ELSE UNCHANGED nSyncStarted
  /\ syncStarted' = syncStarted \ {p}
  /\ inFlight' = [b \in Block |-> IF lists[p][b] > 0 THEN None ELSE inFlight[b]]
  /\ lists' = [lists EXCEPT ![p] = [b \in Block |-> 0]]
  /\ count' = [count EXCEPT ![p] = 0]
  /\ stalling' = stalling \ {p}
  /\ downloadingFrom' = IF count[p] # 0 THEN downloadingFrom - 1 ELSE downloadingFrom
  /\ numPreferred' = IF p \in Preferred THEN numPreferred - 1 ELSE numPreferred
  /\ best' = [best EXCEPT ![p] = None] /\ lastUnknown' = [lastUnknown EXCEPT ![p] = None]
  /\ lastCommon' = [lastCommon EXCEPT ![p] = None]
  /\ UNCHANGED <<chainVars, handling, rpc, fetches>>
-----------------------------------------------------------------------------
(* Announcements.                                                          *)

(* ProcessBlockAvailability, with the block index k.                       *)
Resolved(p, k) ==
  IF lastUnknown[p] # None /\ lastUnknown[p] \in k /\ Work(lastUnknown[p]) >= Work(best[p])
  THEN lastUnknown[p] ELSE best[p]
StillUnknown(p, k) == IF lastUnknown[p] \in k THEN None ELSE lastUnknown[p]

UpdateBlockAvailability(p, b, k) ==
  /\ best' = [best EXCEPT ![p] = IF b \in k /\ Work(b) >= Work(Resolved(p, k)) THEN b
                                 ELSE Resolved(p, k)]
  /\ lastUnknown' = [lastUnknown EXCEPT ![p] = IF b \in k THEN StillUnknown(p, k) ELSE b]
  /\ UNCHANGED lastCommon

InvReceived(p, b) ==
  /\ Idle /\ status[p] = "up" /\ b \in Path[PeerTip[p]] \cap Announced
  /\ UpdateBlockAvailability(p, b, known)
  /\ UNCHANGED <<chainVars, status, flightVars, numPreferred, syncVars, handling, rpc, fetches>>

(* HeadersDirectFetchBlocks towards b: the blocks missing on the way back  *)
(* to the active chain, unless there are too many.                         *)
DirectFetch(p, b) ==
  LET way == Path[b] \ Path[tip]
      missing == {x \in way : x \notin have /\ ~IsBlockRequested(x)}
      large == \E x \in way : Cardinality({y \in missing : Height(y) > Height(x)}) > MaxInTransit
      room == IF count[p] < MaxInTransit THEN MaxInTransit - count[p] ELSE 0
  IN  IF Near /\ b \notin failed /\ Height(tip) <= Height(b) /\ ~large
      THEN Lowest(room, missing) ELSE {}

(* ProcessHeadersMessage, for headers that connect and end in b.  Headers  *)
(* on top of an invalid block are refused.                                 *)
HeadersReceived(p, b) ==
  /\ Idle /\ status[p] = "up" /\ b \in Path[PeerTip[p]] \cap Announced
  /\ IF Path[b] \cap failed # {}
     THEN UNCHANGED <<known, availVars, flightVars>>
     ELSE /\ known' = known \cup Path[b]
          /\ UpdateBlockAvailability(p, b, known')
          /\ Requested(p, DirectFetch(p, b)) /\ UNCHANGED stalling
  /\ UNCHANGED <<have, failed, tip, status, numPreferred, syncVars, handling, rpc, fetches>>
-----------------------------------------------------------------------------
(* The handler of a block message, between its uses of cs_main.            *)

BlockReceived(p, b) ==
  /\ Idle /\ status[p] = "up" /\ b \in Path[PeerTip[p]] \ {Genesis}
  /\ lists[p][b] > 0 \/ b \in Unasked
  /\ handling' = [peer |-> p, block |-> b, requested |-> IsBlockRequested(b), stage |-> "process"]
  /\ RemoveBlockRequest(b, p)
  /\ UNCHANGED <<chainVars, status, availVars, numPreferred, syncVars, rpc, fetches>>

(* ActivateBestChain: the tip is the highest block whose chain is complete *)
(* and valid; chains that were tried in vain are marked.                   *)
ActivateBestChain(h) ==
  LET good == {x \in Linked(h) : Path[x] \cap (failed \cup Bad) = {}}
      higher == {x \in good : \A y \in good \cup {tip} : y # x => Height(x) >= Height(y)}
  IN  /\ IF \E x \in good : Height(x) > Height(tip) THEN tip' \in higher ELSE tip' = tip
      /\ failed' = failed \cup
           {z \in Block : Path[z] \cap Bad # {} /\
                          \E x \in Linked(h) : z \in Path[x] /\ Height(x) > Height(tip')}

(* AcceptBlock: whether the block is stored.                               *)
Accepts(b, requested) ==
  /\ Prev[b] \in known /\ {b, Prev[b]} \cap failed = {} /\ b \notin have
  /\ requested \/ (Height(b) >= Height(tip) /\ Height(b) <= Height(tip) + TooFarAhead)

ProcessNewBlock ==
  /\ handling.stage = "process"
  /\ LET b == handling.block IN
     IF Accepts(b, handling.requested)
     THEN /\ known' = known \cup {b} /\ have' = have \cup {b}
          /\ ActivateBestChain(have')
          /\ handling' = [handling EXCEPT !.stage = "remove"]
     ELSE /\ known' = IF Prev[b] \in known \ failed THEN known \cup {b} ELSE known
          /\ handling' = NoBlockMessage /\ UNCHANGED <<have, failed, tip>>
  /\ UNCHANGED <<status, availVars, flightVars, numPreferred, syncVars, rpc, fetches>>

(* The end of ProcessBlock, for a new block.                               *)
BlockStored ==
  /\ handling.stage = "remove"
  /\ RemoveBlockRequest(handling.block, None)
  /\ handling' = NoBlockMessage
  /\ UNCHANGED <<chainVars, status, availVars, numPreferred, syncVars, rpc, fetches>>
-----------------------------------------------------------------------------
(* SendMessages.                                                           *)

SyncFrom(p) ==
  p \in Preferred \/ numPreferred = 0 \/ \A b \in Block : ~IsBlockRequested(b)

(* The start of headers synchronisation.                                   *)
StartsSync(p) ==
  p \notin syncStarted /\ ((nSyncStarted = 0 /\ SyncFrom(p)) \/ HeadersRecent)
StartSync(p) ==
  IF StartsSync(p) THEN syncStarted' = syncStarted \cup {p} /\ nSyncStarted' = nSyncStarted + 1
  ELSE UNCHANGED syncVars

(* The timeouts: of a staller, of the first block in flight, of headers.   *)
HeadersTimeout(p) ==
  /\ p \in syncStarted /\ ~HeadersRecent /\ nSyncStarted = 1
  /\ numPreferred - (IF p \in Preferred THEN 1 ELSE 0) >= 1
  /\ p \in Prompt => best[p] = PeerTip[p]
TimedOut_NoDownload(p) == (p \notin Prompt /\ p \in stalling) \/ HeadersTimeout(p)
TimedOut(p) ==
  \/ p \notin Prompt /\ (p \in stalling \/ \E b \in Block : lists[p][b] > 0)
  \/ HeadersTimeout(p)

(* A pass of SendMessages that ends with a timeout.                        *)
SendTimesOut(p) ==
  /\ Idle /\ status[p] = "up" /\ StartSync(p) /\ TimedOut(p) /\ Close(p)
  /\ UNCHANGED <<chainVars, availVars, flightVars, numPreferred, handling, rpc, fetches>>

(* FindNextBlocksToDownload, from the last common block lc.                *)
ToWalk(lc, bk) ==
  {b \in Path[bk] \ Path[lc] : Height(b) <= Height(lc) + Window + 1 /\ (Path[b] \ Path[lc]) \cap failed = {}}
Missing(b) == b \notin have /\ b \notin Path[tip]
(* ... with HaveTxsDownloaded: the whole chain up to the block is there.   *)
Complete_Data(b) == ~Missing(b)
Complete(b) == ~Missing(b) /\ b \in Linked(have)
FirstCommon(p, bk) ==
  LET guess == IF lastCommon[p] # None THEN lastCommon[p]
               ELSE CHOOSE b \in Path[tip] : Height(b) = (IF Height(bk) < Height(tip) THEN Height(bk) ELSE Height(tip))
  IN  LastCommonAncestor(guess, bk)

FindNextBlocks(p, lc, walk, wanted) ==
  LET n == MaxInTransit - count[p]
      inside == {b \in wanted : Height(b) <= Height(lc) + Window}
      fetch == Lowest(n, inside)
      \* the block at which the walk ends early, if it does
      last == IF Cardinality(inside) >= n
              THEN {b \in fetch : \A x \in fetch : Height(x) <= Height(b)}
              ELSE wanted \ inside
      seen == {b \in walk : \A x \in last : Height(b) < Height(x)}
      common == {b \in seen : Complete(b)} \cup {lc}
      waiting == {b \in seen : Missing(b) /\ IsBlockRequested(b)}
      waitingFor == {inFlight[b] : b \in Lowest(1, waiting)}
  IN  [fetch |-> fetch,
       common |-> CHOOSE b \in common : \A x \in common : Height(x) <= Height(b),
       staller |-> IF Cardinality(inside) < n /\ wanted \ inside # {} /\ fetch = {}
                   THEN waitingFor \ {p} ELSE {}]

MaySendGetData(p, sync) ==
  (sync \/ ~IsInitialBlockDownload) /\ count[p] < MaxInTransit

SendGetData(p) ==
  \E bk \in {Resolved(p, known)} :
    /\ best' = [best EXCEPT ![p] = bk]
    /\ lastUnknown' = [lastUnknown EXCEPT ![p] = StillUnknown(p, known)]
    /\ IF bk = None \/ Work(bk) < Height(tip)
       THEN UNCHANGED <<lastCommon, flightVars>>
       ELSE \E lc \in {FirstCommon(p, bk)} : \E walk \in {ToWalk(lc, bk)} :
            \E found \in {FindNextBlocks(p, lc, walk, {b \in walk : Missing(b) /\ ~IsBlockRequested(b)})} :
              /\ lastCommon' = [lastCommon EXCEPT ![p] = found.common]
              /\ Requested(p, found.fetch)
              /\ stalling' = IF count'[p] = 0 THEN stalling \cup found.staller ELSE stalling

SendMessages(p) ==
  /\ Idle /\ status[p] = "up" /\ StartSync(p)
  /\ IF MaySendGetData(p, SyncFrom(p)) THEN SendGetData(p)
     ELSE UNCHANGED <<availVars, flightVars>>
  /\ UNCHANGED <<chainVars, status, numPreferred, handling, rpc, fetches>>
-----------------------------------------------------------------------------
(* getblockfrompeer: FetchBlock looks the peer up, then takes cs_main.  A  *)
(* prompt peer is asked for what it has, so that it can answer.            *)
FetchBlockStart(p, b) ==
  /\ rpc = NoRpc /\ b \in Fetched \ fetches /\ status[p] \in {"up", "closing"}
  /\ b \in known \ have /\ (p \in Prompt => b \in Path[PeerTip[p]])
  /\ rpc' = [peer |-> p, block |-> b] /\ fetches' = fetches \cup {b}
  /\ UNCHANGED <<chainVars, status, availVars, flightVars, numPreferred, syncVars, handling>>

(* A peer that is gone by then fails BlockRequested's assertion; the       *)
(* process ends and with it what is modelled here.                         *)
FetchBlock ==
  /\ rpc # NoRpc /\ status[rpc.peer] # "gone"
  /\ BlockRequested(rpc.peer, rpc.block)
  /\ rpc' = NoRpc
  /\ UNCHANGED <<chainVars, status, availVars, numPreferred, syncVars, handling, fetches>>
-----------------------------------------------------------------------------
Init ==
  /\ known = {Genesis} /\ have = {Genesis} /\ failed = {} /\ tip = Genesis
  /\ status = [p \in Peer |-> "new"]
  /\ best = [p \in Peer |-> None] /\ lastUnknown = best /\ lastCommon = best
  /\ inFlight = [b \in Block |-> None] /\ lists = [p \in Peer |-> [b \in Block |-> 0]]
  /\ count = [p \in Peer |-> 0] /\ stalling = {} /\ downloadingFrom = 0
  /\ numPreferred = 0 /\ syncStarted = {} /\ nSyncStarted = 0
  /\ handling = NoBlockMessage /\ rpc = NoRpc /\ fetches = {}

HandlerStep == ProcessNewBlock \/ BlockStored

Next ==
  \/ \E p \in Peer :
       \/ InitializeNode(p) \/ DisconnectNode(p) \/ FinalizeNode(p)
       \/ SendTimesOut(p) \/ SendMessages(p)
       \/ \E b \in Block :
            InvReceived(p, b) \/ HeadersReceived(p, b) \/ BlockReceived(p, b) \/ FetchBlockStart(p, b)
  \/ HandlerStep \/ FetchBlock

(* The threads run: ThreadMessageHandler visits all peers in turn, sockets *)
(* are closed, timeouts that are due fire.  These happen once for a peer,  *)
(* so fairness to all of them is fairness to each.  A prompt peer connects,*)
(* tells its tip when asked for headers, and sends blocks it is asked for. *)
Once ==
  \/ FetchBlock
  \/ \E p \in Peer : FinalizeNode(p) \/ SendTimesOut(p)
  \/ \E p \in Prompt : InitializeNode(p)
Fairness ==
  /\ WF_vars(HandlerStep) /\ SF_vars(Once)
  /\ \A p \in Prompt :
       /\ SF_vars(SendMessages(p))
       /\ SF_vars(p \in syncStarted /\ HeadersReceived(p, PeerTip[p]))
       /\ SF_vars(\E b \in Block : lists[p][b] > 0 /\ BlockReceived(p, b))

Spec == Init /\ [][Next]_vars
FairSpec == Spec /\ Fairness
-----------------------------------------------------------------------------
(* Properties.                                                             *)
Connected(p) == status[p] \in {"up", "closing"}

(* mapBlocksInFlight, the peers' lists and the four counters agree, and a  *)
(* block is in flight only from a peer that is still there: what           *)
(* FinalizeNode asserts when the last peer leaves, and what keeps          *)
(* State(staller) from being null.                                         *)
InFlightExact ==
  /\ \A p \in Peer, b \in Block : lists[p][b] = IF inFlight[b] = p THEN 1 ELSE 0
  /\ \A p \in Peer : count[p] = Cardinality({b \in Block : inFlight[b] = p})
  /\ \A p \in Peer : count[p] > 0 \/ p \in stalling \cup syncStarted => Connected(p)
  /\ \A p \in stalling : count[p] > 0
  /\ downloadingFrom = Cardinality({p \in Peer : count[p] > 0})
  /\ numPreferred = Cardinality({p \in Preferred : Connected(p)})
  /\ nSyncStarted = Cardinality(syncStarted)

(* Every block up to pindexLastCommonBlock is there: a block that the      *)
(* download from a peer skips is never looked for again.                   *)
LastCommonLinked == \A p \in Peer : lastCommon[p] # None => lastCommon[p] \in Linked(have)

(* The node ends up with the best chain that a prompt outbound peer has,   *)
(* although other peers take block requests and headers requests and do    *)
(* not answer.                                                             *)
SyncCompletes ==
  \A p \in Prompt \cap Preferred : <>(Height(tip) >= Height(PeerTip[p]))
=============================================================================
