------------------------ MODULE BlockDownloadProofs ------------------------
(***************************************************************************)
(* The bookkeeping of block downloads and the last common blocks, for any  *)
(* block tree, any peers and any limits.  Three operations write the       *)
(* records of what is in flight: Removed, Requested and the reassignment   *)
(* in BlockRequested; a lemma for each says that the records still agree.  *)
(***************************************************************************)
EXTENDS BlockDownload, FiniteSetTheorems, TLAPS

(* The values of the variables, and what the handler of a block and the    *)
(* RPC carry from one use of cs_main to the next.                          *)
TypeOK ==
  /\ known \subseteq Block /\ have \subseteq Block /\ tip \in Block
  /\ status \in [Peer -> {"new", "up", "closing", "gone"}]
  /\ best \in [Peer -> Block \cup {None}] /\ lastUnknown \in [Peer -> Block \cup {None}]
  /\ lastCommon \in [Peer -> Block \cup {None}]
  /\ inFlight \in [Block -> Peer \cup {None}]
  /\ lists \in [Peer -> [Block -> Int]] /\ count \in [Peer -> Int]
  /\ stalling \subseteq Peer /\ syncStarted \subseteq Peer
  /\ downloadingFrom \in Int /\ numPreferred \in Int /\ nSyncStarted \in Int
  /\ handling.stage # "none" => handling.block \in Block
  /\ rpc # NoRpc => rpc.peer \in Peer /\ rpc.block \in Block /\ status[rpc.peer] # "new"

From(f, p) == {b \in Block : f[b] = p}
Busy == {p \in Peer : count[p] > 0}

(* The records of what is in flight agree.                                 *)
Flight ==
  /\ \A p \in Peer, b \in Block : lists[p][b] = IF inFlight[b] = p THEN 1 ELSE 0
  /\ \A p \in Peer : count[p] = Cardinality(From(inFlight, p))
  /\ downloadingFrom = Cardinality(Busy)

Present == \A p \in Peer : count[p] > 0 \/ p \in syncStarted => Connected(p)
Stallers == \A p \in stalling : count[p] > 0
Counted ==
  /\ numPreferred = Cardinality({p \in Preferred : Connected(p)})
  /\ nSyncStarted = Cardinality(syncStarted)
-----------------------------------------------------------------------------
(* Most leaves need no arithmetic; those that do name SMT.                 *)
USE Zenon

LEMMA BlocksFinite ==
  ASSUME NEW S \in SUBSET Block
  PROVE  IsFiniteSet(S) /\ Cardinality(S) \in Nat /\ (Cardinality(S) = 0 <=> S = {})
BY FS_Subset, FS_CardinalityType, FS_EmptySet, DownloadAssumption

LEMMA PeersFinite ==
  ASSUME NEW S \in SUBSET Peer
  PROVE  IsFiniteSet(S) /\ Cardinality(S) \in Nat
BY FS_Subset, FS_CardinalityType, DownloadAssumption

LEMMA OneBlock ==
  ASSUME NEW S \in SUBSET Block, NEW b \in Block
  PROVE  /\ b \notin S => Cardinality(S \cup {b}) = Cardinality(S) + 1
         /\ b \in S => Cardinality(S \ {b}) = Cardinality(S) - 1
BY BlocksFinite, FS_AddElement, FS_RemoveElement

LEMMA OnePeer ==
  ASSUME NEW S \in SUBSET Peer, NEW p \in Peer
  PROVE  /\ p \notin S => Cardinality(S \cup {p}) = Cardinality(S) + 1
         /\ p \in S => Cardinality(S \ {p}) = Cardinality(S) - 1
BY PeersFinite, FS_AddElement, FS_RemoveElement

LEMMA DisjointBlocks ==
  ASSUME NEW S \in SUBSET Block, NEW T \in SUBSET Block, S \cap T = {}
  PROVE  Cardinality(S \cup T) = Cardinality(S) + Cardinality(T)
<1>1. Cardinality(S \cup T) = Cardinality(S) + Cardinality(T) - Cardinality(S \cap T)
  BY BlocksFinite, FS_Union
<1>2. Cardinality(S \cap T) = 0
  BY FS_EmptySet
<1>3. QED
  BY <1>1, <1>2, BlocksFinite, SMT

LEMMA NoneIsNoPeer == None \notin Peer /\ None \notin Block
BY DownloadAssumption
-----------------------------------------------------------------------------
(* The three operations.                                                   *)

LEMMA RemovedKeeps ==
  ASSUME TypeOK, Flight, NEW b \in Block, NEW o \in Peer, inFlight[b] = o, Removed(b, o)
  PROVE  /\ inFlight' \in [Block -> Peer \cup {None}]
         /\ lists' \in [Peer -> [Block -> Int]] /\ count' \in [Peer -> Int]
         /\ downloadingFrom' \in Int
         /\ Flight'
         /\ count'[o] = count[o] - 1 /\ \A q \in Peer \ {o} : count'[q] = count[q]
         /\ stalling' = stalling \ {o}
<1>1. /\ inFlight' \in [Block -> Peer \cup {None}]
      /\ lists' \in [Peer -> [Block -> Int]] /\ count' \in [Peer -> Int]
      /\ downloadingFrom' \in Int /\ stalling' = stalling \ {o}
      /\ count'[o] = count[o] - 1 /\ \A q \in Peer \ {o} : count'[q] = count[q]
  BY SMT DEF TypeOK, Removed
<1>2. \A p \in Peer, x \in Block : lists'[p][x] = IF inFlight'[x] = p THEN 1 ELSE 0
  BY NoneIsNoPeer, SMT DEF TypeOK, Flight, Removed
<1>3. From(inFlight', o) = From(inFlight, o) \ {b} /\ \A q \in Peer \ {o} : From(inFlight', q) = From(inFlight, q)
  BY NoneIsNoPeer DEF TypeOK, Removed, From
<1>4. \A p \in Peer : count'[p] = Cardinality(From(inFlight', p))
  <2>1. b \in From(inFlight, o) /\ From(inFlight, o) \in SUBSET Block
    BY DEF From
  <2>2. Cardinality(From(inFlight, o) \ {b}) = Cardinality(From(inFlight, o)) - 1
    BY <2>1, OneBlock
  <2>3. QED
    BY <1>1, <1>3, <2>2 DEF Flight
<1>5. downloadingFrom' = Cardinality(Busy')
  <2>1. count[o] > 0 /\ o \in Busy
    <3>1. From(inFlight, o) \in SUBSET Block /\ From(inFlight, o) # {}
      BY DEF From
    <3>2. QED
      BY <3>1, BlocksFinite, SMT DEF Flight, Busy
  <2>2. Busy' = IF count[o] = 1 THEN Busy \ {o} ELSE Busy
    BY <1>1, <2>1, SMT DEF Busy, TypeOK
  <2>3. Busy \in SUBSET Peer
    BY DEF Busy
  <2>4. Cardinality(Busy \ {o}) = Cardinality(Busy) - 1
    BY <2>1, <2>3, OnePeer
  <2>5. downloadingFrom' = IF count[o] = 1 THEN downloadingFrom - 1 ELSE downloadingFrom
    BY DEF Removed
  <2>6. QED
    BY <2>2, <2>4, <2>5 DEF Flight
<1>6. QED
  BY <1>1, <1>2, <1>4, <1>5 DEF Flight

LEMMA RequestedKeeps ==
  ASSUME TypeOK, Flight, NEW p \in Peer, NEW S \in SUBSET Block,
         \A b \in S : inFlight[b] = None, Requested(p, S)
  PROVE  /\ inFlight' \in [Block -> Peer \cup {None}]
         /\ lists' \in [Peer -> [Block -> Int]] /\ count' \in [Peer -> Int]
         /\ downloadingFrom' \in Int
         /\ Flight'
         /\ count'[p] >= count[p] /\ \A q \in Peer \ {p} : count'[q] = count[q]
<1>0. Cardinality(S) \in Nat /\ (Cardinality(S) = 0 <=> S = {})
  BY BlocksFinite
<1>1. /\ inFlight' \in [Block -> Peer \cup {None}]
      /\ lists' \in [Peer -> [Block -> Int]]
  BY SMT DEF TypeOK, Requested
<1>2. /\ count' \in [Peer -> Int] /\ downloadingFrom' \in Int
      /\ count'[p] = count[p] + Cardinality(S)
      /\ \A q \in Peer \ {p} : count'[q] = count[q]
  BY <1>0, SMT DEF TypeOK, Requested
<1>3. \A q \in Peer, x \in Block : lists'[q][x] = IF inFlight'[x] = q THEN 1 ELSE 0
  BY NoneIsNoPeer, SMT DEF TypeOK, Flight, Requested
<1>4. From(inFlight', p) = From(inFlight, p) \cup S /\ \A q \in Peer \ {p} : From(inFlight', q) = From(inFlight, q)
  BY NoneIsNoPeer DEF TypeOK, Requested, From
<1>5. \A q \in Peer : count'[q] = Cardinality(From(inFlight', q))
  <2>1. From(inFlight, p) \in SUBSET Block /\ From(inFlight, p) \cap S = {}
    BY NoneIsNoPeer DEF From
  <2>2. Cardinality(From(inFlight, p) \cup S) = Cardinality(From(inFlight, p)) + Cardinality(S)
    BY <2>1, DisjointBlocks
  <2>3. QED
    BY <1>2, <1>4, <2>2 DEF Flight
<1>6. count[p] \in Nat
  <2>1. From(inFlight, p) \in SUBSET Block
    BY DEF From
  <2>2. QED
    BY <2>1, BlocksFinite DEF Flight
<1>7. downloadingFrom' = Cardinality(Busy')
  <2>1. Busy' = IF S # {} THEN Busy \cup {p} ELSE Busy
    <3>1. CASE S = {}
      BY <1>0, <1>2, <3>1, SMT DEF Busy, TypeOK
    <3>2. CASE S # {}
      <4>1. count'[p] > 0
        BY <1>0, <1>2, <1>6, <3>2, SMT
      <4>2. QED
        BY <1>2, <3>2, <4>1 DEF Busy
    <3>3. QED
      BY <3>1, <3>2
  <2>2. Busy \in SUBSET Peer /\ (p \in Busy <=> count[p] # 0)
    BY <1>6, SMT DEF Busy
  <2>3. p \notin Busy => Cardinality(Busy \cup {p}) = Cardinality(Busy) + 1
    BY <2>2, OnePeer
  <2>4. p \in Busy => Busy \cup {p} = Busy
    OBVIOUS
  <2>5. downloadingFrom' = IF S # {} /\ count[p] = 0 THEN downloadingFrom + 1 ELSE downloadingFrom
    BY DEF Requested
  <2>6. QED
    BY <2>1, <2>2, <2>3, <2>4, <2>5 DEF Flight
<1>8. QED
  BY <1>0, <1>1, <1>2, <1>3, <1>5, <1>6, <1>7, SMT DEF Flight

LEMMA ReassignedKeeps ==
  ASSUME TypeOK, Flight, NEW p \in Peer, NEW b \in Block, NEW o \in Peer,
         inFlight[b] = o, o # p, BlockRequested(p, b)
  PROVE  /\ inFlight' \in [Block -> Peer \cup {None}]
         /\ lists' \in [Peer -> [Block -> Int]] /\ count' \in [Peer -> Int]
         /\ downloadingFrom' \in Int
         /\ Flight'
         /\ count'[p] > 0 /\ \A q \in Peer \ {o, p} : count'[q] = count[q]
         /\ count'[o] = count[o] - 1 /\ stalling' = stalling \ {o}
<1>0. /\ inFlight' = [inFlight EXCEPT ![b] = p]
      /\ lists' = [lists EXCEPT ![o][b] = @ - 1, ![p][b] = @ + 1]
      /\ count' = [count EXCEPT ![o] = @ - 1, ![p] = @ + 1]
      /\ downloadingFrom' = downloadingFrom - (IF count[o] = 1 THEN 1 ELSE 0)
                                            + (IF count[p] = 0 THEN 1 ELSE 0)
      /\ stalling' = stalling \ {o}
  BY NoneIsNoPeer DEF BlockRequested
<1>1. /\ inFlight' \in [Block -> Peer \cup {None}]
      /\ lists' \in [Peer -> [Block -> Int]] /\ count' \in [Peer -> Int]
      /\ downloadingFrom' \in Int
      /\ count'[o] = count[o] - 1 /\ count'[p] = count[p] + 1
      /\ \A q \in Peer \ {o, p} : count'[q] = count[q]
  <2>1. inFlight' \in [Block -> Peer \cup {None}]
    BY <1>0 DEF TypeOK
  <2>2. lists' \in [Peer -> [Block -> Int]]
    <3> DEFINE less == [lists[o] EXCEPT ![b] = @ - 1]
               more == [lists[p] EXCEPT ![b] = @ + 1]
    <3>1. less \in [Block -> Int] /\ more \in [Block -> Int]
      BY SMT DEF TypeOK
    <3>2. lists' = [[lists EXCEPT ![o] = less] EXCEPT ![p] = more]
      BY <1>0 DEF TypeOK
    <3> HIDE DEF less, more
    <3>3. QED
      BY <3>1, <3>2 DEF TypeOK
  <2>3. /\ count' \in [Peer -> Int]
        /\ count'[o] = count[o] - 1 /\ count'[p] = count[p] + 1
        /\ \A q \in Peer \ {o, p} : count'[q] = count[q]
    BY <1>0, SMT DEF TypeOK
  <2>4. downloadingFrom' \in Int
    <3>1. downloadingFrom \in Int
      BY DEF TypeOK
    <3>2. QED
      BY <1>0, <3>1, SMT
  <2>5. QED
    BY <2>1, <2>2, <2>3, <2>4
<1>2. \A q \in Peer, x \in Block : lists'[q][x] = IF inFlight'[x] = q THEN 1 ELSE 0
  BY <1>0, SMTT(30) DEF TypeOK, Flight
<1>3. /\ From(inFlight', o) = From(inFlight, o) \ {b}
      /\ From(inFlight', p) = From(inFlight, p) \cup {b}
      /\ \A q \in Peer \ {o, p} : From(inFlight', q) = From(inFlight, q)
  BY <1>0 DEF TypeOK, From
<1>4. /\ From(inFlight, o) \in SUBSET Block /\ b \in From(inFlight, o)
      /\ From(inFlight, p) \in SUBSET Block /\ b \notin From(inFlight, p)
  BY DEF From
<1>5. \A q \in Peer : count'[q] = Cardinality(From(inFlight', q))
  <2>1. Cardinality(From(inFlight, o) \ {b}) = Cardinality(From(inFlight, o)) - 1
    BY <1>4, OneBlock
  <2>2. Cardinality(From(inFlight, p) \cup {b}) = Cardinality(From(inFlight, p)) + 1
    BY <1>4, OneBlock
  <2>3. QED
    BY <1>1, <1>3, <2>1, <2>2 DEF Flight
<1>6. count[o] \in Nat \ {0} /\ count[p] \in Nat
  BY <1>4, BlocksFinite DEF Flight
<1>7. downloadingFrom' = Cardinality(Busy')
  <2> DEFINE without == IF count[o] = 1 THEN Busy \ {o} ELSE Busy
  <2>1. Busy \in SUBSET Peer /\ o \in Busy /\ (p \in Busy <=> count[p] # 0)
    BY <1>6, SMT DEF Busy
  <2>2. without \in SUBSET Peer /\ (p \in without <=> count[p] # 0)
    BY <2>1
  <2>3. Busy' = without \cup {p}
    BY <1>1, <1>6, SMTT(30) DEF Busy
  <2>4. Cardinality(without) = Cardinality(Busy) - (IF count[o] = 1 THEN 1 ELSE 0)
    BY <2>1, OnePeer, PeersFinite, SMT
  <2>5. Cardinality(Busy') = Cardinality(without) + (IF count[p] = 0 THEN 1 ELSE 0)
    <3> HIDE DEF without
    <3>1. CASE count[p] = 0
      BY <2>2, <2>3, <3>1, OnePeer
    <3>2. CASE count[p] # 0
      <4>1. without \cup {p} = without
        BY <2>2, <3>2
      <4>2. QED
        BY <2>2, <2>3, <3>2, <4>1, PeersFinite, SMT
    <3>3. QED
      BY <3>1, <3>2
  <2>6. QED
    <3> HIDE DEF without
    <3>1. Cardinality(Busy) \in Int /\ Cardinality(without) \in Int
      BY <2>1, <2>2, PeersFinite, SMT
    <3>2. QED
      BY <1>0, <2>4, <2>5, <3>1 DEF Flight
<1>8. QED
  <2>1. Flight'
    BY <1>2, <1>5, <1>7 DEF Flight
  <2>2. count'[p] > 0
    BY <1>1, <1>6, SMT
  <2>3. QED
    BY <1>0, <1>1, <2>1, <2>2
-----------------------------------------------------------------------------
(* What the callers need: the records agree afterwards, and a peer gains   *)
(* blocks in flight only when it was asked.                                *)
Kept(asked) ==
  /\ inFlight' \in [Block -> Peer \cup {None}]
  /\ lists' \in [Peer -> [Block -> Int]] /\ count' \in [Peer -> Int]
  /\ downloadingFrom' \in Int /\ stalling' \subseteq Peer
  /\ Flight' /\ Stallers'
  /\ \A q \in Peer : count'[q] > 0 => count[q] > 0 \/ q \in asked

LEMMA CountIsNat ==
  ASSUME Flight, NEW p \in Peer
  PROVE  /\ count[p] \in Nat
         /\ \A b \in Block : inFlight[b] = p => count[p] > 0
<1>1. From(inFlight, p) \in SUBSET Block /\ \A b \in Block : inFlight[b] = p => b \in From(inFlight, p)
  BY DEF From
<1>2. QED
  BY <1>1, BlocksFinite, SMT DEF Flight

LEMMA UnchangedKept ==
  ASSUME TypeOK, Flight, Stallers, UNCHANGED flightVars
  PROVE  Kept({})
BY DEF TypeOK, Flight, Stallers, Kept, flightVars, Busy

LEMMA RemoveKept ==
  ASSUME TypeOK, Flight, Stallers, NEW b \in Block, NEW from \in Peer \cup {None},
         RemoveBlockRequest(b, from)
  PROVE  Kept({})
<1>1. CASE inFlight[b] = None \/ (from # None /\ inFlight[b] # from)
  BY <1>1, UnchangedKept DEF RemoveBlockRequest
<1>2. CASE inFlight[b] # None /\ ~(from # None /\ inFlight[b] # from)
  <2> DEFINE o == inFlight[b]
  <2>1. o \in Peer /\ Removed(b, o)
    BY <1>2 DEF TypeOK, RemoveBlockRequest
  <2> HIDE DEF o
  <2>2. inFlight[b] = o
    BY DEF o
  <2>3. QED
    <3>1. /\ inFlight' \in [Block -> Peer \cup {None}]
          /\ lists' \in [Peer -> [Block -> Int]] /\ count' \in [Peer -> Int]
          /\ downloadingFrom' \in Int /\ Flight'
      BY <2>1, <2>2, RemovedKeeps
    <3>2. /\ count'[o] = count[o] - 1 /\ \A q \in Peer \ {o} : count'[q] = count[q]
          /\ stalling' = stalling \ {o}
      BY <2>1, <2>2, RemovedKeeps
    <3>3. \A q \in Peer : count[q] \in Int
      BY DEF TypeOK
    <3>4. \A q \in Peer : count'[q] > 0 => count[q] > 0
      BY <2>1, <3>2, <3>3, SMT
    <3>5. stalling' \subseteq Peer /\ Stallers'
      BY <2>1, <3>2 DEF TypeOK, Stallers
    <3>6. QED
      BY <3>1, <3>4, <3>5 DEF Kept
<1>3. QED
  BY <1>1, <1>2

LEMMA RequestKept ==
  ASSUME TypeOK, Flight, Stallers, NEW p \in Peer, NEW S \in SUBSET Block,
         \A b \in S : inFlight[b] = None, Requested(p, S),
         NEW more \in SUBSET Peer, \A q \in more : count[q] > 0,
         stalling' \subseteq stalling \cup more
  PROVE  Kept({p})
<1>1. /\ inFlight' \in [Block -> Peer \cup {None}]
      /\ lists' \in [Peer -> [Block -> Int]] /\ count' \in [Peer -> Int]
      /\ downloadingFrom' \in Int /\ Flight'
      /\ count'[p] >= count[p] /\ \A q \in Peer \ {p} : count'[q] = count[q]
  BY RequestedKeeps
<1>2. \A q \in Peer : count'[q] >= count[q] /\ count[q] \in Int /\ count'[q] \in Int
  <2>1. \A q \in Peer : count[q] \in Int
    BY DEF TypeOK
  <2>2. \A q \in Peer : count'[q] \in Int
    BY <1>1
  <2>3. QED
    BY <1>1, <2>1, <2>2, SMT
<1>3. stalling' \subseteq Peer /\ Stallers'
  BY <1>2, SMT DEF TypeOK, Stallers
<1>4. \A q \in Peer : count'[q] > 0 => count[q] > 0 \/ q \in {p}
  BY <1>1
<1>5. QED
  BY <1>1, <1>3, <1>4 DEF Kept

LEMMA BlockRequestedKept ==
  ASSUME TypeOK, Flight, Stallers, NEW p \in Peer, NEW b \in Block, BlockRequested(p, b)
  PROVE  Kept({p})
<1>1. CASE inFlight[b] = p
  <2>1. UNCHANGED flightVars
    BY <1>1, NoneIsNoPeer DEF BlockRequested
  <2>2. QED
    BY <2>1, UnchangedKept DEF Kept
<1>2. CASE inFlight[b] = None
  <2>1. Requested(p, {b}) /\ stalling' = stalling
    BY <1>2, NoneIsNoPeer DEF BlockRequested
  <2>2. QED
    <3>1. {b} \in SUBSET Block /\ (\A x \in {b} : inFlight[x] = None)
      BY <1>2
    <3>2. {} \in SUBSET Peer /\ (\A q \in {} : count[q] > 0) /\ stalling' \subseteq stalling \cup {}
      BY <2>1
    <3>3. QED
      BY <2>1, <3>1, <3>2, RequestKept
<1>3. CASE inFlight[b] \notin {p, None}
  <2>1. PICK o \in Peer : inFlight[b] = o /\ o # p
    BY <1>3 DEF TypeOK
  <2>2. QED
    <3>1. /\ inFlight' \in [Block -> Peer \cup {None}]
          /\ lists' \in [Peer -> [Block -> Int]] /\ count' \in [Peer -> Int]
          /\ downloadingFrom' \in Int /\ Flight'
      BY <2>1, ReassignedKeeps
    <3>2. /\ count'[p] > 0 /\ \A q \in Peer \ {o, p} : count'[q] = count[q]
          /\ count'[o] = count[o] - 1 /\ stalling' = stalling \ {o}
      BY <2>1, ReassignedKeeps, SMT
    <3>3. \A q \in Peer : count'[q] > 0 => count[q] > 0 \/ q \in {p}
      BY <2>1, <3>2, SMT DEF TypeOK
    <3>4. stalling' \subseteq Peer /\ Stallers'
      BY <3>2 DEF TypeOK, Stallers
    <3>5. QED
      BY <3>1, <3>3, <3>4 DEF Kept
<1>4. QED
  BY <1>1, <1>2, <1>3
-----------------------------------------------------------------------------
(* Chains of blocks have a last block.                                     *)
LEMMA ChainTop ==
  ASSUME NEW b \in Block, NEW S \in SUBSET Path[b], S # {}
  PROVE  \E t \in S : S \subseteq Path[t]
<1> DEFINE R == StrictSubsetOrdering(Block)
           T == {Block \ Path[x] : x \in S}
<1>1. IsWellFoundedOn(R, SUBSET Block)
  <2>1. IsWellFoundedOn(StrictSubsetOrdering(Block), FiniteSubsetsOf(Block))
    BY FS_StrictSubsetOrderingWellFounded
  <2>2. FiniteSubsetsOf(Block) = SUBSET Block
    BY FS_FiniteSubsetsOfFinite, DownloadAssumption
  <2>3. QED
    BY <2>1, <2>2
<1>2. T \subseteq SUBSET Block /\ T # {}
  OBVIOUS
<1> HIDE DEF R, T
<1>3. PICK m \in T : \A y \in T : ~(<<y, m>> \in R)
  BY <1>1, <1>2, WFMin
<1>4. PICK t \in S : m = Block \ Path[t]
  BY <1>3 DEF T
<1>5. ASSUME NEW x \in S
      PROVE  x \in Path[t]
  <2>1. x \in Path[b] /\ t \in Path[b] /\ Path[b] \subseteq Block
    BY TreeAssumption
  <2>2. Path[x] \subseteq Block /\ x \in Path[x] /\ Path[t] \subseteq Block /\ t \in Path[t]
    BY <2>1, TreeAssumption
  <2>3. CASE t \in Path[x]
    <3>1. Path[t] \subseteq Path[x]
      BY <2>1, <2>3, TreeAssumption
    <3>2. Block \ Path[x] \in T /\ Block \ Path[x] \subseteq m
      BY <1>4, <3>1 DEF T
    <3>3. <<Block \ Path[x], m>> \notin R
      BY <1>3, <3>2
    <3>4. Block \ Path[x] = m
      BY <1>4, <3>2, <3>3 DEF R, StrictSubsetOrdering
    <3>5. QED
      BY <1>4, <2>2, <3>4
  <2>4. QED
    BY <2>1, <2>3, TreeAssumption
<1>6. QED
  BY <1>5

LEMMA HeightMonotone ==
  ASSUME NEW y \in Block, NEW x \in Path[y]
  PROVE  Height(x) \in Int /\ Height(y) \in Int /\ Height(x) <= Height(y)
<1>1. x \in Block /\ Path[x] \subseteq Path[y] /\ Path[y] \in SUBSET Block /\ Path[x] \in SUBSET Block
  BY TreeAssumption
<1>2. Cardinality(Path[x]) <= Cardinality(Path[y])
  BY <1>1, BlocksFinite, FS_Subset
<1>3. Cardinality(Path[x]) \in Int /\ Cardinality(Path[y]) \in Int
  BY <1>1, BlocksFinite, SMT
<1>4. Height(x) = Cardinality(Path[x]) - 1 /\ Height(y) = Cardinality(Path[y]) - 1
  BY <1>1 DEF Height, HeightOf
<1>5. QED
  BY <1>2, <1>3, <1>4, SMT

LEMMA CommonAncestor ==
  ASSUME NEW x \in Block, NEW y \in Block
  PROVE  LastCommonAncestor(x, y) \in Path[x] \cap Path[y]
<1> DEFINE shared == Path[x] \cap Path[y]
<1>1. shared \in SUBSET Path[x] /\ shared # {}
  BY TreeAssumption
<1>2. \E b \in shared : shared \subseteq Path[b]
  <2> HIDE DEF shared
  <2>1. QED
    BY <1>1, ChainTop, SMT
<1>3. QED
  BY <1>2 DEF LastCommonAncestor

LEMMA LinkedBelow ==
  ASSUME NEW h, NEW y \in Linked(h), NEW x \in Path[y]
  PROVE  x \in Linked(h)
BY TreeAssumption DEF Linked
-----------------------------------------------------------------------------
(* FindNextBlocksToDownload: where it starts, and what it returns.         *)
Stored == tip \in Linked(have) /\ LastCommonLinked

LEMMA StartsLinked ==
  ASSUME TypeOK, Stored, NEW p \in Peer, NEW bk \in Block, ~(Work(bk) < Height(tip))
  PROVE  FirstCommon(p, bk) \in Linked(have) \cap Path[bk]
<1> DEFINE guess == IF lastCommon[p] # None THEN lastCommon[p]
                    ELSE CHOOSE b \in Path[tip] : Height(b) = (IF Height(bk) < Height(tip) THEN Height(bk) ELSE Height(tip))
<1>1. guess \in Linked(have)
  <2>1. CASE lastCommon[p] # None
    BY <2>1 DEF Stored, LastCommonLinked
  <2>2. CASE lastCommon[p] = None
    <3>1. tip \in Block /\ tip \in Path[tip]
      BY TreeAssumption DEF TypeOK
    <3>2. ~(Height(bk) < Height(tip))
      BY NoneIsNoPeer DEF Work
    <3>3. \E b \in Path[tip] : Height(b) = (IF Height(bk) < Height(tip) THEN Height(bk) ELSE Height(tip))
      BY <3>1, <3>2
    <3>4. guess \in Path[tip]
      BY <2>2, <3>3
    <3>5. QED
      BY <3>4, LinkedBelow DEF Stored
  <2>3. QED
    BY <2>1, <2>2
<1>2. FirstCommon(p, bk) = LastCommonAncestor(guess, bk)
  BY DEF FirstCommon
<1> HIDE DEF guess
<1>3. guess \in Block
  BY <1>1 DEF Linked
<1>4. LastCommonAncestor(guess, bk) \in Path[guess] \cap Path[bk]
  BY <1>3, CommonAncestor
<1>5. QED
  BY <1>1, <1>2, <1>4, LinkedBelow

LEMMA FoundRight ==
  ASSUME TypeOK, NEW p \in Peer, NEW bk \in Block, NEW lc \in Linked(have) \cap Path[bk],
         NEW walk \in SUBSET Path[bk], NEW wanted \in SUBSET walk
  PROVE  /\ FindNextBlocks(p, lc, walk, wanted).fetch \subseteq wanted
         /\ FindNextBlocks(p, lc, walk, wanted).common \in Linked(have)
         /\ \A q \in FindNextBlocks(p, lc, walk, wanted).staller :
              \E b \in walk : inFlight[b] = q /\ IsBlockRequested(b)
<1> DEFINE n == MaxInTransit - count[p]
           inside == {b \in wanted : Height(b) <= Height(lc) + Window}
           fetch == Lowest(n, inside)
           last == IF Cardinality(inside) >= n
                   THEN {b \in fetch : \A x \in fetch : Height(x) <= Height(b)}
                   ELSE wanted \ inside
           seen == {b \in walk : \A x \in last : Height(b) < Height(x)}
           common == {b \in seen : Complete(b)} \cup {lc}
           waiting == {b \in seen : Missing(b) /\ IsBlockRequested(b)}
           waitingFor == {inFlight[b] : b \in Lowest(1, waiting)}
           highest == CHOOSE b \in common : \A x \in common : Height(x) <= Height(b)
           staller == IF Cardinality(inside) < n /\ wanted \ inside # {} /\ fetch = {}
                      THEN waitingFor \ {p} ELSE {}
<1>1. FindNextBlocks(p, lc, walk, wanted) = [fetch |-> fetch, common |-> highest, staller |-> staller]
  BY DEF FindNextBlocks
<1>2. fetch \subseteq wanted
  BY DEF Lowest
<1>3. seen \subseteq walk
  OBVIOUS
<1> HIDE DEF seen
<1>4. highest \in common
  <2>1. common \in SUBSET Path[bk] /\ common # {}
    BY <1>3
  <2>2. PICK t \in common : common \subseteq Path[t]
    <3> HIDE DEF common
    <3>1. QED
      BY <2>1, ChainTop, SMT
  <2>3. t \in Block
    BY <2>1, TreeAssumption
  <2>4. \A x \in common : Height(x) <= Height(t)
    BY <2>2, <2>3, HeightMonotone
  <2>5. QED
    BY <2>2, <2>4
<1>5. common \subseteq Linked(have)
  BY DEF Complete
<1>6. \A q \in staller : \E b \in walk : inFlight[b] = q /\ IsBlockRequested(b)
  <2>1. waiting \subseteq {b \in walk : IsBlockRequested(b)}
    BY <1>3
  <2>2. Lowest(1, waiting) \subseteq {b \in walk : IsBlockRequested(b)}
    BY <2>1 DEF Lowest
  <2>3. QED
    BY <2>2
<1> HIDE DEF fetch, common, highest, staller
<1>7. QED
  BY <1>1, <1>2, <1>4, <1>5, <1>6, SMT
-----------------------------------------------------------------------------
(* The parts of the invariant that most steps leave alone.                 *)
Inv == TypeOK /\ Flight /\ Present /\ Stallers /\ Counted /\ Stored

LEMMA PresentKept ==
  ASSUME Present, NEW asked, Kept(asked), status' = status,
         \A q \in Peer : q \in asked \/ q \in syncStarted' \ syncStarted => Connected(q)
  PROVE  Present'
BY DEF Present, Kept, Connected

LEMMA CountedKept ==
  ASSUME Counted, status' = status, numPreferred' = numPreferred, UNCHANGED syncVars
  PROVE  Counted'
BY DEF Counted, Connected, syncVars

LEMMA StoredKept ==
  ASSUME Stored, have' = have, tip' = tip, lastCommon' = lastCommon
  PROVE  Stored'
BY DEF Stored, LastCommonLinked, Linked

LEMMA PreferredFinite ==
  ASSUME NEW S \in SUBSET Preferred
  PROVE  S \in SUBSET Peer
BY DownloadAssumption
-----------------------------------------------------------------------------
(* One lemma per operation.                                                *)

LEMMA InitializeStep ==
  ASSUME Inv, NEW p \in Peer, InitializeNode(p)
  PROVE  Inv'
<1> DEFINE C == {q \in Preferred : Connected(q)}
<1>1. TypeOK'
  BY SMT DEF Inv, TypeOK, InitializeNode, chainVars, availVars, flightVars, syncVars, NoRpc
<1>2. UNCHANGED flightVars /\ UNCHANGED syncVars /\ UNCHANGED chainVars /\ UNCHANGED availVars
  BY DEF InitializeNode
<1>3. Flight' /\ Stallers'
  BY <1>2, UnchangedKept DEF Inv, Kept
<1>4. Stored'
  BY <1>2, StoredKept DEF Inv, chainVars, availVars
<1>5. Present'
  BY <1>2 DEF Inv, TypeOK, Present, Connected, InitializeNode, flightVars, syncVars
<1>6. C' = IF p \in Preferred THEN C \cup {p} ELSE C
  BY DownloadAssumption, SMT DEF Inv, TypeOK, InitializeNode, Connected
<1>7. p \notin C /\ C \in SUBSET Peer
  BY DownloadAssumption DEF InitializeNode, Connected
<1>8. numPreferred' = IF p \in Preferred THEN numPreferred + 1 ELSE numPreferred
  BY DEF InitializeNode
<1>9. Counted'
  <2>1. numPreferred = Cardinality(C) /\ nSyncStarted' = Cardinality(syncStarted')
    BY <1>2 DEF Inv, Counted, syncVars
  <2> HIDE DEF C
  <2>2. Cardinality(C \cup {p}) = Cardinality(C) + 1
    BY <1>7, OnePeer
  <2>3. numPreferred' = Cardinality(C')
    BY <1>6, <1>8, <2>1, <2>2
  <2>4. QED
    BY <2>1, <2>3 DEF Counted, C
<1>10. QED
  BY <1>1, <1>3, <1>4, <1>5, <1>9 DEF Inv

(* The number of peers that headers are synchronised from.                 *)
LEMMA SyncCounted ==
  ASSUME Inv, NEW p \in Peer, StartSync(p) \/ UNCHANGED syncVars
  PROVE  /\ syncStarted' \subseteq syncStarted \cup {p} /\ nSyncStarted' \in Int
         /\ nSyncStarted' = Cardinality(syncStarted')
<1>1. \/ UNCHANGED syncVars
      \/ p \notin syncStarted /\ syncStarted' = syncStarted \cup {p} /\ nSyncStarted' = nSyncStarted + 1
  BY DEF StartSync, StartsSync
<1>2. syncStarted \in SUBSET Peer /\ nSyncStarted = Cardinality(syncStarted) /\ nSyncStarted \in Int
  BY DEF Inv, TypeOK, Counted
<1>3. p \notin syncStarted => Cardinality(syncStarted \cup {p}) = Cardinality(syncStarted) + 1
  BY <1>2, OnePeer
<1>4. CASE UNCHANGED syncVars
  <2>1. syncStarted' = syncStarted /\ nSyncStarted' = nSyncStarted
    BY <1>4 DEF syncVars
  <2>2. QED
    BY <1>2, <2>1
<1>5. CASE p \notin syncStarted /\ syncStarted' = syncStarted \cup {p} /\ nSyncStarted' = nSyncStarted + 1
  <2>1. nSyncStarted' \in Int
    BY <1>2, <1>5, SMT
  <2>2. nSyncStarted' = Cardinality(syncStarted')
    BY <1>2, <1>3, <1>5
  <2>3. QED
    BY <1>5, <2>1, <2>2
<1>6. QED
  BY <1>1, <1>4, <1>5

LEMMA CloseStep ==
  ASSUME Inv, NEW p \in Peer, status[p] = "up", Close(p), StartSync(p) \/ UNCHANGED syncVars,
         UNCHANGED <<chainVars, availVars, flightVars, numPreferred, handling, rpc, fetches>>
  PROVE  Inv'
<1>0. /\ syncStarted' \subseteq syncStarted \cup {p} /\ nSyncStarted' \in Int
      /\ nSyncStarted' = Cardinality(syncStarted')
  BY SyncCounted
<1>1. TypeOK'
  BY <1>0 DEF Inv, TypeOK, Close, chainVars, availVars, flightVars, NoRpc
<1>2. Flight' /\ Stallers'
  BY UnchangedKept DEF Inv, Kept
<1>3. Stored'
  BY StoredKept DEF Inv, chainVars, availVars
<1>4. \A q \in Peer : Connected(q)' <=> Connected(q)
  BY DEF Inv, TypeOK, Close, Connected
<1>5. Present'
  <2>1. Connected(p)
    BY DEF Connected
  <2>2. QED
    BY <1>0, <1>4, <2>1 DEF Inv, Present, flightVars
<1>6. Counted'
  <2>1. {q \in Preferred : Connected(q)}' = {q \in Preferred : Connected(q)}
    BY <1>4, DownloadAssumption
  <2>2. QED
    BY <1>0, <2>1 DEF Inv, Counted
<1>7. QED
  BY <1>1, <1>2, <1>3, <1>5, <1>6 DEF Inv

LEMMA FinalizeStep ==
  ASSUME Inv, NEW p \in Peer, FinalizeNode(p)
  PROVE  Inv'
<1> DEFINE C == {q \in Preferred : Connected(q)}
<1>1. TypeOK'
  <2>1. inFlight' \in [Block -> Peer \cup {None}] /\ lists' \in [Peer -> [Block -> Int]]
    BY SMT DEF Inv, TypeOK, FinalizeNode
  <2>2. /\ count' \in [Peer -> Int] /\ downloadingFrom' \in Int
        /\ numPreferred' \in Int /\ nSyncStarted' \in Int
    BY SMT DEF Inv, TypeOK, FinalizeNode
  <2>3. /\ best' \in [Peer -> Block \cup {None}] /\ lastUnknown' \in [Peer -> Block \cup {None}]
        /\ lastCommon' \in [Peer -> Block \cup {None}]
    BY DEF Inv, TypeOK, FinalizeNode
  <2>4. /\ known' \subseteq Block /\ have' \subseteq Block /\ tip' \in Block
        /\ stalling' \subseteq Peer /\ syncStarted' \subseteq Peer
    BY DEF Inv, TypeOK, FinalizeNode, chainVars
  <2>5. /\ status' \in [Peer -> {"new", "up", "closing", "gone"}]
        /\ rpc' = rpc /\ handling' = handling
        /\ \A q \in Peer : status[q] # "new" => status'[q] # "new"
    BY DEF Inv, TypeOK, FinalizeNode
  <2>6. /\ handling'.stage # "none" => handling'.block \in Block
        /\ rpc' # NoRpc => rpc'.peer \in Peer /\ rpc'.block \in Block /\ status'[rpc'.peer] # "new"
    BY <2>5 DEF Inv, TypeOK
  <2>7. QED
    BY <2>1, <2>2, <2>3, <2>4, <2>5, <2>6 DEF TypeOK, NoRpc
<1>2. /\ count' = [count EXCEPT ![p] = 0] /\ stalling' = stalling \ {p}
      /\ syncStarted' = syncStarted \ {p}
      /\ \A q \in Peer \ {p} : status'[q] = status[q]
      /\ status'[p] = "gone" /\ status[p] = "closing"
  BY DEF Inv, TypeOK, FinalizeNode
<1>3. \A b \in Block : inFlight'[b] = IF inFlight[b] = p THEN None ELSE inFlight[b]
  <2>1. \A b \in Block : lists[p][b] > 0 <=> inFlight[b] = p
    BY SMT DEF Inv, Flight
  <2>2. QED
    BY <2>1 DEF FinalizeNode
<1>4. Flight'
  <2>1. \A q \in Peer, b \in Block : lists'[q][b] = IF inFlight'[b] = q THEN 1 ELSE 0
    <3>1. \A q \in Peer, b \in Block : lists'[q][b] = IF q = p THEN 0 ELSE lists[q][b]
      BY DEF Inv, TypeOK, FinalizeNode
    <3>2. QED
      BY <1>3, <3>1, NoneIsNoPeer, SMT DEF Inv, Flight
  <2>2. From(inFlight', p) = {} /\ \A q \in Peer \ {p} : From(inFlight', q) = From(inFlight, q)
    BY <1>3, NoneIsNoPeer DEF From
  <2>3. \A q \in Peer : count'[q] = Cardinality(From(inFlight', q))
    BY <1>2, <2>2, FS_EmptySet DEF Inv, TypeOK, Flight
  <2>4. downloadingFrom' = Cardinality(Busy')
    <3>1. Busy \in SUBSET Peer /\ (p \in Busy <=> count[p] # 0)
      BY CountIsNat, SMT DEF Inv, Busy
    <3>2. Busy' = Busy \ {p}
      BY <1>2, SMT DEF Inv, TypeOK, Busy
    <3>3. downloadingFrom' = IF count[p] # 0 THEN downloadingFrom - 1 ELSE downloadingFrom
      BY DEF FinalizeNode
    <3>4. p \in Busy => Cardinality(Busy \ {p}) = Cardinality(Busy) - 1
      BY <3>1, OnePeer
    <3>5. p \notin Busy => Busy \ {p} = Busy
      OBVIOUS
    <3>6. QED
      BY <3>1, <3>2, <3>3, <3>4, <3>5 DEF Inv, Flight
  <2>5. QED
    BY <2>1, <2>3, <2>4 DEF Flight
<1>5. Present' /\ Stallers'
  <2>1. \A q \in Peer \ {p} : count'[q] = count[q]
    BY <1>2 DEF Inv, TypeOK
  <2>2. count'[p] = 0 /\ stalling \subseteq Peer
    BY <1>2 DEF Inv, TypeOK
  <2>3. Present'
    BY <1>2, <2>1, <2>2, SMT DEF Inv, Present, Connected
  <2>4. Stallers'
    BY <1>2, <2>1, <2>2 DEF Inv, Stallers
  <2>5. QED
    BY <2>3, <2>4
<1>6. Counted'
  <2>1. C' = C \ {p}
    BY <1>2, DownloadAssumption DEF Connected
  <2>2. C \in SUBSET Peer /\ (p \in C <=> p \in Preferred)
    BY <1>2, DownloadAssumption DEF Connected
  <2>3. numPreferred = Cardinality(C) /\ nSyncStarted = Cardinality(syncStarted)
    BY DEF Inv, Counted
  <2>4. numPreferred' = IF p \in Preferred THEN numPreferred - 1 ELSE numPreferred
    BY DEF FinalizeNode
  <2>5. nSyncStarted' = IF p \in syncStarted THEN nSyncStarted - 1 ELSE nSyncStarted
    BY DEF FinalizeNode
  <2> HIDE DEF C
  <2>6. numPreferred' = Cardinality(C')
    <3>1. p \in C => Cardinality(C \ {p}) = Cardinality(C) - 1
      BY <2>2, OnePeer
    <3>2. p \notin C => C \ {p} = C
      OBVIOUS
    <3>3. QED
      BY <2>1, <2>2, <2>3, <2>4, <3>1, <3>2
  <2>7. nSyncStarted' = Cardinality(syncStarted')
    <3>1. syncStarted \in SUBSET Peer
      BY DEF Inv, TypeOK
    <3>2. p \in syncStarted => Cardinality(syncStarted \ {p}) = Cardinality(syncStarted) - 1
      BY <3>1, OnePeer
    <3>3. p \notin syncStarted => syncStarted \ {p} = syncStarted
      OBVIOUS
    <3>4. QED
      BY <1>2, <2>3, <2>5, <3>2, <3>3
  <2>8. QED
    BY <2>6, <2>7 DEF Counted, C
<1>7. Stored'
  BY DEF Inv, TypeOK, Stored, LastCommonLinked, Linked, FinalizeNode, chainVars
<1>8. QED
  BY <1>1, <1>4, <1>5, <1>6, <1>7 DEF Inv

LEMMA AvailabilityTyped ==
  ASSUME TypeOK, NEW p \in Peer, NEW b \in Block, NEW k, UpdateBlockAvailability(p, b, k)
  PROVE  /\ best' \in [Peer -> Block \cup {None}] /\ lastUnknown' \in [Peer -> Block \cup {None}]
         /\ lastCommon' = lastCommon
BY DEF TypeOK, UpdateBlockAvailability, Resolved, StillUnknown

LEMMA InvStep ==
  ASSUME Inv, NEW p \in Peer, NEW b \in Block, InvReceived(p, b)
  PROVE  Inv'
<1>1. /\ best' \in [Peer -> Block \cup {None}] /\ lastUnknown' \in [Peer -> Block \cup {None}]
      /\ lastCommon' = lastCommon
  BY AvailabilityTyped DEF Inv, InvReceived
<1>2. UNCHANGED <<chainVars, status, flightVars, numPreferred, syncVars, handling, rpc, fetches>>
  BY DEF InvReceived
<1>3. TypeOK'
  BY <1>1, <1>2 DEF Inv, TypeOK, chainVars, flightVars, syncVars, NoRpc
<1>4. Kept({})
  BY <1>2, UnchangedKept DEF Inv
<1>5. Present'
  BY <1>2, <1>4, PresentKept DEF Inv, syncVars
<1>6. Counted' /\ Stored'
  BY <1>1, <1>2, CountedKept, StoredKept DEF Inv, chainVars
<1>7. QED
  BY <1>3, <1>4, <1>5, <1>6 DEF Inv, Kept

LEMMA HeadersStep ==
  ASSUME Inv, NEW p \in Peer, NEW b \in Block, HeadersReceived(p, b)
  PROVE  Inv'
<1>1. /\ status[p] = "up"
      /\ UNCHANGED <<have, failed, tip, status, numPreferred, syncVars, handling, rpc, fetches>>
  BY DEF HeadersReceived
<1>2. /\ known' \subseteq Block
      /\ best' \in [Peer -> Block \cup {None}] /\ lastUnknown' \in [Peer -> Block \cup {None}]
      /\ lastCommon' = lastCommon
      /\ Kept({p})
  <2>1. CASE Path[b] \cap failed # {}
    <3>1. UNCHANGED <<known, availVars, flightVars>>
      BY <2>1 DEF HeadersReceived
    <3>2. Kept({})
      BY <3>1, UnchangedKept DEF Inv
    <3>3. QED
      BY <3>1, <3>2 DEF Inv, TypeOK, Kept, availVars
  <2>2. CASE Path[b] \cap failed = {}
    <3> DEFINE S == DirectFetch(p, b)
    <3>1. /\ known' = known \cup Path[b] /\ UpdateBlockAvailability(p, b, known')
          /\ Requested(p, S) /\ stalling' = stalling
      BY <2>2 DEF HeadersReceived
    <3>2. S \subseteq {x \in Path[b] : ~IsBlockRequested(x)}
      BY DEF DirectFetch, Lowest
    <3>3. Path[b] \subseteq Block
      BY TreeAssumption
    <3>4. S \in SUBSET Block /\ \A x \in S : inFlight[x] = None
      BY <3>2, <3>3 DEF IsBlockRequested
    <3> HIDE DEF S
    <3>5. {} \in SUBSET Peer /\ (\A q \in {} : count[q] > 0) /\ stalling' \subseteq stalling \cup {}
      BY <3>1
    <3>6. Kept({p})
      BY <3>1, <3>4, <3>5, RequestKept DEF Inv
    <3>7. /\ best' \in [Peer -> Block \cup {None}] /\ lastUnknown' \in [Peer -> Block \cup {None}]
          /\ lastCommon' = lastCommon
      BY <3>1, AvailabilityTyped DEF Inv
    <3>8. known' \subseteq Block
      BY <3>1, <3>3 DEF Inv, TypeOK
    <3>9. QED
      BY <3>6, <3>7, <3>8
  <2>3. QED
    BY <2>1, <2>2
<1>3. TypeOK'
  BY <1>1, <1>2 DEF Inv, TypeOK, Kept, syncVars, NoRpc
<1>4. Present'
  <2>1. \A q \in Peer : q \in {p} \/ q \in syncStarted' \ syncStarted => Connected(q)
    BY <1>1 DEF Connected, syncVars
  <2>2. QED
    BY <1>1, <1>2, <2>1, PresentKept DEF Inv
<1>5. Counted' /\ Stored'
  BY <1>1, <1>2, CountedKept, StoredKept DEF Inv
<1>6. QED
  BY <1>2, <1>3, <1>4, <1>5 DEF Inv, Kept

LEMMA BlockReceivedStep ==
  ASSUME Inv, NEW p \in Peer, NEW b \in Block, BlockReceived(p, b)
  PROVE  Inv'
<1>1. UNCHANGED <<chainVars, status, availVars, numPreferred, syncVars, rpc, fetches>>
  BY DEF BlockReceived
<1>2. Kept({})
  BY RemoveKept DEF Inv, BlockReceived
<1>3. handling'.block = b
  BY DEF BlockReceived
<1>4. TypeOK'
  BY <1>1, <1>2, <1>3 DEF Inv, TypeOK, Kept, chainVars, availVars, syncVars, NoRpc
<1>5. Present'
  BY <1>1, <1>2, PresentKept DEF Inv, syncVars
<1>6. Counted' /\ Stored'
  BY <1>1, CountedKept, StoredKept DEF Inv, chainVars, availVars
<1>7. QED
  BY <1>2, <1>4, <1>5, <1>6 DEF Inv, Kept

LEMMA ProcessStep ==
  ASSUME Inv, ProcessNewBlock
  PROVE  Inv'
<1> DEFINE b == handling.block
<1>1. UNCHANGED <<status, availVars, flightVars, numPreferred, syncVars, rpc, fetches>>
  BY DEF ProcessNewBlock
<1>2. b \in Block
  BY DEF Inv, TypeOK, ProcessNewBlock
<1>3. /\ known' \subseteq Block /\ have' \subseteq Block /\ have \subseteq have'
      /\ tip' = tip \/ tip' \in Linked(have')
      /\ handling'.stage # "none" => handling'.block \in Block
  <2>1. CASE Accepts(b, handling.requested)
    <3>1. /\ known' = known \cup {b} /\ have' = have \cup {b} /\ ActivateBestChain(have')
          /\ handling' = [handling EXCEPT !.stage = "remove"]
      BY <2>1 DEF ProcessNewBlock
    <3>2. tip' = tip \/ tip' \in Linked(have')
      BY <3>1 DEF ActivateBestChain
    <3>3. handling'.block \in Block
      <4>1. handling'.block = handling.block
        BY <3>1, SMT
      <4>2. QED
        BY <1>2, <4>1
    <3>4. QED
      BY <1>2, <3>1, <3>2, <3>3 DEF Inv, TypeOK
  <2>2. CASE ~Accepts(b, handling.requested)
    <3>1. /\ known' = IF Prev[b] \in known \ failed THEN known \cup {b} ELSE known
          /\ handling' = NoBlockMessage /\ UNCHANGED <<have, failed, tip>>
      BY <2>2 DEF ProcessNewBlock
    <3>2. QED
      BY <1>2, <3>1 DEF Inv, TypeOK, NoBlockMessage
  <2>3. QED
    BY <2>1, <2>2
<1>4. tip' \in Linked(have') /\ LastCommonLinked'
  BY <1>1, <1>3 DEF Inv, Stored, LastCommonLinked, Linked, availVars
<1>5. tip' \in Block
  BY <1>4 DEF Linked
<1>6. TypeOK'
  BY <1>1, <1>3, <1>5 DEF Inv, TypeOK, availVars, flightVars, syncVars, NoRpc
<1>7. Kept({})
  BY <1>1, UnchangedKept DEF Inv
<1>8. Present' /\ Counted'
  BY <1>1, <1>7, PresentKept, CountedKept DEF Inv, syncVars
<1>9. QED
  BY <1>4, <1>6, <1>7, <1>8 DEF Inv, Kept, Stored

LEMMA BlockStoredStep ==
  ASSUME Inv, BlockStored
  PROVE  Inv'
<1>1. /\ UNCHANGED <<chainVars, status, availVars, numPreferred, syncVars, rpc, fetches>>
      /\ handling' = NoBlockMessage
  BY DEF BlockStored
<1>2. handling.block \in Block /\ RemoveBlockRequest(handling.block, None)
  BY DEF Inv, TypeOK, BlockStored
<1>3. Kept({})
  BY <1>2, RemoveKept DEF Inv
<1>4. TypeOK'
  BY <1>1, <1>3 DEF Inv, TypeOK, Kept, chainVars, availVars, syncVars, NoRpc, NoBlockMessage
<1>5. Present'
  BY <1>1, <1>3, PresentKept DEF Inv, syncVars
<1>6. Counted' /\ Stored'
  BY <1>1, CountedKept, StoredKept DEF Inv, chainVars, availVars
<1>7. QED
  BY <1>3, <1>4, <1>5, <1>6 DEF Inv, Kept

LEMMA FetchStep ==
  ASSUME Inv, FetchBlock
  PROVE  Inv'
<1>1. UNCHANGED <<chainVars, status, availVars, numPreferred, syncVars, handling, fetches>> /\ rpc' = NoRpc
  BY DEF FetchBlock
<1>2. /\ rpc.peer \in Peer /\ rpc.block \in Block /\ BlockRequested(rpc.peer, rpc.block)
      /\ Connected(rpc.peer)
  BY DEF Inv, TypeOK, FetchBlock, Connected
<1>3. Kept({rpc.peer})
  BY <1>2, BlockRequestedKept DEF Inv
<1>4. TypeOK'
  BY <1>1, <1>3 DEF Inv, TypeOK, Kept, chainVars, availVars, syncVars
<1>5. Present'
  <2>1. \A q \in Peer : q \in {rpc.peer} \/ q \in syncStarted' \ syncStarted => Connected(q)
    BY <1>1, <1>2 DEF syncVars
  <2>2. QED
    BY <1>1, <1>3, <2>1, PresentKept DEF Inv
<1>6. Counted' /\ Stored'
  BY <1>1, CountedKept, StoredKept DEF Inv, chainVars, availVars
<1>7. QED
  BY <1>3, <1>4, <1>5, <1>6 DEF Inv, Kept

LEMMA SendGetDataKept ==
  ASSUME Inv, NEW p \in Peer, SendGetData(p)
  PROVE  /\ best' \in [Peer -> Block \cup {None}] /\ lastUnknown' \in [Peer -> Block \cup {None}]
         /\ lastCommon' \in [Peer -> Block \cup {None}]
         /\ Kept({p})
         /\ \A q \in Peer : lastCommon'[q] # None => lastCommon'[q] \in Linked(have)
<1> DEFINE bk == Resolved(p, known)
<1>1. bk \in Block \cup {None}
  BY DEF Inv, TypeOK, Resolved
<1>2. /\ best' = [best EXCEPT ![p] = bk]
      /\ lastUnknown' = [lastUnknown EXCEPT ![p] = StillUnknown(p, known)]
  BY DEF SendGetData
<1> HIDE DEF bk
<1>3. best' \in [Peer -> Block \cup {None}] /\ lastUnknown' \in [Peer -> Block \cup {None}]
  BY <1>1, <1>2 DEF Inv, TypeOK, StillUnknown
<1>4. CASE bk = None \/ Work(bk) < Height(tip)
  <2>1. UNCHANGED <<lastCommon, flightVars>>
    BY <1>4 DEF SendGetData, bk
  <2>2. Kept({})
    BY <2>1, UnchangedKept DEF Inv
  <2>3. QED
    BY <1>3, <2>1, <2>2 DEF Inv, TypeOK, Kept, Stored, LastCommonLinked
<1>5. CASE bk # None /\ ~(Work(bk) < Height(tip))
  <2>1. bk \in Block
    BY <1>1, <1>5
  <2> DEFINE lc == FirstCommon(p, bk)
             walk == ToWalk(lc, bk)
             wanted == {b \in walk : Missing(b) /\ ~IsBlockRequested(b)}
             found == FindNextBlocks(p, lc, walk, wanted)
  <2>2. /\ lastCommon' = [lastCommon EXCEPT ![p] = found.common]
        /\ Requested(p, found.fetch)
        /\ stalling' = IF count'[p] = 0 THEN stalling \cup found.staller ELSE stalling
    BY <1>5 DEF SendGetData, bk
  <2>3. lc \in Linked(have) \cap Path[bk]
    BY <1>5, <2>1, StartsLinked DEF Inv
  <2>4. walk \in SUBSET Path[bk] /\ wanted \in SUBSET walk /\ Path[bk] \subseteq Block
    BY <2>1, TreeAssumption DEF ToWalk
  <2>5. \A b \in wanted : inFlight[b] = None
    BY DEF IsBlockRequested
  <2> HIDE DEF lc, walk, wanted
  <2>6. /\ found.fetch \subseteq wanted /\ found.common \in Linked(have)
        /\ \A q \in found.staller : \E b \in walk : inFlight[b] = q /\ IsBlockRequested(b)
    <3> HIDE DEF bk
    <3>1. TypeOK
      BY DEF Inv
    <3>2. walk \in SUBSET Path[bk] /\ wanted \in SUBSET walk
      BY <2>4
    <3>3. QED
      BY <2>1, <2>3, <3>1, <3>2, FoundRight, SMT
  <2> HIDE DEF found
  <2>7. found.staller \in SUBSET Peer /\ \A q \in found.staller : count[q] > 0
    <3>1. \A q \in found.staller : q \in Peer /\ \E b \in Block : inFlight[b] = q
      BY <2>4, <2>6, SMT DEF Inv, TypeOK, IsBlockRequested
    <3>2. QED
      BY <3>1, CountIsNat DEF Inv
  <2>8. Kept({p})
    <3>1. found.fetch \in SUBSET Block /\ \A b \in found.fetch : inFlight[b] = None
      BY <2>4, <2>5, <2>6
    <3>2. stalling' \subseteq stalling \cup found.staller
      BY <2>2
    <3>3. QED
      BY <2>2, <2>7, <3>1, <3>2, RequestKept DEF Inv
  <2>9. found.common \in Block
    BY <2>6 DEF Linked
  <2>10. lastCommon' \in [Peer -> Block \cup {None}]
    BY <2>2, <2>9 DEF Inv, TypeOK
  <2>11. \A q \in Peer : lastCommon'[q] # None => lastCommon'[q] \in Linked(have)
    BY <2>2, <2>6 DEF Inv, TypeOK, Stored, LastCommonLinked
  <2>12. QED
    BY <1>3, <2>8, <2>10, <2>11
<1>6. QED
  BY <1>4, <1>5

LEMMA SendStep ==
  ASSUME Inv, NEW p \in Peer, SendMessages(p)
  PROVE  Inv'
<1>1. status[p] = "up" /\ UNCHANGED <<chainVars, status, numPreferred, handling, rpc, fetches>>
  BY DEF SendMessages
<1>2. /\ best' \in [Peer -> Block \cup {None}] /\ lastUnknown' \in [Peer -> Block \cup {None}]
      /\ lastCommon' \in [Peer -> Block \cup {None}]
      /\ Kept({p})
      /\ \A q \in Peer : lastCommon'[q] # None => lastCommon'[q] \in Linked(have)
  <2>1. CASE MaySendGetData(p, SyncFrom(p))
    <3>1. SendGetData(p)
      BY <2>1 DEF SendMessages
    <3>2. QED
      BY <3>1, SendGetDataKept
  <2>2. CASE ~MaySendGetData(p, SyncFrom(p))
    <3>1. UNCHANGED <<availVars, flightVars>>
      BY <2>2 DEF SendMessages
    <3>2. Kept({})
      BY <3>1, UnchangedKept DEF Inv
    <3>3. QED
      BY <3>1, <3>2 DEF Inv, TypeOK, Kept, Stored, LastCommonLinked, availVars
  <2>3. QED
    BY <2>1, <2>2
<1>3. /\ syncStarted' \subseteq syncStarted \cup {p} /\ nSyncStarted' \in Int
      /\ nSyncStarted' = Cardinality(syncStarted')
  BY SyncCounted DEF SendMessages
<1>4. syncStarted' \subseteq Peer
  BY <1>3 DEF Inv, TypeOK
<1>5. TypeOK'
  BY <1>1, <1>2, <1>3, <1>4 DEF Inv, TypeOK, Kept, chainVars, NoRpc
<1>6. Present'
  <2>1. \A q \in Peer : q \in {p} \/ q \in syncStarted' \ syncStarted => Connected(q)
    BY <1>1, <1>3 DEF Connected
  <2>2. QED
    BY <1>1, <1>2, <2>1, PresentKept DEF Inv
<1>7. Counted'
  BY <1>1, <1>3 DEF Inv, Counted, Connected
<1>8. Stored'
  BY <1>1, <1>2 DEF Inv, Stored, LastCommonLinked, Linked, chainVars
<1>9. QED
  BY <1>2, <1>5, <1>6, <1>7, <1>8 DEF Inv, Kept

LEMMA FetchStartStep ==
  ASSUME Inv, NEW p \in Peer, NEW b \in Block, FetchBlockStart(p, b)
  PROVE  Inv'
<1>1. /\ UNCHANGED <<chainVars, status, availVars, flightVars, numPreferred, syncVars, handling>>
      /\ rpc' = [peer |-> p, block |-> b] /\ status[p] # "new"
  BY DEF FetchBlockStart
<1>2. TypeOK'
  BY <1>1 DEF Inv, TypeOK, chainVars, availVars, flightVars, syncVars
<1>3. Kept({})
  BY <1>1, UnchangedKept DEF Inv
<1>4. Present' /\ Counted' /\ Stored'
  BY <1>1, <1>3, PresentKept, CountedKept, StoredKept DEF Inv, syncVars, chainVars, availVars
<1>5. QED
  BY <1>2, <1>3, <1>4 DEF Inv, Kept
-----------------------------------------------------------------------------
LEMMA InitInv == Init => Inv
<1> SUFFICES ASSUME Init PROVE Inv
  OBVIOUS
<1>1. TypeOK
  BY DownloadAssumption, SMT DEF Init, TypeOK, NoBlockMessage
<1>2. Flight
  <2>1. Busy = {} /\ \A p \in Peer : From(inFlight, p) = {}
    BY NoneIsNoPeer, SMT DEF Init, Busy, From
  <2>2. QED
    BY <2>1, NoneIsNoPeer, FS_EmptySet DEF Init, Flight
<1>3. Present /\ Stallers
  BY SMT DEF Init, Present, Stallers
<1>4. Counted
  <2>1. {p \in Preferred : Connected(p)} = {}
    BY DownloadAssumption DEF Init, Connected
  <2>2. QED
    BY <2>1, FS_EmptySet DEF Init, Counted
<1>5. Stored
  <2>1. Genesis \in Linked({Genesis})
    BY TreeAssumption, DownloadAssumption DEF Linked
  <2>2. QED
    BY <2>1 DEF Init, Stored, LastCommonLinked
<1>6. QED
  BY <1>1, <1>2, <1>3, <1>4, <1>5 DEF Inv

LEMMA StepInv == Inv /\ [Next]_vars => Inv'
<1> SUFFICES ASSUME Inv, [Next]_vars PROVE Inv'
  OBVIOUS
<1>1. ASSUME NEW p \in Peer, InitializeNode(p) PROVE Inv'
  BY <1>1, InitializeStep
<1>2. ASSUME NEW p \in Peer, DisconnectNode(p) \/ SendTimesOut(p) PROVE Inv'
  BY <1>2, CloseStep DEF DisconnectNode, SendTimesOut
<1>3. ASSUME NEW p \in Peer, FinalizeNode(p) PROVE Inv'
  BY <1>3, FinalizeStep
<1>4. ASSUME NEW p \in Peer, SendMessages(p) PROVE Inv'
  BY <1>4, SendStep
<1>5. ASSUME NEW p \in Peer, NEW b \in Block,
             InvReceived(p, b) \/ HeadersReceived(p, b) \/ BlockReceived(p, b) \/ FetchBlockStart(p, b)
      PROVE  Inv'
  BY <1>5, InvStep, HeadersStep, BlockReceivedStep, FetchStartStep
<1>6. CASE HandlerStep
  BY <1>6, ProcessStep, BlockStoredStep DEF HandlerStep
<1>7. CASE FetchBlock
  BY <1>7, FetchStep
<1>8. CASE UNCHANGED vars
  <2>1. TypeOK'
    BY <1>8 DEF Inv, TypeOK, vars, chainVars, availVars, flightVars, syncVars
  <2>2. Kept({})
    BY <1>8, UnchangedKept DEF Inv, vars
  <2>3. Present' /\ Counted' /\ Stored'
    BY <1>8, <2>2, PresentKept, CountedKept, StoredKept DEF Inv, vars, syncVars, chainVars, availVars
  <2>4. QED
    BY <2>1, <2>2, <2>3 DEF Inv, Kept
<1>9. QED
  BY <1>1, <1>2, <1>3, <1>4, <1>5, <1>6, <1>7, <1>8 DEF Next

(* The invariant above holds of every behaviour of the download logic.     *)
THEOREM Invariant == Spec => []Inv
<1>1. Init => Inv
  BY InitInv
<1>2. Inv /\ [Next]_vars => Inv'
  BY StepInv
<1>3. QED
  BY <1>1, <1>2, PTL DEF Spec

(* However requests, answers, timeouts, disconnections and getblockfrompeer*)
(* are interleaved, mapBlocksInFlight, the peers' lists and the counters   *)
(* agree, and nothing is in flight from a peer that is gone: what          *)
(* FinalizeNode asserts when the last peer leaves.                         *)
THEOREM DownloadsExact == Spec => []InFlightExact
<1>1. Inv => InFlightExact
  <2> SUFFICES ASSUME Inv PROVE InFlightExact
    OBVIOUS
  <2>1. \A p \in Peer, b \in Block : lists[p][b] = IF inFlight[b] = p THEN 1 ELSE 0
    BY DEF Inv, Flight
  <2>2. \A p \in Peer : count[p] = Cardinality({b \in Block : inFlight[b] = p})
    BY DEF Inv, Flight, From
  <2>3. \A p \in stalling : count[p] > 0
    BY DEF Inv, Stallers
  <2>4. \A p \in Peer : count[p] > 0 \/ p \in stalling \cup syncStarted => Connected(p)
    BY <2>3 DEF Inv, Present
  <2>5. downloadingFrom = Cardinality({p \in Peer : count[p] > 0})
    BY DEF Inv, Flight, Busy
  <2>6. numPreferred = Cardinality({p \in Preferred : Connected(p)}) /\ nSyncStarted = Cardinality(syncStarted)
    BY DEF Inv, Counted
  <2>7. QED
    BY <2>1, <2>2, <2>3, <2>4, <2>5, <2>6 DEF InFlightExact
<1>2. QED
  BY <1>1, Invariant, PTL

(* No peer's pindexLastCommonBlock ever passes a block that is missing, so *)
(* FindNextBlocksToDownload skips nothing, for any window and any limit.   *)
THEOREM NothingSkipped == Spec => []LastCommonLinked
<1>1. Inv => LastCommonLinked
  BY DEF Inv, Stored
<1>2. QED
  BY <1>1, Invariant, PTL
=============================================================================
