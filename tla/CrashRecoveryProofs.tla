------------------------ MODULE CrashRecoveryProofs ------------------------
(***************************************************************************)
(* Index, files and coins agree after a crash at any point, for every      *)
(* block tree, number of files and number of batches.                      *)
(***************************************************************************)
EXTENDS CrashRecovery, FiniteSetTheorems, TLAPS

Running == {"up", "index", "unlink", "first", "batch"}

(* f is the last file that the index I refers to.                          *)
Last(I, f) == (\E b \in Block : I.pos[b] = f) /\ \A b \in Block : I.pos[b] <= f

(* I knows the blocks whose data it has, none of which was removed; only   *)
(* files before its last one were.                                         *)
Placed(I) ==
  /\ Genesis \in I.known /\ \A b \in Block : I.pos[b] # NoFile => b \in I.known
  /\ \A b \in Block : I.pos[b] \notin gone
  /\ \E f \in File : Last(I, f) /\ \A h \in gone : h < f

Typed ==
  /\ pc \in Running \cup {"down", "failed"}
  /\ index \in Index /\ diskIndex \in Index
  /\ unsynced \in [blk : SUBSET Block, rev : SUBSET Block]
  /\ toUnlink \subseteq File /\ gone \subseteq File

(* What is on disk.  The data that may not be there yet is not referred to *)
(* by the index on disk.                                                   *)
DiskInv ==
  /\ IF Genesis \in diskIndex.known THEN Placed(diskIndex) ELSE diskIndex = NoIndex /\ gone = {}
  /\ IndexedDataThere
  /\ pc \notin Running => unsynced.blk \subseteq IF Genesis \in diskIndex.known THEN {} ELSE {Genesis}

(* A running node: only data in the last file may not be on the disk, and  *)
(* files before it that hold nothing are removed or about to be.           *)
RunInv ==
  /\ Placed(index) /\ diskIndex.known \subseteq index.known
  /\ \A f \in File : Last(index, f) =>
       /\ \A b \in unsynced.blk : index.pos[b] = f
       /\ \A h \in File : h < f /\ InFile(h) = {} => h \in gone \cup toUnlink
       /\ \A h \in toUnlink : h < f
  /\ \A b \in Block : index.pos[b] \notin toUnlink

(* How far FlushStateToDisk is.                                            *)
FlushInv ==
  /\ pc \in {"index", "unlink"} => unsynced.blk = {}
  /\ pc \notin {"index", "unlink"} => toUnlink = {}
  /\ pc = "unlink" => diskIndex = index

FilesInv == Typed /\ DiskInv /\ (pc \in Running => RunInv) /\ FlushInv
-----------------------------------------------------------------------------
LEMMA FileFacts ==
  /\ MaxFile \in Nat /\ File \subseteq Nat /\ NoFile \in Int /\ NoFile \notin File
  /\ \A f \in File : NoFile < f
  BY BoundAssumption DEF File, NoFile

LEMMA Positions ==
  ASSUME NEW I \in Index
  PROVE  /\ I.known \subseteq Block /\ I.undo \subseteq Block /\ I.pos \in [Block -> File \cup {NoFile}]
         /\ \A b \in Block : I.pos[b] \in Int
<1>1. I.known \subseteq Block /\ I.undo \subseteq Block /\ I.pos \in [Block -> File \cup {NoFile}]
  BY DEF Index
<1>2. File \cup {NoFile} \subseteq Int
  BY BoundAssumption DEF File, NoFile
<1>3. QED
  BY <1>1, <1>2

(* The last file is the one that m_last_blockfile names.                   *)
LEMMA LastIsLast ==
  ASSUME index \in Index, NEW f \in File, Last(index, f)
  PROVE  m_last_blockfile = f
<1>1. \A h \in File : InFile(h) # {} => h <= f
  BY DEF Last, InFile
<1>2. InFile(f) # {}
  BY DEF Last, InFile
<1>3. \A h \in File : InFile(h) # {} /\ (\A k \in File : InFile(k) # {} => k <= h) => h = f
  BY <1>1, <1>2, FileFacts
<1>4. QED
  BY <1>1, <1>2, <1>3 DEF m_last_blockfile

LEMMA LastUnique ==
  ASSUME NEW I \in Index, NEW f \in File, NEW h \in File, Last(I, f), Last(I, h)
  PROVE  f = h
  BY FileFacts DEF Last

(* Steps that move no data and no file.                                    *)
LEMMA FilesKept ==
  ASSUME FilesInv, index' \in Index, index'.pos = index.pos, index'.known = index.known,
         unsynced' \in [blk : SUBSET Block, rev : SUBSET Block], unsynced'.blk = unsynced.blk,
         UNCHANGED <<toUnlink, diskIndex, gone>>,
         pc = "up" /\ pc' = "up"
  PROVE  FilesInv'
<1>1. Typed'
  BY DEF FilesInv, Typed, Running
<1>2. DiskInv'
  BY DEF FilesInv, DiskInv, Placed, Last, IndexedDataThere, Running
<1>3. RunInv'
  BY DEF FilesInv, RunInv, Placed, Last, InFile, Running
<1>4. FlushInv'
  BY DEF FilesInv, FlushInv
<1>5. QED
  BY <1>1, <1>2, <1>3, <1>4 DEF FilesInv

(* The index of a node that has only the genesis block.                    *)
LEMMA LoadedFacts ==
  /\ NoIndex \in Index /\ NoIndex.known = {} /\ NoIndex.undo = {}
  /\ \A b \in Block : NoIndex.pos[b] = NoFile
  /\ GenesisIndex \in Index /\ GenesisIndex.known = {Genesis} /\ GenesisIndex.undo = {}
  /\ \A b \in Block : GenesisIndex.pos[b] = IF b = Genesis THEN 0 ELSE NoFile
<1>1. Genesis \in Block /\ 0 \in File /\ NoFile \in File \cup {NoFile}
  BY TreeAssumption, BoundAssumption DEF File
<1> DEFINE pos == [b \in Block |-> NoFile]
<1>2. NoIndex = [known |-> {}, pos |-> pos, undo |-> {}]
  BY DEF NoIndex
<1>3. GenesisIndex = [known |-> {Genesis}, pos |-> [pos EXCEPT ![Genesis] = 0], undo |-> {}]
  <2> DEFINE I == [NoIndex EXCEPT !.known = {Genesis}]
  <2> HIDE DEF pos
  <2>1. I = [known |-> {Genesis}, pos |-> pos, undo |-> {}]
    BY <1>2
  <2>2. GenesisIndex = [I EXCEPT !.pos = [I.pos EXCEPT ![Genesis] = 0]]
    BY DEF GenesisIndex
  <2> HIDE DEF I
  <2>3. QED
    BY <2>1, <2>2
<1>4. pos \in [Block -> File \cup {NoFile}] /\ \A b \in Block : pos[b] = NoFile
  BY <1>1
<1>5. /\ [pos EXCEPT ![Genesis] = 0] \in [Block -> File \cup {NoFile}]
      /\ \A b \in Block : [pos EXCEPT ![Genesis] = 0][b] = IF b = Genesis THEN 0 ELSE NoFile
  BY <1>1, <1>4
<1> HIDE DEF pos
<1>6. NoIndex \in Index /\ NoIndex.known = {} /\ NoIndex.undo = {} /\ NoIndex.pos = pos
  BY <1>2, <1>4 DEF Index
<1>7. /\ GenesisIndex \in Index /\ GenesisIndex.known = {Genesis} /\ GenesisIndex.undo = {}
      /\ GenesisIndex.pos = [pos EXCEPT ![Genesis] = 0]
  BY <1>1, <1>3, <1>5 DEF Index
<1>8. QED
  BY <1>4, <1>5, <1>6, <1>7

LEMMA FilesInit == Init => FilesInv
<1> SUFFICES ASSUME Init PROVE FilesInv
  OBVIOUS
<1>1. Genesis \in Block /\ 0 \in File /\ NoFile = -1
  BY TreeAssumption, BoundAssumption DEF File, NoFile
<1>2. GenesisIndex \in Index /\ NoIndex \in Index
  BY LoadedFacts
<1>3. Typed
  BY <1>1, <1>2 DEF Init, Typed, Running
<1>4. DiskInv
  BY <1>1 DEF Init, DiskInv, NoIndex, IndexedDataThere, Running
<1>5. index.known = {Genesis} /\ \A b \in Block : index.pos[b] = IF b = Genesis THEN 0 ELSE NoFile
  BY LoadedFacts DEF Init
<1>6. Last(index, 0)
  BY <1>1, <1>5 DEF Last
<1>7. Placed(index)
  BY <1>1, <1>5, <1>6 DEF Init, Placed
<1>8. \A f \in File : Last(index, f) => f = 0
  BY <1>1, <1>3, <1>6, LastUnique DEF Typed
<1>9. RunInv
  BY <1>1, <1>5, <1>7, <1>8, FileFacts DEF Init, RunInv, NoIndex
<1>10. FlushInv
  BY DEF Init, FlushInv
<1>11. QED
  BY <1>3, <1>4, <1>9, <1>10 DEF FilesInv
-----------------------------------------------------------------------------
(* A block goes to the last file or to the next one.                       *)
LEMMA FilesAccept ==
  ASSUME FilesInv, NEW b \in Block, NEW f \in File, AcceptBlock(b, f)
  PROVE  FilesInv'
<1>1. pc = "up" /\ pc' = "up" /\ b \notin index.known /\ UNCHANGED <<toUnlink, diskIndex, gone>>
  BY DEF AcceptBlock
<1>2. RunInv /\ index \in Index /\ diskIndex \in Index /\ toUnlink = {}
  BY <1>1 DEF FilesInv, Typed, FlushInv, Running
<1>3. PICK l \in File : Last(index, l) /\ \A h \in gone : h < l
  BY <1>2 DEF RunInv, Placed
<1>4. m_last_blockfile = l
  BY <1>2, <1>3, LastIsLast
<1>5. f = l \/ f = l + 1
  BY <1>4 DEF AcceptBlock
<1>6. /\ index' \in Index /\ index'.known = index.known \cup {b}
      /\ \A x \in Block : index'.pos[x] = IF x = b THEN f ELSE index.pos[x]
  BY <1>2 DEF AcceptBlock, Index
<1>7. index.pos[b] = NoFile /\ diskIndex.pos[b] = NoFile
  <2>1. index.pos[b] = NoFile /\ b \notin diskIndex.known
    BY <1>1, <1>2 DEF RunInv, Placed
  <2>2. CASE Genesis \in diskIndex.known
    BY <2>1, <2>2 DEF FilesInv, DiskInv, Placed
  <2>3. CASE Genesis \notin diskIndex.known
    BY <2>1, <2>3, LoadedFacts DEF FilesInv, DiskInv
  <2>4. QED
    BY <2>2, <2>3
<1>8. unsynced.blk \subseteq Block /\ \A x \in unsynced.blk : index.pos[x] = l
  BY <1>2, <1>3 DEF FilesInv, Typed, RunInv
<1>9. /\ unsynced' \in [blk : SUBSET Block, rev : SUBSET Block]
      /\ unsynced'.blk = (IF f = l THEN unsynced.blk ELSE {}) \cup {b}
  <2>1. /\ FindBlockPos(f) \in [blk : SUBSET Block, rev : SUBSET Block]
        /\ FindBlockPos(f).blk = IF f = l THEN unsynced.blk ELSE unsynced.blk \ InFile(l)
    BY <1>4 DEF FilesInv, Typed, FindBlockPos, SyncedBlk, SyncedRev
  <2>2. unsynced.blk \ InFile(l) = {}
    BY <1>8 DEF InFile
  <2>3. QED
    BY <2>1, <2>2 DEF AcceptBlock
<1>10. \A x \in Block : index.pos[x] \in Int /\ index.pos[x] <= l
  BY <1>2, <1>3, Positions DEF Last
<1>11. l \in Int /\ f \in Int /\ gone \subseteq Int
  BY FileFacts DEF FilesInv, Typed
<1>12. Last(index', f)
  BY <1>5, <1>6, <1>10, <1>11 DEF Last
<1>13. Placed(index)'
  <2>1. \A h \in gone' : h < f
    BY <1>1, <1>3, <1>5, <1>11
  <2>2. \A x \in Block : index'.pos[x] \notin gone'
    BY <1>1, <1>2, <1>6, <2>1, <1>11 DEF RunInv, Placed
  <2>3. Genesis \in index'.known /\ \A x \in Block : index'.pos[x] # NoFile => x \in index'.known
    BY <1>2, <1>6 DEF RunInv, Placed
  <2>4. QED
    BY <1>12, <2>1, <2>2, <2>3 DEF Placed
<1>14. RunInv'
  <2>1. ASSUME NEW k \in File, Last(index', k) PROVE k = f
    BY <1>6, <1>12, <2>1, LastUnique
  <2>2. \A x \in unsynced'.blk : index'.pos[x] = f
    BY <1>5, <1>6, <1>8, <1>9
  <2>3. ASSUME NEW h \in File, h < f, InFile(h)' = {} PROVE h \in gone'
    <3>1. \A x \in Block : x # b => index.pos[x] # h
      BY <1>6, <2>3 DEF InFile
    <3>2. InFile(h) = {}
      BY <3>1, <1>7, FileFacts DEF InFile
    <3>3. h # l
      BY <1>3, <3>2 DEF Last, InFile
    <3>4. h < l
      BY <1>5, <1>11, <2>3, <3>3, FileFacts
    <3>5. QED
      BY <1>1, <1>2, <1>3, <3>2, <3>4 DEF RunInv
  <2>4. diskIndex'.known \subseteq index'.known
    BY <1>1, <1>2, <1>6 DEF RunInv
  <2>5. QED
    BY <1>1, <1>2, <1>13, <2>1, <2>2, <2>3, <2>4 DEF RunInv
<1>15. IndexedDataThere'
  BY <1>1, <1>7, <1>9 DEF FilesInv, DiskInv, IndexedDataThere
<1>16. DiskInv'
  BY <1>1, <1>15 DEF FilesInv, DiskInv, Placed, Last, Running
<1>17. Typed' /\ FlushInv'
  BY <1>1, <1>2, <1>6, <1>9 DEF FilesInv, Typed, FlushInv
<1>18. QED
  BY <1>14, <1>16, <1>17 DEF FilesInv

LEMMA FilesConnect ==
  ASSUME FilesInv, NEW b \in Block, ConnectTip(b) \/ DisconnectTip
  PROVE  FilesInv'
<1>1. index \in Index /\ unsynced \in [blk : SUBSET Block, rev : SUBSET Block]
  BY DEF FilesInv, Typed
<1>2. CASE ConnectTip(b)
  <2>1. /\ index' = index \/ index' = [index EXCEPT !.undo = @ \cup {b}]
        /\ \/ unsynced' = unsynced \/ unsynced' = [unsynced EXCEPT !.rev = @ \cup {b}]
           \/ unsynced' = SyncedRev([unsynced EXCEPT !.rev = @ \cup {b}], index.pos[b])
    BY <1>2 DEF ConnectTip, WriteUndoDataForBlock
  <2>2. index' \in Index /\ index'.pos = index.pos /\ index'.known = index.known
    BY <1>1, <2>1 DEF Index
  <2>3. unsynced' \in [blk : SUBSET Block, rev : SUBSET Block] /\ unsynced'.blk = unsynced.blk
    <3> DEFINE u == [unsynced EXCEPT !.rev = @ \cup {b}]
    <3>1. u \in [blk : SUBSET Block, rev : SUBSET Block] /\ u.blk = unsynced.blk
      BY <1>1
    <3>2. unsynced' \in {unsynced, u, SyncedRev(u, index.pos[b])}
      BY <2>1
    <3> HIDE DEF u
    <3>3. /\ SyncedRev(u, index.pos[b]) \in [blk : SUBSET Block, rev : SUBSET Block]
          /\ SyncedRev(u, index.pos[b]).blk = unsynced.blk
      BY <3>1 DEF SyncedRev
    <3>4. QED
      BY <1>1, <3>1, <3>2, <3>3
  <2>4. pc = "up" /\ pc' = "up" /\ UNCHANGED <<toUnlink, diskIndex, gone>>
    BY <1>2 DEF ConnectTip
  <2>5. QED
    BY <2>2, <2>3, <2>4, FilesKept
<1>3. CASE DisconnectTip
  <2>1. pc = "up" /\ pc' = "up" /\ UNCHANGED <<index, unsynced, toUnlink, diskIndex, gone>>
    BY <1>3 DEF DisconnectTip, disk
  <2>2. QED
    BY <1>1, <2>1, FilesKept
<1>4. QED
  BY <1>2, <1>3

(* FlushStateToDisk up to the coins.                                       *)
LEMMA FilesFlush ==
  ASSUME FilesInv, NEW S \in SUBSET File, NEW always \in BOOLEAN, FlushFiles(S, always)
  PROVE  FilesInv'
<1>1. pc = "up" /\ pc' = "index" /\ toUnlink' = S /\ UNCHANGED <<diskIndex, gone>>
  BY DEF FlushFiles
<1>2. RunInv /\ index \in Index /\ toUnlink = {}
  BY <1>1 DEF FilesInv, Typed, FlushInv, Running
<1>3. PICK l \in File : Last(index, l) /\ \A h \in gone : h < l
  BY <1>2 DEF RunInv, Placed
<1>4. m_last_blockfile = l
  BY <1>2, <1>3, LastIsLast
<1>5. \A f \in S : f < l
  BY <1>4 DEF FlushFiles, Prunable
<1>6. /\ index' \in Index /\ index'.known = index.known
      /\ \A x \in Block : index'.pos[x] = IF index.pos[x] \in S THEN NoFile ELSE index.pos[x]
  BY <1>2 DEF FlushFiles, PruneOneBlockFile, Index
<1>7. unsynced' \in [blk : SUBSET Block, rev : SUBSET Block] /\ unsynced'.blk = {}
  <2>1. unsynced \in [blk : SUBSET Block, rev : SUBSET Block] /\ unsynced.blk \subseteq InFile(l)
    BY <1>2, <1>3 DEF FilesInv, Typed, RunInv, InFile
  <2>2. QED
    BY <1>4, <2>1 DEF FlushFiles, SyncedRev, SyncedBlk
<1>8. l \in Int /\ S \subseteq Int /\ NoFile \in Int /\ NoFile < l /\ NoFile \notin S /\ NoFile \notin gone
  BY FileFacts DEF FilesInv, Typed
<1>9. Last(index', l)
  <2>1. \A x \in Block : index.pos[x] \in Int /\ index.pos[x] <= l
    BY <1>2, <1>3, Positions DEF Last
  <2>2. l \notin S
    BY <1>5, <1>8
  <2>3. QED
    BY <1>3, <1>6, <1>8, <2>1, <2>2 DEF Last
<1>10. Placed(index)'
  BY <1>1, <1>2, <1>3, <1>6, <1>8, <1>9 DEF RunInv, Placed
<1>11. RunInv'
  <2>1. ASSUME NEW k \in File, Last(index', k) PROVE k = l
    BY <1>6, <1>9, <2>1, LastUnique
  <2>2. ASSUME NEW h \in File, h < l, InFile(h)' = {} PROVE h \in gone' \cup toUnlink'
    <3>1. InFile(h) # {} => h \in S
      BY <1>6, <2>2 DEF InFile
    <3>2. QED
      BY <1>1, <1>2, <1>3, <2>2, <3>1 DEF RunInv
  <2>3. \A x \in Block : index'.pos[x] \notin toUnlink'
    BY <1>1, <1>6, <1>8
  <2>4. diskIndex'.known \subseteq index'.known
    BY <1>1, <1>2, <1>6 DEF RunInv
  <2>5. QED
    BY <1>1, <1>5, <1>7, <1>10, <2>1, <2>2, <2>3, <2>4 DEF RunInv
<1>12. DiskInv'
  BY <1>1, <1>7 DEF FilesInv, DiskInv, Placed, Last, IndexedDataThere, Running
<1>13. Typed' /\ FlushInv'
  BY <1>1, <1>6, <1>7 DEF FilesInv, Typed, FlushInv, Running
<1>14. QED
  BY <1>11, <1>12, <1>13 DEF FilesInv

LEMMA FilesWriteIndex ==
  ASSUME FilesInv, WriteBlockIndexDB
  PROVE  FilesInv'
<1>1. /\ pc = "index" /\ pc' = "unlink" /\ diskIndex' = index
      /\ UNCHANGED <<index, unsynced, toUnlink, gone>>
  BY DEF WriteBlockIndexDB, memory
<1>2. RunInv /\ unsynced.blk = {}
  BY <1>1 DEF FilesInv, FlushInv, Running
<1>3. Genesis \in diskIndex'.known /\ Placed(diskIndex)'
  BY <1>1, <1>2 DEF RunInv, Placed, Last
<1>4. IndexedDataThere'
  BY <1>1, <1>2 DEF RunInv, Placed, IndexedDataThere
<1>5. DiskInv'
  BY <1>1, <1>3, <1>4 DEF DiskInv, Running
<1>6. RunInv'
  BY <1>1, <1>2 DEF RunInv, Placed, Last, InFile
<1>7. Typed' /\ FlushInv'
  BY <1>1, <1>2 DEF FilesInv, Typed, FlushInv, Running
<1>8. QED
  BY <1>5, <1>6, <1>7 DEF FilesInv

LEMMA FilesUnlink ==
  ASSUME FilesInv, UnlinkPrunedFiles
  PROVE  FilesInv'
<1>1. /\ pc = "unlink" /\ pc' \in {"up", "first"} /\ gone' = gone \cup toUnlink /\ toUnlink' = {}
      /\ UNCHANGED <<index, unsynced, diskIndex>>
  BY DEF UnlinkPrunedFiles
<1>2. RunInv /\ unsynced.blk = {} /\ diskIndex = index /\ index \in Index
  BY <1>1 DEF FilesInv, FlushInv, Typed, Running
<1>3. PICK l \in File : Last(index, l) /\ \A h \in gone : h < l
  BY <1>2 DEF RunInv, Placed
<1>4. \A h \in gone' : h < l
  BY <1>1, <1>2, <1>3 DEF RunInv
<1>5. Placed(index)'
  BY <1>1, <1>2, <1>3, <1>4 DEF RunInv, Placed, Last
<1>6. Genesis \in diskIndex'.known /\ Placed(diskIndex)' /\ IndexedDataThere'
  BY <1>1, <1>2, <1>5 DEF Placed, Last, IndexedDataThere
<1>7. DiskInv'
  BY <1>1, <1>6 DEF DiskInv, Running
<1>8. RunInv'
  BY <1>1, <1>2, <1>5 DEF RunInv, Last, InFile
<1>9. Typed' /\ FlushInv'
  BY <1>1, <1>2 DEF FilesInv, Typed, FlushInv, Running
<1>10. QED
  BY <1>7, <1>8, <1>9 DEF FilesInv

(* The coins database is a matter of its own.                              *)
LEMMA FilesBatches ==
  ASSUME FilesInv, pc \in {"first", "batch"}, pc' \in {"batch", "up"},
         UNCHANGED <<index, unsynced, toUnlink, diskIndex, gone>>
  PROVE  FilesInv'
<1>1. RunInv /\ toUnlink = {}
  BY DEF FilesInv, FlushInv, Running
<1>2. DiskInv'
  BY DEF FilesInv, DiskInv, Placed, Last, IndexedDataThere, Running
<1>3. RunInv'
  BY <1>1 DEF RunInv, Placed, Last, InFile
<1>4. Typed' /\ FlushInv'
  BY <1>1 DEF FilesInv, Typed, FlushInv, Running
<1>5. QED
  BY <1>2, <1>3, <1>4 DEF FilesInv
-----------------------------------------------------------------------------
(* A crash loses no data that the index on disk refers to.                 *)
LEMMA FilesCrash ==
  ASSUME FilesInv, NEW n, Crash(n)
  PROVE  FilesInv'
<1>1. /\ pc' = "down" /\ index' = NoIndex /\ toUnlink' = {} /\ UNCHANGED <<diskIndex, gone>>
      /\ unsynced' = [blk |-> {b \in unsynced.blk : diskIndex.pos[b] # NoFile},
                       rev |-> unsynced.rev \cap diskIndex.undo]
  BY DEF Crash
<1>2. unsynced \in [blk : SUBSET Block, rev : SUBSET Block]
  BY DEF FilesInv, Typed
<1>3. unsynced'.blk = {} /\ unsynced' \in [blk : SUBSET Block, rev : SUBSET Block]
  BY <1>1, <1>2 DEF FilesInv, DiskInv, IndexedDataThere
<1>4. DiskInv'
  BY <1>1, <1>3 DEF FilesInv, DiskInv, Placed, Last, IndexedDataThere
<1>5. Typed' /\ FlushInv' /\ pc' \notin Running
  BY <1>1, <1>3, LoadedFacts DEF FilesInv, Typed, FlushInv, Running
<1>6. QED
  BY <1>4, <1>5 DEF FilesInv

(* No block file that a start looks for is missing.                        *)
LEMMA FilesFound ==
  ASSUME FilesInv
  PROVE  FilesPresent /\ Loaded \in Index
<1>1. CASE Genesis \in diskIndex.known
  BY <1>1 DEF FilesInv, Typed, DiskInv, Placed, FilesPresent, Loaded
<1>2. CASE Genesis \notin diskIndex.known
  BY <1>2, LoadedFacts DEF FilesInv, DiskInv, FilesPresent, Loaded
<1>3. QED
  BY <1>1, <1>2

LEMMA FilesStart ==
  ASSUME FilesInv, Start
  PROVE  FilesInv'
<1>1. /\ pc \in {"down", "failed"} /\ pc' \in {"up", "first", "failed"} /\ index' = Loaded
      /\ gone' = gone \cup ScanAndUnlink /\ UNCHANGED <<toUnlink, diskIndex>>
      /\ unsynced' = IF Genesis \in diskIndex.known THEN unsynced
                     ELSE [unsynced EXCEPT !.blk = @ \cup {Genesis}]
  BY FilesFound DEF Start, Outcome
<1>2. /\ toUnlink = {} /\ Loaded \in Index /\ diskIndex \in Index /\ Genesis \in Block /\ gone \subseteq File
      /\ unsynced \in [blk : SUBSET Block, rev : SUBSET Block]
      /\ unsynced.blk \subseteq IF Genesis \in diskIndex.known THEN {} ELSE {Genesis}
  BY <1>1, FilesFound, TreeAssumption DEF FilesInv, Typed, FlushInv, DiskInv, Running
<1>3. \E l \in File : Last(Loaded, l) /\ \A h \in gone : h < l
  <2>1. CASE Genesis \in diskIndex.known
    BY <2>1 DEF FilesInv, DiskInv, Placed, Loaded
  <2>2. CASE Genesis \notin diskIndex.known
    <3>1. gone = {} /\ Loaded = GenesisIndex /\ 0 \in File /\ NoFile <= 0
      BY <2>2, BoundAssumption DEF FilesInv, DiskInv, Loaded, File, NoFile
    <3>2. QED
      BY <1>2, <3>1, LoadedFacts DEF Last
  <2>3. QED
    BY <2>1, <2>2
<1>4. PICK l \in File : Last(Loaded, l) /\ \A h \in gone : h < l
  BY <1>3
<1>5. \A x \in Block : Loaded.pos[x] \in Int
  BY <1>2, Positions
<1>6. ScanAndUnlink \subseteq File /\ \A h \in ScanAndUnlink : h < l
  BY <1>4, <1>5, FileFacts DEF ScanAndUnlink, Last
<1>7. \A x \in Block : Loaded.pos[x] \notin gone'
  BY <1>1, FilesFound DEF FilesPresent, ScanAndUnlink
<1>8. Genesis \in Loaded.known /\ \A x \in Block : Loaded.pos[x] # NoFile => x \in Loaded.known
  <2>1. CASE Genesis \in diskIndex.known
    BY <2>1 DEF FilesInv, DiskInv, Placed, Loaded
  <2>2. CASE Genesis \notin diskIndex.known
    BY <2>2, LoadedFacts DEF Loaded
  <2>3. QED
    BY <2>1, <2>2
<1>9. Placed(index)'
  BY <1>1, <1>4, <1>6, <1>7, <1>8 DEF Placed
<1>10. DiskInv'
  <2>1. CASE Genesis \in diskIndex.known
    <3>1. Placed(diskIndex)' /\ Genesis \in diskIndex'.known
      BY <1>1, <1>9, <2>1 DEF Placed, Last, Loaded
    <3>2. unsynced'.blk = {}
      BY <1>1, <1>2, <2>1
    <3>3. QED
      BY <1>1, <2>1, <3>1, <3>2 DEF DiskInv, IndexedDataThere, Placed
  <2>2. CASE Genesis \notin diskIndex.known
    <3>1. diskIndex' = NoIndex /\ gone = {} /\ Loaded = GenesisIndex
      BY <1>1, <2>2 DEF FilesInv, DiskInv, Loaded
    <3>2. ScanAndUnlink = {}
      <4>1. \A x \in Block : Loaded.pos[x] <= 0
        BY <3>1, LoadedFacts DEF NoFile
      <4>2. \A f \in File : 0 <= f
        BY BoundAssumption DEF File
      <4>3. \A f \in File, x \in Block : ~(Loaded.pos[x] > f)
        BY <1>5, <4>1, <4>2, FileFacts
      <4>4. QED
        BY <4>3 DEF ScanAndUnlink
    <3>3. unsynced'.blk \subseteq {Genesis}
      BY <1>1, <1>2, <2>2
    <3>4. QED
      BY <1>1, <2>2, <3>1, <3>2, <3>3, LoadedFacts DEF DiskInv, IndexedDataThere
  <2>3. QED
    BY <2>1, <2>2
<1>11. RunInv'
  <2>1. ASSUME NEW k \in File, Last(index', k) PROVE k = l
    BY <1>1, <1>2, <1>4, <2>1, LastUnique
  <2>2. \A x \in unsynced'.blk : index'.pos[x] = l
    <3>1. CASE Genesis \in diskIndex.known
      BY <1>1, <1>2, <3>1
    <3>2. CASE Genesis \notin diskIndex.known
      <4>1. unsynced'.blk \subseteq {Genesis} /\ Loaded = GenesisIndex
        BY <1>1, <1>2, <3>2 DEF Loaded
      <4>2. \A x \in Block : Loaded.pos[x] = IF x = Genesis THEN 0 ELSE NoFile
        BY <4>1, LoadedFacts
      <4>3. l = 0
        BY <1>4, <4>2, FileFacts DEF Last
      <4>4. QED
        BY <1>1, <1>2, <4>1, <4>2, <4>3
    <3>3. QED
      BY <3>1, <3>2
  <2>3. ASSUME NEW h \in File, h < l, InFile(h)' = {} PROVE h \in gone'
    <3>1. \A x \in Block : Loaded.pos[x] # h
      BY <1>1, <2>3 DEF InFile
    <3>2. \E x \in Block : Loaded.pos[x] > h
      BY <1>4, <2>3, FileFacts DEF Last
    <3>3. QED
      BY <1>1, <3>1, <3>2 DEF ScanAndUnlink
  <2>4. diskIndex'.known \subseteq index'.known
    BY <1>1, LoadedFacts DEF FilesInv, DiskInv, Loaded
  <2>5. QED
    BY <1>1, <1>2, <1>9, <2>1, <2>2, <2>3, <2>4 DEF RunInv
<1>12. Typed'
  BY <1>1, <1>2, <1>6 DEF FilesInv, Typed, Running
<1>13. FlushInv'
  BY <1>1, <1>2 DEF FlushInv
<1>14. QED
  BY <1>10, <1>11, <1>12, <1>13 DEF FilesInv

LEMMA FilesStep == FilesInv /\ [Next]_vars => FilesInv'
<1> SUFFICES ASSUME FilesInv, [Next]_vars PROVE FilesInv'
  OBVIOUS
<1>1. CASE Run
  BY <1>1, FilesAccept, FilesConnect, FilesFlush, TreeAssumption DEF Run
<1>2. CASE Writes
  BY <1>2, FilesWriteIndex, FilesUnlink DEF Writes
<1>3. CASE Batches
  <2>1. /\ pc \in {"first", "batch"} /\ pc' \in {"batch", "up"}
        /\ UNCHANGED <<index, unsynced, toUnlink, diskIndex, gone>>
    BY <1>3 DEF Batches, FirstBatch, PartialBatch, LastBatch, memory
  <2>2. QED
    BY <2>1, FilesBatches
<1>4. CASE Start
  BY <1>4, FilesStart
<1>5. CASE Dies
  BY <1>5, FilesCrash DEF Dies
<1>6. CASE UNCHANGED vars
  <2>1. UNCHANGED <<pc, index, unsynced, toUnlink, diskIndex, gone>>
    BY <1>6 DEF vars, memory, disk
  <2>2. Typed' /\ DiskInv' /\ FlushInv'
    BY <2>1 DEF FilesInv, Typed, DiskInv, FlushInv, Placed, Last, IndexedDataThere
  <2>3. pc' \in Running => RunInv'
    BY <2>1 DEF FilesInv, RunInv, Placed, Last, InFile
  <2>4. QED
    BY <2>2, <2>3 DEF FilesInv
<1>7. QED
  BY <1>1, <1>2, <1>3, <1>4, <1>5, <1>6 DEF Next

LEMMA FilesAlways == Spec => []FilesInv
<1>1. QED
  BY FilesInit, FilesStep, PTL DEF Spec

LEMMA FilesImply == FilesInv => FilesMatchIndex
<1> SUFFICES ASSUME FilesInv PROVE FilesMatchIndex
  OBVIOUS
<1>1. IndexedDataThere
  BY DEF FilesInv, DiskInv
<1>2. ASSUME pc = "up", NEW f \in File, f < m_last_blockfile, InFile(f) = {} PROVE f \in gone
  <2>1. RunInv /\ toUnlink = {} /\ index \in Index
    BY <1>2 DEF FilesInv, Typed, FlushInv, Running
  <2>2. PICK l \in File : Last(index, l)
    BY <2>1 DEF RunInv, Placed
  <2>3. m_last_blockfile = l
    BY <2>1, <2>2, LastIsLast
  <2>4. QED
    BY <1>2, <2>1, <2>2, <2>3 DEF RunInv
<1>3. QED
  BY <1>1, <1>2 DEF FilesMatchIndex, NoFileLeaked

(* For any number of files: what the index on disk refers to is there at   *)
(* every point of FlushStateToDisk and after a crash at any of them, and a *)
(* running node has no pruned file left.                                   *)
THEOREM FilesAlwaysMatchIndex == Spec => []FilesMatchIndex
<1>1. QED
  BY FilesAlways, FilesImply, PTL
-----------------------------------------------------------------------------
(* Blocks and heights.                                                     *)
LEMMA HeightFacts ==
  /\ \A b \in Block : /\ IsFiniteSet(Branch[b]) /\ Height(b) \in Nat
                       /\ Cardinality(Branch[b]) = Height(b) + 1
  /\ Height(Genesis) = 0
<1>1. ASSUME NEW b \in Block
      PROVE  IsFiniteSet(Branch[b]) /\ Height(b) \in Nat /\ Cardinality(Branch[b]) = Height(b) + 1
  <2>1. Branch[b] \subseteq Block /\ b \in Branch[b]
    BY BranchAssumption
  <2>2. IsFiniteSet(Branch[b])
    BY <2>1, TreeAssumption, FS_Subset
  <2>3. Cardinality(Branch[b]) \in Nat
    BY <2>2, FS_CardinalityType
  <2>4. Cardinality(Branch[b]) # 0
    BY <2>1, <2>2, FS_EmptySet
  <2>5. QED
    BY <2>2, <2>3, <2>4 DEF Height
<1>2. Cardinality({Genesis}) = 1
  BY FS_Singleton
<1>3. QED
  BY <1>1, <1>2, BranchAssumption DEF Height

(* A block that shares with B only blocks below x, and is far above x, has *)
(* many blocks of its own.                                                 *)
LEMMA FarAbove ==
  ASSUME NEW T \in Block, NEW x \in Block, NEW B, Height(T) >= Height(x) + MinBlocksToKeep,
         Branch[T] \cap B \subseteq Branch[x] \ {x}
  PROVE  Cardinality(Branch[T] \ B) > MinBlocksToKeep
<1>1. /\ IsFiniteSet(Branch[T]) /\ IsFiniteSet(Branch[x]) /\ x \in Branch[x]
      /\ Cardinality(Branch[T]) = Height(T) + 1 /\ Cardinality(Branch[x]) = Height(x) + 1
      /\ Height(T) \in Nat /\ Height(x) \in Nat
  BY HeightFacts, BranchAssumption
<1>2. IsFiniteSet(Branch[x] \ {x}) /\ Cardinality(Branch[x] \ {x}) = Height(x)
  <2>1. /\ IsFiniteSet(Branch[x] \ {x})
        /\ Cardinality(Branch[x] \ {x}) = Cardinality(Branch[x]) - 1
    BY <1>1, FS_RemoveElement
  <2>2. QED
    BY <1>1, <2>1
<1>3. /\ IsFiniteSet(Branch[T] \cap B) /\ Cardinality(Branch[T] \cap B) \in Nat
      /\ Cardinality(Branch[T] \cap B) <= Height(x)
  BY <1>2, FS_Subset, FS_CardinalityType
<1>4. Cardinality(Branch[T] \ B) = Cardinality(Branch[T]) - Cardinality(Branch[T] \cap B)
  BY <1>1, FS_Difference
<1>5. QED
  BY <1>1, <1>3, <1>4, BoundAssumption

(* If x is on the branch of p and not on that of q, then a block far above *)
(* x is far ahead of p or of q.                                            *)
LEMMA FarAhead ==
  ASSUME NEW p \in Block \cup {None}, NEW q \in Block \cup {None}, NEW T \in Block, NEW x \in Block,
         x \in BranchOf(p) \ BranchOf(q), Height(T) >= Height(x) + MinBlocksToKeep
  PROVE  Lag(T, p) > MinBlocksToKeep \/ Lag(T, q) > MinBlocksToKeep
<1>0. p \in Block /\ BranchOf(p) = Branch[p] /\ BranchOf(T) = Branch[T] /\ None \notin Block
  BY TreeAssumption DEF BranchOf
<1>1. CASE x \in Branch[T]
  <2>1. ASSUME NEW y \in Branch[T] \cap BranchOf(q) PROVE y \in Branch[x] \ {x}
    <3>1. q \in Block /\ y \in Branch[q] /\ y \in Block
      BY <1>0, <2>1, BranchAssumption DEF BranchOf
    <3>2. x \notin Branch[y]
      BY <3>1, BranchAssumption DEF BranchOf
    <3>3. y \in Branch[x]
      BY <1>1, <2>1, <3>2, BranchAssumption
    <3>4. QED
      BY <3>2, <3>3, BranchAssumption
  <2>2. Branch[T] \cap BranchOf(q) \subseteq Branch[x] \ {x}
    BY <2>1
  <2>3. QED
    BY <1>0, <2>2, FarAbove DEF Lag
<1>2. CASE x \notin Branch[T]
  <2>1. ASSUME NEW y \in Branch[T] \cap Branch[p] PROVE y \in Branch[x] \ {x}
    <3>1. x \notin Branch[y]
      BY <1>2, <2>1, BranchAssumption
    <3>2. y \in Branch[x]
      BY <1>0, <2>1, <3>1, BranchAssumption
    <3>3. QED
      BY <1>0, <3>1, <3>2, BranchAssumption
  <2>2. Branch[T] \cap Branch[p] \subseteq Branch[x] \ {x}
    BY <2>1
  <2>3. QED
    BY <1>0, <2>2, FarAbove DEF Lag
<1>3. QED
  BY <1>1, <1>2
-----------------------------------------------------------------------------
(* The coins database, and what a power failure may leave of it.           *)
Shaped(d) ==
  /\ d = [coins |-> d.coins, best |-> d.best, heads |-> d.heads]
  /\ d.best \in Block \cup {None}
  /\ d.heads = <<>> \/ d.heads \in Block \X (Block \cup {None})
  /\ d.heads # <<>> => d.best = None

StoreInv ==
  /\ tip \in Block \cup {None} /\ undurable \in Seq(Range(undurable))
  /\ \A d \in Survivors : Shaped(d)
  /\ pc \in {"up", "index", "unlink"} => db.heads = <<>>
  /\ pc \in {"first", "batch"} => /\ target.best \in Block
                                  /\ db.heads # <<>> => db.heads[1] = target.best
  /\ pc = "batch" => db.heads # <<>>

LEMMA TipsAre ==
  ASSUME NEW d, Shaped(d)
  PROVE  Tips(d) = IF d.heads = <<>> THEN {d.best} ELSE {d.heads[1], d.heads[2]}
<1>1. CASE d.heads = <<>>
  BY <1>1 DEF Tips
<1>2. CASE d.heads # <<>>
  <2>1. d.heads = <<d.heads[1], d.heads[2]>>
    BY <1>2 DEF Shaped
  <2>2. Range(d.heads) = {d.heads[1], d.heads[2]}
    BY <2>1 DEF Range
  <2>3. QED
    BY <1>2, <2>2 DEF Tips
<1>3. QED
  BY <1>1, <1>2

LEMMA OverRange ==
  ASSUME NEW R, NEW s \in Seq(R)
  PROVE  s \in Seq(Range(s)) /\ Range(s) \subseteq R
  BY DEF Range

LEMMA BatchSurvivors ==
  ASSUME undurable \in Seq(Range(undurable)), NEW d, WriteBatch(d)
  PROVE  db' = d /\ undurable' \in Seq(Range(undurable')) /\ Survivors' \subseteq {d} \cup Survivors
<1> DEFINE R == {db} \cup Range(undurable)
<1> DEFINE u == Append(undurable, db)
<1>1. undurable \in Seq(R)
  BY DEF Range
<1> HIDE DEF R
<1>2. u \in Seq(R) /\ Len(u) > 0
  BY <1>1 DEF R
<1>3. undurable' \in {u, Tail(u)}
  BY DEF WriteBatch
<1> HIDE DEF u
<1>4. Tail(u) \in Seq(R)
  BY <1>2
<1>5. undurable' \in Seq(R)
  BY <1>2, <1>3, <1>4
<1>6. undurable' \in Seq(Range(undurable')) /\ Range(undurable') \subseteq R
  BY <1>5, OverRange
<1>7. QED
  BY <1>6 DEF WriteBatch, Survivors, R

LEMMA CrashSurvivors ==
  ASSUME undurable \in Seq(Range(undurable)), NEW n \in 1 .. Len(undurable) + 1, Crash(n)
  PROVE  db' \in Survivors /\ undurable' \in Seq(Range(undurable')) /\ Survivors' \subseteq Survivors
<1>1. Len(undurable) \in Nat
  OBVIOUS
<1>2. n \in Nat /\ n - 1 \in 0 .. Len(undurable)
  BY <1>1
<1>3. undurable' \in Seq(Range(undurable))
  BY <1>1, <1>2 DEF Crash
<1>4. undurable' \in Seq(Range(undurable')) /\ Range(undurable') \subseteq Range(undurable)
  BY <1>3, OverRange
<1>5. db' = db \/ (n \in 1 .. Len(undurable) /\ db' = undurable[n])
  BY <1>1, <1>2 DEF Crash
<1>6. db' \in Survivors
  BY <1>5 DEF Survivors, Range
<1>7. QED
  BY <1>4, <1>6 DEF Survivors

LEMMA StoreInit == Init => StoreInv
<1> SUFFICES ASSUME Init PROVE StoreInv
  OBVIOUS
<1>1. Range(undurable) = {} /\ undurable \in Seq(Range(undurable))
  BY DEF Init, Range
<1>2. Shaped(db) /\ db.heads = <<>>
  BY DEF Init, Shaped
<1>3. QED
  BY <1>1, <1>2 DEF Init, StoreInv, Survivors

(* Steps that leave the coins database alone.                              *)
LEMMA StoreKept ==
  ASSUME StoreInv, UNCHANGED <<db, undurable>>, tip' \in Block \cup {None},
         \/ pc \in {"up", "index", "unlink"} /\ pc' \in {"up", "index", "unlink"}
         \/ pc = "unlink" /\ pc' = "first" /\ target'.best \in Block
         \/ pc' = pc /\ target' = target
  PROVE  StoreInv'
  BY DEF StoreInv, Survivors, Shaped

LEMMA StoreBatches ==
  ASSUME StoreInv, Batches
  PROVE  StoreInv'
<1>1. /\ undurable \in Seq(Range(undurable)) /\ pc \in {"first", "batch"} /\ target.best \in Block
      /\ \A d \in Survivors : Shaped(d)
  BY DEF Batches, FirstBatch, PartialBatch, LastBatch, StoreInv
<1>2. Shaped(db) /\ (db.heads # <<>> => db.heads[1] = target.best)
  BY <1>1 DEF Survivors, StoreInv
<1>3. ASSUME NEW S, FirstBatch(S) PROVE StoreInv'
  <2> DEFINE d == [coins |-> Written(S), best |-> None, heads |-> <<target.best, old_tip>>]
  <2>1. WriteBatch(d) /\ pc' = "batch" /\ UNCHANGED <<tip, target>>
    BY <1>3 DEF FirstBatch, memory
  <2>2. old_tip \in Block \cup {None}
    BY <1>2 DEF old_tip, Shaped
  <2>3. Shaped(d) /\ d.heads # <<>> /\ d.heads[1] = target.best
    BY <1>1, <2>2 DEF Shaped
  <2> HIDE DEF d
  <2>4. db' = d /\ undurable' \in Seq(Range(undurable')) /\ Survivors' \subseteq {d} \cup Survivors
    BY <1>1, <2>1, BatchSurvivors
  <2>5. QED
    BY <1>1, <2>1, <2>3, <2>4 DEF StoreInv
<1>4. ASSUME NEW S, PartialBatch(S) PROVE StoreInv'
  <2> DEFINE d == [db EXCEPT !.coins = Written(S)]
  <2>1. WriteBatch(d) /\ pc = "batch" /\ pc' = "batch" /\ UNCHANGED <<tip, target>>
    BY <1>4 DEF PartialBatch, memory
  <2>2. db = [coins |-> db.coins, best |-> db.best, heads |-> db.heads]
    BY <1>2 DEF Shaped
  <2>3. d = [coins |-> Written(S), best |-> db.best, heads |-> db.heads]
    BY <2>2
  <2>4. db.heads # <<>>
    BY <2>1 DEF StoreInv
  <2> HIDE DEF d
  <2>5. Shaped(d) /\ d.heads # <<>> /\ d.heads[1] = target.best
    BY <1>2, <2>3, <2>4 DEF Shaped
  <2>6. db' = d /\ undurable' \in Seq(Range(undurable')) /\ Survivors' \subseteq {d} \cup Survivors
    BY <1>1, <2>1, BatchSurvivors
  <2>7. QED
    BY <1>1, <2>1, <2>5, <2>6 DEF StoreInv
<1>5. ASSUME LastBatch PROVE StoreInv'
  <2> DEFINE d == [coins |-> target.coins, best |-> target.best, heads |-> <<>>]
  <2>1. WriteBatch(d) /\ pc' = "up" /\ tip' = target.best
    BY <1>5 DEF LastBatch
  <2>2. Shaped(d) /\ d.heads = <<>>
    BY <1>1 DEF Shaped
  <2> HIDE DEF d
  <2>3. db' = d /\ undurable' \in Seq(Range(undurable')) /\ Survivors' \subseteq {d} \cup Survivors
    BY <1>1, <2>1, BatchSurvivors
  <2>4. QED
    BY <1>1, <2>1, <2>2, <2>3 DEF StoreInv
<1>6. QED
  BY <1>3, <1>4, <1>5 DEF Batches

LEMMA StoreStep == StoreInv /\ [Next]_vars => StoreInv'
<1> SUFFICES ASSUME StoreInv, [Next]_vars PROVE StoreInv'
  OBVIOUS
<1>0. tip \in Block \cup {None} /\ undurable \in Seq(Range(undurable)) /\ None \notin Block
  BY TreeAssumption DEF StoreInv
<1>1. ASSUME NEW b \in Block, NEW f \in File, AcceptBlock(b, f) PROVE StoreInv'
  BY <1>0, <1>1, StoreKept DEF AcceptBlock
<1>2. ASSUME NEW b \in Block, ConnectTip(b) PROVE StoreInv'
  BY <1>2, StoreKept DEF ConnectTip
<1>3. CASE DisconnectTip
  <2>1. tip' \in Block
    BY <1>0, <1>3, TreeAssumption DEF DisconnectTip
  <2>2. QED
    BY <1>3, <2>1, StoreKept DEF DisconnectTip, disk
<1>4. ASSUME NEW S, NEW always, FlushFiles(S, always) PROVE StoreInv'
  BY <1>0, <1>4, StoreKept DEF FlushFiles
<1>5. CASE WriteBlockIndexDB
  BY <1>0, <1>5, StoreKept DEF WriteBlockIndexDB, memory
<1>6. CASE UnlinkPrunedFiles
  <2>1. UNCHANGED <<tip, db, undurable>> /\ pc = "unlink"
    BY <1>6 DEF UnlinkPrunedFiles
  <2>2. pc' = "up" \/ (pc' = "first" /\ target'.best \in Block)
    BY <1>0, <1>6 DEF UnlinkPrunedFiles
  <2>3. QED
    BY <1>0, <2>1, <2>2, StoreKept
<1>7. CASE Batches
  BY <1>7, StoreBatches
<1>8. CASE Start
  <2>1. UNCHANGED <<db, undurable>> /\ pc' = Outcome
    BY <1>8 DEF Start
  <2>2. Shaped(db) /\ \A d \in Survivors' : Shaped(d)
    BY <2>1 DEF StoreInv, Survivors
  <2>3. pc' \in {"up", "first", "failed"} /\ (pc' = "up" <=> db.heads = <<>> /\ pc' # "failed")
    BY <2>1 DEF Outcome
  <2>4. tip' \in Block \cup {None}
    BY <1>8, <2>2 DEF Start, Shaped
  <2>5. pc' = "first" => db.heads # <<>> /\ target'.best = db.heads[1] /\ db.heads[1] \in Block
    BY <1>8, <2>2, <2>3 DEF Start, Shaped
  <2>6. QED
    BY <1>0, <2>1, <2>2, <2>3, <2>4, <2>5 DEF StoreInv
<1>9. ASSUME NEW n \in 1 .. Len(undurable) + 1, Crash(n) PROVE StoreInv'
  <2>1. pc' = "down" /\ tip' = None
    BY <1>9 DEF Crash
  <2>2. undurable' \in Seq(Range(undurable')) /\ Survivors' \subseteq Survivors
    BY <1>0, <1>9, CrashSurvivors
  <2>3. QED
    BY <2>1, <2>2 DEF StoreInv
<1>10. CASE UNCHANGED vars
  BY <1>0, <1>10, StoreKept DEF vars, memory, disk
<1>11. QED
  BY <1>1, <1>2, <1>3, <1>4, <1>5, <1>6, <1>7, <1>8, <1>9, <1>10 DEF Next, Run, Writes, Dies

LEMMA StoreAlways == Spec => []StoreInv
<1>1. QED
  BY StoreInit, StoreStep, PTL DEF Spec
-----------------------------------------------------------------------------
(* Data that was received and pruned lies far below a block that has been  *)
(* connected.                                                              *)
Pruned(I) ==
  \A b \in I.known : I.pos[b] = NoFile => \E T \in I.undo : Height(T) >= Height(b) + MinBlocksToKeep

(* The index knows every block of the chain that ends in t, which are      *)
(* pruned or have undo data.                                               *)
Supports(I, t) ==
  t # None => \A b \in Branch[t] :
    b \in I.known /\ (b = Genesis \/ I.pos[b] = NoFile \/ b \in I.undo)

(* J has what I has, unless it was pruned.                                 *)
Follows(J, I) ==
  \A b \in I.known : /\ b \in J.known /\ (I.pos[b] = NoFile => J.pos[b] = NoFile)
                     /\ b \in I.undo => b \in J.undo \/ J.pos[b] = NoFile

FailInv ==
  pc = "failed" => /\ db.heads # <<>>
                   /\ \E b \in diskIndex.undo, t \in Tips(db) : Lag(b, t) > MinBlocksToKeep

DiskSupport ==
  /\ Pruned(diskIndex)
  /\ \A d \in Survivors : \A t \in Tips(d) : Supports(diskIndex, t)
  /\ pc \in {"first", "batch"} => Supports(diskIndex, target.best)
RunSupport ==
  /\ Pruned(index) /\ Supports(index, tip)
  /\ \A d \in Survivors : \A t \in Tips(d) : Supports(index, t)
  /\ pc \in {"first", "batch"} => Supports(index, target.best)
SupportInv == DiskSupport /\ (pc \in Running => RunSupport) /\ FailInv

LEMMA SupportFollows ==
  ASSUME NEW I, NEW J, NEW t, Follows(J, I), Supports(I, t)
  PROVE  Supports(J, t)
  BY DEF Follows, Supports

LEMMA SupportInit == Init => SupportInv
<1> SUFFICES ASSUME Init PROVE SupportInv
  OBVIOUS
<1>1. Survivors = {db} /\ Tips(db) = {None} /\ pc = "up" /\ tip = None
  BY DEF Init, Survivors, Tips, Range
<1>2. Pruned(diskIndex)
  BY LoadedFacts DEF Init, Pruned
<1>3. Pruned(index)
  <2>1. 0 # NoFile
    BY DEF NoFile
  <2>2. QED
    BY <2>1, LoadedFacts, TreeAssumption DEF Init, Pruned
<1>4. QED
  BY <1>1, <1>2, <1>3 DEF SupportInv, DiskSupport, RunSupport, FailInv, Supports

(* Steps of a running node up to the index write.                          *)
LEMMA SupportRun ==
  ASSUME SupportInv, pc = "up", pc' \in {"up", "index"}, UNCHANGED <<diskIndex, db, undurable>>,
         Follows(index', index), Pruned(index'), Supports(index', tip')
  PROVE  SupportInv'
<1>1. RunSupport /\ DiskSupport
  BY DEF SupportInv, Running
<1>2. Survivors' = Survivors
  BY DEF Survivors
<1>3. DiskSupport'
  BY <1>1, <1>2 DEF DiskSupport, Pruned, Supports
<1>4. \A d \in Survivors' : \A t \in Tips(d) : Supports(index', t)
  BY <1>1, <1>2, SupportFollows DEF RunSupport
<1>5. Pruned(index)' /\ Supports(index, tip)'
  BY DEF Pruned, Supports
<1>6. RunSupport'
  BY <1>4, <1>5 DEF RunSupport, Supports
<1>7. QED
  BY <1>3, <1>6 DEF SupportInv, FailInv

LEMMA SupportAccept ==
  ASSUME FilesInv, SupportInv, NEW b \in Block, NEW f \in File, AcceptBlock(b, f)
  PROVE  SupportInv'
<1>1. /\ pc = "up" /\ pc' = "up" /\ b \notin index.known
      /\ UNCHANGED <<tip, diskIndex, db, undurable>>
  BY DEF AcceptBlock
<1>2. index \in Index /\ RunSupport /\ f # NoFile
  BY <1>1, FileFacts DEF FilesInv, Typed, SupportInv, Running
<1>3. /\ index'.known = index.known \cup {b} /\ index'.undo = index.undo
      /\ \A x \in Block : index'.pos[x] = IF x = b THEN f ELSE index.pos[x]
  BY <1>2 DEF AcceptBlock, Index
<1>4. index.known \subseteq Block
  BY <1>2, Positions
<1>5. Follows(index', index)
  BY <1>1, <1>3, <1>4 DEF Follows
<1>6. Pruned(index')
  BY <1>1, <1>2, <1>3, <1>4 DEF Pruned, RunSupport
<1>7. Supports(index', tip')
  BY <1>1, <1>2, <1>5, SupportFollows DEF RunSupport
<1>8. QED
  BY <1>1, <1>5, <1>6, <1>7, SupportRun

LEMMA SupportConnect ==
  ASSUME FilesInv, SupportInv, NEW b \in Block, ConnectTip(b)
  PROVE  SupportInv'
<1>1. /\ pc = "up" /\ pc' = "up" /\ tip' = b /\ HaveData(b)
      /\ UNCHANGED <<diskIndex, db, undurable>>
  BY DEF ConnectTip
<1>2. index \in Index /\ RunSupport /\ RunInv
  BY <1>1 DEF FilesInv, Typed, SupportInv, Running
<1>3. index.known \subseteq Block /\ b \in index.known
  BY <1>1, <1>2, Positions DEF RunInv, Placed, HaveData
<1>4. /\ index'.known = index.known /\ index'.pos = index.pos
      /\ index'.undo = IF b = Genesis THEN index.undo ELSE index.undo \cup {b}
  <2>1. CASE b = Genesis \/ b \in index.undo
    BY <2>1 DEF ConnectTip, WriteUndoDataForBlock
  <2>2. CASE ~(b = Genesis \/ b \in index.undo)
    <3>1. index' = [index EXCEPT !.undo = @ \cup {b}]
      BY <2>2 DEF ConnectTip, WriteUndoDataForBlock
    <3>2. QED
      BY <1>2, <2>2, <3>1 DEF Index
  <2>3. QED
    BY <2>1, <2>2
<1>5. Follows(index', index)
  BY <1>4 DEF Follows
<1>6. Pruned(index')
  BY <1>2, <1>4 DEF Pruned, RunSupport
<1>7. Supports(index', b)
  <2>1. CASE b = Genesis
    BY <1>3, <1>4, <2>1, BranchAssumption DEF Supports
  <2>2. CASE b # Genesis
    <3>1. Prev[b] = tip /\ tip \in Block /\ tip # None
      BY <2>2, TreeAssumption DEF ConnectTip
    <3>2. Supports(index', tip)
      BY <1>2, <1>5, SupportFollows DEF RunSupport
    <3>3. Branch[b] = {b} \cup Branch[tip]
      BY <2>2, <3>1, BranchAssumption
    <3>4. QED
      BY <1>3, <1>4, <2>2, <3>1, <3>2, <3>3 DEF Supports
  <2>3. QED
    BY <2>1, <2>2
<1>8. QED
  BY <1>1, <1>5, <1>6, <1>7, SupportRun

LEMMA SupportDisconnect ==
  ASSUME FilesInv, SupportInv, tip \in Block \cup {None}, DisconnectTip
  PROVE  SupportInv'
<1>1. /\ pc = "up" /\ pc' = "up" /\ tip \in Block \ {Genesis} /\ tip' = Prev[tip]
      /\ UNCHANGED <<index, diskIndex, db, undurable>>
  BY DEF DisconnectTip, disk
<1>2. RunSupport
  BY <1>1 DEF SupportInv, Running
<1>3. Follows(index', index) /\ Pruned(index')
  BY <1>1, <1>2 DEF Follows, RunSupport, Pruned
<1>4. Branch[Prev[tip]] \subseteq Branch[tip] /\ tip # None
  BY <1>1, BranchAssumption, TreeAssumption
<1>5. Supports(index', tip')
  BY <1>1, <1>2, <1>4 DEF RunSupport, Supports
<1>6. QED
  BY <1>1, <1>3, <1>5, SupportRun

(* What is pruned lies far below the tip, and what keeps the undo data of  *)
(* a block at least as high as the tip is not pruned.                      *)
LEMMA SupportFlush ==
  ASSUME FilesInv, SupportInv, tip \in Block \cup {None},
         NEW S \in SUBSET File, NEW always \in BOOLEAN, FlushFiles(S, always)
  PROVE  SupportInv'
<1>1. pc = "up" /\ pc' = "index" /\ UNCHANGED <<tip, diskIndex, db, undurable>>
  BY DEF FlushFiles
<1>2. index \in Index /\ RunSupport /\ NoFile \notin S
  BY <1>1, FileFacts DEF FilesInv, Typed, SupportInv, Running
<1>3. /\ index'.known = index.known
      /\ index'.undo = {x \in index.undo : index.pos[x] \notin S}
      /\ \A x \in Block : index'.pos[x] = IF index.pos[x] \in S THEN NoFile ELSE index.pos[x]
  BY <1>2 DEF FlushFiles, PruneOneBlockFile, Index
<1>4. index.known \subseteq Block /\ index.undo \subseteq Block
  BY <1>2, Positions
<1>5. Follows(index', index)
  BY <1>3, <1>4 DEF Follows
<1>6. \A x \in Block : index.pos[x] \in S => Height(x) <= HeightOf(tip) - MinBlocksToKeep
  BY DEF FlushFiles, Prunable, InFile
<1>7. /\ MinBlocksToKeep \in Nat /\ MinBlocksToKeep > 0 /\ Height(Genesis) = 0
      /\ \A x \in Block : Height(x) \in Nat
  BY BoundAssumption, HeightFacts
<1>8. ASSUME NEW x \in Block, index.pos[x] \in S
      PROVE  \E T \in index'.undo : Height(T) >= Height(x) + MinBlocksToKeep
  <2>1. Height(x) <= HeightOf(tip) - MinBlocksToKeep
    BY <1>6, <1>8
  <2>2. tip # None
    BY <1>7, <2>1 DEF HeightOf
  <2>3. tip \in Block /\ HeightOf(tip) = Height(tip) /\ Height(x) + MinBlocksToKeep <= Height(tip)
    BY <1>7, <2>1, <2>2 DEF HeightOf
  <2>4. tip # Genesis
    BY <1>7, <2>3
  <2>5. tip \in index.known /\ (index.pos[tip] = NoFile \/ tip \in index.undo)
    BY <1>2, <2>2, <2>3, <2>4, BranchAssumption DEF RunSupport, Supports
  <2>6. \E T \in index.undo : Height(T) >= Height(tip)
    <3>1. CASE tip \in index.undo
      BY <1>7, <2>3, <3>1
    <3>2. CASE index.pos[tip] = NoFile
      <4>1. PICK T \in index.undo : Height(T) >= Height(tip) + MinBlocksToKeep
        BY <1>2, <2>5, <3>2 DEF RunSupport, Pruned
      <4>2. Height(T) >= Height(tip)
        BY <1>4, <1>7, <2>3, <4>1
      <4>3. QED
        BY <4>2
    <3>3. QED
      BY <2>5, <3>1, <3>2
  <2>7. PICK T \in index.undo : Height(T) >= Height(tip)
    BY <2>6
  <2>8. index.pos[T] \notin S
    BY <1>4, <1>6, <1>7, <2>3, <2>7
  <2>9. Height(T) >= Height(x) + MinBlocksToKeep
    BY <1>4, <1>7, <2>3, <2>7
  <2>10. QED
    BY <1>3, <2>7, <2>8, <2>9
<1>9. ASSUME NEW x \in index.known, index.pos[x] = NoFile
      PROVE  \E T \in index'.undo : Height(T) >= Height(x) + MinBlocksToKeep
  <2>1. PICK T \in index.undo : Height(T) >= Height(x) + MinBlocksToKeep
    BY <1>2, <1>9 DEF RunSupport, Pruned
  <2>2. CASE index.pos[T] \in S
    <3>1. PICK U \in index'.undo : Height(U) >= Height(T) + MinBlocksToKeep
      BY <1>4, <1>8, <2>2
    <3>2. Height(U) >= Height(x) + MinBlocksToKeep
      BY <1>3, <1>4, <1>7, <2>1, <3>1
    <3>3. QED
      BY <3>2
  <2>3. CASE index.pos[T] \notin S
    BY <1>3, <2>1, <2>3
  <2>4. QED
    BY <2>2, <2>3
<1>10. Pruned(index')
  BY <1>3, <1>4, <1>8, <1>9 DEF Pruned
<1>11. Supports(index', tip')
  BY <1>1, <1>2, <1>5, SupportFollows DEF RunSupport
<1>12. QED
  BY <1>1, <1>5, <1>10, <1>11, SupportRun

LEMMA SupportWrites ==
  ASSUME FilesInv, SupportInv, Writes
  PROVE  SupportInv'
<1>1. UNCHANGED <<tip, index, db, undurable>> /\ Survivors' = Survivors
  BY DEF Writes, WriteBlockIndexDB, UnlinkPrunedFiles, memory, Survivors
<1>2. RunSupport /\ DiskSupport
  BY DEF SupportInv, Running, Writes, WriteBlockIndexDB, UnlinkPrunedFiles
<1>3. CASE WriteBlockIndexDB
  <2>1. pc' = "unlink" /\ diskIndex' = index
    BY <1>3 DEF WriteBlockIndexDB
  <2>2. RunSupport'
    BY <1>1, <1>2, <2>1 DEF RunSupport, Pruned, Supports
  <2>3. DiskSupport'
    BY <1>1, <1>2, <2>1 DEF RunSupport, DiskSupport, Pruned, Supports
  <2>4. QED
    BY <2>1, <2>2, <2>3 DEF SupportInv, FailInv
<1>4. CASE UnlinkPrunedFiles
  <2>1. /\ pc' = "up" \/ (pc' = "first" /\ target'.best = tip)
        /\ diskIndex' = diskIndex /\ diskIndex = index
    <3>1. pc = "unlink" /\ diskIndex' = diskIndex
      BY <1>4 DEF UnlinkPrunedFiles
    <3>2. diskIndex = index
      BY <3>1 DEF FilesInv, FlushInv
    <3>3. pc' = "up" \/ (pc' = "first" /\ target' = [coins |-> CoinsAt(tip), best |-> tip])
      BY <1>4 DEF UnlinkPrunedFiles
    <3>4. QED
      BY <3>1, <3>2, <3>3
  <2>2. RunSupport'
    BY <1>1, <1>2, <2>1 DEF RunSupport, Pruned, Supports
  <2>3. DiskSupport'
    BY <1>1, <1>2, <2>1 DEF RunSupport, DiskSupport, Pruned, Supports
  <2>4. QED
    BY <2>1, <2>2, <2>3 DEF SupportInv, FailInv
<1>5. QED
  BY <1>3, <1>4 DEF Writes

(* A batch names the block that is written and the old tip, or only the    *)
(* first.                                                                  *)
LEMMA BatchTips ==
  ASSUME StoreInv, Batches
  PROVE  /\ pc \in {"first", "batch"} /\ UNCHANGED <<index, diskIndex>>
         /\ \/ pc' = "batch" /\ UNCHANGED <<tip, target>>
            \/ pc' = "up" /\ tip' = target.best
         /\ \A d \in Survivors' : d \in Survivors \/ Tips(d) \subseteq {target.best} \cup Tips(db)
<1>1. /\ undurable \in Seq(Range(undurable)) /\ pc \in {"first", "batch"} /\ target.best \in Block
      /\ UNCHANGED <<index, diskIndex>>
  BY DEF Batches, FirstBatch, PartialBatch, LastBatch, StoreInv, memory
<1>2. Shaped(db)
  BY DEF StoreInv, Survivors
<1>3. ASSUME NEW S, FirstBatch(S)
      PROVE  /\ pc' = "batch" /\ UNCHANGED <<tip, target>>
             /\ \A d \in Survivors' : d \in Survivors \/ Tips(d) \subseteq {target.best} \cup Tips(db)
  <2> DEFINE e == [coins |-> Written(S), best |-> None, heads |-> <<target.best, old_tip>>]
  <2>1. WriteBatch(e) /\ pc' = "batch" /\ UNCHANGED <<tip, target>>
    BY <1>3 DEF FirstBatch, memory
  <2>2. old_tip \in Tips(db) /\ old_tip \in Block \cup {None}
    BY <1>2, TipsAre DEF old_tip, Shaped
  <2>3. Shaped(e) /\ e.heads # <<>> /\ e.heads[1] = target.best /\ e.heads[2] = old_tip
    BY <1>1, <2>2 DEF Shaped
  <2> HIDE DEF e
  <2>4. Tips(e) = {target.best, old_tip}
    BY <2>3, TipsAre
  <2>5. QED
    BY <1>1, <2>1, <2>2, <2>4, BatchSurvivors
<1>4. ASSUME NEW S, PartialBatch(S)
      PROVE  /\ pc' = "batch" /\ UNCHANGED <<tip, target>>
             /\ \A d \in Survivors' : d \in Survivors \/ Tips(d) \subseteq {target.best} \cup Tips(db)
  <2> DEFINE e == [db EXCEPT !.coins = Written(S)]
  <2>1. WriteBatch(e) /\ pc' = "batch" /\ UNCHANGED <<tip, target>>
    BY <1>4 DEF PartialBatch, memory
  <2>2. db = [coins |-> db.coins, best |-> db.best, heads |-> db.heads]
    BY <1>2 DEF Shaped
  <2>3. e.best = db.best /\ e.heads = db.heads
    BY <2>2
  <2> HIDE DEF e
  <2>4. Tips(e) = Tips(db)
    BY <2>3 DEF Tips
  <2>5. QED
    BY <1>1, <2>1, <2>4, BatchSurvivors
<1>5. ASSUME LastBatch
      PROVE  /\ pc' = "up" /\ tip' = target.best
             /\ \A d \in Survivors' : d \in Survivors \/ Tips(d) \subseteq {target.best} \cup Tips(db)
  <2> DEFINE e == [coins |-> target.coins, best |-> target.best, heads |-> <<>>]
  <2>1. WriteBatch(e) /\ pc' = "up" /\ tip' = target.best
    BY <1>5 DEF LastBatch
  <2>2. Tips(e) = {target.best}
    BY DEF Tips
  <2> HIDE DEF e
  <2>3. QED
    BY <1>1, <2>1, <2>2, BatchSurvivors
<1>6. QED
  BY <1>1, <1>3, <1>4, <1>5 DEF Batches

LEMMA SupportBatches ==
  ASSUME StoreInv, SupportInv, Batches
  PROVE  SupportInv'
<1>1. /\ pc \in {"first", "batch"} /\ UNCHANGED <<index, diskIndex>>
      /\ \/ pc' = "batch" /\ UNCHANGED <<tip, target>>
         \/ pc' = "up" /\ tip' = target.best
      /\ \A d \in Survivors' : d \in Survivors \/ Tips(d) \subseteq {target.best} \cup Tips(db)
  BY BatchTips
<1>2. RunSupport /\ DiskSupport /\ db \in Survivors
  BY <1>1 DEF SupportInv, Running, Survivors
<1>3. /\ Supports(diskIndex, target.best) /\ \A t \in Tips(db) : Supports(diskIndex, t)
      /\ Supports(index, target.best) /\ \A t \in Tips(db) : Supports(index, t)
  BY <1>1, <1>2 DEF RunSupport, DiskSupport
<1>4. \A d \in Survivors' : \A t \in Tips(d) : Supports(diskIndex, t) /\ Supports(index, t)
  BY <1>1, <1>2, <1>3 DEF RunSupport, DiskSupport
<1>5. DiskSupport'
  BY <1>1, <1>2, <1>3, <1>4 DEF DiskSupport, Pruned, Supports
<1>6. RunSupport'
  BY <1>1, <1>2, <1>3, <1>4 DEF RunSupport, Pruned, Supports
<1>7. QED
  BY <1>1, <1>5, <1>6 DEF SupportInv, FailInv

LEMMA SupportCrash ==
  ASSUME StoreInv, SupportInv, NEW n \in 1 .. Len(undurable) + 1, Crash(n)
  PROVE  SupportInv'
<1>1. pc' = "down" /\ UNCHANGED diskIndex
  BY DEF Crash
<1>2. Survivors' \subseteq Survivors
  BY CrashSurvivors DEF StoreInv
<1>3. DiskSupport'
  BY <1>1, <1>2 DEF SupportInv, DiskSupport, Pruned, Supports
<1>4. QED
  BY <1>1, <1>3 DEF SupportInv, FailInv, Running

(* The blocks that a start needs are known, and if data of one of them is  *)
(* pruned the node had gone far beyond.                                    *)
LEMMA SupportStart ==
  ASSUME FilesInv, StoreInv, SupportInv, Start
  PROVE  SupportInv'
<1>1. /\ pc' = Outcome /\ index' = Loaded /\ UNCHANGED <<diskIndex, db, undurable>>
      /\ tip' = (IF pc' = "up" THEN db.best ELSE None)
      /\ pc' = "first" => target'.best = db.heads[1]
  BY DEF Start
<1>2. FilesPresent /\ Loaded \in Index /\ None \notin Block
  BY FilesFound, TreeAssumption
<1>3. Survivors' = Survivors /\ db \in Survivors /\ Shaped(db)
  BY <1>1 DEF Survivors, StoreInv
<1>4. \A d \in Survivors : \A t \in Tips(d) : t \in Block \cup {None}
  <2>1. ASSUME NEW d \in Survivors PROVE Tips(d) \subseteq Block \cup {None}
    <3>1. Shaped(d)
      BY DEF StoreInv
    <3>2. d.heads # <<>> => d.heads[1] \in Block \cup {None} /\ d.heads[2] \in Block \cup {None}
      BY <3>1 DEF Shaped
    <3>3. QED
      BY <3>1, <3>2, TipsAre DEF Shaped
  <2>2. QED
    BY <2>1
<1>5. DiskSupport
  BY DEF SupportInv
<1>6. \A t \in Block : Supports(diskIndex, t) => Genesis \in diskIndex.known /\ t \in diskIndex.known
  BY <1>2, BranchAssumption DEF Supports
<1>7. \A d \in Survivors : \A t \in Tips(d) : Supports(Loaded, t)
  <2>1. CASE Genesis \in diskIndex.known
    BY <1>5, <2>1 DEF DiskSupport, Loaded
  <2>2. CASE Genesis \notin diskIndex.known
    BY <1>4, <1>5, <1>6, <2>2 DEF DiskSupport, Supports
  <2>3. QED
    BY <2>1, <2>2
<1>8. Pruned(Loaded)
  <2>1. CASE Genesis \in diskIndex.known
    BY <1>5, <2>1 DEF DiskSupport, Loaded
  <2>2. CASE Genesis \notin diskIndex.known
    <3>1. 0 # NoFile
      BY DEF NoFile
    <3>2. QED
      BY <2>2, <3>1, LoadedFacts, TreeAssumption DEF Loaded, Pruned
  <2>3. QED
    BY <2>1, <2>2
<1>9. CASE db.heads = <<>>
  <2>1. Tips(db) = {db.best} /\ db.best \in Block \cup {None}
    BY <1>3, <1>9, TipsAre DEF Shaped
  <2>2. Supports(Loaded, db.best)
    BY <1>3, <1>7, <2>1
  <2>3. db.best \in Loaded.known \cup {None}
    BY <1>2, <2>1, <2>2, BranchAssumption DEF Supports
  <2>4. pc' = "up"
    BY <1>1, <1>2, <1>9, <2>3 DEF Outcome
  <2>5. DiskSupport'
    BY <1>1, <1>3, <1>5, <2>4 DEF DiskSupport, Pruned, Supports
  <2>6. RunSupport'
    BY <1>1, <1>3, <1>7, <1>8, <2>2, <2>4 DEF RunSupport, Pruned, Supports
  <2>7. QED
    BY <2>4, <2>5, <2>6 DEF SupportInv, FailInv
<1>10. CASE db.heads # <<>>
  <2> DEFINE new == db.heads[1]
  <2> DEFINE old == db.heads[2]
  <2>1. new \in Block /\ old \in Block \cup {None} /\ Tips(db) = {new, old}
    BY <1>3, <1>10, TipsAre DEF Shaped
  <2> HIDE DEF new, old
  <2>2. /\ Supports(diskIndex, new) /\ Supports(diskIndex, old)
        /\ Supports(Loaded, new) /\ Supports(Loaded, old)
    BY <1>3, <1>5, <1>7, <2>1 DEF DiskSupport
  <2>3. Genesis \in diskIndex.known /\ Loaded = diskIndex
    BY <1>6, <2>1, <2>2 DEF Loaded
  <2>4. new \in Loaded.known /\ (old # None => old \in Loaded.known)
    BY <1>6, <2>1, <2>2, <2>3
  <2>5. pc' = IF Replayable(new, old) THEN "first" ELSE "failed"
    BY <1>1, <1>2, <1>10 DEF Outcome, new, old
  <2>6. CASE Replayable(new, old)
    <3>1. pc' = "first" /\ target'.best = new /\ tip' = None
      BY <1>1, <2>5, <2>6 DEF new
    <3>2. DiskSupport'
      BY <1>1, <1>3, <1>5, <2>2, <3>1 DEF DiskSupport, Pruned, Supports
    <3>3. RunSupport'
      BY <1>1, <1>3, <1>7, <1>8, <2>2, <3>1 DEF RunSupport, Pruned, Supports
    <3>4. QED
      BY <3>1, <3>2, <3>3 DEF SupportInv, FailInv
  <2>7. CASE ~Replayable(new, old)
    <3>1. \E b \in Block : /\ b \in Loaded.known /\ Loaded.pos[b] = NoFile
                           /\ \/ b \in BranchOf(old) \ BranchOf(new)
                              \/ b \in BranchOf(new) \ BranchOf(old)
      <4>1. BranchOf(new) = Branch[new] /\ Genesis \in Branch[new] /\ Branch[new] \subseteq Block
        BY <1>2, <2>1, BranchAssumption DEF BranchOf
      <4>2. BranchOf(old) \subseteq Block
        BY <2>1, BranchAssumption DEF BranchOf
      <4>3. CASE \E b \in BranchOf(old) \ Branch[new] : ~(Loaded.pos[b] # NoFile /\ b \in Loaded.undo)
        <5>1. PICK b \in BranchOf(old) \ Branch[new] : ~(Loaded.pos[b] # NoFile /\ b \in Loaded.undo)
          BY <4>3
        <5>2. b \in Loaded.known /\ Loaded.pos[b] = NoFile
          BY <2>2, <4>1, <5>1 DEF Supports, BranchOf
        <5>3. QED
          BY <4>1, <4>2, <5>1, <5>2
      <4>4. CASE \E b \in Branch[new] \ (BranchOf(old) \cup {Genesis}) : Loaded.pos[b] = NoFile
        BY <1>2, <2>1, <2>2, <4>1, <4>4 DEF Supports
      <4>5. QED
        BY <2>4, <2>7, <4>3, <4>4 DEF Replayable, Rollback, Rollforward
    <3>2. PICK b \in Block : /\ b \in Loaded.known /\ Loaded.pos[b] = NoFile
                             /\ \/ b \in BranchOf(old) \ BranchOf(new)
                                \/ b \in BranchOf(new) \ BranchOf(old)
      BY <3>1
    <3>3. PICK T \in diskIndex.undo : Height(T) >= Height(b) + MinBlocksToKeep
      BY <1>8, <2>3, <3>2 DEF Pruned
    <3>4. T \in Block
      BY <3>3, Positions DEF FilesInv, Typed
    <3>5. Lag(T, new) > MinBlocksToKeep \/ Lag(T, old) > MinBlocksToKeep
      BY <2>1, <3>2, <3>3, <3>4, FarAhead
    <3>6. pc' = "failed"
      BY <2>5, <2>7
    <3>7. FailInv'
      BY <1>1, <1>10, <2>1, <3>3, <3>5 DEF FailInv, Tips
    <3>8. DiskSupport'
      BY <1>1, <1>3, <1>5, <3>6 DEF DiskSupport, Pruned, Supports
    <3>9. QED
      BY <3>6, <3>7, <3>8 DEF SupportInv, Running
  <2>8. QED
    BY <2>6, <2>7
<1>11. QED
  BY <1>9, <1>10

LEMMA SupportStep == FilesInv /\ StoreInv /\ SupportInv /\ [Next]_vars => SupportInv'
<1> SUFFICES ASSUME FilesInv, StoreInv, SupportInv, [Next]_vars PROVE SupportInv'
  OBVIOUS
<1>0. tip \in Block \cup {None}
  BY DEF StoreInv
<1>1. CASE Run
  BY <1>0, <1>1, SupportAccept, SupportConnect, SupportDisconnect, SupportFlush DEF Run
<1>2. CASE Writes
  BY <1>2, SupportWrites
<1>3. CASE Batches
  BY <1>3, SupportBatches
<1>4. CASE Start
  BY <1>4, SupportStart
<1>5. CASE Dies
  BY <1>5, SupportCrash DEF Dies
<1>6. CASE UNCHANGED vars
  <2>1. UNCHANGED <<pc, tip, index, target, diskIndex, db, undurable>>
    BY <1>6 DEF vars, memory, disk
  <2>2. Survivors' = Survivors
    BY <2>1 DEF Survivors
  <2>3. DiskSupport' /\ (pc' \in Running => RunSupport')
    BY <2>1, <2>2 DEF SupportInv, DiskSupport, RunSupport, Pruned, Supports
  <2>4. FailInv'
    BY <2>1 DEF SupportInv, FailInv, Tips
  <2>5. QED
    BY <2>3, <2>4 DEF SupportInv
<1>7. QED
  BY <1>1, <1>2, <1>3, <1>4, <1>5, <1>6 DEF Next

(* For every block tree, every sequence of crashes and every number of     *)
(* batches: a start fails only in the middle of a coins write, and only if *)
(* the node had connected more than MIN_BLOCKS_TO_KEEP blocks beyond the   *)
(* old or the new tip; BatchWrite's assertion holds.                       *)
THEOREM StartAlwaysSucceeds == Spec => []StartSucceeds
<1>1. StoreInv /\ SupportInv => StartSucceeds
  BY DEF StoreInv, SupportInv, FailInv, StartSucceeds, ReplayAssert
<1>2. Spec => []SupportInv
  BY StoreAlways, FilesAlways, SupportInit, SupportStep, PTL DEF Spec
<1>3. QED
  BY <1>1, <1>2, StoreAlways, PTL
-----------------------------------------------------------------------------
(* The coins of the best block, or some of the new tip's over those of the *)
(* old one.                                                                *)
Explained(d) ==
  IF d.heads = <<>> THEN d.coins = CoinsAt(d.best)
  ELSE \E S \in SUBSET Outpoint : d.coins = Mixed(S, d.heads[1], d.heads[2])

CoinsInv ==
  /\ \A d \in Survivors : Explained(d)
  /\ pc \in {"first", "batch"} => target.coins = CoinsAt(target.best)

LEMMA CoinsInit == Init => CoinsInv
<1> SUFFICES ASSUME Init PROVE CoinsInv
  OBVIOUS
<1>1. db.heads = <<>> /\ db.best = None /\ db.coins = NoCoins /\ pc = "up"
  BY DEF Init
<1>2. Survivors = {db}
  BY DEF Init, Survivors, Range
<1>3. Explained(db)
  BY <1>1 DEF Explained, CoinsAt
<1>4. QED
  BY <1>1, <1>2, <1>3 DEF CoinsInv

(* Writing entries of the new tip over a mixture gives a mixture.          *)
LEMMA WrittenMixed ==
  ASSUME CoinsInv, StoreInv, pc \in {"first", "batch"}, NEW S \in SUBSET Outpoint
  PROVE  \E R \in SUBSET Outpoint : Written(S) = Mixed(R, target.best, old_tip)
<1>1. target.coins = CoinsAt(target.best) /\ Explained(db) /\ Shaped(db)
  BY DEF CoinsInv, StoreInv, Survivors
<1>2. CASE db.heads = <<>>
  <2>1. old_tip = db.best /\ db.coins = CoinsAt(db.best)
    BY <1>1, <1>2 DEF old_tip, Explained
  <2>2. Written(S) = Mixed(S, target.best, old_tip)
    BY <1>1, <2>1 DEF Written, Mixed
  <2>3. QED
    BY <2>2
<1>3. CASE db.heads # <<>>
  <2>1. old_tip = db.heads[2] /\ db.heads[1] = target.best
    BY <1>1, <1>3 DEF old_tip, Shaped, StoreInv
  <2>2. PICK R \in SUBSET Outpoint : db.coins = Mixed(R, target.best, old_tip)
    BY <1>1, <1>3, <2>1 DEF Explained
  <2>3. \A o \in Outpoint : db.coins[o] = IF o \in R THEN CoinsAt(target.best)[o] ELSE CoinsAt(old_tip)[o]
    BY <2>2 DEF Mixed
  <2>4. Written(S) = Mixed(S \cup R, target.best, old_tip)
    BY <1>1, <2>3 DEF Written, Mixed
  <2>5. S \cup R \in SUBSET Outpoint
    OBVIOUS
  <2>6. QED
    BY <2>4, <2>5
<1>4. QED
  BY <1>2, <1>3

LEMMA CoinsBatches ==
  ASSUME CoinsInv, StoreInv, Batches
  PROVE  CoinsInv'
<1>1. /\ undurable \in Seq(Range(undurable)) /\ pc \in {"first", "batch"}
      /\ target.coins = CoinsAt(target.best) /\ \A d \in Survivors : Explained(d)
  BY DEF Batches, FirstBatch, PartialBatch, LastBatch, StoreInv, CoinsInv
<1>2. Shaped(db)
  BY DEF StoreInv, Survivors
<1>3. ASSUME NEW S \in SUBSET Changed, FirstBatch(S) PROVE CoinsInv'
  <2> DEFINE e == [coins |-> Written(S), best |-> None, heads |-> <<target.best, old_tip>>]
  <2>1. WriteBatch(e) /\ UNCHANGED target
    BY <1>3 DEF FirstBatch, memory
  <2>2. S \in SUBSET Outpoint
    BY DEF Changed
  <2>3. \E R \in SUBSET Outpoint : Written(S) = Mixed(R, target.best, old_tip)
    BY <1>1, <2>2, WrittenMixed
  <2>4. Explained(e)
    BY <2>3 DEF Explained
  <2> HIDE DEF e
  <2>5. QED
    BY <1>1, <2>1, <2>4, BatchSurvivors DEF CoinsInv
<1>4. ASSUME NEW S \in SUBSET Changed, PartialBatch(S) PROVE CoinsInv'
  <2> DEFINE e == [db EXCEPT !.coins = Written(S)]
  <2>1. WriteBatch(e) /\ UNCHANGED target /\ pc = "batch"
    BY <1>4 DEF PartialBatch, memory
  <2>2. S \in SUBSET Outpoint
    BY DEF Changed
  <2>3. \E R \in SUBSET Outpoint : Written(S) = Mixed(R, target.best, old_tip)
    BY <1>1, <2>2, WrittenMixed
  <2>4. db.heads # <<>> /\ target.best = db.heads[1] /\ old_tip = db.heads[2]
    BY <1>2, <2>1 DEF StoreInv, Shaped, old_tip
  <2>5. db = [coins |-> db.coins, best |-> db.best, heads |-> db.heads]
    BY <1>2 DEF Shaped
  <2>6. e.coins = Written(S) /\ e.heads = db.heads
    BY <2>5
  <2> HIDE DEF e
  <2>7. Explained(e)
    BY <2>3, <2>4, <2>6 DEF Explained
  <2>8. QED
    BY <1>1, <2>1, <2>7, BatchSurvivors DEF CoinsInv
<1>5. ASSUME LastBatch PROVE CoinsInv'
  <2> DEFINE e == [coins |-> target.coins, best |-> target.best, heads |-> <<>>]
  <2>1. WriteBatch(e) /\ pc' = "up"
    BY <1>5 DEF LastBatch
  <2>2. Explained(e)
    BY <1>1 DEF Explained
  <2> HIDE DEF e
  <2>3. QED
    BY <1>1, <2>1, <2>2, BatchSurvivors DEF CoinsInv
<1>6. QED
  BY <1>3, <1>4, <1>5 DEF Batches

LEMMA CoinsStep ==
  ASSUME ReplayComputes
  PROVE  CoinsInv /\ StoreInv /\ [Next]_vars => CoinsInv'
<1> SUFFICES ASSUME CoinsInv, StoreInv, [Next]_vars PROVE CoinsInv'
  OBVIOUS
<1>1. ASSUME UNCHANGED <<db, undurable>>, pc' \in {"first", "batch"} => target'.coins = CoinsAt(target'.best)
      PROVE  CoinsInv'
  BY <1>1 DEF CoinsInv, Survivors, Explained
<1>2. CASE Run
  BY <1>1, <1>2 DEF Run, AcceptBlock, ConnectTip, DisconnectTip, FlushFiles, disk
<1>3. CASE Writes
  BY <1>1, <1>3 DEF Writes, WriteBlockIndexDB, UnlinkPrunedFiles
<1>4. CASE Batches
  BY <1>4, CoinsBatches
<1>5. CASE Start
  <2>1. UNCHANGED <<db, undurable>> /\ pc' = Outcome
    BY <1>5 DEF Start
  <2>2. ASSUME pc' \in {"first", "batch"} PROVE target'.coins = CoinsAt(target'.best)
    <3>1. pc' = "first" /\ db.heads # <<>>
      BY <2>1, <2>2 DEF Outcome
    <3>2. Shaped(db) /\ Explained(db)
      BY DEF StoreInv, CoinsInv, Survivors
    <3>3. db.heads[1] \in Block /\ db.heads[2] \in Block \cup {None}
      BY <3>1, <3>2 DEF Shaped
    <3>4. PICK S \in SUBSET Outpoint : db.coins = Mixed(S, db.heads[1], db.heads[2])
      BY <3>1, <3>2 DEF Explained
    <3>5. ReplayBlocks(db.coins, db.heads[1], db.heads[2]) = CoinsAt(db.heads[1])
      BY <3>3, <3>4 DEF ReplayComputes
    <3>6. QED
      BY <1>5, <3>1, <3>5 DEF Start
  <2>3. QED
    BY <1>1, <2>1, <2>2
<1>6. CASE Dies
  <2>1. PICK n \in 1 .. Len(undurable) + 1 : Crash(n)
    BY <1>6 DEF Dies
  <2>2. pc' = "down" /\ Survivors' \subseteq Survivors
    BY <2>1, CrashSurvivors DEF Crash, StoreInv
  <2>3. QED
    BY <2>2 DEF CoinsInv
<1>7. CASE UNCHANGED vars
  BY <1>1, <1>7 DEF vars, memory, disk, CoinsInv
<1>8. QED
  BY <1>2, <1>3, <1>4, <1>5, <1>6, <1>7 DEF Next

(* If ReplayBlocks computes the coins of the new tip from any mixture of   *)
(* those of the new and the old one, then whatever prefix of the batches   *)
(* outlives a crash, and however often a replay is itself cut off, the     *)
(* coins database holds exactly the coins of its best block or such a      *)
(* mixture.                                                                *)
THEOREM CoinsAlwaysRecoverable ==
  ASSUME ReplayComputes
  PROVE  Spec => []CoinsRecoverable
<1>1. CoinsInv => CoinsRecoverable
  <2> SUFFICES ASSUME CoinsInv PROVE CoinsRecoverable
    OBVIOUS
  <2>1. CoinsMatchBest
    BY DEF CoinsInv, CoinsMatchBest, Explained
  <2>2. ASSUME NEW d \in Survivors, d.heads # <<>>, NEW o \in Outpoint
        PROVE  d.coins[o] \in {CoinsAt(d.heads[1])[o], CoinsAt(d.heads[2])[o]}
    <3>1. PICK S \in SUBSET Outpoint : d.coins = Mixed(S, d.heads[1], d.heads[2])
      BY <2>2 DEF CoinsInv, Explained
    <3>2. QED
      BY <3>1 DEF Mixed
  <2>3. QED
    BY <2>1, <2>2 DEF CoinsRecoverable, HalfApplied
<1>2. CoinsInv /\ StoreInv /\ [Next]_vars => CoinsInv'
  BY CoinsStep
<1>3. QED
  BY <1>1, <1>2, StoreAlways, CoinsInit, PTL DEF Spec
=============================================================================
