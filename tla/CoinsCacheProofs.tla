-------------------------- MODULE CoinsCacheProofs --------------------------
(***************************************************************************)
(* For any sets of outpoints, coins and blocks: the flags of every cache   *)
(* entry are honest, nothing throws, and the stack of views implements     *)
(* UtxoStore.                                                              *)
(***************************************************************************)
EXTENDS CoinsCache, TLAPS

(* The inductive invariant.  Coherent alone is not inductive: that an      *)
(* entry is never DIRTY, FRESH and spent at once is what makes it safe for *)
(* BatchWrite to keep the parent's FRESH flag.                             *)
IInv == TypeOK /\ Coherent /\ SanityCheck /\ NeverThrows

(* Leaves that need more than first-order reasoning name SMT.               *)
USE Zenon

(* A record with the fields of an entry is an entry, so it is not Absent.  *)
LEMMA MadeEntry ==
  ASSUME NEW c \in Value, NEW d \in BOOLEAN, NEW f \in BOOLEAN
  PROVE  /\ [coin |-> c, dirty |-> d, fresh |-> f] \in Entry
         /\ [coin |-> c, dirty |-> d, fresh |-> f] # Absent
<1>1. [coin |-> c, dirty |-> d, fresh |-> f] \in Entry
  BY DEF Entry
<1>. QED BY <1>1, AbsentNotEntry

(* One outpoint: a lookup preserves honesty, sanity and what is shown.     *)
LEMMA FetchFacts ==
  ASSUME NEW e \in Entry \cup {Absent}, NEW b \in Value,
         FlagsHonest(e, b), SaneEntry(e)
  PROVE  /\ FetchCoin(e, b) \in Entry \cup {Absent}
         /\ FlagsHonest(FetchCoin(e, b), b)
         /\ SaneEntry(FetchCoin(e, b))
         /\ Shown(FetchCoin(e, b), b) = Shown(e, b)
         /\ FetchCoin(e, b) = Absent => b = Spent
<1>1. CASE e = Absent /\ b # Spent
  <2>1. FetchCoin(e, b) = [coin |-> b, dirty |-> FALSE, fresh |-> FALSE]
    BY <1>1 DEF FetchCoin
  <2>2. FetchCoin(e, b) \in Entry /\ FetchCoin(e, b) # Absent
    BY <2>1, MadeEntry
  <2>. QED BY SMT, <1>1, <2>1, <2>2 DEF FlagsHonest, SaneEntry, Shown
<1>2. CASE ~(e = Absent /\ b # Spent)
  BY <1>2 DEF FetchCoin
<1>. QED BY <1>1, <1>2

(* One outpoint: AddCoin within its contract.                              *)
LEMMA AddFacts ==
  ASSUME NEW e \in Entry \cup {Absent}, NEW b \in Value, NEW c \in Coin,
         NEW overwrite \in BOOLEAN, FlagsHonest(e, b), SaneEntry(e),
         overwrite \/ Shown(e, b) = Spent
  PROVE  /\ AddedEntry(e, c, overwrite) \in Entry
         /\ FlagsHonest(AddedEntry(e, c, overwrite), b)
         /\ SaneEntry(AddedEntry(e, c, overwrite))
         /\ Shown(AddedEntry(e, c, overwrite), b) = c
         /\ ~AddThrows(e, overwrite)
<1>. DEFINE dirty == e # Absent /\ e.dirty
            fresh == (e # Absent /\ e.fresh) \/ (~overwrite /\ ~dirty)
<1>1. AddedEntry(e, c, overwrite) = [coin |-> c, dirty |-> TRUE, fresh |-> fresh]
  BY DEF AddedEntry
<1>2. fresh \in BOOLEAN /\ c \in Value
  BY DEF Value
<1>3. /\ AddedEntry(e, c, overwrite) \in Entry
      /\ AddedEntry(e, c, overwrite) # Absent
  <2>. HIDE DEF fresh
  <2>. QED BY <1>1, <1>2, MadeEntry
<1>4. fresh => b = Spent
  BY DEF FlagsHonest, Shown
<1>5. ~AddThrows(e, overwrite)
  BY DEF AddThrows, Shown
<1>. HIDE DEF fresh
<1>. QED BY SMT, <1>1, <1>3, <1>4, <1>5, SpentNotCoin DEF FlagsHonest, SaneEntry, Shown

(* One outpoint: SpendCoin of a fetched entry.                             *)
LEMMA SpendFacts ==
  ASSUME NEW e \in Entry \cup {Absent}, NEW b \in Value,
         FlagsHonest(e, b), SaneEntry(e), e = Absent => b = Spent
  PROVE  /\ SpentEntry(e) \in Entry \cup {Absent}
         /\ FlagsHonest(SpentEntry(e), b)
         /\ SaneEntry(SpentEntry(e))
         /\ Shown(SpentEntry(e), b) = Spent
<1>1. CASE e = Absent \/ e.fresh
  BY <1>1 DEF SpentEntry, FlagsHonest, SaneEntry, Shown
<1>2. CASE ~(e = Absent \/ e.fresh)
  <2>1. SpentEntry(e) = [coin |-> Spent, dirty |-> TRUE, fresh |-> FALSE]
    BY <1>2 DEF SpentEntry
  <2>2. SpentEntry(e) \in Entry /\ SpentEntry(e) # Absent
    BY <2>1, MadeEntry DEF Value
  <2>. QED BY SMT, <2>1, <2>2 DEF FlagsHonest, SaneEntry, Shown
<1>. QED BY <1>1, <1>2

(* One outpoint: BatchWrite of a child entry e into the parent's p, over a *)
(* base that shows b.                                                      *)
LEMMA BatchWriteFacts ==
  ASSUME NEW p \in Entry \cup {Absent}, NEW e \in Entry \cup {Absent}, NEW b \in Value,
         FlagsHonest(p, b), SaneEntry(p),
         FlagsHonest(e, Shown(p, b)), SaneEntry(e)
  PROVE  /\ BatchWriteEntry(p, e) \in Entry \cup {Absent}
         /\ FlagsHonest(BatchWriteEntry(p, e), b)
         /\ SaneEntry(BatchWriteEntry(p, e))
         /\ Shown(BatchWriteEntry(p, e), b) = Shown(e, Shown(p, b))
         /\ ~FreshMisapplied(p, e)
<1>. DEFINE r == BatchWriteEntry(p, e)
<1>1. ~FreshMisapplied(p, e)
  BY DEF FreshMisapplied, FlagsHonest, Shown
<1>2. CASE e = Absent \/ ~e.dirty
  BY <1>1, <1>2 DEF BatchWriteEntry, FlagsHonest, Shown
<1>3. CASE e # Absent /\ e.dirty /\ p = Absent
  <2>1. ~(e.fresh /\ e.coin = Spent)
    BY <1>3 DEF SaneEntry
  <2>2. r = [coin |-> e.coin, dirty |-> TRUE, fresh |-> e.fresh]
    BY <1>3, <2>1 DEF BatchWriteEntry
  <2>3. e.coin \in Value /\ e.fresh \in BOOLEAN
    BY <1>3 DEF Entry
  <2>4. r \in Entry /\ r # Absent
    BY <2>2, <2>3, MadeEntry
  <2>. QED BY SMT, <1>1, <1>3, <2>1, <2>2, <2>4 DEF FlagsHonest, SaneEntry, Shown
<1>4. CASE e # Absent /\ e.dirty /\ p # Absent /\ p.fresh /\ e.coin = Spent
  BY <1>1, <1>4 DEF BatchWriteEntry, FlagsHonest, SaneEntry, Shown
<1>5. CASE e # Absent /\ e.dirty /\ p # Absent /\ ~(p.fresh /\ e.coin = Spent)
  <2>2. r = [coin |-> e.coin, dirty |-> TRUE, fresh |-> p.fresh]
    BY <1>5 DEF BatchWriteEntry
  <2>3. e.coin \in Value /\ p.fresh \in BOOLEAN
    BY <1>5 DEF Entry
  <2>4. r \in Entry /\ r # Absent
    BY <2>2, <2>3, MadeEntry
  <2>. QED BY SMT, <1>1, <1>5, <2>2, <2>4 DEF FlagsHonest, SaneEntry, Shown
<1>. QED BY <1>2, <1>3, <1>4, <1>5

(* One outpoint: the database write of Flush and Sync, and Uncache.        *)
LEMMA WriteFacts ==
  ASSUME NEW e \in Entry \cup {Absent}, NEW b \in Value, FlagsHonest(e, b), SaneEntry(e)
  PROVE  /\ DbWritten(b, e) \in Value
         /\ DbWritten(b, e) = Shown(e, b)
         /\ SyncedEntry(e) \in Entry \cup {Absent}
         /\ FlagsHonest(SyncedEntry(e), DbWritten(b, e))
         /\ SaneEntry(SyncedEntry(e))
         /\ Shown(SyncedEntry(e), DbWritten(b, e)) = Shown(e, b)
         /\ UncachedEntry(e) \in Entry \cup {Absent}
         /\ FlagsHonest(UncachedEntry(e), b)
         /\ SaneEntry(UncachedEntry(e))
         /\ Shown(UncachedEntry(e), b) = Shown(e, b)
BY SpentNotCoin, AbsentNotEntry
   DEF DbWritten, SyncedEntry, UncachedEntry, FlagsHonest, SaneEntry, Shown, Entry, Value

(* No entry is trivially honest and sane, and shows the base.              *)
LEMMA AbsentFacts ==
  ASSUME NEW b
  PROVE  FlagsHonest(Absent, b) /\ SaneEntry(Absent) /\ Shown(Absent, b) = b
BY DEF FlagsHonest, SaneEntry, Shown

LEMMA ShownType ==
  ASSUME NEW e \in Entry \cup {Absent}, NEW b \in Value
  PROVE  Shown(e, b) \in Value
BY DEF Shown, Entry, Value

-----------------------------------------------------------------------------
(* What the invariant says of one outpoint.                                *)
LEMMA Pointwise ==
  ASSUME IInv, NEW o \in Outpoint
  PROVE  /\ db[o] \in Value
         /\ tip[o] \in Entry \cup {Absent}
         /\ view[o] \in Entry \cup {Absent}
         /\ FlagsHonest(tip[o], db[o]) /\ SaneEntry(tip[o])
         /\ FlagsHonest(view[o], TipCoins[o]) /\ SaneEntry(view[o])
         /\ TipCoins[o] = Shown(tip[o], db[o])
         /\ ViewCoins[o] = Shown(view[o], TipCoins[o])
         /\ TipCoins[o] \in Value
         /\ ViewCoins[o] \in Value
<1>1. /\ db[o] \in Value
      /\ tip[o] \in Entry \cup {Absent}
      /\ view[o] \in Entry \cup {Absent}
  BY DEF IInv, TypeOK, Cache
<1>2. TipCoins[o] = Shown(tip[o], db[o]) /\ ViewCoins[o] = Shown(view[o], TipCoins[o])
  BY DEF TipCoins, ViewCoins
<1>3. TipCoins[o] \in Value /\ ViewCoins[o] \in Value
  BY <1>1, <1>2, ShownType
<1>. QED BY <1>1, <1>2, <1>3 DEF IInv, Coherent, SanityCheck

(* A lookup through the view leaves CoinsTip() honest and showing the same.*)
LEMMA FetchThroughFacts ==
  ASSUME IInv, NEW o \in Outpoint
  PROVE  /\ FetchThrough(o) \in Cache
         /\ \A x \in Outpoint :
              /\ FlagsHonest(FetchThrough(o)[x], db[x])
              /\ SaneEntry(FetchThrough(o)[x])
              /\ Shown(FetchThrough(o)[x], db[x]) = TipCoins[x]
<1>1. /\ FetchCoin(tip[o], db[o]) \in Entry \cup {Absent}
      /\ FlagsHonest(FetchCoin(tip[o], db[o]), db[o])
      /\ SaneEntry(FetchCoin(tip[o], db[o]))
      /\ Shown(FetchCoin(tip[o], db[o]), db[o]) = TipCoins[o]
  BY Pointwise, FetchFacts
<1>2. FetchThrough(o) \in Cache
  BY <1>1 DEF FetchThrough, IInv, TypeOK, Cache
<1>3. ASSUME NEW x \in Outpoint
      PROVE  FetchThrough(o)[x] = tip[x]
             \/ (x = o /\ FetchThrough(o)[x] = FetchCoin(tip[o], db[o]))
  BY DEF FetchThrough, IInv, TypeOK, Cache
<1>. QED BY <1>1, <1>2, <1>3, Pointwise

(* The invariant from its parts, one outpoint at a time.                   *)
LEMMA FromPoints ==
  ASSUME TypeOK, NeverThrows,
         \A x \in Outpoint : /\ FlagsHonest(tip[x], db[x]) /\ SaneEntry(tip[x])
                             /\ FlagsHonest(view[x], Shown(tip[x], db[x]))
                             /\ SaneEntry(view[x])
  PROVE  IInv
BY DEF IInv, Coherent, SanityCheck, TipCoins

LEMMA InitIInv == Init => IInv
<1>. SUFFICES ASSUME Init PROVE IInv
  OBVIOUS
<1>1. TypeOK /\ NeverThrows
  BY DEF Init, TypeOK, Cache, NoEntries, NeverThrows
<1>2. \A x \in Outpoint : tip[x] = Absent /\ view[x] = Absent
  BY DEF Init, NoEntries
<1>. QED BY <1>1, <1>2, AbsentFacts, FromPoints

(* Every operation preserves the invariant.                                *)
LEMMA NextIInv == IInv /\ [Next]_vars => IInv'
<1>. SUFFICES ASSUME IInv, [Next]_vars PROVE IInv'
  OBVIOUS
<1>. USE DEF IInv
<1>t. NoEntries \in Cache /\ \A x \in Outpoint : NoEntries[x] = Absent
  BY DEF NoEntries, Cache
<1>f. ASSUME (TypeOK /\ NeverThrows)',
             \A x \in Outpoint :
               /\ FlagsHonest(tip'[x], db'[x]) /\ SaneEntry(tip'[x])
               /\ FlagsHonest(view'[x], Shown(tip'[x], db'[x]))
               /\ SaneEntry(view'[x])
      PROVE  IInv'
  BY <1>f DEF Coherent, SanityCheck, TipCoins, FlagsHonest, SaneEntry
<1>1. CASE OpenView
  <2>1. (TypeOK /\ NeverThrows)'
    BY <1>1 DEF OpenView, TypeOK, NeverThrows, GetBestBlock
  <2>. QED BY <1>1, <1>f, <2>1, Pointwise DEF OpenView
<1>2. CASE DiscardView
  <2>1. (TypeOK /\ NeverThrows)'
    BY <1>2, <1>t DEF DiscardView, TypeOK, NeverThrows
  <2>. QED BY <1>2, <1>f, <1>t, <2>1, Pointwise, AbsentFacts DEF DiscardView
<1>3. CASE TipFlush
  <2>1. \A x \in Outpoint : DbWritten(db[x], tip[x]) \in Value
    BY Pointwise, WriteFacts
  <2>2. (TypeOK /\ NeverThrows)'
    BY <1>3, <1>t, <2>1 DEF TipFlush, TipWrite, TypeOK, NeverThrows, GetBestBlock
  <2>3. view' = NoEntries /\ tip' = NoEntries
    BY <1>3 DEF TipFlush, TipWrite, TypeOK
  <2>. QED BY <1>f, <1>t, <2>2, <2>3, AbsentFacts
<1>4. CASE TipSync
  <2>1. \A x \in Outpoint : /\ DbWritten(db[x], tip[x]) \in Value
                            /\ SyncedEntry(tip[x]) \in Entry \cup {Absent}
                            /\ FlagsHonest(SyncedEntry(tip[x]), DbWritten(db[x], tip[x]))
                            /\ SaneEntry(SyncedEntry(tip[x]))
    BY Pointwise, WriteFacts
  <2>2. (TypeOK /\ NeverThrows)'
    BY <1>4, <1>t, <2>1 DEF TipSync, TipWrite, TypeOK, NeverThrows, GetBestBlock, Cache
  <2>3. /\ view' = NoEntries
        /\ tip' = [x \in Outpoint |-> SyncedEntry(tip[x])]
        /\ db' = [x \in Outpoint |-> DbWritten(db[x], tip[x])]
    BY <1>4 DEF TipSync, TipWrite, TypeOK
  <2>. QED BY <1>f, <1>t, <2>1, <2>2, <2>3, AbsentFacts
<1>5. CASE Restart
  <2>1. (TypeOK /\ NeverThrows)'
    BY <1>5, <1>t DEF Restart, TypeOK, NeverThrows
  <2>. QED BY <1>5, <1>f, <1>t, <2>1, AbsentFacts DEF Restart
<1>6. ASSUME NEW b \in Block, FlushView(b) PROVE IInv'
  <2>1. \A x \in Outpoint : /\ ~FreshMisapplied(tip[x], view[x])
                            /\ BatchWriteEntry(tip[x], view[x]) \in Entry \cup {Absent}
                            /\ FlagsHonest(BatchWriteEntry(tip[x], view[x]), db[x])
                            /\ SaneEntry(BatchWriteEntry(tip[x], view[x]))
    BY Pointwise, BatchWriteFacts
  <2>2. /\ tip' = [x \in Outpoint |-> BatchWriteEntry(tip[x], view[x])]
        /\ tipBest' = b /\ view' = NoEntries /\ viewOpen' = FALSE
        /\ UNCHANGED <<thrown, db, dbBest>>
    BY <1>6, <2>1 DEF FlushView
  <2>3. (TypeOK /\ NeverThrows)'
    BY <1>t, <2>1, <2>2 DEF TypeOK, NeverThrows, Cache
  <2>. QED BY <1>f, <1>t, <2>1, <2>2, <2>3, AbsentFacts
<1>7. ASSUME NEW o \in Outpoint, ViewFetch(o) PROVE IInv'
  <2>1. /\ FetchCoin(view[o], TipCoins[o]) \in Entry \cup {Absent}
        /\ FlagsHonest(FetchCoin(view[o], TipCoins[o]), TipCoins[o])
        /\ SaneEntry(FetchCoin(view[o], TipCoins[o]))
    BY Pointwise, FetchFacts
  <2>2. (TypeOK /\ NeverThrows)'
    BY <1>7, <2>1, FetchThroughFacts DEF ViewFetch, TypeOK, NeverThrows, Cache
  <2>3. \A x \in Outpoint : view'[x] = IF x = o THEN FetchCoin(view[o], TipCoins[o]) ELSE view[x]
    BY <1>7 DEF ViewFetch, TypeOK, Cache
  <2>4. tip' = FetchThrough(o) /\ db' = db
    BY <1>7 DEF ViewFetch
  <2>. QED BY <1>f, <2>1, <2>2, <2>3, <2>4, FetchThroughFacts, Pointwise
<1>8. ASSUME NEW o \in Outpoint, ViewSpendCoin(o) PROVE IInv'
  <2>. DEFINE e == SpentEntry(FetchCoin(view[o], TipCoins[o]))
  <2>1. /\ e \in Entry \cup {Absent}
        /\ FlagsHonest(e, TipCoins[o])
        /\ SaneEntry(e)
    BY Pointwise, FetchFacts, SpendFacts
  <2>2. (TypeOK /\ NeverThrows)'
    BY <1>8, <2>1, FetchThroughFacts DEF ViewSpendCoin, TypeOK, NeverThrows, Cache
  <2>3. \A x \in Outpoint : view'[x] = IF x = o THEN e ELSE view[x]
    BY <1>8 DEF ViewSpendCoin, TypeOK, Cache
  <2>4. tip' = FetchThrough(o) /\ db' = db
    BY <1>8 DEF ViewSpendCoin
  <2>. HIDE DEF e
  <2>. QED BY <1>f, <2>1, <2>2, <2>3, <2>4, FetchThroughFacts, Pointwise
<1>9. ASSUME NEW o \in Outpoint, TipFetch(o) PROVE IInv'
  <2>1. /\ FetchCoin(tip[o], db[o]) \in Entry \cup {Absent}
        /\ FlagsHonest(FetchCoin(tip[o], db[o]), db[o])
        /\ SaneEntry(FetchCoin(tip[o], db[o]))
    BY Pointwise, FetchFacts
  <2>2. (TypeOK /\ NeverThrows)'
    BY <1>9, <2>1 DEF TipFetch, TypeOK, NeverThrows, Cache
  <2>3. \A x \in Outpoint : tip'[x] = IF x = o THEN FetchCoin(tip[o], db[o]) ELSE tip[x]
    BY <1>9 DEF TipFetch, TypeOK, Cache
  <2>4. view' = NoEntries /\ db' = db
    BY <1>9 DEF TipFetch, TypeOK
  <2>. QED BY <1>f, <1>t, <2>1, <2>2, <2>3, <2>4, AbsentFacts, Pointwise
<1>10. ASSUME NEW o \in Outpoint, TipUncache(o) PROVE IInv'
  <2>1. /\ UncachedEntry(tip[o]) \in Entry \cup {Absent}
        /\ FlagsHonest(UncachedEntry(tip[o]), db[o])
        /\ SaneEntry(UncachedEntry(tip[o]))
    BY Pointwise, WriteFacts
  <2>2. (TypeOK /\ NeverThrows)'
    BY <1>10, <2>1 DEF TipUncache, TypeOK, NeverThrows, Cache
  <2>3. \A x \in Outpoint : tip'[x] = IF x = o THEN UncachedEntry(tip[o]) ELSE tip[x]
    BY <1>10 DEF TipUncache, TypeOK, Cache
  <2>4. view' = NoEntries /\ db' = db
    BY <1>10 DEF TipUncache, TypeOK
  <2>. QED BY <1>f, <1>t, <2>1, <2>2, <2>3, <2>4, AbsentFacts, Pointwise
<1>11. ASSUME NEW o \in Outpoint, NEW c \in Coin, NEW overwrite \in BOOLEAN,
              ViewAddCoin(o, c, overwrite)
       PROVE  IInv'
  <2>. DEFINE e == AddedEntry(view[o], c, overwrite)
  <2>1. overwrite \/ Shown(view[o], TipCoins[o]) = Spent
    BY <1>11, Pointwise DEF ViewAddCoin
  <2>2. /\ e \in Entry
        /\ FlagsHonest(e, TipCoins[o])
        /\ SaneEntry(e)
        /\ ~AddThrows(view[o], overwrite)
    BY SMT, <2>1, Pointwise, AddFacts
  <2>3. /\ view' = [view EXCEPT ![o] = e]
        /\ UNCHANGED <<thrown, db, dbBest, tip, tipBest, viewOpen>>
        /\ viewOpen
    BY <1>11, <2>2 DEF ViewAddCoin
  <2>. HIDE DEF e
  <2>4. (TypeOK /\ NeverThrows)'
    BY <2>2, <2>3 DEF TypeOK, NeverThrows, Cache
  <2>5. \A x \in Outpoint : view'[x] = IF x = o THEN e ELSE view[x]
    BY <2>3 DEF TypeOK, Cache
  <2>. QED BY <1>f, <2>2, <2>3, <2>4, <2>5, Pointwise
<1>12. CASE UNCHANGED vars
  <2>1. (TypeOK /\ NeverThrows)'
    BY <1>12 DEF vars, TypeOK, NeverThrows
  <2>. QED BY <1>f, <1>12, <2>1, Pointwise DEF vars
<1>. QED BY <1>1, <1>2, <1>3, <1>4, <1>5, <1>6, <1>7, <1>8, <1>9, <1>10, <1>11, <1>12 DEF Next

LEMMA IInvAlways == Spec => []IInv
BY InitIInv, NextIInv, PTL DEF Spec

(* The variables of the stack of views keep their types, and no entry      *)
(* survives a view that was flushed or discarded.                          *)
THEOREM TypeCorrect == Spec => []TypeOK
<1>1. IInv => TypeOK
  BY DEF IInv
<1>. QED BY <1>1, IInvAlways, PTL

(* The DIRTY and FRESH flags of every entry of CoinsTip() and of a block's *)
(* view always say the truth about the layer below, whatever the sets of   *)
(* outpoints, coins and blocks.                                            *)
THEOREM CacheCoherence == Spec => []Coherent
<1>1. IInv => Coherent
  BY DEF IInv
<1>. QED BY <1>1, IInvAlways, PTL

(* CCoinsViewCache::SanityCheck's assertion on the flags never fails, and  *)
(* AddCoin's and BatchWrite's logic errors are unreachable.                *)
THEOREM ChecksAlwaysPass == Spec => []ChecksPass
<1>1. IInv => ChecksPass
  BY DEF IInv, ChecksPass
<1>. QED BY <1>1, IInvAlways, PTL

-----------------------------------------------------------------------------
(* Nothing a layer shows changes when its entries show the same coins.     *)
LEMMA SameShown ==
  ASSUME \A x \in Outpoint : /\ Shown(tip'[x], db'[x]) = TipCoins[x]
                             /\ Shown(view'[x], TipCoins[x]) = ViewCoins[x]
  PROVE  TipCoins' = TipCoins /\ ViewCoins' = ViewCoins
<1>1. TipCoins' = TipCoins
  BY DEF TipCoins, Shown
<1>. QED BY <1>1 DEF ViewCoins, Shown

(* Every step of the caches is a step of UtxoStore or changes nothing that *)
(* a layer shows.                                                          *)
LEMMA StepRefines == IInv /\ IInv' /\ [Next]_vars => [Abstract!Next]_(Abstract!vars)
<1>. SUFFICES ASSUME IInv, IInv', [Next]_vars PROVE [Abstract!Next]_(Abstract!vars)
  OBVIOUS
<1>n. \A x \in Outpoint : NoEntries[x] = Absent
  BY DEF NoEntries
<1>c. ~viewOpen => ViewCoins = TipCoins
  BY <1>n DEF IInv, TypeOK, ViewCoins, TipCoins, Shown
<1>d. ~viewOpen' => ViewCoins' = TipCoins'
  BY <1>n DEF IInv, TypeOK, ViewCoins, TipCoins, Shown
<1>1. CASE OpenView
  <2>1. TipCoins' = TipCoins /\ ViewCoins' = ViewCoins
    BY <1>1, Pointwise, SameShown DEF OpenView
  <2>2. GetBestBlock(tipBest, dbBest)' = GetBestBlock(tipBest, dbBest)
    BY <1>1 DEF OpenView, GetBestBlock
  <2>3. Abstract!Begin
    BY <1>1, <2>1, <2>2 DEF OpenView, Abstract!Begin
  <2>. QED BY <2>3 DEF Abstract!Next
<1>2. CASE DiscardView
  <2>1. TipCoins' = TipCoins
    BY <1>2 DEF DiscardView, TipCoins, Shown
  <2>2. ViewCoins' = TipCoins
    BY <1>2, <1>d, <2>1 DEF DiscardView
  <2>3. Abstract!Discard
    BY <1>2, <2>1, <2>2 DEF DiscardView, Abstract!Discard, GetBestBlock
  <2>. QED BY <2>3 DEF Abstract!Next
<1>3. ASSUME NEW entries \in Cache, TipWrite(entries),
             \A x \in Outpoint : Shown(entries[x], DbWritten(db[x], tip[x])) = TipCoins[x]
      PROVE  Abstract!Persist
  <2>1. \A x \in Outpoint : DbWritten(db[x], tip[x]) = TipCoins[x]
    BY Pointwise, WriteFacts
  <2>2. db' = TipCoins
    BY <1>3, <2>1 DEF TipWrite, TipCoins
  <2>3. TipCoins' = TipCoins
    BY <1>3, <2>1, <2>2 DEF TipWrite, TipCoins
  <2>4. ViewCoins = TipCoins /\ ViewCoins' = TipCoins
    BY <1>3, <1>c, <1>d, <2>3 DEF TipWrite
  <2>5. /\ dbBest' = GetBestBlock(tipBest, dbBest)
        /\ GetBestBlock(tipBest, dbBest)' = GetBestBlock(tipBest, dbBest)
    BY <1>3 DEF TipWrite, GetBestBlock
  <2>. QED BY <1>3, <2>2, <2>3, <2>4, <2>5 DEF TipWrite, Abstract!Persist
<1>4. CASE TipFlush
  <2>1. NoEntries \in Cache
    BY DEF NoEntries, Cache
  <2>2. \A x \in Outpoint : Shown(NoEntries[x], DbWritten(db[x], tip[x])) = TipCoins[x]
    BY SMT, <1>n, Pointwise, WriteFacts, AbsentFacts
  <2>. QED BY <1>3, <1>4, <2>1, <2>2 DEF TipFlush, Abstract!Next
<1>5. CASE TipSync
  <2>. DEFINE kept == [o \in Outpoint |-> SyncedEntry(tip[o])]
  <2>1. kept \in Cache
    BY Pointwise, WriteFacts DEF Cache
  <2>2. \A x \in Outpoint : Shown(kept[x], DbWritten(db[x], tip[x])) = TipCoins[x]
    BY Pointwise, WriteFacts
  <2>3. TipWrite(kept)
    BY <1>5 DEF TipSync
  <2>. HIDE DEF kept
  <2>. QED BY <1>3, <2>1, <2>2, <2>3 DEF Abstract!Next
<1>6. CASE Restart
  <2>1. TipCoins' = db
    BY <1>6, <1>n DEF Restart, TipCoins, Shown, IInv, TypeOK
  <2>2. ViewCoins' = db
    BY <1>6, <1>d, <2>1 DEF Restart
  <2>3. GetBestBlock(tipBest, dbBest)' = dbBest
    BY <1>6 DEF Restart, GetBestBlock
  <2>4. Abstract!Crash
    BY <1>6, <2>1, <2>2, <2>3 DEF Restart, Abstract!Crash
  <2>. QED BY <2>4 DEF Abstract!Next
<1>7. ASSUME NEW b \in Block, FlushView(b) PROVE Abstract!Commit(b)
  <2>1. \A x \in Outpoint :
          /\ ~FreshMisapplied(tip[x], view[x])
          /\ Shown(BatchWriteEntry(tip[x], view[x]), db[x]) = ViewCoins[x]
    BY SMT, Pointwise, BatchWriteFacts
  <2>2. /\ tip' = [x \in Outpoint |-> BatchWriteEntry(tip[x], view[x])]
        /\ tipBest' = b /\ viewOpen' = FALSE /\ viewOpen
        /\ UNCHANGED <<db, dbBest>>
    BY <1>7, <2>1 DEF FlushView
  <2>3. TipCoins' = ViewCoins
    BY <2>1, <2>2 DEF TipCoins, ViewCoins
  <2>4. ViewCoins' = ViewCoins
    BY <1>d, <2>2, <2>3
  <2>5. GetBestBlock(tipBest, dbBest)' = b
    BY <2>2, NullNotBlock DEF GetBestBlock
  <2>. QED BY SMT, <2>2, <2>3, <2>4, <2>5 DEF Abstract!Commit
<1>8. ASSUME NEW o \in Outpoint, ViewFetch(o) PROVE UNCHANGED Abstract!vars
  <2>1. \A x \in Outpoint : view'[x] = IF x = o THEN FetchCoin(view[o], TipCoins[o]) ELSE view[x]
    BY <1>8 DEF ViewFetch, IInv, TypeOK, Cache
  <2>2. \A x \in Outpoint : Shown(view'[x], TipCoins[x]) = ViewCoins[x]
    BY SMT, <2>1, Pointwise, FetchFacts
  <2>3. \A x \in Outpoint : Shown(tip'[x], db'[x]) = TipCoins[x]
    BY <1>8, FetchThroughFacts DEF ViewFetch
  <2>. QED BY <1>8, <2>2, <2>3, SameShown DEF ViewFetch, Abstract!vars, GetBestBlock
<1>9. ASSUME NEW o \in Outpoint, ViewSpendCoin(o) PROVE Abstract!Spend(o)
  <2>. DEFINE e == SpentEntry(FetchCoin(view[o], TipCoins[o]))
  <2>1. Shown(e, TipCoins[o]) = Spent
    BY Pointwise, FetchFacts, SpendFacts
  <2>2. \A x \in Outpoint : view'[x] = IF x = o THEN e ELSE view[x]
    BY <1>9 DEF ViewSpendCoin, IInv, TypeOK, Cache
  <2>3. \A x \in Outpoint : Shown(tip'[x], db'[x]) = TipCoins[x]
    BY <1>9, FetchThroughFacts DEF ViewSpendCoin
  <2>4. TipCoins' = TipCoins
    BY <2>3 DEF TipCoins
  <2>. HIDE DEF e
  <2>5. ViewCoins' = [ViewCoins EXCEPT ![o] = Spent]
    BY <2>1, <2>2, <2>4 DEF ViewCoins
  <2>. QED BY SMT, <1>9, <2>4, <2>5 DEF ViewSpendCoin, Abstract!Spend, GetBestBlock
<1>10. ASSUME NEW o \in Outpoint, NEW e \in Entry \cup {Absent},
              tip' = [tip EXCEPT ![o] = e], Shown(e, db[o]) = TipCoins[o],
              UNCHANGED <<db, dbBest, tipBest, view, viewOpen>>
       PROVE  UNCHANGED Abstract!vars
  <2>1. \A x \in Outpoint : tip'[x] = IF x = o THEN e ELSE tip[x]
    BY <1>10 DEF IInv, TypeOK, Cache
  <2>2. TipCoins' = TipCoins /\ ViewCoins' = ViewCoins
    BY <1>10, <2>1, Pointwise, SameShown
  <2>. QED BY <1>10, <2>2 DEF Abstract!vars, GetBestBlock
<1>11. ASSUME NEW o \in Outpoint, TipFetch(o) PROVE UNCHANGED Abstract!vars
  BY <1>10, <1>11, Pointwise, FetchFacts DEF TipFetch
<1>12. ASSUME NEW o \in Outpoint, TipUncache(o) PROVE UNCHANGED Abstract!vars
  BY <1>10, <1>12, Pointwise, WriteFacts DEF TipUncache
<1>13. ASSUME NEW o \in Outpoint, NEW c \in Coin, NEW overwrite \in BOOLEAN,
              ViewAddCoin(o, c, overwrite)
       PROVE  Abstract!Add(o, c)
  <2>. DEFINE e == AddedEntry(view[o], c, overwrite)
  <2>1. overwrite \/ Shown(view[o], TipCoins[o]) = Spent
    BY <1>13, Pointwise DEF ViewAddCoin
  <2>2. Shown(e, TipCoins[o]) = c /\ ~AddThrows(view[o], overwrite)
    BY SMT, <2>1, Pointwise, AddFacts
  <2>3. /\ view' = [view EXCEPT ![o] = e]
        /\ UNCHANGED <<db, dbBest, tip, tipBest, viewOpen>>
        /\ viewOpen
    BY <1>13, <2>2 DEF ViewAddCoin
  <2>. HIDE DEF e
  <2>4. TipCoins' = TipCoins
    BY <2>3 DEF TipCoins, Shown
  <2>5. \A x \in Outpoint : view'[x] = IF x = o THEN e ELSE view[x]
    BY <2>3 DEF IInv, TypeOK, Cache
  <2>6. ViewCoins' = [ViewCoins EXCEPT ![o] = c]
    BY <2>2, <2>4, <2>5 DEF ViewCoins
  <2>. QED BY SMT, <2>3, <2>4, <2>6 DEF Abstract!Add, GetBestBlock
<1>14. CASE UNCHANGED vars
  BY <1>14 DEF vars, Abstract!vars, TipCoins, ViewCoins, Shown, GetBestBlock
<1>. QED
  BY <1>1, <1>2, <1>4, <1>5, <1>6, <1>7, <1>8, <1>9, <1>11, <1>12, <1>13, <1>14
     DEF Next, Abstract!Next

LEMMA InitRefines == Init => Abstract!Init
<1>. SUFFICES ASSUME Init PROVE Abstract!Init
  OBVIOUS
<1>1. \A x \in Outpoint : tip[x] = Absent /\ view[x] = Absent
  BY DEF Init, NoEntries
<1>2. TipCoins = db /\ ViewCoins = db
  BY <1>1 DEF Init, TipCoins, ViewCoins, Shown
<1>3. GetBestBlock(tipBest, dbBest) = dbBest
  BY DEF Init, GetBestBlock
<1>. QED BY <1>2, <1>3 DEF Init, Abstract!Init, Abstract!UtxoSet, Value

(* The stack of caches implements UtxoStore: whatever is cached, fetched,  *)
(* flushed or forgotten, every layer shows one UTXO set that changes only  *)
(* as the calls say, a block at a time at the tip.                         *)
THEOREM CachesRefineStore == Spec => CachesTransparent
BY InitRefines, StepRefines, IInvAlways, PTL DEF Spec, CachesTransparent, Abstract!Spec
=============================================================================
