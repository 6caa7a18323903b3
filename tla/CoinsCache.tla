----------------------------- MODULE CoinsCache -----------------------------
(***************************************************************************)
(* The stack of coin views of a chainstate (coins.h, coins.cpp):           *)
(*                                                                         *)
(*    db    CCoinsViewDB, the chainstate database                          *)
(*    tip   CoinsTip(), the CCoinsViewCache kept in memory over db         *)
(*    view  the CCoinsViewCache over tip that ConnectTip and DisconnectTip *)
(*          create for one block                                           *)
(*                                                                         *)
(* A cache maps an outpoint to Absent or to a CCoinsCacheEntry: a coin,    *)
(* possibly spent, and the DIRTY and FRESH flags.  All operations run      *)
(* under cs_main, and tip is used directly only while no view exists.      *)
(* Memory accounting (cachedCoinsUsage) is left out.                       *)
(***************************************************************************)
CONSTANTS Outpoint,    \* COutPoint values
          Coin,        \* unspent, spendable Coin values
          Block,       \* block hashes
          Spent,       \* a Coin for which IsSpent() holds
          NoBlock,     \* the null uint256
          Absent       \* no entry in cacheCoins

Value == Coin \cup {Spent}
Entry == [coin : Value, dirty : BOOLEAN, fresh : BOOLEAN]

ASSUME SpentNotCoin == Spent \notin Coin
ASSUME NullNotBlock == NoBlock \notin Block
ASSUME AbsentNotEntry == Absent \notin Entry

VARIABLES db, dbBest,      \* what the database holds, and DB_BEST_BLOCK
          tip, tipBest,    \* cacheCoins and hashBlock of CoinsTip()
          view,            \* cacheCoins of the view of the block
          viewOpen,        \* that view exists
          thrown           \* a std::logic_error was thrown

vars == <<db, dbBest, tip, tipBest, view, viewOpen, thrown>>

NoEntries == [o \in Outpoint |-> Absent]

(* The coin a view shows: its own entry, or what its base shows.           *)
Shown(entry, baseCoin) == IF entry = Absent THEN baseCoin ELSE entry.coin

TipCoins == [o \in Outpoint |-> Shown(tip[o], db[o])]
ViewCoins == [o \in Outpoint |-> Shown(view[o], TipCoins[o])]

(* CCoinsViewCache::GetBestBlock: hashBlock is read from the base when     *)
(* it is still null.                                                       *)
GetBestBlock(own, base) == IF own = NoBlock THEN base ELSE own

(* CCoinsViewCache::FetchCoin: the entry after a lookup.  A base returns   *)
(* true only for an unspent coin, so what is copied is never spent.        *)
FetchCoin(entry, baseCoin) ==
  IF entry = Absent /\ baseCoin # Spent
  THEN [coin |-> baseCoin, dirty |-> FALSE, fresh |-> FALSE]
  ELSE entry

(* A lookup in the view that finds no entry there is a lookup in tip, and  *)
(* leaves the coin cached in both.                                         *)
FetchThrough(o) ==
  IF view[o] = Absent THEN [tip EXCEPT ![o] = FetchCoin(tip[o], db[o])] ELSE tip

(* Broken variant: a spent entry whose spending is still to be flushed is  *)
(* marked FRESH when the coin comes back.                                  *)
AddedEntry_IgnoresDirty(entry, c, overwrite) ==
  [coin |-> c, dirty |-> TRUE, fresh |-> ~overwrite]

(* CCoinsViewCache::AddCoin: the entry it leaves.                          *)
AddedEntry(entry, c, overwrite) ==
  LET dirty == entry # Absent /\ entry.dirty
      fresh == entry # Absent /\ entry.fresh
  IN  [coin |-> c, dirty |-> TRUE, fresh |-> fresh \/ (~overwrite /\ ~dirty)]

(* CCoinsViewCache::AddCoin throws rather than overwrite an unspent coin.  *)
AddThrows(entry, overwrite) ==
  ~overwrite /\ entry # Absent /\ entry.coin # Spent

(* Broken variant: a FRESH entry is cleared instead of erased.             *)
SpentEntry_KeepsFresh(entry) ==
  IF entry = Absent THEN Absent
  ELSE [coin |-> Spent, dirty |-> TRUE, fresh |-> entry.fresh]

(* CCoinsViewCache::SpendCoin: what becomes of the fetched entry.          *)
SpentEntry(entry) ==
  IF entry = Absent \/ entry.fresh
  THEN Absent
  ELSE [coin |-> Spent, dirty |-> TRUE, fresh |-> FALSE]

(* CCoinsViewCache::BatchWrite, one entry of the child (e) merged into the *)
(* parent's (p).                                                           *)
BatchWriteEntry(p, e) ==
  IF e = Absent \/ ~e.dirty THEN p
  ELSE IF p = Absent
       THEN IF e.fresh /\ e.coin = Spent THEN Absent
            ELSE [coin |-> e.coin, dirty |-> TRUE, fresh |-> e.fresh]
       ELSE IF p.fresh /\ e.coin = Spent THEN Absent
            ELSE [coin |-> e.coin, dirty |-> TRUE, fresh |-> p.fresh]

(* ... and the check that makes it throw.                                  *)
FreshMisapplied(p, e) ==
  e # Absent /\ e.dirty /\ e.fresh /\ p # Absent /\ p.coin # Spent

(* CCoinsViewDB::BatchWrite, one entry: dirty entries are written, or      *)
(* erased when spent.                                                      *)
DbWritten(coin, e) == IF e # Absent /\ e.dirty THEN e.coin ELSE coin

(* CCoinsViewCache::Sync keeps the unspent entries, now clean.             *)
SyncedEntry(e) ==
  IF e = Absent \/ e.coin = Spent THEN Absent
  ELSE [coin |-> e.coin, dirty |-> FALSE, fresh |-> FALSE]

(* Broken variant: the flags are not looked at.                            *)
UncachedEntry_AnyFlags(e) == Absent

(* CCoinsViewCache::Uncache drops an entry that has no flag.               *)
UncachedEntry(e) == IF e # Absent /\ ~e.dirty /\ ~e.fresh THEN Absent ELSE e

-----------------------------------------------------------------------------
Init == /\ db \in [Outpoint -> Value]
        /\ dbBest \in Block \cup {NoBlock}
        /\ dbBest = NoBlock => db = [o \in Outpoint |-> Spent]
        /\ tip = NoEntries /\ tipBest = NoBlock
        /\ view = NoEntries /\ viewOpen = FALSE
        /\ thrown = FALSE

Running == ~thrown

(* ConnectTip and DisconnectTip: a view over CoinsTip(), whose best block  *)
(* is asserted to be the expected one; the question reaches the database   *)
(* when CoinsTip() does not know.                                          *)
OpenView == /\ Running /\ ~viewOpen
            /\ viewOpen' = TRUE
            /\ tipBest' = GetBestBlock(tipBest, dbBest)
            /\ UNCHANGED <<db, dbBest, tip, view, thrown>>

(* GetCoin, AccessCoin, HaveCoin, HaveInputs on the view.                  *)
ViewFetch(o) == /\ Running /\ viewOpen
                /\ tip' = FetchThrough(o)
                /\ view' = [view EXCEPT ![o] = FetchCoin(@, TipCoins[o])]
                /\ UNCHANGED <<db, dbBest, tipBest, viewOpen, thrown>>

(* AddCoin on the view.  possible_overwrite is false only where the caller *)
(* knows that there is no unspent coin: ConnectBlock's BIP30 check for the *)
(* outputs of transactions, HaveCoin in ApplyTxInUndo and RollforwardBlock.*)
ViewAddCoin(o, c, overwrite) ==
  /\ Running /\ viewOpen
  /\ overwrite \/ ViewCoins[o] = Spent
  /\ IF AddThrows(view[o], overwrite)
     THEN thrown' = TRUE /\ UNCHANGED view
     ELSE /\ view' = [view EXCEPT ![o] = AddedEntry(@, c, overwrite)]
          /\ UNCHANGED thrown
  /\ UNCHANGED <<db, dbBest, tip, tipBest, viewOpen>>

(* SpendCoin on the view, from UpdateCoins and DisconnectBlock.            *)
ViewSpendCoin(o) ==
  /\ Running /\ viewOpen
  /\ tip' = FetchThrough(o)
  /\ view' = [view EXCEPT ![o] = SpentEntry(FetchCoin(@, TipCoins[o]))]
  /\ UNCHANGED <<db, dbBest, tipBest, viewOpen, thrown>>

(* The end of a block that applied: SetBestBlock(b) on the view, which is  *)
(* flushed into CoinsTip() and destroyed.                                  *)
FlushView(b) ==
  /\ Running /\ viewOpen
  /\ IF \E o \in Outpoint : FreshMisapplied(tip[o], view[o])
     THEN thrown' = TRUE /\ UNCHANGED <<tip, tipBest, view, viewOpen>>
     ELSE /\ tip' = [o \in Outpoint |-> BatchWriteEntry(tip[o], view[o])]
          /\ tipBest' = b
          /\ view' = NoEntries
          /\ viewOpen' = FALSE
          /\ UNCHANGED thrown
  /\ UNCHANGED <<db, dbBest>>

(* A block that fails: the view is destroyed without a flush.              *)
DiscardView == /\ Running /\ viewOpen
               /\ view' = NoEntries
               /\ viewOpen' = FALSE
               /\ UNCHANGED <<db, dbBest, tip, tipBest, thrown>>

(* Lookups in CoinsTip() outside a block: mempool acceptance, RPC.         *)
TipFetch(o) == /\ Running /\ ~viewOpen
               /\ tip' = [tip EXCEPT ![o] = FetchCoin(@, db[o])]
               /\ UNCHANGED <<db, dbBest, tipBest, view, viewOpen, thrown>>

(* Coins cached for a transaction that was not accepted are dropped again. *)
TipUncache(o) == /\ Running /\ ~viewOpen
                 /\ tip' = [tip EXCEPT ![o] = UncachedEntry(@)]
                 /\ UNCHANGED <<db, dbBest, tipBest, view, viewOpen, thrown>>

(* CoinsTip() written to the database, which asserts a best block; Flush   *)
(* empties the cache, Sync keeps it.                                       *)
TipWrite(entries) ==
  /\ Running /\ ~viewOpen
  /\ GetBestBlock(tipBest, dbBest) # NoBlock
  /\ tipBest' = GetBestBlock(tipBest, dbBest)
  /\ dbBest' = GetBestBlock(tipBest, dbBest)
  /\ db' = [o \in Outpoint |-> DbWritten(db[o], tip[o])]
  /\ tip' = entries
  /\ UNCHANGED <<view, viewOpen, thrown>>

TipFlush == TipWrite(NoEntries)
TipSync == TipWrite([o \in Outpoint |-> SyncedEntry(tip[o])])

(* The process ends without a flush and starts again from the database.    *)
Restart == /\ tip' = NoEntries /\ tipBest' = NoBlock
           /\ view' = NoEntries /\ viewOpen' = FALSE
           /\ thrown' = FALSE
           /\ UNCHANGED <<db, dbBest>>

Next ==
  \/ OpenView \/ DiscardView \/ TipFlush \/ TipSync \/ Restart
  \/ \E b \in Block : FlushView(b)
  \/ \E o \in Outpoint :
       \/ ViewFetch(o) \/ ViewSpendCoin(o) \/ TipFetch(o) \/ TipUncache(o)
       \/ \E c \in Coin, overwrite \in BOOLEAN : ViewAddCoin(o, c, overwrite)

Spec == Init /\ [][Next]_vars

-----------------------------------------------------------------------------
Cache == [Outpoint -> Entry \cup {Absent}]

(* The variables keep their types, and a view that does not exist holds    *)
(* nothing.                                                                *)
TypeOK == /\ db \in [Outpoint -> Value]
          /\ dbBest \in Block \cup {NoBlock}
          /\ tip \in Cache /\ tipBest \in Block \cup {NoBlock}
          /\ view \in Cache /\ viewOpen \in BOOLEAN
          /\ thrown \in BOOLEAN
          /\ ~viewOpen => view = NoEntries

(* What the flags of an entry mean for the base below it (coins.h): an     *)
(* entry that is not DIRTY equals the base's coin, and an entry is FRESH   *)
(* only if the base has no unspent coin there.                             *)
FlagsHonest(entry, baseCoin) ==
  entry # Absent => /\ ~entry.dirty => entry.coin = baseCoin
                    /\ entry.fresh => baseCoin = Spent

(* No sequence of block applications, lookups, flushes, syncs and restarts *)
(* leaves an entry of CoinsTip() or of a block's view whose DIRTY or FRESH *)
(* flag misstates what lies below: a lost DIRTY loses a change, a wrong    *)
(* FRESH resurrects a spent coin.                                          *)
Coherent == \A o \in Outpoint : /\ FlagsHonest(tip[o], db[o])
                                /\ FlagsHonest(view[o], TipCoins[o])

(* CCoinsViewCache::SanityCheck: of the eight combinations of DIRTY, FRESH *)
(* and spent, an entry never has 2 (FRESH alone), 4 (spent alone) or       *)
(* 7 (all three).                                                          *)
SaneEntry(entry) ==
  entry # Absent =>
    /\ ~(~entry.dirty /\ entry.fresh /\ entry.coin # Spent)
    /\ ~(~entry.dirty /\ ~entry.fresh /\ entry.coin = Spent)
    /\ ~(entry.dirty /\ entry.fresh /\ entry.coin = Spent)

(* SanityCheck's assertion holds of both caches at all times.              *)
SanityCheck == \A o \in Outpoint : SaneEntry(tip[o]) /\ SaneEntry(view[o])

(* With callers that keep AddCoin's contract, neither of its exception nor *)
(* BatchWrite's "FRESH flag misapplied" is ever thrown.                    *)
NeverThrows == ~thrown

(* The checks that the code makes of itself never fail, in any sequence of *)
(* operations: SanityCheck's assertion and the two exceptions above.       *)
ChecksPass == SanityCheck /\ NeverThrows

-----------------------------------------------------------------------------
(* Refinement: each layer shows one UTXO set.                              *)
Abstract == INSTANCE UtxoStore WITH
  durable   <- [coins |-> db, best |-> dbBest],
  committed <- [coins |-> TipCoins, best |-> GetBestBlock(tipBest, dbBest)],
  pending   <- [coins |-> ViewCoins, best |-> GetBestBlock(tipBest, dbBest)],
  open      <- viewOpen

(* The caches are invisible: lookups, Uncache and the movement of entries  *)
(* between layers never change a coin that any layer shows; a block's      *)
(* changes reach CoinsTip() all together with its hash or not at all; a    *)
(* flush makes the database exactly what CoinsTip() shows.                 *)
CachesTransparent == Abstract!Spec
=============================================================================
