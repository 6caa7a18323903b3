----------------------------- MODULE UtxoStore -----------------------------
(***************************************************************************)
(* What the stack of coin views promises its users, with no caches: a      *)
(* durable copy of the UTXO set (the chainstate database), the committed   *)
(* one (what every reader of CoinsTip() sees) and a pending one (what the  *)
(* code connecting or disconnecting a block sees through its own view).    *)
(* Each copy is a map from outpoints to coins and the block it belongs to. *)
(***************************************************************************)
CONSTANTS Outpoint,    \* COutPoint values
          Coin,        \* unspent Coin values
          Block,       \* block hashes
          Spent,       \* the value of a spent or unknown coin
          NoBlock      \* the null hash

VARIABLES durable,     \* the chainstate database
          committed,   \* the UTXO set at the active tip
          pending,     \* the UTXO set as the block being applied sees it
          open         \* a block is being applied

vars == <<durable, committed, pending, open>>

UtxoSet == [coins : [Outpoint -> Coin \cup {Spent}], best : Block \cup {NoBlock}]

Init == /\ durable \in UtxoSet
        /\ committed = durable
        /\ pending = durable
        /\ open = FALSE

Begin == /\ ~open
         /\ open' = TRUE
         /\ UNCHANGED <<durable, committed, pending>>

Add(o, c) == /\ open
             /\ pending' = [pending EXCEPT !.coins[o] = c]
             /\ UNCHANGED <<durable, committed, open>>

Spend(o) == /\ open
            /\ pending' = [pending EXCEPT !.coins[o] = Spent]
            /\ UNCHANGED <<durable, committed, open>>

(* All the changes of a block, and the move to its hash, appear at once.   *)
Commit(b) == /\ open
             /\ committed' = [pending EXCEPT !.best = b]
             /\ pending' = committed'
             /\ open' = FALSE
             /\ UNCHANGED durable

(* None of the changes of a block that fails appears.                      *)
Discard == /\ open
           /\ pending' = committed
           /\ open' = FALSE
           /\ UNCHANGED <<durable, committed>>

Persist == /\ ~open
           /\ durable' = committed
           /\ UNCHANGED <<committed, pending, open>>

Crash == /\ committed' = durable
         /\ pending' = durable
         /\ open' = FALSE
         /\ UNCHANGED durable

Next == \/ Begin \/ Discard \/ Persist \/ Crash
        \/ \E o \in Outpoint : Spend(o) \/ \E c \in Coin : Add(o, c)
        \/ \E b \in Block : Commit(b)

Spec == Init /\ [][Next]_vars
=============================================================================
