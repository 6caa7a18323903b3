----------------------------- MODULE MCMempool -----------------------------
(* A small family of transactions for Mempool.                             *)
EXTENDS Mempool

CONSTANTS tp, tq, tr, ts, tu, td, tv, tw,    \* transactions
          c0, c1, p0, p1, q0, u0    \* coins: two old ones, outputs of tp, tq, tu

(* tq and ts spend the same output of tp, tr the other; tu spends tq and   *)
(* tw tu; td spends what tp spends, tv another coin.  ts may follow tp     *)
(* only in a later block.                                                  *)
MCInputs == (tp :> {c0}) @@ (tq :> {p0}) @@ (ts :> {p0}) @@ (tr :> {p1}) @@ (tu :> {q0}) @@ (td :> {c0})
              @@ (tv :> {c1}) @@ (tw :> {u0})
MCCreator == (c0 :> None) @@ (c1 :> None) @@ (p0 :> tp) @@ (p1 :> tp) @@ (q0 :> tq) @@ (u0 :> tu)
MCFee == (tp :> 2) @@ (tq :> 1) @@ (ts :> 4) @@ (tr :> 3) @@ (tu :> 2) @@ (td :> 5) @@ (tv :> 2) @@ (tw :> 3)
MCNotBefore == [t \in Tx |-> IF t = td THEN 2 ELSE 0]
MCLock == [t \in Tx |-> IF t = ts THEN 1 ELSE 0]
MCDeltas == [t \in Tx |-> IF t = tq THEN 3 ELSE 0]
MCBodies == {<<>>, <<tp>>, <<tp, tq>>, <<tq>>, <<td>>, <<ts>>, <<tp, tr>>, <<tq, tu>>, <<tp, tq, tu>>}
=============================================================================
