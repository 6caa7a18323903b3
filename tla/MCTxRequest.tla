----------------------------- MODULE MCTxRequest -----------------------------
(* Three peers announce t1, and one of them also t2.                       *)
EXTENDS TxRequestTracker, TLC

CONSTANTS p1, p2, p3, t1, t2

Few == {<<<<p1, t1>>, TRUE>>, <<<<p1, t1>>, FALSE>>, <<<<p2, t1>>, FALSE>>,
        <<<<p3, t1>>, TRUE>>, <<<<p1, t2>>, FALSE>>}
Rank == (p1 :> 2) @@ (p2 :> 3) @@ (p3 :> 1)
Salted == [k \in Peer \X TxHash |-> Rank[k[1]]]
=============================================================================
