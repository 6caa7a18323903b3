---------------------------- MODULE MCIndexSync ----------------------------
(* Small block trees for IndexSync.                                        *)
EXTENDS IndexSync, TLC

CONSTANTS g, a1, a2, d1, d2

(* A fork: g - a1 - a2   and   g - d1 - d2.                                *)
ForkPrev == (a1 :> g) @@ (a2 :> a1) @@ (d1 :> g) @@ (d2 :> d1)
=============================================================================
