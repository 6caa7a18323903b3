---------------------------- MODULE MCChainState ----------------------------
(* Small block trees for ChainState.                                       *)
EXTENDS ChainState, TLC

CONSTANTS g, a, b, c, f, d, e

(* A fork: g - a - b - c - f   and   g - d - e, or less of it; every block *)
(* has the same work, so a and d, and b and e, compete.                    *)
LongForkPrev == (a :> g) @@ (b :> a) @@ (c :> b) @@ (f :> c) @@ (d :> g) @@ (e :> d)
SmallForkPrev == (a :> g) @@ (b :> a) @@ (d :> g) @@ (e :> d)
Unit == [x \in Block |-> 1]
LongForkAddr == (g :> 0) @@ (a :> 1) @@ (b :> 2) @@ (c :> 3) @@ (d :> 4) @@ (e :> 5) @@ (f :> 6)
SmallForkAddr == (g :> 0) @@ (a :> 4) @@ (b :> 3) @@ (d :> 2) @@ (e :> 1)

Symmetric == Permutations(Thread)
=============================================================================
