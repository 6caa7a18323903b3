-------------------------- MODULE MCBlockDownload --------------------------
(* Small instances of BlockDownload.                                       *)
EXTENDS BlockDownload, TLC

CONSTANTS g, a1, a2, x1, prompt, slow, inbound

(* g - a1 - a2   and   g - x1                                              *)
ForkPrev == (a1 :> g) @@ (a2 :> a1) @@ (x1 :> g)
Tips == (prompt :> a2) @@ (slow :> a2) @@ (inbound :> x1)
=============================================================================
