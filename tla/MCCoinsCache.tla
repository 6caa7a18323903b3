---------------------------- MODULE MCCoinsCache ----------------------------
(***************************************************************************)
(* CoinsCache with two outpoints, two coins an outpoint can hold (the same *)
(* output mined at two heights) and two block hashes.  Operations on one   *)
(* outpoint never look at another, so two are enough to see that a flush   *)
(* moves several entries together.                                         *)
(***************************************************************************)
EXTENDS CoinsCache

CONSTANTS o1, o2, c1, c2, b1, b2

MCOutpoint == {o1, o2}
MCCoin == {c1, c2}
MCBlock == {b1, b2}
=============================================================================
