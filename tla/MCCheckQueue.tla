---------------------------- MODULE MCCheckQueue ----------------------------
(* Two workers, two blocks that may be connected at the same time, and     *)
(* enough checks that a batch of two is taken.                             *)
EXTENDS CheckQueue, TLC

CONSTANTS w1, w2, m1, m2
=============================================================================
