-------------------------- MODULE MCCrashRecovery --------------------------
(* A fork for CrashRecovery in which a transaction is mined on both sides. *)
EXTENDS CrashRecovery, TLC

CONSTANTS g, a1, a2, b2, b3, o1, p1, q1

(* g - a1 - a2  and  a1 - b2 - b3.                                         *)
ForkPrev == (a1 :> g) @@ (a2 :> a1) @@ (b2 :> a1) @@ (b3 :> b2)

(* a1 creates o1.  The transaction that spends o1 and creates p1 is in a2  *)
(* and in b3, where the next one spends p1 in the block that creates it.   *)
Tx(in, out) == [in |-> in, out |-> out]
ForkTxs == (g :> <<>>) @@ (a1 :> <<Tx({}, {o1})>>) @@ (a2 :> <<Tx({o1}, {p1})>>)
   @@ (b2 :> <<Tx({}, {})>>) @@ (b3 :> <<Tx({o1}, {p1}), Tx({p1}, {q1})>>)

(* The hypothesis of CoinsAlwaysRecoverable.                               *)
ASSUME ReplayAssumption == ReplayComputes
=============================================================================
