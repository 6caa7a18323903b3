------------------------ MODULE MCValidationSignals ------------------------
(* Threads and subscribers for ValidationSignals.                          *)
EXTENDS ValidationSignals

CONSTANTS t1, t2, p1, s1, s2
=============================================================================
