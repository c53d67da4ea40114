--------------------------- MODULE MCSystemLogger ---------------------------
(* Instances of SystemLogger for TLC.                                       *)
EXTENDS SystemLogger

CONSTANTS t1, t2, a1, a2, m1, m2
=============================================================================
