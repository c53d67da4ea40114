--------------------------- MODULE MCSystemRegistry ---------------------------
(* The instance of SystemRegistry for TLC.                                   *)
EXTENDS SystemRegistry, TLC

TwoNames == 1..2
ThreeNames == 1..3
TwoImpls == 1..2
ThreeImpls == 1..3

\* Neither Systems nor their names are told apart by the code.
Interchangeable == Permutations(Systems) \cup Permutations(SystemNames)
=============================================================================
