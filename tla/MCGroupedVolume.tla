-------------------------- MODULE MCGroupedVolume --------------------------
(* Instances of GroupedVolume for TLC.                                       *)
EXTENDS GroupedVolume

CONSTANTS f1, f2

Swap == Permutations(Files)
=============================================================================
