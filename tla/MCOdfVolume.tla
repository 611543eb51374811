---------------------------- MODULE MCOdfVolume ----------------------------
(* Instances of OdfVolume for TLC. The two files are interchangeable: slots, *)
(* blocks and orders are chosen by number, never by inode id.                *)
EXTENDS OdfVolume

CONSTANTS f1, f2
Swap == Permutations({f1, f2})
=============================================================================
