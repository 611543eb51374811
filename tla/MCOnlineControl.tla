--------------------------- MODULE MCOnlineControl ---------------------------
(***************************************************************************)
(* Small instances of OnlineControl for TLC: two or three tools.           *)
(***************************************************************************)
EXTENDS OnlineControl, TLC

CONSTANTS t1, t2, t3

Symmetric == Permutations(Tools)
=============================================================================
