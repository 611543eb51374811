---------------------------- MODULE MCWinFspFlush ----------------------------
(***************************************************************************)
(* Small instances of WinFspFlush for TLC: one or two dispatcher threads.  *)
(***************************************************************************)
EXTENDS WinFspFlush

CONSTANTS c1, c2
=============================================================================
