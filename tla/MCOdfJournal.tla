----------------------------- MODULE MCOdfJournal -----------------------------
(***************************************************************************)
(* Instances of OdfJournal for TLC.  A transaction has up to two ops on    *)
(* two blocks, the record area holds one or two transactions, and the      *)
(* first record block covers one record.                                   *)
(***************************************************************************)
EXTENDS OdfJournal

CONSTANTS b1, b2, v0, v1, v2

OneBlock == {b1}
TwoBlocks == {b1, b2}
ThreeVals == {v0, v1, v2}
=============================================================================
