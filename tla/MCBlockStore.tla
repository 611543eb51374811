---------------------------- MODULE MCBlockStore ----------------------------
(***************************************************************************)
(* Small instances of BlockStore for TLC.                                  *)
(***************************************************************************)
EXTENDS BlockStore, TLC

\* AllocatorPolicy::default()
DefaultPolicy == [strategy |-> "BestFit", split |-> 1, coalesce |-> TRUE,
                  trim |-> TRUE, threshold |-> 25]

\* The policy of the optimisation tests: no coalescing on release.
LooseFirstFit == [strategy |-> "FirstFit", split |-> 2, coalesce |-> FALSE,
                  trim |-> TRUE, threshold |-> 25]

OnlyDefault == {DefaultPolicy}
BothPolicies == {DefaultPolicy, LooseFirstFit}

\* Everything up to the bound, or the runs of one value.
AllData == UNION {[1..n -> Values] : n \in 1..MaxSize}
UniformData == {[k \in 1..n |-> v] : n \in 1..MaxSize, v \in Values}

\* One cell, or one more than a block holds.
OddData == {c \in UniformData : Len(c) \in {1, BlockSize + 1}}

\* What TLC tells apart: not the cells that no file holds, which are zeroed or
\* overwritten before a file can read them.
View ==
    LET owned == UNION {Owned(i) : i \in Known}
        held  == {b * BlockSize + k : b \in owned, k \in 0..BlockSize - 1}
    IN  <<[store EXCEPT !.dev = [c \in held |-> @[c]]], told, loads, spilt>>

ValueSymmetry == Permutations(Values)
=============================================================================
