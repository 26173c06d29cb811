---------------------------- MODULE MCChainStore ----------------------------
(***************************************************************************)
(* A small block tree for model checking ChainStore: a main branch a1..a5, *)
(* a branch b3..b5 from a2 of equal work, so that hashes decide, and a     *)
(* block c4 on a3 that outweighs a4 and a5 together, so that a shorter     *)
(* chain can replace a longer one.                                         *)
(***************************************************************************)
EXTENDS ChainStore, Sequences

\* The chain from genesis to each block.
MCChain ==
    [g  |-> <<"g">>,
     a1 |-> <<"g", "a1">>,
     a2 |-> <<"g", "a1", "a2">>,
     a3 |-> <<"g", "a1", "a2", "a3">>,
     a4 |-> <<"g", "a1", "a2", "a3", "a4">>,
     a5 |-> <<"g", "a1", "a2", "a3", "a4", "a5">>,
     b3 |-> <<"g", "a1", "a2", "b3">>,
     b4 |-> <<"g", "a1", "a2", "b3", "b4">>,
     b5 |-> <<"g", "a1", "a2", "b3", "b4", "b5">>,
     c4 |-> <<"g", "a1", "a2", "a3", "c4">>]

MCBlock == DOMAIN MCChain

MCMaxHeight == 5

MCHeight == [b \in MCBlock |-> Len(MCChain[b]) - 1]

\* Above a block's own height the entry is never read; it is the block itself.
MCAnc ==
    [b \in MCBlock |-> [h \in 0 .. MCMaxHeight |->
        IF h >= MCHeight[b] THEN b ELSE MCChain[b][h + 1]]]

\* Each block adds 2 units of work, c4 adds 5.
MCWork ==
    [b \in MCBlock |-> 2 * MCHeight[b] + (IF b = "c4" THEN 3 ELSE 0)]

\* The b branch has the smaller hashes at equal work.
MCHashOf ==
    [g |-> 0, b3 |-> 1, b4 |-> 2, b5 |-> 3, c4 |-> 4,
     a1 |-> 11, a2 |-> 12, a3 |-> 13, a4 |-> 14, a5 |-> 15]
=============================================================================
