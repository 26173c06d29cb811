-------------------------- MODULE MCMiningReadiness --------------------------
(***************************************************************************)
(* A block a1 with two children, of which b2 wins.                         *)
(***************************************************************************)
EXTENDS MiningReadiness, Sequences

MCChain ==
    [g  |-> <<"g">>,
     a1 |-> <<"g", "a1">>,
     a2 |-> <<"g", "a1", "a2">>,
     b2 |-> <<"g", "a1", "b2">>]

MCBlock == DOMAIN MCChain
MCMaxHeight == 2
MCHeight == [b \in MCBlock |-> Len(MCChain[b]) - 1]
MCAnc ==
    [b \in MCBlock |-> [h \in 0 .. MCMaxHeight |->
        IF h >= MCHeight[b] THEN b ELSE MCChain[b][h + 1]]]
MCWork == [g |-> 0, a1 |-> 1, a2 |-> 2, b2 |-> 3]
MCHashOf == [g |-> 0, a1 |-> 1, a2 |-> 2, b2 |-> 3]

\* Every peer in a failure domain of its own.
Apart == [p \in Peer |-> p]
=============================================================================
