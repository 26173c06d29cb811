----------------------------- MODULE MCHeaderDag -----------------------------
(***************************************************************************)
(* A small tree for HeaderDag: a branch a1, a2, a3 as long as the graph    *)
(* has room for headers, whose tip is refused by a native rule, and a      *)
(* block b1 that ties with a1 and is committed in its place.               *)
(***************************************************************************)
EXTENDS HeaderDag, Sequences

MCChain ==
    [g  |-> <<"g">>,
     a1 |-> <<"g", "a1">>,
     a2 |-> <<"g", "a1", "a2">>,
     a3 |-> <<"g", "a1", "a2", "a3">>,
     b1 |-> <<"g", "b1">>]

MCBlock == DOMAIN MCChain
MCMaxHeight == 3
MCHeight == [b \in MCBlock |-> Len(MCChain[b]) - 1]
MCAnc ==
    [b \in MCBlock |-> [h \in 0 .. MCMaxHeight |->
        IF h >= MCHeight[b] THEN b ELSE MCChain[b][h + 1]]]
MCWork == [g |-> 0, a1 |-> 3, a2 |-> 5, a3 |-> 6, b1 |-> 3]
MCHashOf == [g |-> 0, a1 |-> 1, a2 |-> 2, b1 |-> 3, a3 |-> 4]
MCBad == {"a3"}
=============================================================================
