---------------------------- MODULE MCSuffixSync ----------------------------
(* An instance of SuffixSync for TLC. *)
EXTENDS SuffixSync

MCBody == {1, 2, 4}
MCTerminal == {3}
DistinctDomains == [p \in Peer |-> p]

(* A peer offers the whole plan or nothing; peer 2 may have other bytes for *)
(* claim 4.                                                                *)
OtherBytes == [c \in Claim |-> IF c = 4 THEN 2 ELSE 1]
WholeInventories ==
    [p \in Peer |-> {[c \in Claim |-> 1], [c \in Claim |-> None]}
                    \cup IF p = 2 THEN {OtherBytes} ELSE {}]

(* A terminal from two peers that are lost, come back and announce again.  *)
Flapping ==
    [claims |-> {3}, peers |-> {1, 2}, limit |-> 2,
     adverts |-> 1, flaps |-> 1, busy |-> 0, local |-> 0, holds |-> 0]

(* A terminal from three peers, hedged and rotated, with a Busy answer.    *)
Hedged ==
    [claims |-> {3}, peers |-> {1, 2, 3}, limit |-> 1,
     adverts |-> 0, flaps |-> 0, busy |-> 1, local |-> 0, holds |-> 0]

(* Two bodies in coalesced requests, one of which may find no slot.        *)
Coalesced ==
    [claims |-> {1, 2}, peers |-> {1, 2}, limit |-> 1,
     adverts |-> 0, flaps |-> 0, busy |-> 1, local |-> 1, holds |-> 0]

(* A body whose sources announce again, maybe other bytes, and that has to *)
(* wait when it is complete.                                               *)
Readvertised ==
    [claims |-> {4}, peers |-> {1, 2}, limit |-> 2,
     adverts |-> 1, flaps |-> 0, busy |-> 1, local |-> 0, holds |-> 1]

MCSetup == {Flapping, Hedged, Coalesced, Readvertised}
=============================================================================
