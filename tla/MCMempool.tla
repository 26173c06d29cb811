----------------------------- MODULE MCMempool -----------------------------
(***************************************************************************)
(* A small instance of Mempool.                                            *)
(*                                                                         *)
(*     g -- a1 -- a2        a1 confirms t1; a2 starts a new anchor epoch   *)
(*      \-- b1 -- b2        b2 outweighs a2 and confirms nothing           *)
(*                                                                         *)
(* t1 and t2 spend the same coin; t1 and t4 write the same slot; t3 is not *)
(* authorized; t4 is refused as a plain transaction from height 3; t5      *)
(* spends t1's output and binds the epoch of a2.  t1's fee raises the      *)
(* floor above the other fees.                                             *)
(***************************************************************************)
EXTENDS Mempool, TLC

CONSTANTS g, a1, a2, b1, b2, none, t1, t2, t3, t4, t5, nil, k1, k2,
          s1, s2, s3, s4, s5, empty

MCBlock == {g, a1, a2, b1, b2}
MCMaxHeight == 2
MCHeight == (g :> 0) @@ (a1 :> 1) @@ (a2 :> 2) @@ (b1 :> 1) @@ (b2 :> 2)
Line(x, y, z) == (0 :> x) @@ (1 :> y) @@ (2 :> z)
MCAnc == (g :> Line(g, g, g)) @@ (a1 :> Line(g, a1, a1)) @@ (a2 :> Line(g, a1, a2))
         @@ (b1 :> Line(g, b1, b1)) @@ (b2 :> Line(g, b1, b2))
MCWork == (g :> 1) @@ (a1 :> 3) @@ (a2 :> 4) @@ (b1 :> 2) @@ (b2 :> 5)
MCHashOf == (g :> 1) @@ (a1 :> 2) @@ (a2 :> 3) @@ (b1 :> 4) @@ (b2 :> 5)

MCTx == {t1, t2, t3, t4, t5}
MCSlot == {s1, s2, s3, s4, s5}
MCCoin == {"c1", "c2", "c3", "c4", "c5"}
Slots(v1, v2, v3, v4, v5) ==
    (s1 :> v1) @@ (s2 :> v2) @@ (s3 :> v3) @@ (s4 :> v4) @@ (s5 :> v5)
MCImage ==
    (g :> Slots("c1", "c2", empty, empty, empty))
    @@ (a1 :> Slots(empty, "c2", "c3", empty, empty))
    @@ (a2 :> Slots(empty, "c2", "c3", empty, "c5"))
    @@ (b1 :> Slots("c1", "c2", empty, "c4", empty))
    @@ (b2 :> Slots("c1", "c2", empty, "c4", "c5"))
MCTxsOf == (g :> {}) @@ (a1 :> {t1}) @@ (a2 :> {}) @@ (b1 :> {}) @@ (b2 :> {})
MCSpent == (t1 :> {<<s1, "c1">>}) @@ (t2 :> {<<s1, "c1">>}) @@ (t3 :> {<<s2, "c2">>})
           @@ (t4 :> {<<s2, "c2">>}) @@ (t5 :> {<<s3, "c3">>})
MCMinted == (t1 :> {s3}) @@ (t2 :> {s4}) @@ (t3 :> {s5}) @@ (t4 :> {s3}) @@ (t5 :> {s1})
MCAnchorOf == (t1 :> g) @@ (t2 :> g) @@ (t3 :> g) @@ (t4 :> g) @@ (t5 :> a2)
MCAccepted == (g :> {g}) @@ (a1 :> {g}) @@ (a2 :> {a2}) @@ (b1 :> {g}) @@ (b2 :> {g})
MCRefusedFrom == (t1 :> 9) @@ (t2 :> 9) @@ (t3 :> 9) @@ (t4 :> 3) @@ (t5 :> 9)
MCFeeOf == (t1 :> 20) @@ (t2 :> 10) @@ (t3 :> 18) @@ (t4 :> 18) @@ (t5 :> 10)
MCRequiredFee == [b \in MCBlock |-> [t \in MCTx |-> IF b = b2 THEN 15 ELSE 5]]
MCSizeOf == (t1 :> 2) @@ (t2 :> 1) @@ (t3 :> 1) @@ (t4 :> 1) @@ (t5 :> 1)
MCAuthorized == {t1, t2, t4, t5}
MCTask == {k1, k2}
=============================================================================
