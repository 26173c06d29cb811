----------------------------- MODULE BlockTree -----------------------------
(***************************************************************************)
(* The tree of blocks a node can ever be shown, and fork choice over it.   *)
(*                                                                         *)
(* A block stands for its header, its body and its hash at once: hashes    *)
(* are assumed collision free, so a block determines its whole history.    *)
(* Bytes, transactions and proof contents are abstracted away; height,     *)
(* ancestry, cumulative work and the order of tip hashes are kept, for     *)
(* these are what the chain store and fork choice look at.                 *)
(***************************************************************************)
EXTENDS Integers

CONSTANTS
    Block,      \* every block that exists in the instance, on any branch
    NoBlock,    \* "no row": what a lookup in an empty table cell returns
    Genesis,    \* the built-in first block
    MaxHeight,  \* bound: the greatest height of a block
    Height,     \* Height[b]
    Anc,        \* Anc[b][h]: the ancestor of b (b included) at height h
    Work,       \* Work[b]: cumulative chain work of the chain ending in b
    HashOf      \* HashOf[b]: the block hash, only compared by <

Heights == 0 .. MaxHeight

ASSUME TreeTypes ==
    /\ Genesis \in Block
    /\ NoBlock \notin Block
    /\ MaxHeight \in Nat
    /\ Height \in [Block -> Heights]
    /\ Anc \in [Block -> [Heights -> Block]]
    /\ Work \in [Block -> Nat]
    /\ HashOf \in [Block -> Nat]

\* Ancestry is a tree rooted in Genesis: every chain has one block per height,
\* and two chains through the same block share everything below it.
ASSUME TreeShape ==
    /\ Height[Genesis] = 0
    /\ \A b \in Block :
          /\ Anc[b][0] = Genesis
          /\ Anc[b][Height[b]] = b
          /\ \A h \in 0 .. Height[b] :
                /\ Height[Anc[b][h]] = h
                /\ \A k \in 0 .. h : Anc[Anc[b][h]][k] = Anc[b][k]

\* Every block adds work, and no two blocks have the same hash.
ASSUME TreeWork ==
    /\ \A b \in Block : \A h \in 0 .. Height[b] :
          h < Height[b] => Work[Anc[b][h]] < Work[b]
    /\ \A a, b \in Block : HashOf[a] = HashOf[b] => a = b

Parent(b) == Anc[b][Height[b] - 1]

\* a is b or an ancestor of b.
Extends(b, a) == Height[a] <= Height[b] /\ Anc[b][Height[a]] = a

\* choose_chain_by_work returns ChainChoice::A: more cumulative work, and on
\* equal work the smaller tip hash.
ChainWins(a, b) ==
    \/ Work[a] > Work[b]
    \/ Work[a] = Work[b] /\ HashOf[a] < HashOf[b]
=============================================================================
