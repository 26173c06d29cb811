-------------------------- MODULE HeaderDagProofs --------------------------
(***************************************************************************)
(* For every block tree, every set of peers and all limits: the graph of   *)
(* headers stays sound, verdicts never reach the committed chain, refused  *)
(* peers supply nothing, and plans are made for winning tips only.         *)
(***************************************************************************)
EXTENDS HeaderDag, FiniteSetTheorems, WellFoundedInduction, TLAPS

-----------------------------------------------------------------------------
(* The inductive invariant. *)

\* The whole chain segment between the finalized point and a header is there.
\* (GraphConnected says so of one parent; a walk needs all of them.)
Linked ==
    \A n \in nodes :
        Height[n] > Height[fin] /\ Extends(n, fin) /\ Path(fin, n) \subseteq nodes

\* The committed chain breaks no native rule, the graph's finalized point is of
\* a chain that was committed, and the chain reorganizes within its window.
ChainSound ==
    /\ Sound(tip) /\ Sound(fin)
    /\ Extends(tip, final) /\ Height[tip] <= Height[final] + FinalityDepth

\* Verdicts fall on blocks that break a rule, and on what stands on them.
CondemnedUnsound == \A b \in invalid : ~Sound(b)

\* A plan leads from its base to its target, and a verdict names a block of it.
PlanFits ==
    /\ Extends(plan.target, plan.base)
    /\ plan.stage = "done" /\ plan.fault = "condemned" => BadOn(plan.target) # {}

\* The running handler works for one peer at most, which is neither rejected nor
\* refused; its batch ends above the committed chain, unless it ends below the
\* finalized point; and a reconciliation moves finality forward.
HandlerFits ==
    /\ \A p, q \in work.peers : p = q
    /\ work.peers \cap (rejected \cup refused) = {}
    /\ work.kind \in {"batch", "select"} /\ Extends(work.from, work.target) =>
           Height[work.target] < Height[fin]
    /\ work.kind = "reconcile" => fin = final \/ Height[fin] < Height[final]

Graph == IsFiniteSet(nodes) /\ Linked /\ BestIsBest /\ CondemnedStayOut /\ WithinCapacity

\* The types, by part: the graph, the chain, the peers, the plan, the handler.
DagTyped ==
    /\ fin \in Block /\ best \in Block /\ nodes \subseteq Block /\ invalid \subseteq Block
    /\ suppliers \in [Block -> SUBSET Peer]

ChainTyped == tip \in Block /\ final \in Block /\ seenTip \in Block /\ faulted \in BOOLEAN

PeersTyped == live \subseteq Peer /\ rejected \subseteq Peer /\ refused \subseteq Peer

Plans ==
    [stage : {"none", "fetch", "apply", "done"}, base : Block, target : Block,
     from : Block, live : BOOLEAN, applied : Block, fault : Faults]

PlanTyped == plan \in Plans /\ (plan.stage = "none" => plan = NoPlan)

Handlers ==
    [kind : {"idle", "batch", "select", "forget", "reconcile", "panicked"},
     at : 0 .. MaxHeight + 1, base : Block, target : Block, from : Block, peers : SUBSET Peer]

HandlerTyped == work \in Handlers /\ (Free => work = IdleLoop)

DagInv == DagTyped /\ Graph /\ CondemnedUnsound
ChainInv == ChainTyped /\ ChainSound
PlanInv == PlanTyped /\ PlanFits
LoopInv == HandlerTyped /\ HandlerFits /\ SuffixEmptyOnlyAtRoot

Inv == DagInv /\ ChainInv /\ PeersTyped /\ RefusedSupplyNothing /\ PlanInv /\ LoopInv

-----------------------------------------------------------------------------
(* The tree. *)

\* Heights and work are natural numbers, and ancestors are blocks.
LEMMA TreeFacts ==
    /\ Genesis \in Block /\ Height[Genesis] = 0 /\ MaxHeight \in Nat
    /\ \A b \in Block : /\ Height[b] \in Nat /\ Height[b] <= MaxHeight
                        /\ Work[b] \in Nat /\ HashOf[b] \in Nat
    /\ \A b \in Block : \A h \in 0 .. Height[b] : Anc[b][h] \in Block
<1>1. Genesis \in Block /\ Height[Genesis] = 0 /\ MaxHeight \in Nat
  BY TreeTypes, TreeShape, Zenon DEF TreeTypes, TreeShape
<1>2. ASSUME NEW b \in Block
      PROVE  /\ Height[b] \in Nat /\ Height[b] <= MaxHeight
             /\ Work[b] \in Nat /\ HashOf[b] \in Nat
  BY TreeTypes DEF TreeTypes, Heights
<1>3. ASSUME NEW b \in Block, NEW h \in 0 .. Height[b] PROVE Anc[b][h] \in Block
  <2>1. Anc[b] \in [Heights -> Block]
    BY TreeTypes, Zenon DEF TreeTypes
  <2>2. h \in Heights
    BY <1>1, <1>2, <1>3 DEF Heights
  <2> QED
    BY <2>1, <2>2, Zenon
<1> QED
  BY <1>1, <1>2, <1>3, Zenon

\* Extends is an order by height, and the ancestors of a block are a chain.
LEMMA ExtendsRefl == ASSUME NEW b \in Block PROVE Extends(b, b)
BY TreeShape, TreeFacts DEF TreeShape, Extends

\* An ancestor is lower, or it is the block itself.
LEMMA ExtendsHeight ==
    ASSUME NEW a \in Block, NEW b \in Block, Extends(b, a)
    PROVE  Height[a] <= Height[b] /\ (Height[a] = Height[b] => a = b)
BY TreeShape, Zenon DEF TreeShape, Extends

\* An ancestor of an ancestor is an ancestor.
LEMMA ExtendsTrans ==
    ASSUME NEW a \in Block, NEW b \in Block, NEW c \in Block, Extends(c, b), Extends(b, a)
    PROVE  Extends(c, a)
<1>1. Height[b] \in 0 .. Height[c] /\ Height[a] \in 0 .. Height[b] /\ Height[c] \in Nat
  BY TreeFacts DEF Extends
<1>2. Anc[Anc[c][Height[b]]][Height[a]] = Anc[c][Height[a]]
  BY <1>1, TreeShape DEF TreeShape
<1> QED
  BY <1>1, <1>2 DEF Extends

\* Of two ancestors of a block, the higher one stands on the lower one.
LEMMA AncestorsChain ==
    ASSUME NEW a \in Block, NEW b \in Block, NEW c \in Block,
           Extends(c, a), Extends(c, b), Height[a] <= Height[b]
    PROVE  Extends(b, a)
<1>1. Height[b] \in 0 .. Height[c] /\ Height[a] \in 0 .. Height[b] /\ Height[c] \in Nat
  BY TreeFacts DEF Extends
<1>2. Anc[Anc[c][Height[b]]][Height[a]] = Anc[c][Height[a]]
  BY <1>1, TreeShape DEF TreeShape
<1> QED
  BY <1>1, <1>2, Zenon DEF Extends

\* A block has an ancestor at every height up to its own.
LEMMA AncestorAt ==
    ASSUME NEW b \in Block, NEW h \in 0 .. Height[b]
    PROVE  Anc[b][h] \in Block /\ Height[Anc[b][h]] = h /\ Extends(b, Anc[b][h])
BY TreeShape, TreeFacts DEF TreeShape, Extends

\* Every block extends the first one.
LEMMA ExtendsGenesis == ASSUME NEW b \in Block PROVE Extends(b, Genesis)
BY TreeShape, TreeFacts DEF TreeShape, Extends

\* The parent of a block, and what is between the two.
LEMMA ParentFacts ==
    ASSUME NEW b \in Block, Height[b] > 0
    PROVE  /\ Parent(b) \in Block /\ Height[Parent(b)] = Height[b] - 1
           /\ Extends(b, Parent(b))
           /\ \A x \in Block : Extends(b, x) => x = b \/ Extends(Parent(b), x)
<1>1. Height[b] - 1 \in 0 .. Height[b]
  BY TreeFacts
<1>2. /\ Parent(b) \in Block /\ Height[Parent(b)] = Height[b] - 1
      /\ Extends(b, Parent(b))
  BY <1>1, AncestorAt, Zenon DEF Parent
<1>3. ASSUME NEW x \in Block, Extends(b, x), x # b PROVE Extends(Parent(b), x)
  <2>1. Height[x] <= Height[b] /\ Height[x] # Height[b]
    BY <1>3, ExtendsHeight, Zenon
  <2>2. Height[x] <= Height[Parent(b)]
    <3>1. Height[x] \in Nat /\ Height[b] \in Nat
      BY TreeFacts, Zenon
    <3> QED
      BY <1>2, <2>1, <3>1
  <2> QED
    BY <1>2, <1>3, <2>2, AncestorsChain, Zenon
<1> QED
  BY <1>2, <1>3, Zenon

\* A path is what a block extends above another one's height.
LEMMA PathIs ==
    ASSUME NEW a \in Block, NEW t \in Block
    PROVE  \A x : x \in Path(a, t) <=> x \in Block /\ Extends(t, x) /\ Height[x] > Height[a]
<1>0. Height[a] \in Nat /\ Height[t] \in Nat
  BY TreeFacts, Zenon
<1>1. ASSUME NEW x \in Path(a, t) PROVE x \in Block /\ Extends(t, x) /\ Height[x] > Height[a]
  <2>1. PICK h \in Height[a] + 1 .. Height[t] : x = Anc[t][h]
    BY <1>1, Zenon DEF Path
  <2>2. h \in 0 .. Height[t] /\ h > Height[a]
    BY <1>0, <2>1
  <2> QED
    BY <2>1, <2>2, AncestorAt, Zenon
<1>2. ASSUME NEW x \in Block, Extends(t, x), Height[x] > Height[a] PROVE x \in Path(a, t)
  <2>1. Height[x] \in Height[a] + 1 .. Height[t] /\ x = Anc[t][Height[x]]
    BY <1>0, <1>2, TreeFacts DEF Extends
  <2> QED
    BY <2>1, Zenon DEF Path
<1> QED
  BY <1>1, <1>2, Zenon

-----------------------------------------------------------------------------
(* Fork choice. *)

\* A strict extension wins.
LEMMA ExtensionWins ==
    ASSUME NEW a \in Block, NEW b \in Block, Extends(b, a), a # b
    PROVE  ChainWins(b, a)
<1>1. Height[a] \in 0 .. Height[b] /\ Height[b] \in Nat
  BY TreeFacts DEF Extends
<1>2. Height[a] < Height[b]
  <2>1. Height[a] # Height[b]
    BY ExtendsHeight, Zenon
  <2> QED
    BY <1>1, <2>1
<1>3. Work[Anc[b][Height[a]]] < Work[b]
  BY <1>1, <1>2, TreeWork, Zenon DEF TreeWork
<1> QED
  BY <1>3, TreeFacts, Zenon DEF ChainWins, Extends

\* Winning is a strict total order.
LEMMA WinsTransitive ==
    ASSUME NEW a \in Block, NEW b \in Block, NEW c \in Block,
           ChainWins(a, b), ChainWins(b, c)
    PROVE  ChainWins(a, c)
BY TreeFacts DEF ChainWins

\* No block wins over itself.
LEMMA WinsStrict == ASSUME NEW a \in Block PROVE ~ChainWins(a, a)
BY TreeFacts DEF ChainWins

\* Of two blocks, one wins.
LEMMA WinsTotal ==
    ASSUME NEW a \in Block, NEW b \in Block, a # b
    PROVE  ChainWins(a, b) \/ ChainWins(b, a)
<1>1. HashOf[a] # HashOf[b]
  BY TreeWork, Zenon DEF TreeWork
<1>2. Work[a] \in Nat /\ Work[b] \in Nat /\ HashOf[a] \in Nat /\ HashOf[b] \in Nat
  BY TreeFacts, Zenon
<1> QED
  BY <1>1, <1>2 DEF ChainWins

\* reselect_best finds a best header in every finite set: take one that a least
\* set of others beats.
LEMMA BestOfExists ==
    ASSUME NEW S \in SUBSET Block, IsFiniteSet(S), S # {}
    PROVE  BestOf(S) \in S /\ \A n \in S : n = BestOf(S) \/ ChainWins(BestOf(S), n)
<1> DEFINE Above(m) == {n \in S : ChainWins(n, m)}
           F == {Above(m) : m \in S}
<1>1. F \subseteq FiniteSubsetsOf(S) /\ F # {}
  <2>1. ASSUME NEW m \in S PROVE Above(m) \in FiniteSubsetsOf(S)
    <3>1. Above(m) \in SUBSET S
      BY Zenon
    <3> HIDE DEF Above
    <3> QED
      BY <3>1, FS_Subset, Zenon DEF FiniteSubsetsOf
  <2> QED
    BY <2>1, Zenon
<1>2. \E x \in F : \A y \in F : ~(<<y, x>> \in StrictSubsetOrdering(S))
  <2> HIDE DEF F
  <2> QED
    BY <1>1, FS_StrictSubsetOrderingWellFounded, WFMin, Zenon
<1>3. PICK m \in S : \A n \in S : ~(<<Above(n), Above(m)>> \in StrictSubsetOrdering(S))
  BY <1>2, Zenon
<1>4. ASSUME NEW n \in S, ChainWins(n, m) PROVE FALSE
  <2>1. n \in Above(m) /\ n \notin Above(n)
    BY <1>4, WinsStrict, Zenon
  <2>2. Above(n) \subseteq Above(m)
    BY <1>4, WinsTransitive, Zenon
  <2>3. <<Above(n), Above(m)>> \in StrictSubsetOrdering(S)
    BY <2>1, <2>2, Zenon DEF StrictSubsetOrdering
  <2> QED
    BY <1>3, <2>3, Zenon
<1>5. \A n \in S : n = m \/ ChainWins(m, n)
  BY <1>4, WinsTotal, Zenon
<1> QED
  BY <1>5, Zenon DEF BestOf

\* The same for the leaf that makes room.
LEMMA WorstExists ==
    ASSUME NEW S \in SUBSET Block, IsFiniteSet(S), S # {}
    PROVE  Worst(S) \in S
<1> DEFINE Below(m) == {n \in S : ChainWins(m, n)}
           F == {Below(m) : m \in S}
<1>1. F \subseteq FiniteSubsetsOf(S) /\ F # {}
  <2>1. ASSUME NEW m \in S PROVE Below(m) \in FiniteSubsetsOf(S)
    <3>1. Below(m) \in SUBSET S
      BY Zenon
    <3> HIDE DEF Below
    <3> QED
      BY <3>1, FS_Subset, Zenon DEF FiniteSubsetsOf
  <2> QED
    BY <2>1, Zenon
<1>2. \E x \in F : \A y \in F : ~(<<y, x>> \in StrictSubsetOrdering(S))
  <2> HIDE DEF F
  <2> QED
    BY <1>1, FS_StrictSubsetOrderingWellFounded, WFMin, Zenon
<1>3. PICK m \in S : \A n \in S : ~(<<Below(n), Below(m)>> \in StrictSubsetOrdering(S))
  BY <1>2, Zenon
<1>4. ASSUME NEW n \in S, ChainWins(m, n) PROVE FALSE
  <2>1. n \in Below(m) /\ n \notin Below(n)
    BY <1>4, WinsStrict, Zenon
  <2>2. Below(n) \subseteq Below(m)
    BY <1>4, WinsTransitive, Zenon
  <2>3. <<Below(n), Below(m)>> \in StrictSubsetOrdering(S)
    BY <2>1, <2>2, Zenon DEF StrictSubsetOrdering
  <2> QED
    BY <1>3, <2>3, Zenon
<1>5. \A n \in S : n = m \/ ChainWins(n, m)
  BY <1>4, WinsTotal, Zenon
<1> QED
  BY <1>5, Zenon DEF Worst

\* A set of blocks has a highest one.
LEMMA HighestExists ==
    ASSUME NEW S \in SUBSET Block, S # {}
    PROVE  Highest(S) \in S /\ \A b \in S : Height[b] <= Height[Highest(S)]
<1> DEFINE H == 0 .. MaxHeight
           Over(m) == {h \in H : h > Height[m]}
           F == {Over(m) : m \in S}
<1>0. IsFiniteSet(H)
  BY TreeFacts, FS_Interval
<1>1. F \subseteq FiniteSubsetsOf(H) /\ F # {}
  <2>1. ASSUME NEW m \in S PROVE Over(m) \in FiniteSubsetsOf(H)
    <3>1. Over(m) \in SUBSET H
      BY Zenon
    <3> HIDE DEF Over, H
    <3> QED
      BY <1>0, <3>1, FS_Subset, Zenon DEF FiniteSubsetsOf
  <2> QED
    BY <2>1, Zenon
<1>2. \E x \in F : \A y \in F : ~(<<y, x>> \in StrictSubsetOrdering(H))
  <2> HIDE DEF F, H
  <2> QED
    BY <1>1, FS_StrictSubsetOrderingWellFounded, WFMin, Zenon
<1>3. PICK m \in S : \A n \in S : ~(<<Over(n), Over(m)>> \in StrictSubsetOrdering(H))
  BY <1>2, Zenon
<1>4. ASSUME NEW n \in S, Height[n] > Height[m] PROVE FALSE
  <2>1. Height[n] \in Over(m) /\ Height[n] \notin Over(n)
    BY <1>4, TreeFacts
  <2>2. Over(n) \subseteq Over(m)
    BY <1>4, TreeFacts
  <2>3. Over(n) \in SUBSET H /\ Over(m) \in SUBSET H
    BY Zenon
  <2>4. <<Over(n), Over(m)>> \in StrictSubsetOrdering(H)
    <3> HIDE DEF Over, H
    <3> QED
      BY <2>1, <2>2, <2>3, Zenon DEF StrictSubsetOrdering
  <2> QED
    BY <1>3, <2>4, Zenon
<1>5. ASSUME NEW b \in S PROVE Height[b] <= Height[m]
  <2>1. Height[b] \in Nat /\ Height[m] \in Nat
    BY TreeFacts, Zenon
  <2> QED
    BY <1>4, <2>1
<1> QED
  BY <1>5, Zenon DEF Highest

-----------------------------------------------------------------------------
(* Rules and the tree. *)

\* What a sound block extends is sound.
LEMMA SoundDown ==
    ASSUME NEW a \in Block, NEW b \in Block, Extends(b, a), Sound(b)
    PROVE  Sound(a)
<1>1. ASSUME NEW x \in Path(Genesis, a) PROVE x \in Path(Genesis, b)
  <2>1. x \in Block /\ Extends(a, x) /\ Height[x] > Height[Genesis]
    BY TreeFacts, PathIs, Zenon
  <2>2. Extends(b, x)
    BY <2>1, ExtendsTrans, Zenon
  <2> QED
    BY <2>1, <2>2, TreeFacts, PathIs, Zenon
<1> QED
  BY <1>1, Zenon DEF Sound

\* A path without a bad block leads from a sound one to a sound one.
LEMMA SoundUp ==
    ASSUME NEW a \in Block, NEW b \in Block, Extends(b, a), Sound(a), Path(a, b) \cap Bad = {}
    PROVE  Sound(b)
<1>1. ASSUME NEW x \in Path(Genesis, b) PROVE x \in Path(Genesis, a) \/ x \in Path(a, b)
  <2>1. x \in Block /\ Extends(b, x) /\ Height[x] > Height[Genesis]
    BY TreeFacts, PathIs, Zenon
  <2>2. CASE Height[x] > Height[a]
    BY <2>1, <2>2, PathIs, Zenon
  <2>3. CASE Height[x] <= Height[a]
    <3>1. Extends(a, x)
      BY <2>1, <2>3, AncestorsChain, Zenon
    <3> QED
      BY <2>1, <3>1, TreeFacts, PathIs, Zenon
  <2>4. Height[x] \in Nat /\ Height[a] \in Nat
    BY <2>1, TreeFacts, Zenon
  <2> QED
    BY <2>2, <2>3, <2>4
<1> QED
  BY <1>1, Zenon DEF Sound

\* A block on a bad one is not sound.
LEMMA BadUnsound ==
    ASSUME NEW a \in Block, NEW b \in Block, Extends(b, a), a \in Bad
    PROVE  ~Sound(b)
<1>1. a # Genesis
  BY GraphConstants, Zenon DEF GraphConstants
<1>2. Height[a] # Height[Genesis]
  BY <1>1, ExtendsGenesis, ExtendsHeight, TreeFacts, Zenon
<1>3. Height[a] > Height[Genesis]
  BY <1>2, TreeFacts
<1>4. a \in Path(Genesis, b)
  BY <1>3, TreeFacts, PathIs, Zenon
<1> QED
  BY <1>4, Zenon DEF Sound

\* Between a block and an ancestor of it there is a child of the ancestor.
LEMMA ChildOn ==
    ASSUME NEW a \in Block, NEW b \in Block, Extends(b, a), a # b
    PROVE  \E x \in Block : Extends(b, x) /\ Height[x] = Height[a] + 1 /\ Parent(x) = a
<1>0. Height[a] \in Nat /\ Height[b] \in Nat
  BY TreeFacts, Zenon
<1>1. Height[a] <= Height[b] /\ Height[a] # Height[b]
  BY ExtendsHeight, Zenon
<1>2. Height[a] + 1 \in 0 .. Height[b]
  BY <1>0, <1>1
<1> DEFINE x == Anc[b][Height[a] + 1]
<1>3. x \in Block /\ Height[x] = Height[a] + 1 /\ Extends(b, x)
  BY <1>2, AncestorAt, Zenon
<1> HIDE DEF x
<1>4. Height[x] > 0 /\ Height[a] <= Height[x] /\ Height[x] # Height[a]
  BY <1>0, <1>3
<1>5. Extends(x, a)
  BY <1>3, <1>4, AncestorsChain, Zenon
<1>6. Parent(x) \in Block /\ Height[Parent(x)] = Height[a] /\ Extends(Parent(x), a)
  BY <1>0, <1>3, <1>4, <1>5, ParentFacts
<1>7. Parent(x) = a
  BY <1>6, ExtendsHeight, Zenon
<1> QED
  BY <1>3, <1>7, Zenon

-----------------------------------------------------------------------------
(* The graph, without the loop around it. *)

SuppliersFit ==
    \A b \in Block : /\ Cardinality(suppliers[b]) <= MaxProviders
                     /\ suppliers[b] # {} => b \in nodes

\* No header gains a supplier.
SuppliersShrink == \A b \in Block : suppliers'[b] \subseteq suppliers[b]

\* What Linked says of one header, and a header on a linked one.
LEMMA LinkedFacts ==
    ASSUME DagTyped, Linked
    PROVE  /\ fin \notin nodes /\ Known \subseteq Block
           /\ \A n \in Known : Extends(n, fin) /\ Height[fin] <= Height[n]
           /\ \A n \in Known : \A x \in Block :
                  Extends(n, x) /\ Height[x] > Height[fin] => x \in nodes
<1>1. fin \notin nodes
  BY TreeFacts DEF Linked, DagTyped
<1>2. Known \subseteq Block
  BY Zenon DEF Known, DagTyped
<1>3. ASSUME NEW n \in Known PROVE Extends(n, fin) /\ Height[fin] <= Height[n]
  BY ExtendsRefl, TreeFacts, ExtendsHeight, Zenon DEF Known, Linked, DagTyped
<1>4. ASSUME NEW n \in Known, NEW x \in Block, Extends(n, x), Height[x] > Height[fin]
      PROVE  x \in nodes
  <2>1. CASE n \in nodes
    <3>1. x \in Path(fin, n)
      BY <1>4, <2>1, PathIs, Zenon DEF DagTyped
    <3> QED
      BY <2>1, <3>1, Zenon DEF Linked
  <2>2. CASE n = fin
    <3>1. Height[x] <= Height[fin] /\ Height[x] \in Nat /\ Height[fin] \in Nat
      BY <1>4, <2>2, ExtendsHeight, TreeFacts, Zenon DEF DagTyped
    <3> QED
      BY <1>4, <3>1
  <2> QED
    BY <2>1, <2>2, Zenon DEF Known
<1> QED
  BY <1>1, <1>2, <1>3, <1>4, Zenon

\* Linked, from the facts.
LEMMA LinkedFrom ==
    ASSUME NEW f \in Block, NEW N \in SUBSET Block,
           \A n \in N : Height[n] > Height[f] /\ Extends(n, f),
           \A n \in N : \A x \in Block : Extends(n, x) /\ Height[x] > Height[f] => x \in N
    PROVE  \A n \in N : Height[n] > Height[f] /\ Extends(n, f) /\ Path(f, n) \subseteq N
BY PathIs, Zenon

\* A graph within its limits has its providers within theirs.
LEMMA CapacityIs ==
    WithinCapacity <=> Cardinality(nodes) <= MaxNodes /\ SuppliersFit
BY Zenon DEF WithinCapacity, SuppliersFit

\* Fewer suppliers, of headers that are there.
LEMMA FitShrinks ==
    ASSUME DagTyped, SuppliersFit, DagTyped', SuppliersShrink,
           \A b \in Block : suppliers'[b] # {} => b \in nodes'
    PROVE  SuppliersFit'
<1>1. ASSUME NEW b \in Block PROVE Cardinality(suppliers'[b]) <= MaxProviders
  <2>1. suppliers[b] \subseteq Peer /\ suppliers'[b] \subseteq suppliers[b]
    BY Zenon DEF DagTyped, SuppliersShrink
  <2>2. IsFiniteSet(suppliers[b])
    BY <2>1, GraphConstants, FS_Subset, Zenon DEF GraphConstants
  <2>3. /\ Cardinality(suppliers'[b]) <= Cardinality(suppliers[b])
        /\ Cardinality(suppliers'[b]) \in Nat /\ Cardinality(suppliers[b]) \in Nat
    BY <2>1, <2>2, FS_Subset, FS_CardinalityType, Zenon
  <2>4. Cardinality(suppliers[b]) <= MaxProviders /\ MaxProviders \in Nat
    BY GraphConstants, Zenon DEF GraphConstants, SuppliersFit
  <2> QED
    BY <2>3, <2>4
<1> QED
  BY <1>1, Zenon DEF SuppliersFit

-----------------------------------------------------------------------------
(* Headers leave with their descendants. *)

\* remove_with_descendants leaves no header whose chain it broke, and never
\* takes the finalized point.
LEMMA DropKeepsLinks ==
    ASSUME DagTyped, Linked, NEW b \in Block, b # fin
    PROVE  /\ fin \notin WithDescendants(b)
           /\ \A n \in nodes \ WithDescendants(b) : \A x \in Block :
                  Extends(n, x) /\ Height[x] > Height[fin] => x \in nodes \ WithDescendants(b)
<1>1. fin \notin WithDescendants(b)
  BY LinkedFacts, Zenon DEF WithDescendants
<1>2. ASSUME NEW n \in nodes \ WithDescendants(b), NEW x \in Block,
             Extends(n, x), Height[x] > Height[fin]
      PROVE  x \in nodes \ WithDescendants(b)
  <2>0. n \in Block /\ n \in Known /\ fin \in Block
    BY Zenon DEF DagTyped, Known
  <2>1. x \in nodes
    BY <1>2, <2>0, LinkedFacts, Zenon
  <2>2. \A y \in Block : Height[y] \in Nat
    BY TreeFacts, Zenon
  <2>3. ASSUME x = b PROVE FALSE
    <3>1. Height[n] > Height[b]
      <4>1. n # b
        BY Zenon DEF WithDescendants
      <4>2. Height[b] <= Height[n] /\ Height[b] # Height[n]
        BY <1>2, <2>0, <2>3, <4>1, ExtendsHeight, Zenon
      <4> QED
        BY <2>0, <2>2, <4>2
    <3>2. ASSUME NEW y \in Path(b, n) PROVE y \in nodes
      <4>1. y \in Block /\ Extends(n, y) /\ Height[y] > Height[b]
        BY <2>0, PathIs, Zenon
      <4>2. Height[y] > Height[fin]
        BY <1>2, <2>0, <2>2, <2>3, <4>1
      <4> QED
        BY <2>0, <4>1, <4>2, LinkedFacts, Zenon
    <3> QED
      BY <1>2, <2>3, <3>1, <3>2, Zenon DEF WithDescendants
  <2>4. ASSUME x # b, x \in WithDescendants(b) PROVE FALSE
    <3>1. Height[x] > Height[b] /\ Extends(x, b) /\ Path(b, x) \subseteq nodes
      BY <2>4, Zenon DEF WithDescendants
    <3>2. Extends(n, b)
      BY <1>2, <2>0, <3>1, ExtendsTrans, Zenon
    <3>3. Height[n] > Height[b]
      <4>1. Height[x] <= Height[n]
        BY <1>2, <2>0, ExtendsHeight, Zenon
      <4> QED
        BY <2>0, <2>2, <3>1, <4>1
    <3>4. ASSUME NEW y \in Path(b, n) PROVE y \in nodes
      <4>1. y \in Block /\ Extends(n, y) /\ Height[y] > Height[b]
        BY <2>0, PathIs, Zenon
      <4>2. CASE Height[y] <= Height[x]
        <5>1. Extends(x, y)
          BY <1>2, <2>0, <4>1, <4>2, AncestorsChain, Zenon
        <5>2. y \in Path(b, x)
          BY <4>1, <5>1, PathIs, Zenon
        <5> QED
          BY <3>1, <5>2, Zenon
      <4>3. CASE Height[y] > Height[x]
        <5>1. Height[y] > Height[fin]
          BY <1>2, <2>0, <2>2, <4>1, <4>3
        <5> QED
          BY <2>0, <4>1, <5>1, LinkedFacts, Zenon
      <4> QED
        BY <2>2, <4>1, <4>2, <4>3
    <3> QED
      BY <1>2, <3>2, <3>3, <3>4, Zenon DEF WithDescendants
  <2> QED
    BY <2>1, <2>3, <2>4, Zenon
<1> QED
  BY <1>1, <1>2, Zenon

\* The graph that is left, with its best header selected again.
LEMMA ShrunkGraph ==
    ASSUME DagTyped, IsFiniteSet(nodes), Linked, Cardinality(nodes) <= MaxNodes,
           NEW N \in SUBSET nodes,
           \A n \in N : \A x \in Block : Extends(n, x) /\ Height[x] > Height[fin] => x \in N,
           nodes' = N, fin' = fin, best' = BestOf(N \cup {fin})
    PROVE  /\ IsFiniteSet(nodes') /\ Linked' /\ BestIsBest' /\ best' \in Block
           /\ Cardinality(nodes') <= MaxNodes
<1>1. IsFiniteSet(N) /\ Cardinality(N) <= MaxNodes
  <2>1. IsFiniteSet(N) /\ Cardinality(N) <= Cardinality(nodes)
    BY FS_Subset, Zenon
  <2>2. Cardinality(N) \in Nat /\ Cardinality(nodes) \in Nat /\ MaxNodes \in Nat
    BY <2>1, FS_CardinalityType, GraphConstants, Zenon DEF GraphConstants
  <2> QED
    BY <2>1, <2>2
<1>2. N \in SUBSET Block /\ fin \in Block
  BY Zenon DEF DagTyped
<1>3. \A n \in N : Height[n] > Height[fin] /\ Extends(n, fin) /\ Path(fin, n) \subseteq N
  <2>1. \A n \in N : Height[n] > Height[fin] /\ Extends(n, fin)
    BY Zenon DEF Linked
  <2> QED
    BY <1>2, <2>1, LinkedFrom, Zenon
<1>4. Linked'
  BY <1>3, Zenon DEF Linked, Path, Extends
<1>5. /\ N \cup {fin} \in SUBSET Block /\ N \cup {fin} # {}
      /\ IsFiniteSet(N \cup {fin})
  BY <1>1, <1>2, FS_AddElement, Zenon
<1>6. /\ BestOf(N \cup {fin}) \in N \cup {fin}
      /\ \A n \in N \cup {fin} : n = BestOf(N \cup {fin}) \/ ChainWins(BestOf(N \cup {fin}), n)
  BY <1>5, BestOfExists, Zenon
<1>7. BestIsBest'
  BY <1>6, Zenon DEF BestIsBest, Known, ChainWins
<1> QED
  BY <1>1, <1>4, <1>5, <1>6, <1>7, Zenon

\* A header leaves with its descendants, for now or, with a verdict on a bad
\* block, for good.
LEMMA DropGraph ==
    ASSUME DagTyped, Graph, CondemnedUnsound, NEW b \in Block, b # fin,
           nodes' = nodes \ WithDescendants(b), fin' = fin,
           best' = BestOf(Known \ WithDescendants(b)),
           suppliers' \in [Block -> SUBSET Peer], SuppliersShrink,
           \A x \in Block : x \in WithDescendants(b) => suppliers'[x] = {},
           \/ invalid' = invalid
           \/ b \in Bad /\ invalid' = invalid \cup WithDescendants(b)
    PROVE  DagTyped' /\ Graph' /\ CondemnedUnsound'
<1> USE DEF Graph
<1> DEFINE N == nodes \ WithDescendants(b)
<1>0. WithDescendants(b) \subseteq Block /\ \A x \in WithDescendants(b) : Extends(x, b)
  BY ExtendsRefl, Zenon DEF WithDescendants, DagTyped
<1>1. fin \notin WithDescendants(b)
      /\ \A n \in N : \A x \in Block : Extends(n, x) /\ Height[x] > Height[fin] => x \in N
  BY DropKeepsLinks, Zenon
<1>2. Known \ WithDescendants(b) = N \cup {fin}
  BY <1>1, Zenon DEF Known
<1>3. N \in SUBSET nodes /\ N \cap WithDescendants(b) = {} /\ nodes' = N
      /\ \A x \in nodes : x \notin N => x \in WithDescendants(b)
  BY Zenon
<1> HIDE DEF N
<1>4. /\ IsFiniteSet(nodes') /\ Linked' /\ BestIsBest' /\ best' \in Block
      /\ Cardinality(nodes') <= MaxNodes
  BY <1>1, <1>2, <1>3, ShrunkGraph, Zenon DEF WithinCapacity
<1>5. DagTyped'
  BY <1>0, <1>3, <1>4, Zenon DEF DagTyped
<1>6. SuppliersFit'
  <2>1. \A x \in Block : suppliers'[x] # {} => x \in nodes'
    BY <1>3, Zenon DEF WithinCapacity, SuppliersShrink
  <2> QED
    BY <1>5, <2>1, FitShrinks, CapacityIs, Zenon
<1>7. WithinCapacity'
  BY <1>4, <1>6, Zenon DEF WithinCapacity, SuppliersFit
<1>8. CondemnedStayOut'
  <2>1. ASSUME NEW n \in N, NEW x \in Path(fin, n) PROVE x \notin invalid'
    <3>1. n \in Block /\ fin \in Block /\ n \in nodes
      BY <1>3, Zenon DEF DagTyped
    <3>2. x \in Block /\ Extends(n, x) /\ Height[x] > Height[fin]
      BY <3>1, PathIs, Zenon
    <3>3. x \in N
      BY <1>1, <3>2, Zenon
    <3>4. x \notin invalid
      BY <3>1, Zenon DEF CondemnedStayOut
    <3> QED
      BY <1>3, <3>3, <3>4, Zenon
  <2> QED
    BY <1>3, <2>1, Zenon DEF CondemnedStayOut, Path
<1>9. CondemnedUnsound'
  <2>1. b \in Bad => \A x \in WithDescendants(b) : ~Sound(x)
    BY <1>0, BadUnsound, Zenon
  <2> QED
    BY <2>1, Zenon DEF CondemnedUnsound, Sound, Path
<1> QED
  BY <1>4, <1>5, <1>7, <1>8, <1>9, Zenon

\* forget.
LEMMA ForgetGraph ==
    ASSUME DagTyped, Graph, CondemnedUnsound, NEW b \in Block, Forget(b)
    PROVE  /\ DagTyped' /\ Graph' /\ CondemnedUnsound' /\ SuppliersShrink
           /\ fin' = fin
<1>1. CASE b = fin
  <2>1. UNCHANGED dagVars
    BY <1>1, Zenon DEF Forget, KeepGraph, dagVars
  <2> QED
    BY <2>1, Zenon DEF dagVars, DagTyped, Graph, SuppliersShrink, Linked, BestIsBest, Known,
           CondemnedStayOut, CondemnedUnsound, WithinCapacity, Path, Sound
<1>2. CASE b # fin
  <2>1. /\ nodes' = nodes \ WithDescendants(b)
        /\ suppliers' = SuppliersWithout(WithDescendants(b))
        /\ best' = BestOf(Known \ WithDescendants(b)) /\ fin' = fin /\ invalid' = invalid
    BY <1>2, Zenon DEF Forget
  <2>2. \A x \in Block : suppliers'[x] = (IF x \in WithDescendants(b) THEN {} ELSE suppliers[x])
    BY <2>1, Zenon DEF SuppliersWithout
  <2>3. SuppliersShrink /\ \A x \in Block : x \in WithDescendants(b) => suppliers'[x] = {}
    BY <2>2, Zenon DEF SuppliersShrink
  <2>4. suppliers' \in [Block -> SUBSET Peer]
    BY <2>1, Zenon DEF DagTyped, SuppliersWithout
  <2> QED
    BY <1>2, <2>1, <2>3, <2>4, DropGraph, Zenon
<1> QED
  BY <1>1, <1>2, Zenon

-----------------------------------------------------------------------------
(* insert. *)

\* The header that makes room is a leaf off the selected chain and off the
\* chain of the newcomer.
LEMMA EvictedFacts ==
    ASSUME DagTyped, IsFiniteSet(nodes), NEW c, Full => Evictable(c) # {}
    PROVE  /\ Evicted(c) \subseteq Evictable(c)
           /\ Full => \E e \in Evictable(c) : Evicted(c) = {e}
           /\ ~Full => Evicted(c) = {}
<1>1. Evictable(c) \in SUBSET nodes
  BY Zenon DEF Evictable
<1>2. IsFiniteSet(Evictable(c)) /\ Evictable(c) \in SUBSET Block
  BY <1>1, FS_Subset, Zenon DEF DagTyped
<1>3. Evictable(c) # {} => Worst(Evictable(c)) \in Evictable(c)
  BY <1>2, WorstExists, Zenon
<1> QED
  BY <1>3, Zenon DEF Evicted

\* A header that is new to the graph: its links.
LEMMA InsertLinks ==
    ASSUME DagTyped, Linked, BestIsBest, NEW c \in Block, NEW E \in SUBSET Evictable(c),
           Height[c] > Height[fin], c \notin nodes, Parent(c) \in Known
    PROVE  LET N == (nodes \ E) \cup {c} IN
           /\ \A n \in N : Height[n] > Height[fin] /\ Extends(n, fin)
           /\ \A n \in N : \A x \in Block : Extends(n, x) /\ Height[x] > Height[fin] => x \in N
<1> DEFINE N == (nodes \ E) \cup {c}
<1>0. fin \in Block /\ Height[fin] \in Nat /\ Height[c] \in Nat /\ Height[c] > 0
  BY TreeFacts DEF DagTyped
<1>1. /\ Parent(c) \in Block /\ Height[Parent(c)] = Height[c] - 1 /\ Extends(c, Parent(c))
      /\ \A x \in Block : Extends(c, x) => x = c \/ Extends(Parent(c), x)
  BY <1>0, ParentFacts, Zenon
<1>2. \A e \in E : /\ e \in nodes /\ ~Extends(Parent(c), e)
                   /\ \A m \in nodes : Parent(m) # e
  BY Zenon DEF Evictable, Protected
<1>3. ASSUME NEW n \in N PROVE Height[n] > Height[fin] /\ Extends(n, fin)
  <2>1. CASE n = c
    <3>1. Extends(Parent(c), fin)
      BY LinkedFacts, Zenon
    <3> QED
      BY <1>0, <1>1, <2>1, <3>1, ExtendsTrans, Zenon
  <2>2. CASE n \in nodes
    BY <2>2, Zenon DEF Linked
  <2> QED
    BY <2>1, <2>2, Zenon
<1>4. ASSUME NEW n \in N, NEW x \in Block, Extends(n, x), Height[x] > Height[fin]
      PROVE  x \in N
  <2>1. CASE n = c /\ x # c
    <3>1. Extends(Parent(c), x)
      BY <1>1, <1>4, <2>1, Zenon
    <3>2. x \in nodes
      BY <1>4, <3>1, LinkedFacts, Zenon
    <3> QED
      BY <1>2, <3>1, <3>2, Zenon
  <2>2. CASE n # c
    <3>1. n \in nodes /\ n \in Known /\ n \in Block
      BY <2>2, Zenon DEF Known, DagTyped
    <3>2. x \in nodes
      BY <1>4, <3>1, LinkedFacts, Zenon
    <3>3. ASSUME x \in E PROVE FALSE
      <4>1. n # x
        BY <2>2, <3>3, Zenon
      <4>2. PICK y \in Block : Extends(n, y) /\ Height[y] = Height[x] + 1 /\ Parent(y) = x
        BY <1>4, <3>1, <4>1, ChildOn, Zenon
      <4>3. Height[y] > Height[fin]
        BY <1>0, <1>4, <4>2, TreeFacts
      <4>4. y \in nodes
        BY <3>1, <4>2, <4>3, LinkedFacts, Zenon
      <4> QED
        BY <1>2, <3>3, <4>2, <4>4, Zenon
    <3> QED
      BY <3>2, <3>3, Zenon
  <2> QED
    BY <2>1, <2>2, Zenon
<1> QED
  BY <1>3, <1>4, Zenon

\* The selected tip after the insertion.
LEMMA InsertBest ==
    ASSUME DagTyped, Linked, BestIsBest, NEW c \in Block, NEW E \in SUBSET Evictable(c),
           Height[c] > Height[fin], c \notin nodes,
           nodes' = (nodes \ E) \cup {c}, fin' = fin,
           best' = IF Overtakes(c) THEN c ELSE best
    PROVE  BestIsBest' /\ best' \in Block
<1>1. best \in Block /\ fin \in Block /\ Height[fin] \in Nat /\ Height[c] \in Nat
  BY TreeFacts, Zenon DEF DagTyped
<1>2. best \in Known /\ best \notin E
  <2>1. Extends(best, best)
    BY <1>1, ExtendsRefl, Zenon
  <2>2. \A e \in E : e \in nodes /\ ~Extends(best, e)
    BY Zenon DEF Evictable, Protected
  <2> QED
    BY <2>1, <2>2, Zenon DEF BestIsBest
<1>3. c # best
  <2>1. c # fin
    BY <1>1
  <2> QED
    BY <1>2, <2>1, Zenon DEF Known
<1>4. fin \notin nodes /\ best \in Known'
  BY <1>2, LinkedFacts, Zenon DEF Known
<1>5. Known' \subseteq Known \cup {c}
  BY Zenon DEF Known
<1>6. CASE Overtakes(c)
  <2>1. ChainWins(c, best)
    BY <1>6, Zenon DEF Overtakes
  <2>2. ASSUME NEW n \in Known PROVE ChainWins(c, n)
    <3>1. n \in Block
      BY LinkedFacts, Zenon
    <3> QED
      BY <1>1, <2>1, <3>1, WinsTransitive, Zenon DEF BestIsBest
  <2>3. best' = c /\ c \in Known'
    BY <1>6, Zenon DEF Known
  <2> QED
    BY <1>5, <2>2, <2>3, Zenon DEF BestIsBest, ChainWins
<1>7. CASE ~Overtakes(c)
  <2>1. ChainWins(best, c)
    BY <1>1, <1>3, <1>7, WinsTotal, Zenon DEF Overtakes
  <2>2. best' = best
    BY <1>7, Zenon
  <2> QED
    BY <1>1, <1>4, <1>5, <2>1, <2>2, Zenon DEF BestIsBest, ChainWins
<1> QED
  BY <1>6, <1>7, Zenon

\* The size of the graph after the insertion.
LEMMA InsertCounted ==
    ASSUME DagTyped, IsFiniteSet(nodes), Cardinality(nodes) <= MaxNodes,
           NEW c \in Block, c \notin nodes, Full => Evictable(c) # {}
    PROVE  /\ IsFiniteSet((nodes \ Evicted(c)) \cup {c})
           /\ Cardinality((nodes \ Evicted(c)) \cup {c}) <= MaxNodes
<1>0. MaxNodes \in Nat /\ Cardinality(nodes) \in Nat
  BY GraphConstants, FS_CardinalityType, Zenon DEF GraphConstants
<1>1. CASE Full
  <2>1. PICK e \in Evictable(c) : Evicted(c) = {e}
    BY <1>1, EvictedFacts, Zenon
  <2>2. e \in nodes
    BY Zenon DEF Evictable
  <2>3. IsFiniteSet(nodes \ {e}) /\ Cardinality(nodes \ {e}) = Cardinality(nodes) - 1
    BY <2>2, FS_RemoveElement, Zenon
  <2>4. /\ IsFiniteSet((nodes \ {e}) \cup {c})
        /\ Cardinality((nodes \ {e}) \cup {c}) = Cardinality(nodes \ {e}) + 1
    BY <2>3, FS_AddElement, Zenon
  <2>5. Cardinality((nodes \ {e}) \cup {c}) <= MaxNodes
    BY <1>0, <2>3, <2>4
  <2> QED
    BY <2>1, <2>4, <2>5, Zenon
<1>2. CASE ~Full
  <2>1. Evicted(c) = {} /\ (nodes \ {}) \cup {c} = nodes \cup {c}
    BY <1>2, EvictedFacts, Zenon
  <2>2. IsFiniteSet(nodes \cup {c}) /\ Cardinality(nodes \cup {c}) = Cardinality(nodes) + 1
    BY FS_AddElement, Zenon
  <2>3. Cardinality(nodes) + 1 <= MaxNodes
    BY <1>0, <1>2 DEF Full
  <2>4. IsFiniteSet(nodes \cup {c}) /\ Cardinality(nodes \cup {c}) <= MaxNodes
    BY <2>2, <2>3, Zenon
  <2> QED
    BY <2>1, <2>4, Zenon
<1> QED
  BY <1>1, <1>2, Zenon

\* A header on a condemned parent breaks a rule as well, and no header of the
\* graph stands on it.
LEMMA CondemnedChild ==
    ASSUME DagTyped, Linked, CondemnedStayOut, CondemnedUnsound, Sound(fin),
           NEW c \in Block, Height[c] > Height[fin], Condemned(c)
    PROVE  ~Sound(c) /\ \A n \in nodes : c \notin Path(fin, n)
<1>0. fin \in Block /\ Height[fin] \in Nat /\ Height[c] \in Nat /\ Height[c] > 0
  BY TreeFacts DEF DagTyped
<1>1. Parent(c) \in Block /\ Height[Parent(c)] = Height[c] - 1 /\ Extends(c, Parent(c))
  BY <1>0, ParentFacts, Zenon
<1>2. CASE c \in invalid
  BY <1>2, Zenon DEF CondemnedUnsound, CondemnedStayOut
<1>3. CASE Parent(c) \in invalid
  <2>1. ~Sound(Parent(c))
    BY <1>3, Zenon DEF CondemnedUnsound
  <2>2. ~Sound(c)
    BY <1>1, <2>1, SoundDown, Zenon
  <2>3. ASSUME NEW n \in nodes, c \in Path(fin, n) PROVE FALSE
    <3>1. n \in Block /\ Extends(n, c) /\ Extends(n, fin)
      BY <1>0, <2>3, PathIs, Zenon DEF DagTyped, Linked
    <3>2. Extends(n, Parent(c))
      BY <1>1, <3>1, ExtendsTrans, Zenon
    <3>3. CASE Height[Parent(c)] > Height[fin]
      <4>1. Parent(c) \in Path(fin, n)
        BY <1>0, <1>1, <3>1, <3>2, <3>3, PathIs, Zenon
      <4> QED
        BY <1>3, <4>1, Zenon DEF CondemnedStayOut
    <3>4. CASE Height[Parent(c)] = Height[fin]
      <4>1. Extends(Parent(c), fin)
        BY <1>0, <1>1, <3>1, <3>2, <3>4, AncestorsChain
      <4>2. Parent(c) = fin
        BY <1>0, <1>1, <3>4, <4>1, ExtendsHeight, Zenon
      <4> QED
        BY <2>1, <4>2, Zenon
    <3> QED
      BY <1>0, <1>1, <3>3, <3>4
  <2> QED
    BY <2>2, <2>3, Zenon
<1> QED
  BY <1>2, <1>3, Zenon DEF Condemned

\* insert, whatever it answers.
LEMMA InsertGraph ==
    ASSUME DagTyped, Graph, CondemnedUnsound, Sound(fin),
           NEW c \in Block, Insertable(c), Insert(c)
    PROVE  /\ DagTyped' /\ Graph' /\ CondemnedUnsound' /\ SuppliersShrink
           /\ fin' = fin
<1> USE DEF Graph
<1>0. Height[c] > Height[fin]
  BY Zenon DEF Insertable
<1>1. CASE Condemned(c)
  <2>1. KeepGraph /\ invalid' = invalid \cup {c}
    BY <1>1, Zenon DEF Insert
  <2>2. ~Sound(c) /\ \A n \in nodes : c \notin Path(fin, n)
    BY <1>0, <1>1, CondemnedChild, Zenon
  <2>3. DagTyped' /\ Linked' /\ BestIsBest' /\ WithinCapacity' /\ SuppliersShrink /\ fin' = fin
    BY <2>1, Zenon DEF KeepGraph, DagTyped, Linked, BestIsBest, Known, WithinCapacity, SuppliersShrink,
           Path
  <2>4. CondemnedStayOut'
    BY <2>1, <2>2, Zenon DEF KeepGraph, CondemnedStayOut, Path
  <2>5. CondemnedUnsound'
    BY <2>1, <2>2, Zenon DEF CondemnedUnsound, Sound, Path
  <2> QED
    BY <2>1, <2>3, <2>4, <2>5, Zenon DEF KeepGraph
<1>2. CASE ~Condemned(c) /\ c \in nodes
  <2>1. UNCHANGED dagVars
    BY <1>2, Zenon DEF Insert, KeepGraph, dagVars
  <2> QED
    BY <2>1, Zenon DEF dagVars, DagTyped, SuppliersShrink, Linked, BestIsBest, Known, CondemnedStayOut,
           CondemnedUnsound, WithinCapacity, Path, Sound
<1>3. CASE ~Condemned(c) /\ c \notin nodes
  <2>1. /\ nodes' = (nodes \ Evicted(c)) \cup {c}
        /\ suppliers' = SuppliersWithout(Evicted(c))
        /\ best' = IF Overtakes(c) THEN c ELSE best
        /\ fin' = fin /\ invalid' = invalid
    BY <1>3, Zenon DEF Insert
  <2>2. Parent(c) \in Known /\ (Full => Evictable(c) # {})
    BY <1>3, Zenon DEF Insertable
  <2>3. Evicted(c) \in SUBSET Evictable(c)
    BY <2>2, EvictedFacts, Zenon
  <2>4. IsFiniteSet(nodes') /\ Cardinality(nodes') <= MaxNodes
    BY <1>3, <2>1, <2>2, InsertCounted, Zenon DEF WithinCapacity
  <2>5. BestIsBest' /\ best' \in Block
    BY <1>0, <1>3, <2>1, <2>3, InsertBest, Zenon
  <2>6. DagTyped'
    BY <2>1, <2>5, Zenon DEF DagTyped, SuppliersWithout
  <2>7. \A n \in nodes' : Height[n] > Height[fin] /\ Extends(n, fin)
    BY <1>0, <1>3, <2>1, <2>2, <2>3, InsertLinks, Zenon
  <2>8. \A n \in nodes' : \A x \in Block : Extends(n, x) /\ Height[x] > Height[fin] => x \in nodes'
    BY <1>0, <1>3, <2>1, <2>2, <2>3, InsertLinks, Zenon
  <2>9. Linked'
    <3>1. nodes' \in SUBSET Block /\ fin \in Block
      BY <2>6, Zenon DEF DagTyped
    <3>2. \A n \in nodes' : Height[n] > Height[fin] /\ Extends(n, fin) /\ Path(fin, n) \subseteq nodes'
      BY <2>7, <2>8, <3>1, LinkedFrom, Zenon
    <3> QED
      BY <2>1, <3>2, Zenon DEF Linked, Path, Extends
  <2>10. \A x \in Block : suppliers'[x] = (IF x \in Evicted(c) THEN {} ELSE suppliers[x])
    BY <2>1, Zenon DEF SuppliersWithout
  <2>11. SuppliersShrink
    BY <2>10, Zenon DEF SuppliersShrink
  <2>12. SuppliersFit'
    <3>1. \A x \in Block : suppliers'[x] # {} => x \in nodes'
      BY <2>1, <2>10, Zenon DEF WithinCapacity
    <3> QED
      BY <2>6, <2>11, <3>1, FitShrinks, CapacityIs, Zenon
  <2>13. WithinCapacity'
    BY <2>4, <2>12, Zenon DEF WithinCapacity, SuppliersFit
  <2>14. CondemnedStayOut'
    <3>1. ASSUME NEW n \in nodes', NEW x \in Path(fin, n), x \in invalid PROVE FALSE
      <4>0. fin \in Block /\ n \in Block /\ Height[c] > 0 /\ Height[fin] \in Nat
        BY <1>0, <2>6, TreeFacts DEF DagTyped
      <4>1. x \in Block /\ Extends(n, x) /\ Height[x] > Height[fin]
        BY <4>0, PathIs, Zenon
      <4>2. n = c
        BY <2>1, <3>1, Zenon DEF CondemnedStayOut
      <4>3. x # c
        BY <1>3, <3>1, Zenon DEF Condemned
      <4>4. Extends(Parent(c), x) /\ Parent(c) \in Block
        BY <4>0, <4>1, <4>2, <4>3, ParentFacts, Zenon
      <4>5. Parent(c) \in nodes
        <5>1. Height[x] <= Height[Parent(c)] /\ Height[x] \in Nat /\ Height[Parent(c)] \in Nat
          BY <4>1, <4>4, ExtendsHeight, TreeFacts, Zenon
        <5>2. Parent(c) # fin
          BY <4>0, <4>1, <5>1
        <5> QED
          BY <2>2, <5>2, Zenon DEF Known
      <4>6. x \in Path(fin, Parent(c))
        BY <4>0, <4>1, <4>4, PathIs, Zenon
      <4> QED
        BY <3>1, <4>5, <4>6, Zenon DEF CondemnedStayOut
    <3> QED
      BY <2>1, <3>1, Zenon DEF CondemnedStayOut, Path
  <2>15. CondemnedUnsound'
    BY <2>1, Zenon DEF CondemnedUnsound, Sound, Path
  <2> QED
    BY <2>1, <2>4, <2>5, <2>6, <2>9, <2>11, <2>13, <2>14, <2>15, Zenon
<1> QED
  BY <1>1, <1>2, <1>3, Zenon

-----------------------------------------------------------------------------
(* Finality, the canonical rows, verdicts. *)

\* advance_finalized keeps what stands on the new finalized point, and the
\* selected tip is not lost.
LEMMA AdvanceGraph ==
    ASSUME DagTyped, Graph, NEW f \in Block, f = fin \/ Height[fin] < Height[f],
           Advanceable(f), AdvanceFinalized(f)
    PROVE  /\ DagTyped' /\ Graph' /\ SuppliersShrink
           /\ fin' = f /\ invalid' = invalid
<1> USE DEF Graph
<1>0. /\ fin \in Block /\ best \in Block /\ best \in Known /\ nodes \subseteq Block
      /\ \A x \in Block : Height[x] \in Nat
  BY TreeFacts, Zenon DEF DagTyped, BestIsBest
<1>1. /\ fin' = f /\ invalid' = invalid /\ suppliers' = SuppliersWithout(nodes \ nodes')
      /\ nodes' = IF f = fin THEN nodes ELSE KeptAbove(f)
      /\ best' = IF Height[best] <= Height[f] THEN f ELSE best
  BY Zenon DEF AdvanceFinalized
<1>2. Extends(best, f)
  BY <1>0, LinkedFacts, Zenon DEF Advanceable
<1>3. best' = best
  BY <1>0, <1>1, <1>2, ExtendsHeight
<1>4. nodes' \subseteq nodes /\ nodes' \in SUBSET Block
  BY <1>0, <1>1, Zenon DEF KeptAbove
<1>5. \A n \in nodes' : Height[n] > Height[f] /\ Extends(n, f)
  BY <1>1, Zenon DEF KeptAbove, Linked
<1>6. ASSUME NEW n \in nodes', NEW x \in Block, Extends(n, x), Height[x] > Height[f]
      PROVE  x \in nodes'
  <2>1. n \in Block /\ n \in Known /\ Extends(n, f)
    BY <1>4, <1>5, Zenon DEF Known
  <2>2. x \in nodes
    BY <1>0, <1>6, <2>1, LinkedFacts
  <2>3. Height[f] <= Height[x]
    BY <1>0, <1>6
  <2>4. Extends(x, f)
    BY <1>6, <2>1, <2>3, AncestorsChain, Zenon
  <2> QED
    BY <1>1, <1>6, <2>2, <2>4, Zenon DEF KeptAbove
<1>7. Linked'
  <2>1. \A n \in nodes' : Height[n] > Height[f] /\ Extends(n, f) /\ Path(f, n) \subseteq nodes'
    BY <1>4, <1>5, <1>6, LinkedFrom, Zenon
  <2> QED
    BY <1>1, <2>1, Zenon DEF Linked, Path, Extends
<1>8. BestIsBest'
  <2>1. best \in nodes' \cup {f}
    <3>1. CASE Height[best] <= Height[f]
      BY <1>1, <1>3, <3>1, Zenon
    <3>2. CASE Height[best] > Height[f]
      <4>1. best # fin
        BY <1>0, <3>2
      <4> QED
        BY <1>0, <1>1, <1>2, <3>2, <4>1, Zenon DEF Known, KeptAbove
    <3> QED
      BY <1>0, <3>1, <3>2
  <2>2. f = best \/ ChainWins(best, f)
    BY <1>0, <1>2, ExtensionWins, Zenon
  <2>3. \A n \in nodes' : n = best \/ ChainWins(best, n)
    BY <1>4, Zenon DEF BestIsBest, Known
  <2> QED
    BY <1>1, <1>3, <2>1, <2>2, <2>3, Zenon DEF BestIsBest, Known, ChainWins
<1>9. IsFiniteSet(nodes') /\ Cardinality(nodes') <= MaxNodes
  <2>1. IsFiniteSet(nodes') /\ Cardinality(nodes') <= Cardinality(nodes)
    BY <1>4, FS_Subset, Zenon
  <2>2. Cardinality(nodes') \in Nat /\ Cardinality(nodes) \in Nat /\ MaxNodes \in Nat
    BY <2>1, FS_CardinalityType, GraphConstants, Zenon DEF GraphConstants
  <2> QED
    BY <2>1, <2>2 DEF WithinCapacity
<1>10. DagTyped'
  BY <1>0, <1>1, <1>3, <1>4, Zenon DEF DagTyped, SuppliersWithout
<1>11. \A x \in Block : suppliers'[x] = (IF x \in nodes \ nodes' THEN {} ELSE suppliers[x])
  BY <1>1, Zenon DEF SuppliersWithout
<1>12. SuppliersShrink
  BY <1>11, Zenon DEF SuppliersShrink
<1>13. SuppliersFit'
  <2>1. \A x \in Block : suppliers'[x] # {} => x \in nodes'
    BY <1>11, Zenon DEF WithinCapacity
  <2> QED
    BY <1>10, <1>12, <2>1, FitShrinks, CapacityIs, Zenon
<1>14. WithinCapacity'
  BY <1>9, <1>13, Zenon DEF WithinCapacity, SuppliersFit
<1>15. CondemnedStayOut'
  <2>1. ASSUME NEW n \in nodes', NEW x \in Path(f, n) PROVE x \notin invalid
    <3>1. n \in Block /\ n \in nodes
      BY <1>4, Zenon
    <3>2. x \in Block /\ Extends(n, x) /\ Height[x] > Height[f]
      BY <3>1, PathIs, Zenon
    <3>3. Height[x] > Height[fin]
      BY <1>0, <3>2
    <3>4. x \in Path(fin, n)
      BY <1>0, <3>1, <3>2, <3>3, PathIs, Zenon
    <3> QED
      BY <3>1, <3>4, Zenon DEF CondemnedStayOut
  <2> QED
    BY <1>1, <2>1, Zenon DEF CondemnedStayOut, Path
<1> QED
  BY <1>1, <1>7, <1>8, <1>9, <1>10, <1>12, <1>14, <1>15, Zenon

\* A path has no more blocks than heights.
LEMMA PathCounted ==
    ASSUME NEW a \in Block, NEW t \in Block, NEW d \in Nat, Height[t] <= Height[a] + d
    PROVE  IsFiniteSet(Path(a, t)) /\ Cardinality(Path(a, t)) <= d
<1> DEFINE D == Height[a] + 1 .. Height[t]
           P == Path(a, t)
           f == [h \in D |-> Anc[t][h]]
<1>0. Height[a] \in Nat /\ Height[t] \in Nat
  BY TreeFacts, Zenon
<1>1. f \in Surjection(D, P)
  <2>1. \A h \in D : f[h] \in P
    BY Zenon DEF Path
  <2>2. \A x \in P : \E h \in D : f[h] = x
    BY Zenon DEF Path
  <2> QED
    BY <2>1, <2>2, Zenon DEF Surjection
<1>2. IsFiniteSet(D) /\ Cardinality(D) <= d /\ Cardinality(D) \in Nat
  <2> DEFINE lo == Height[a] + 1
             hi == Height[t]
  <2>1. lo \in Int /\ hi \in Int /\ hi <= lo + d - 1
    BY <1>0
  <2>2. D = lo .. hi
    BY Zenon
  <2> HIDE DEF lo, hi, D
  <2>3. IsFiniteSet(lo .. hi) /\ Cardinality(lo .. hi) = IF lo > hi THEN 0 ELSE hi - lo + 1
    BY <2>1, FS_Interval, Zenon
  <2>4. Cardinality(lo .. hi) <= d /\ Cardinality(lo .. hi) \in Nat
    BY <2>1, <2>3
  <2> QED
    BY <2>2, <2>3, <2>4, Zenon
<1> HIDE DEF D, P, f
<1>3. IsFiniteSet(P) /\ Cardinality(P) <= Cardinality(D)
  BY <1>1, <1>2, FS_Surjection, Zenon
<1>4. Cardinality(P) \in Nat
  BY <1>3, FS_CardinalityType, Zenon
<1>5. IsFiniteSet(P) /\ Cardinality(P) <= d
  BY <1>2, <1>3, <1>4
<1> QED
  BY <1>5, Zenon DEF P

\* canonical_header_dag.
LEMMA RebuildGraph ==
    ASSUME tip \in Block, final \in Block, ChainSound, Rebuild
    PROVE  /\ DagTyped' /\ Graph' /\ CondemnedUnsound'
           /\ \A b \in Block : suppliers'[b] = {}
           /\ fin' = final
<1>0. /\ fin' = final /\ nodes' = Path(final, tip) /\ best' = tip /\ invalid' = {}
      /\ suppliers' = [b \in Block |-> {}] /\ Extends(tip, final)
      /\ Height[tip] <= Height[final] + FinalityDepth
  BY Zenon DEF Rebuild, ChainSound
<1>1. \A x : x \in nodes' <=> x \in Block /\ Extends(tip, x) /\ Height[x] > Height[final]
  BY <1>0, PathIs, Zenon
<1>2. DagTyped' /\ CondemnedUnsound' /\ \A b \in Block : suppliers'[b] = {}
  BY <1>0, <1>1, Zenon DEF DagTyped, CondemnedUnsound
<1>3. Linked'
  <2>1. ASSUME NEW n \in nodes' PROVE Height[n] > Height[final] /\ Extends(n, final)
    <3>1. n \in Block /\ Extends(tip, n) /\ Height[n] > Height[final]
      BY <1>1, Zenon
    <3>2. Height[final] <= Height[n]
      BY <3>1, TreeFacts
    <3> QED
      BY <1>0, <3>1, <3>2, AncestorsChain, Zenon
  <2>2. ASSUME NEW n \in nodes', NEW x \in Block, Extends(n, x), Height[x] > Height[final]
        PROVE  x \in nodes'
    <3>1. Extends(tip, x)
      BY <1>1, <2>2, ExtendsTrans, Zenon
    <3> QED
      BY <1>1, <2>2, <3>1, Zenon
  <2>3. nodes' \in SUBSET Block
    BY <1>1, Zenon
  <2>4. \A n \in nodes' : /\ Height[n] > Height[final] /\ Extends(n, final)
                          /\ Path(final, n) \subseteq nodes'
    BY <2>1, <2>2, <2>3, LinkedFrom, Zenon
  <2> QED
    BY <1>0, <2>4, Zenon DEF Linked, Path, Extends
<1>4. BestIsBest'
  <2>1. tip \in nodes' \cup {final}
    <3>1. Height[final] <= Height[tip] /\ (Height[final] = Height[tip] => final = tip)
      BY <1>0, ExtendsHeight, Zenon
    <3>2. Height[final] \in Nat /\ Height[tip] \in Nat /\ Extends(tip, tip)
      BY TreeFacts, ExtendsRefl, Zenon
    <3> QED
      BY <1>1, <3>1, <3>2
  <2>2. \A n \in nodes' \cup {final} : n = tip \/ ChainWins(tip, n)
    BY <1>0, <1>1, ExtensionWins, Zenon
  <2> QED
    BY <1>0, <2>1, <2>2, Zenon DEF BestIsBest, Known, ChainWins
<1>5. IsFiniteSet(nodes') /\ Cardinality(nodes') <= MaxNodes
  <2>1. FinalityDepth \in Nat /\ MaxNodes \in Nat /\ FinalityDepth <= MaxNodes
    BY GraphConstants, Zenon DEF GraphConstants
  <2>2. IsFiniteSet(nodes') /\ Cardinality(nodes') <= FinalityDepth
    BY <1>0, <2>1, PathCounted, Zenon
  <2>3. Cardinality(nodes') \in Nat
    BY <2>2, FS_CardinalityType, Zenon
  <2> QED
    BY <2>1, <2>2, <2>3
<1>6. WithinCapacity'
  <2>1. Cardinality({}) = 0 /\ MaxProviders >= 0
    BY FS_EmptySet, GraphConstants DEF GraphConstants
  <2>2. \A b \in Block : Cardinality(suppliers'[b]) <= MaxProviders /\ suppliers'[b] = {}
    BY <1>2, <2>1, Zenon
  <2> QED
    BY <1>5, <2>2, Zenon DEF WithinCapacity
<1>7. CondemnedStayOut'
  BY <1>0, Zenon DEF CondemnedStayOut
<1> QED
  BY <1>0, <1>2, <1>3, <1>4, <1>5, <1>6, <1>7, Zenon DEF Graph

\* The first bad block of a path that has one.
LEMMA LowestExists ==
    ASSUME NEW S \in SUBSET Block, S # {}
    PROVE  \E m \in S : \A b \in S : Height[m] <= Height[b]
<1> DEFINE H == 0 .. MaxHeight
           Under(m) == {h \in H : h < Height[m]}
           F == {Under(m) : m \in S}
<1>0. IsFiniteSet(H)
  BY TreeFacts, FS_Interval
<1>1. F \subseteq FiniteSubsetsOf(H) /\ F # {}
  <2>1. ASSUME NEW m \in S PROVE Under(m) \in FiniteSubsetsOf(H)
    <3>1. Under(m) \in SUBSET H
      BY Zenon
    <3> HIDE DEF Under, H
    <3> QED
      BY <1>0, <3>1, FS_Subset, Zenon DEF FiniteSubsetsOf
  <2> QED
    BY <2>1, Zenon
<1>2. \E x \in F : \A y \in F : ~(<<y, x>> \in StrictSubsetOrdering(H))
  <2> HIDE DEF F, H
  <2> QED
    BY <1>1, FS_StrictSubsetOrderingWellFounded, WFMin, Zenon
<1>3. PICK m \in S : \A n \in S : ~(<<Under(n), Under(m)>> \in StrictSubsetOrdering(H))
  BY <1>2, Zenon
<1>4. ASSUME NEW n \in S, Height[n] < Height[m] PROVE FALSE
  <2>1. Height[n] \in Under(m) /\ Height[n] \notin Under(n)
    BY <1>4, TreeFacts
  <2>2. Under(n) \subseteq Under(m)
    BY <1>4, TreeFacts
  <2>3. Under(n) \in SUBSET H /\ Under(m) \in SUBSET H
    BY Zenon
  <2>4. <<Under(n), Under(m)>> \in StrictSubsetOrdering(H)
    <3> HIDE DEF Under, H
    <3> QED
      BY <2>1, <2>2, <2>3, Zenon DEF StrictSubsetOrdering
  <2> QED
    BY <1>3, <2>4, Zenon
<1>5. ASSUME NEW b \in S PROVE Height[m] <= Height[b]
  <2>1. Height[b] \in Nat /\ Height[m] \in Nat
    BY TreeFacts, Zenon
  <2> QED
    BY <1>4, <2>1
<1> QED
  BY <1>5, Zenon

\* The block a verdict condemns is a bad one of the plan.
LEMMA CulpritIsBad ==
    ASSUME plan.base \in Block, plan.target \in Block, BadOn(plan.target) # {}
    PROVE  Culprit \in Block /\ Culprit \in Bad
<1>1. BadOn(plan.target) \in SUBSET Block /\ BadOn(plan.target) \subseteq Bad
  BY PathIs, Zenon DEF BadOn
<1>2. FirstBad \in BadOn(plan.target)
  BY <1>1, LowestExists, Zenon DEF FirstBad
<1> QED
  BY <1>1, <1>2, Zenon DEF Culprit

-----------------------------------------------------------------------------
(* The loop. *)

\* The invariant has the types.
LEMMA InvIsTyped == ASSUME Inv PROVE TypeOK
BY Zenon DEF Inv, DagInv, ChainInv, PlanInv, LoopInv, DagTyped, ChainTyped, PeersTyped, PlanTyped,
   Plans,
       HandlerTyped, Handlers, TypeOK

\* The records, field by field.
LEMMA PlanFields ==
    /\ NoPlan \in Plans /\ NoPlan.stage = "none" /\ NoPlan.base = Genesis /\ NoPlan.target = Genesis
    /\ \A q \in Plans :
          /\ q.stage \in {"none", "fetch", "apply", "done"} /\ q.fault \in Faults
          /\ q.base \in Block /\ q.target \in Block /\ q.from \in Block /\ q.applied \in Block
BY TreeFacts, Zenon DEF Plans, NoPlan, Faults

\* The fields of a handler, one by one.
LEMMA HandlerFields ==
    /\ IdleLoop \in Handlers /\ IdleLoop.kind = "idle" /\ IdleLoop.peers = {}
    /\ \A w \in Handlers :
          /\ w.kind \in {"idle", "batch", "select", "forget", "reconcile", "panicked"}
          /\ w.at \in 0 .. MaxHeight + 1 /\ w.peers \subseteq Peer
          /\ w.base \in Block /\ w.target \in Block /\ w.from \in Block
BY TreeFacts DEF Handlers, IdleLoop

\* The graph after a step that leaves it alone.
LEMMA DagKept == ASSUME DagInv, UNCHANGED dagVars PROVE DagInv'
BY Zenon DEF DagInv, dagVars, DagTyped, Graph, Linked, BestIsBest, Known, CondemnedStayOut,
       CondemnedUnsound, WithinCapacity, Path, Sound

\* The same, when only suppliers go.
LEMMA DagSuppliersGo ==
    ASSUME DagInv, UNCHANGED <<fin, best, nodes, invalid>>,
           suppliers' \in [Block -> SUBSET Peer], SuppliersShrink
    PROVE  DagInv'
<1> USE DEF DagInv, Graph
<1>1. DagTyped' /\ Linked' /\ BestIsBest' /\ CondemnedStayOut' /\ CondemnedUnsound'
      /\ IsFiniteSet(nodes')
  BY Zenon
     DEF DagTyped, Linked, BestIsBest, Known, CondemnedStayOut, CondemnedUnsound, Path, Sound
<1>2. \A b \in Block : suppliers'[b] # {} => b \in nodes'
  BY Zenon DEF SuppliersShrink, WithinCapacity
<1>3. SuppliersFit'
  BY <1>1, <1>2, FitShrinks, CapacityIs, Zenon
<1>4. WithinCapacity'
  BY <1>3, Zenon DEF WithinCapacity, SuppliersFit
<1> QED
  BY <1>1, <1>4, Zenon

\* The chain and the finalized point of the graph.
LEMMA ChainKept ==
    ASSUME ChainInv, UNCHANGED <<tip, final, fin>>, seenTip' \in Block, faulted' \in BOOLEAN
    PROVE  ChainInv'
BY Zenon DEF ChainInv, ChainTyped, ChainSound, Sound, Path, Extends

\* The plan.
LEMMA PlanKept == ASSUME PlanInv, UNCHANGED plan PROVE PlanInv'
BY Zenon DEF PlanInv, PlanTyped, PlanFits, Extends, BadOn, Path

\* Without a plan there is nothing to fit.
LEMMA PlanGone == ASSUME plan' = NoPlan PROVE PlanInv'
<1>1. NoPlan \in Plans /\ Extends(NoPlan.target, NoPlan.base) /\ NoPlan.stage = "none"
  BY PlanFields, TreeFacts, ExtendsRefl, Zenon
<1> QED
  BY <1>1, Zenon DEF PlanInv, PlanTyped, PlanFits, Extends

\* The handler: none runs, or nothing it depends on changes.
LEMMA LoopIdle == ASSUME work' = IdleLoop PROVE LoopInv'
BY HandlerFields, Zenon DEF LoopInv, HandlerTyped, HandlerFits, SuffixEmptyOnlyAtRoot

\* No handler runs, and none is started.
LEMMA LoopFree == ASSUME LoopInv, Free, UNCHANGED work PROVE LoopInv'
<1>1. work' = IdleLoop
  BY Zenon DEF LoopInv, HandlerTyped
<1> QED
  BY <1>1, LoopIdle, Zenon

\* The handler goes on with the same peers, against the same finalized point.
LEMMA LoopKept ==
    ASSUME LoopInv, UNCHANGED <<work, rejected, refused, fin, final>>,
           UNCHANGED best \/ work.kind # "panicked"
    PROVE  LoopInv'
BY Zenon DEF LoopInv, HandlerTyped, HandlerFits, SuffixEmptyOnlyAtRoot, Free, Extends

\* No peer is rejected or refused anew, and no header gains a supplier.
LEMMA RefusedKept ==
    ASSUME RefusedSupplyNothing, SuppliersShrink,
           rejected' \subseteq rejected, refused' \subseteq refused
    PROVE  RefusedSupplyNothing'
BY Zenon DEF RefusedSupplyNothing, SuppliersShrink

\* Nobody comes and nobody goes.
LEMMA SuppliersSame == ASSUME UNCHANGED suppliers PROVE SuppliersShrink
BY Zenon DEF SuppliersShrink

-----------------------------------------------------------------------------
(* Commits of other tasks. *)

\* finalized_for_tip on a chain that keeps the finalized block.
LEMMA MoveSound ==
    ASSUME ChainInv, NEW t \in Block, Sound(t), Extends(t, final), MoveTo(t),
           UNCHANGED <<fin, seenTip, faulted>>
    PROVE  ChainInv'
<1>0. final \in Block /\ tip' = t /\ final' = FinalizedFor(t) /\ Height[t] \in Nat
      /\ FinalityDepth \in Nat
  BY TreeFacts, GraphConstants, Zenon DEF ChainInv, ChainTyped, MoveTo, GraphConstants
<1>1. /\ FinalizedFor(t) \in Block /\ Extends(t, FinalizedFor(t))
      /\ Height[t] <= Height[FinalizedFor(t)] + FinalityDepth
  <2>1. CASE Height[t] <= Height[final] + FinalityDepth
    BY <1>0, <2>1, Zenon DEF FinalizedFor
  <2>2. CASE ~(Height[t] <= Height[final] + FinalityDepth)
    <3>1. Height[final] \in Nat
      BY <1>0, TreeFacts, Zenon
    <3>2. Height[t] - FinalityDepth \in 0 .. Height[t]
      BY <1>0, <2>2, <3>1
    <3>3. FinalizedFor(t) = Anc[t][Height[t] - FinalityDepth]
      BY <2>2, Zenon DEF FinalizedFor
    <3>4. /\ FinalizedFor(t) \in Block /\ Extends(t, FinalizedFor(t))
          /\ Height[FinalizedFor(t)] = Height[t] - FinalityDepth
      BY <3>2, <3>3, AncestorAt, Zenon
    <3> QED
      BY <1>0, <3>4
  <2> QED
    BY <2>1, <2>2, Zenon
<1> QED
  BY <1>0, <1>1, Zenon DEF ChainInv, ChainTyped, ChainSound, Sound, Path, Extends

\* A locally mined or RPC-submitted block extends the committed chain.
LEMMA MineStep == ASSUME Inv, NEW b \in Block, MineBlock(b) PROVE Inv'
<1> USE DEF Inv
<1>1. Free /\ b # Genesis /\ Parent(b) = tip /\ Sound(b) /\ MoveTo(b)
      /\ UNCHANGED <<dagVars, seenTip, faulted, peerVars, plan, work>>
  BY Zenon DEF MineBlock
<1>2. Height[b] > 0
  <2>1. Height[b] # Height[Genesis]
    BY <1>1, ExtendsGenesis, ExtendsHeight, TreeFacts, Zenon
  <2> QED
    BY <2>1, TreeFacts
<1>3. Extends(b, final)
  <2>1. Extends(b, tip)
    BY <1>1, <1>2, ParentFacts, Zenon
  <2> QED
    BY <2>1, ExtendsTrans, Zenon DEF ChainInv, ChainTyped, ChainSound
<1>4. ChainInv'
  BY <1>1, <1>3, MoveSound, Zenon DEF dagVars
<1>5. DagInv' /\ PlanInv' /\ LoopInv'
  BY <1>1, DagKept, PlanKept, LoopFree, Zenon
<1>6. PeersTyped' /\ RefusedSupplyNothing'
  BY <1>1, Zenon DEF peerVars, dagVars, PeersTyped, RefusedSupplyNothing
<1> QED
  BY <1>4, <1>5, <1>6, Zenon

\* A verified snapshot moves the committed chain and its finality to one block.
LEMMA SnapshotStep == ASSUME Inv, NEW t \in Block, InstallSnapshot(t) PROVE Inv'
<1> USE DEF Inv
<1>1. Free /\ Sound(t) /\ tip' = t /\ final' = t
      /\ UNCHANGED <<dagVars, seenTip, faulted, peerVars, plan, work>>
  BY Zenon DEF InstallSnapshot
<1>2. Extends(t, t) /\ Height[t] <= Height[t] + FinalityDepth
  BY ExtendsRefl, TreeFacts, GraphConstants DEF GraphConstants
<1>3. ChainInv'
  BY <1>1, <1>2, Zenon DEF dagVars, ChainInv, ChainTyped, ChainSound, Sound, Path, Extends
<1>4. DagInv' /\ PlanInv' /\ LoopInv'
  BY <1>1, DagKept, PlanKept, LoopFree, Zenon
<1>5. PeersTyped' /\ RefusedSupplyNothing'
  BY <1>1, Zenon DEF peerVars, dagVars, PeersTyped, RefusedSupplyNothing
<1> QED
  BY <1>3, <1>4, <1>5, Zenon

\* apply_exact_suffix_offthread commits only blocks that break no rule, on a
\* chain that keeps the finalized block.
LEMMA ApplyStep ==
    ASSUME Inv, NEW b \in Block, NEW fault \in Faults, ApplySuffix(b, fault)
    PROVE  Inv'
<1> USE DEF Inv
<1>0. /\ Free /\ plan.stage = "apply"
      /\ UNCHANGED <<dagVars, seenTip, faulted, peerVars, work>>
  BY Zenon DEF ApplySuffix
<1>1. DagInv' /\ LoopInv'
  BY <1>0, DagKept, LoopFree, Zenon
<1>2. PeersTyped' /\ RefusedSupplyNothing'
  BY <1>0, Zenon DEF peerVars, dagVars, PeersTyped, RefusedSupplyNothing
<1>3. /\ plan \in Plans /\ plan.base \in Block /\ plan.target \in Block
      /\ Extends(plan.target, plan.base)
  BY PlanFields, Zenon DEF PlanInv, PlanTyped, PlanFits
<1>4. /\ tip \in Block /\ final \in Block /\ Sound(tip) /\ Extends(tip, final)
      /\ Height[final] \in Nat /\ Height[tip] \in Nat
  BY TreeFacts, Zenon DEF ChainInv, ChainTyped, ChainSound
<1>5. /\ plan'.stage = "done" /\ plan' \in Plans /\ plan'.fault = fault
      /\ plan'.base = plan.base /\ plan'.target = plan.target
  BY <1>3, Zenon DEF ApplySuffix, Plans
<1>6. ASSUME fault = "condemned" => BadOn(plan.target) # {} PROVE PlanInv'
  <2>1. BadOn(plan.target)' = BadOn(plan.target)
    BY <1>5, Zenon DEF BadOn, Path
  <2> QED
    BY <1>3, <1>5, <1>6, <2>1, Zenon DEF PlanInv, PlanTyped, PlanFits, Extends
<1>7. CASE Refusal(fault) /\ UNCHANGED chainVars
  <2>1. fault = "condemned" => BadOn(plan.target) # {}
    BY <1>7, Zenon DEF Refusal
  <2>2. ChainInv'
    BY <1>0, <1>7, ChainKept, Zenon DEF dagVars, chainVars, ChainInv, ChainTyped
  <2> QED
    BY <1>1, <1>2, <1>6, <2>1, <2>2, Zenon
<1>8. CASE Prefix(b, fault) /\ MoveTo(b)
  <2>1. /\ tip = plan.base /\ Extends(plan.target, b) /\ Extends(b, plan.base) /\ BadOn(b) = {}
        /\ b # plan.target /\ fault = "condemned" => Anc[plan.target][Height[b] + 1] \in Bad
        /\ b = plan.target => fault = "none"
    BY <1>8, Zenon DEF Prefix
  <2>2. Sound(b) /\ Extends(b, final)
    BY <1>3, <1>4, <2>1, SoundUp, ExtendsTrans, Zenon DEF BadOn
  <2>3. ChainInv'
    BY <1>0, <1>8, <2>2, MoveSound, Zenon DEF dagVars
  <2>4. ASSUME fault = "condemned" PROVE BadOn(plan.target) # {}
    <3>1. b # plan.target
      BY <2>1, <2>4, Zenon
    <3>2. /\ Height[b] \in Nat /\ Height[plan.base] \in Nat /\ Height[plan.target] \in Nat
          /\ Height[b] <= Height[plan.target] /\ Height[b] # Height[plan.target]
          /\ Height[plan.base] <= Height[b]
      BY <1>3, <2>1, <3>1, TreeFacts, ExtendsHeight, Zenon
    <3>3. Height[b] + 1 \in Height[plan.base] + 1 .. Height[plan.target]
      BY <3>2
    <3> QED
      BY <2>1, <2>4, <3>1, <3>3, Zenon DEF BadOn, Path
  <2> QED
    BY <1>1, <1>2, <1>6, <2>3, <2>4, Zenon
<1>9. CASE Replacement(b, fault) /\ MoveTo(b)
  <2>1. /\ b = plan.target /\ fault = "none" /\ BadOn(b) = {}
        /\ Extends(tip, plan.base) /\ Height[final] <= Height[plan.base]
    BY <1>3, <1>4, <1>9, TreeFacts, Zenon DEF Replacement
  <2>2. Sound(plan.base) /\ Extends(plan.base, final)
    BY <1>3, <1>4, <2>1, SoundDown, AncestorsChain, Zenon
  <2>3. Sound(b) /\ Extends(b, final)
    BY <1>3, <1>4, <2>1, <2>2, SoundUp, ExtendsTrans, Zenon DEF BadOn
  <2>4. ChainInv'
    BY <1>0, <1>9, <2>3, MoveSound, Zenon DEF dagVars
  <2> QED
    BY <1>1, <1>2, <1>6, <2>1, <2>4, Zenon
<1> QED
  BY <1>7, <1>8, <1>9, Zenon DEF ApplySuffix

-----------------------------------------------------------------------------
(* Peers come and go; plans are given up or started. *)

\* Between handlers, peers and the providers of headers change: whoever is
\* rejected or refused loses what it supplied.
LEMMA PeersStep ==
    ASSUME Inv, Free,
           UNCHANGED <<fin, best, nodes, invalid, chainVars, seenTip, faulted, plan, work>>,
           PeersTyped', NEW gone \in SUBSET Peer,
           suppliers' = SuppliersLess(gone),
           rejected' \cup refused' \subseteq rejected \cup refused \cup gone
    PROVE  Inv'
<1> USE DEF Inv
<1>1. suppliers' \in [Block -> SUBSET Peer] /\ SuppliersShrink
      /\ \A b \in Block : suppliers'[b] = suppliers[b] \ gone
  BY Zenon DEF SuppliersLess, SuppliersShrink, DagInv, DagTyped
<1>2. DagInv'
  BY <1>1, DagSuppliersGo, Zenon
<1>3. ChainInv'
  BY ChainKept, Zenon DEF chainVars, ChainInv, ChainTyped
<1>4. PlanInv' /\ LoopInv'
  BY PlanKept, LoopFree, Zenon
<1>5. RefusedSupplyNothing'
  BY <1>1, Zenon DEF RefusedSupplyNothing
<1> QED
  BY <1>2, <1>3, <1>4, <1>5, Zenon

\* Nobody goes.
LEMMA NobodyGoes == ASSUME DagTyped PROVE suppliers = SuppliersLess({})
BY Zenon DEF DagTyped, SuppliersLess

\* Connections, refusals, verdicts that end, and quarantine.
LEMMA PeerSteps ==
    ASSUME Inv, NEW p \in Peer,
           \/ Connect(p) \/ Disconnect(p) \/ RefusePeerBranch(p) \/ EndVerdict(p) \/ Quarantine(p)
    PROVE  Inv'
<1>1. CASE Connect(p) \/ EndVerdict(p)
  <2>1. /\ Free
        /\ UNCHANGED <<fin, best, nodes, invalid, suppliers, chainVars, seenTip, faulted, plan, work>>
        /\ PeersTyped' /\ rejected' \cup refused' \subseteq rejected \cup refused \cup {}
    BY <1>1, Zenon DEF Connect, EndVerdict, dagVars, Inv, PeersTyped
  <2>2. suppliers' = SuppliersLess({})
    BY <2>1, NobodyGoes, Zenon DEF Inv, DagInv
  <2>3. {} \in SUBSET Peer
    BY Zenon
  <2> QED
    BY <2>1, <2>2, <2>3, PeersStep, Zenon
<1>2. CASE Disconnect(p) \/ RefusePeerBranch(p) \/ Quarantine(p)
  <2>1. /\ Free /\ UNCHANGED <<fin, best, nodes, invalid, chainVars, seenTip, faulted, plan, work>>
        /\ PeersTyped' /\ rejected' \cup refused' \subseteq rejected \cup refused \cup {p}
        /\ suppliers' = SuppliersLess({p}) /\ {p} \in SUBSET Peer
    BY <1>2, Zenon DEF Disconnect, RefusePeerBranch, Quarantine, Inv, PeersTyped
  <2> QED
    BY <2>1, PeersStep, Zenon
<1> QED
  BY <1>1, <1>2, Zenon

\* Steps that touch the plan or the fault flag only.
LEMMA PlanSteps ==
    ASSUME Inv, RetirePlan \/ StartApply \/ ProbeTip
    PROVE  Inv'
<1> USE DEF Inv
<1>1. Free /\ UNCHANGED <<dagVars, chainVars, seenTip, peerVars, work>> /\ faulted' \in BOOLEAN
  BY Zenon DEF RetirePlan, StartApply, ProbeTip, ChainInv, ChainTyped
<1>2. DagInv' /\ LoopInv'
  BY <1>1, DagKept, LoopFree, Zenon
<1>3. ChainInv'
  BY <1>1, ChainKept, Zenon DEF dagVars, chainVars, ChainInv, ChainTyped
<1>4. PeersTyped' /\ RefusedSupplyNothing'
  BY <1>1, Zenon DEF peerVars, dagVars, PeersTyped, RefusedSupplyNothing
<1>5. PlanInv'
  <2>1. CASE RetirePlan
    BY <2>1, PlanGone, Zenon DEF RetirePlan
  <2>2. CASE ProbeTip
    BY <2>2, PlanKept, Zenon DEF ProbeTip
  <2>3. CASE StartApply
    <3>1. /\ plan' \in Plans /\ plan'.stage = "apply"
          /\ plan'.base = plan.base /\ plan'.target = plan.target
      BY <2>3, Zenon DEF StartApply, PlanInv, PlanTyped, Plans
    <3> QED
      BY <3>1, Zenon DEF PlanInv, PlanTyped, PlanFits, Extends
  <2> QED
    BY <2>1, <2>2, <2>3, Zenon
<1> QED
  BY <1>2, <1>3, <1>4, <1>5, Zenon

-----------------------------------------------------------------------------
(* Header batches. *)

\* advertise_inventory keeps the provider limit, and makes no provider of a peer
\* that is rejected or refused.
LEMMA AdvertiseKept ==
    ASSUME DagInv, RefusedSupplyNothing, NEW Q \in SUBSET Peer, \A p, q \in Q : p = q,
           NEW S \in SUBSET Block, suppliers' = SuppliersWith(Q, S),
           UNCHANGED <<fin, best, nodes, invalid, rejected>>,
           refused' \subseteq refused, Q \cap (rejected \cup refused') = {}
    PROVE  DagInv' /\ RefusedSupplyNothing'
<1> USE DEF DagInv, Graph
<1> DEFINE Added == {p \in Q : Advertisable(p, S)}
<1>1. \A b \in Block : suppliers'[b] = IF b \in S THEN suppliers[b] \cup Added ELSE suppliers[b]
  BY Zenon DEF SuppliersWith
<1>2. suppliers' \in [Block -> SUBSET Peer]
  BY Zenon DEF SuppliersWith, DagTyped
<1>3. DagTyped' /\ Linked' /\ BestIsBest' /\ CondemnedStayOut' /\ CondemnedUnsound'
      /\ IsFiniteSet(nodes')
  BY <1>2, Zenon
     DEF DagTyped, Linked, BestIsBest, Known, CondemnedStayOut, CondemnedUnsound, Path, Sound
<1>4. ASSUME NEW b \in Block
      PROVE  /\ Cardinality(suppliers'[b]) <= MaxProviders
             /\ suppliers'[b] # {} => b \in nodes'
  <2>1. /\ Cardinality(suppliers[b]) <= MaxProviders /\ (suppliers[b] # {} => b \in nodes)
        /\ suppliers[b] \subseteq Peer /\ IsFiniteSet(suppliers[b]) /\ MaxProviders \in Nat
    BY GraphConstants, FS_Subset, Zenon DEF WithinCapacity, DagTyped, GraphConstants
  <2>2. CASE suppliers'[b] = suppliers[b]
    BY <2>1, <2>2, Zenon
  <2>3. CASE suppliers'[b] # suppliers[b]
    <3>1. PICK p \in Added : p \notin suppliers[b]
      BY <1>1, <2>3, Zenon
    <3>2. b \in S /\ Added = {p}
      BY <1>1, <2>3, <3>1, Zenon
    <3>3. suppliers'[b] = suppliers[b] \cup {p}
      BY <1>1, <3>2, Zenon
    <3>4. b \in nodes /\ Cardinality(suppliers[b]) < MaxProviders
      BY <3>1, <3>2, Zenon DEF Advertisable
    <3>5. /\ Cardinality(suppliers[b] \cup {p}) = Cardinality(suppliers[b]) + 1
          /\ Cardinality(suppliers[b]) \in Nat
      BY <2>1, <3>1, FS_AddElement, FS_CardinalityType, Zenon
    <3>6. \A m, n \in Nat : m < n => m + 1 <= n
      OBVIOUS
    <3>7. Cardinality(suppliers[b] \cup {p}) <= MaxProviders
      BY <2>1, <3>4, <3>5, <3>6, Zenon
    <3>8. b \in nodes'
      BY <1>1, <3>4, Zenon
    <3> QED
      BY <3>3, <3>7, <3>8, Zenon
  <2> QED
    BY <2>2, <2>3, Zenon
<1>5. WithinCapacity'
  BY <1>4, Zenon DEF WithinCapacity
<1>6. RefusedSupplyNothing'
  BY <1>1, Zenon DEF RefusedSupplyNothing
<1> QED
  BY <1>3, <1>5, <1>6, Zenon

\* plan_header_inventory: a batch that ends on the committed chain at or above
\* the finalized point has nothing above its anchor.
LEMMA BatchAhead ==
    ASSUME DagTyped, tip \in Block, NEW t \in Block, NEW lo \in 0 .. Height[t],
           NEW range, range = {Anc[t][h] : h \in lo .. Height[t]},
           Anchors(range) # {}, Highest(Anchors(range)) # t, Extends(tip, t)
    PROVE  Height[t] < Height[fin]
<1> DEFINE a == Highest(Anchors(range))
<1>0. Height[t] \in Nat /\ Height[fin] \in Nat
  BY TreeFacts, Zenon DEF DagTyped
<1>1. \A x \in range : x \in Block /\ Extends(t, x)
  BY <1>0, AncestorAt
<1>2. t \in range
  <2>1. t = Anc[t][Height[t]] /\ Height[t] \in lo .. Height[t]
    BY <1>0, ExtendsRefl DEF Extends
  <2> QED
    BY <2>1, Zenon
<1>3. Anchors(range) \in SUBSET Block /\ Anchors(range) \subseteq range
  BY <1>1, Zenon DEF Anchors, Canonical
<1>4. a \in Anchors(range) /\ \A b \in Anchors(range) : Height[b] <= Height[a]
  BY <1>3, HighestExists, Zenon
<1>5. a \in Block /\ Extends(t, a) /\ Height[a] <= Height[t] /\ Height[a] \in Nat
  BY <1>1, <1>3, <1>4, ExtendsHeight, TreeFacts, Zenon
<1>6. ASSUME Height[t] >= Height[fin] PROVE FALSE
  <2>1. t \in Anchors(range)
    BY <1>2, <1>6, Zenon DEF Anchors, Canonical
  <2>2. Height[a] = Height[t]
    BY <1>0, <1>4, <1>5, <2>1
  <2> QED
    BY <1>5, <2>2, ExtendsHeight, Zenon
<1> QED
  BY <1>0, <1>6

\* A batch of headers arrives.
LEMMA ReceiveStep ==
    ASSUME Inv, NEW p \in Peer, NEW t \in Block, NEW objects \in BOOLEAN, NEW lo \in 0 .. Height[t],
           ReceiveBatch(p, lo, t, objects)
    PROVE  Inv'
<1> USE DEF Inv
<1> DEFINE range == {Anc[t][h] : h \in lo .. Height[t]}
           a == Highest(Anchors(range))
           candidate == Anchors(range) # {} /\ a \in Known /\ a # t
<1>0. /\ Free
      /\ UNCHANGED <<fin, best, nodes, invalid, rejected, live, plan, seenTip, faulted, tip, final>>
      /\ suppliers' = IF objects THEN SuppliersWith({p} \cap Providers, range \cap nodes)
                      ELSE suppliers
  BY Zenon DEF ReceiveBatch, chainVars
<1>1. refused' \subseteq refused
  BY Zenon DEF ReceiveBatch
<1>2. DagInv' /\ RefusedSupplyNothing'
  <2>1. CASE objects
    <3>1. /\ {p} \cap Providers \in SUBSET Peer /\ range \cap nodes \in SUBSET Block
          /\ \A x, y \in {p} \cap Providers : x = y
          /\ ({p} \cap Providers) \cap (rejected \cup refused') = {}
      BY <1>1, Zenon DEF Providers, DagInv, DagTyped
    <3> QED
      BY <1>0, <1>1, <2>1, <3>1, AdvertiseKept, Zenon
  <2>2. CASE ~objects
    BY <1>0, <1>1, <2>2, DagKept, SuppliersSame, RefusedKept, Zenon DEF dagVars
  <2> QED
    BY <2>1, <2>2, Zenon
<1>3. ChainInv' /\ PlanInv' /\ PeersTyped'
  BY <1>0, <1>1, ChainKept, PlanKept, Zenon DEF ChainInv, ChainTyped, PeersTyped
<1>4. CASE ~candidate
  <2>1. UNCHANGED work
    BY <1>4, Zenon DEF ReceiveBatch
  <2> QED
    BY <1>0, <1>2, <1>3, <2>1, LoopFree, Zenon
<1>5. CASE candidate
  <2>1. work' = [kind |-> "batch", at |-> Height[a] + 1, base |-> a, target |-> t,
                 from |-> tip, peers |-> ({p} \cap live) \ (rejected \cup refused')]
    BY <1>5, Zenon DEF ReceiveBatch
  <2>2. a \in Block /\ tip \in Block /\ Height[a] + 1 \in 0 .. MaxHeight + 1
    <3>1. a \in Block /\ tip \in Block
      BY <1>5, LinkedFacts, Zenon DEF DagInv, Graph, ChainInv, ChainTyped
    <3> HIDE DEF a
    <3>2. Height[a] \in Nat /\ Height[a] <= MaxHeight /\ MaxHeight \in Nat
      BY <3>1, TreeFacts, Zenon
    <3>3. \A m, n \in Nat : m <= n => m + 1 \in 0 .. n + 1
      OBVIOUS
    <3> QED
      BY <3>1, <3>2, <3>3, Zenon
  <2>3. work' \in Handlers /\ work'.kind = "batch" /\ work'.target = t /\ work'.from = tip
        /\ work'.peers = ({p} \cap live) \ (rejected \cup refused')
    BY <2>1, <2>2, Zenon DEF Handlers, PeersTyped
  <2>4. Extends(tip, t) => Height[t] < Height[fin]
    BY <1>5, BatchAhead, Zenon DEF DagInv, ChainInv, ChainTyped
  <2>5. LoopInv'
    BY <1>0, <2>3, <2>4, Zenon
       DEF LoopInv, HandlerTyped, HandlerFits, SuffixEmptyOnlyAtRoot, Free, Extends
  <2> QED
    BY <1>2, <1>3, <2>5, Zenon
<1> QED
  BY <1>4, <1>5, Zenon

\* The batch is in; its inventory is attached.
LEMMA AttachStep == ASSUME Inv, AttachInventory PROVE Inv'
<1> USE DEF Inv
<1>0. /\ work.kind = "batch" /\ suppliers' = SuppliersWith(work.peers, Path(work.base, work.target))
      /\ UNCHANGED <<fin, best, nodes, invalid, rejected, refused, live, plan, seenTip, faulted,
                     tip, final>>
  BY Zenon DEF AttachInventory, chainVars, peerVars
<1>1. /\ work \in Handlers /\ work.base \in Block /\ work.target \in Block /\ work.from \in Block
      /\ work.peers \in SUBSET Peer /\ \A x, y \in work.peers : x = y
      /\ work.peers \cap (rejected \cup refused) = {}
  BY HandlerFields, Zenon DEF LoopInv, HandlerTyped, HandlerFits
<1>2. Path(work.base, work.target) \in SUBSET Block
  BY <1>1, PathIs, Zenon
<1>3. DagInv' /\ RefusedSupplyNothing'
  BY <1>0, <1>1, <1>2, AdvertiseKept, Zenon
<1>4. ChainInv' /\ PlanInv' /\ PeersTyped'
  BY <1>0, ChainKept, PlanKept, Zenon DEF ChainInv, ChainTyped, PeersTyped
<1>5. /\ work' \in Handlers /\ work'.kind = "select" /\ work'.target = work.target
      /\ work'.from = work.from /\ work'.peers = {}
  <2>1. work' = [IdleLoop EXCEPT !.kind = "select", !.target = work.target, !.from = work.from]
    BY Zenon DEF AttachInventory
  <2>2. work' = [kind |-> "select", at |-> 0, base |-> Genesis, target |-> work.target,
                 from |-> work.from, peers |-> {}]
    BY <2>1, Zenon DEF IdleLoop
  <2>3. 0 \in 0 .. MaxHeight + 1 /\ Genesis \in Block /\ {} \in SUBSET Peer
    BY TreeFacts
  <2> QED
    BY <1>1, <2>2, <2>3, Zenon DEF Handlers
<1>6. LoopInv'
  BY <1>0, <1>5, Zenon DEF LoopInv, HandlerTyped, HandlerFits, SuffixEmptyOnlyAtRoot, Free, Extends
<1> QED
  BY <1>3, <1>4, <1>6, Zenon

\* The handler goes on to its next header.
LEMMA LoopNext ==
    ASSUME LoopInv, ~Free, work.kind # "panicked",
           work' = [work EXCEPT !.at = @ + 1], work.at <= MaxHeight,
           UNCHANGED <<rejected, refused, fin, final>>
    PROVE  LoopInv'
<1>1. work \in Handlers /\ work.at \in Nat /\ MaxHeight \in Nat
  BY HandlerFields, TreeFacts DEF LoopInv, HandlerTyped
<1>2. /\ work' \in Handlers /\ work'.kind = work.kind /\ work'.target = work.target
      /\ work'.from = work.from /\ work'.peers = work.peers
  BY <1>1 DEF Handlers
<1> QED
  BY <1>2, Zenon DEF LoopInv, HandlerTyped, HandlerFits, SuffixEmptyOnlyAtRoot, Free, Extends

\* A header of a batch, or of the committed chain, is inserted or ends the handler.
LEMMA InsertStep ==
    ASSUME Inv, NEW t \in Block, ~Free, work.kind # "panicked", work.at <= Height[t],
           LET c == Anc[t][work.at] IN
           IF Insertable(c)
           THEN Insert(c) /\ work' = [work EXCEPT !.at = @ + 1] /\ UNCHANGED faulted
           ELSE work' = IdleLoop /\ faulted' = TRUE /\ UNCHANGED dagVars,
           UNCHANGED <<chainVars, seenTip, peerVars, plan>>
    PROVE  Inv'
<1> USE DEF Inv
<1> DEFINE c == Anc[t][work.at]
<1>0. work \in Handlers /\ work.at \in Nat /\ Height[t] \in Nat /\ Height[t] <= MaxHeight
      /\ MaxHeight \in Nat
  BY HandlerFields, TreeFacts DEF LoopInv, HandlerTyped
<1>1. c \in Block
  BY <1>0, AncestorAt
<1>2. PlanInv' /\ PeersTyped' /\ UNCHANGED <<rejected, refused, final, tip, seenTip>>
  BY PlanKept, Zenon DEF peerVars, chainVars, PeersTyped
<1>3. CASE Insertable(c)
  <2>1. Insert(c) /\ work' = [work EXCEPT !.at = @ + 1] /\ UNCHANGED faulted
    BY <1>3, Zenon
  <2>2. DagInv' /\ SuppliersShrink /\ fin' = fin
    BY <1>1, <1>3, <2>1, InsertGraph, Zenon DEF DagInv, ChainInv, ChainSound
  <2>3. ChainInv' /\ RefusedSupplyNothing' /\ LoopInv'
    BY <1>0, <1>2, <2>1, <2>2, ChainKept, RefusedKept, LoopNext DEF ChainInv, ChainTyped
  <2> QED
    BY <1>2, <2>2, <2>3, Zenon
<1>4. CASE ~Insertable(c)
  <2>1. work' = IdleLoop /\ faulted' = TRUE /\ UNCHANGED dagVars
    BY <1>4, Zenon
  <2>2. DagInv' /\ SuppliersShrink /\ fin' = fin
    BY <2>1, DagKept, SuppliersSame, Zenon DEF dagVars
  <2>3. ChainInv' /\ RefusedSupplyNothing' /\ LoopInv'
    BY <1>2, <2>1, <2>2, ChainKept, RefusedKept, LoopIdle, Zenon DEF ChainInv, ChainTyped
  <2> QED
    BY <1>2, <2>2, <2>3, Zenon
<1> QED
  BY <1>3, <1>4, Zenon

\* The two handlers that insert: a batch, and the reconciliation.
LEMMA InsertSteps == ASSUME Inv, InsertNext \/ InsertCanonical PROVE Inv'
<1>1. CASE InsertNext
  <2>1. work.target \in Block
    BY HandlerFields, Zenon DEF Inv, LoopInv, HandlerTyped
  <2> QED
    BY <1>1, <2>1, InsertStep, Zenon DEF InsertNext, Free
<1>2. CASE InsertCanonical
  <2>1. tip \in Block
    BY Zenon DEF Inv, ChainInv, ChainTyped
  <2> QED
    BY <1>2, <2>1, InsertStep, Zenon DEF InsertCanonical, Free
<1> QED
  BY <1>1, <1>2, Zenon

\* common_ancestor: the highest block that both stand on.
LEMMA ForkPointIs ==
    ASSUME NEW a \in Block, NEW b \in Block
    PROVE  /\ ForkPoint(a, b) \in Block
           /\ Extends(a, ForkPoint(a, b)) /\ Extends(b, ForkPoint(a, b))
           /\ \A x \in Block : Extends(a, x) /\ Extends(b, x) => Extends(ForkPoint(a, b), x)
<1> DEFINE A == {Anc[a][h] : h \in 0 .. Height[a]}
           B == {Anc[b][h] : h \in 0 .. Height[b]}
           f == ForkPoint(a, b)
<1>1. \A x : x \in A <=> x \in Block /\ Extends(a, x)
  BY AncestorAt, TreeFacts DEF Extends
<1>2. \A x : x \in B <=> x \in Block /\ Extends(b, x)
  BY AncestorAt, TreeFacts DEF Extends
<1>3. Genesis \in A \cap B /\ A \cap B \in SUBSET Block
  BY <1>1, <1>2, TreeFacts, ExtendsGenesis, Zenon
<1>4. f = Highest(A \cap B)
  BY Zenon DEF ForkPoint
<1> HIDE DEF A, B, f
<1>5. f \in A \cap B /\ \A x \in A \cap B : Height[x] <= Height[f]
  BY <1>3, <1>4, HighestExists, Zenon
<1>6. f \in Block /\ Extends(a, f) /\ Extends(b, f)
  BY <1>1, <1>2, <1>5, Zenon
<1>7. \A x \in Block : Extends(a, x) /\ Extends(b, x) => Extends(f, x)
  BY <1>1, <1>2, <1>5, <1>6, AncestorsChain, Zenon
<1> QED
  BY <1>6, <1>7, Zenon DEF f

\* A new plan leads from the fork point to its target.
LEMMA SuffixFits ==
    ASSUME NEW b \in Block, NEW from \in Block, plan' = Suffix(b, from)
    PROVE  /\ PlanInv' /\ plan'.target = b /\ plan'.from = from /\ plan'.stage = "fetch"
           /\ plan'.base = ForkPoint(from, b)
<1>1. ForkPoint(from, b) \in Block /\ Extends(b, ForkPoint(from, b))
  BY ForkPointIs, Zenon
<1>2. /\ plan' \in Plans /\ plan'.target = b /\ plan'.from = from /\ plan'.stage = "fetch"
      /\ plan'.base = ForkPoint(from, b)
  BY <1>1, PlanFields, TreeFacts, Zenon DEF Suffix, NoPlan, Plans, Faults
<1> QED
  BY <1>1, <1>2, Zenon DEF PlanInv, PlanTyped, PlanFits, Extends

-----------------------------------------------------------------------------
(* Announcements, and the tip a batch selects. *)

\* A header announced as a child of the committed tip.
LEMMA AnnounceStep ==
    ASSUME Inv, NEW p \in Peer, NEW b \in Block, NEW ready \in BOOLEAN, AnnounceChild(p, b, ready)
    PROVE  Inv'
<1> USE DEF Inv
<1>0. Free /\ UNCHANGED <<tip, final, seenTip, live, rejected, refused, work>> /\ tip \in Block
  BY Zenon DEF AnnounceChild, chainVars, peerVars, ChainInv, ChainTyped
<1>1. PeersTyped' /\ LoopInv'
  BY <1>0, LoopFree, Zenon DEF PeersTyped
<1>2. PlanInv'
  <2>1. plan' = Suffix(b, tip) \/ plan' = plan
    BY Zenon DEF AnnounceChild
  <2> QED
    BY <1>0, <2>1, PlanKept, SuffixFits, Zenon
<1>3. DagInv' /\ SuppliersShrink /\ fin' = fin /\ faulted' \in BOOLEAN
  <2>1. CASE Insertable(b)
    <3>1. Insert(b) /\ UNCHANGED faulted
      BY <2>1, Zenon DEF AnnounceChild
    <3> QED
      BY <2>1, <3>1, InsertGraph, Zenon DEF DagInv, ChainInv, ChainSound, ChainTyped
  <2>2. CASE ~Insertable(b)
    <3>1. faulted' = TRUE /\ UNCHANGED dagVars
      BY <2>2, Zenon DEF AnnounceChild
    <3> QED
      BY <3>1, DagKept, SuppliersSame, Zenon DEF dagVars
  <2> QED
    BY <2>1, <2>2, Zenon
<1>4. ChainInv' /\ RefusedSupplyNothing'
  BY <1>0, <1>3, ChainKept, RefusedKept, Zenon DEF ChainInv, ChainTyped
<1> QED
  BY <1>1, <1>2, <1>3, <1>4, Zenon

\* forget_unsupplied_tie and what follows it: the graph stays sound.
LEMMA SelectGraph ==
    ASSUME Inv, NEW blocked \in BOOLEAN, NEW root \in BOOLEAN, NEW ready \in BOOLEAN,
           SelectTarget(blocked, root, ready)
    PROVE  DagInv' /\ SuppliersShrink /\ fin' = fin
<1> USE DEF Inv
<1>1. CASE UNCHANGED dagVars
  BY <1>1, DagKept, SuppliersSame, Zenon DEF dagVars
<1>2. CASE Forget(best)
  <2>1. best \in Block
    BY Zenon DEF DagInv, DagTyped
  <2> QED
    BY <1>2, <2>1, ForgetGraph, Zenon DEF DagInv
<1> QED
  BY <1>1, <1>2, Zenon DEF SelectTarget

\* A batch whose target is selected ends off the committed chain: no empty suffix.
LEMMA SelectedAhead ==
    ASSUME Inv, DagInv', fin' = fin, work.kind = "select", best' = work.target
    PROVE  ~Extends(work.from, best')
<1>1. work.target \in Block /\ fin \in Block /\ Height[work.target] \in Nat /\ Height[fin] \in Nat
  BY HandlerFields, TreeFacts, Zenon DEF Inv, LoopInv, HandlerTyped, DagInv, DagTyped
<1>2. best' \in nodes' \cup {fin'} /\ \A n \in nodes' : Height[n] > Height[fin']
  BY Zenon DEF DagInv, Graph, BestIsBest, Known, Linked
<1>3. Height[fin] <= Height[work.target]
  BY <1>1, <1>2
<1>4. Extends(work.from, work.target) => Height[work.target] < Height[fin]
  BY Zenon DEF Inv, LoopInv, HandlerFits
<1> QED
  BY <1>1, <1>3, <1>4 DEF Extends

\* The rest of the batch handler keeps the invariant: it panics at a relation root only.
LEMMA SelectStep ==
    ASSUME Inv, NEW blocked \in BOOLEAN, NEW root \in BOOLEAN, NEW ready \in BOOLEAN,
           SelectTarget(blocked, root, ready)
    PROVE  Inv'
<1> USE DEF Inv
<1>0. /\ work.kind = "select" /\ UNCHANGED <<tip, final, seenTip, live, rejected, refused>>
      /\ work.from \in Block /\ best' \in Block
  BY SelectGraph, HandlerFields, Zenon
     DEF SelectTarget, chainVars, peerVars, LoopInv, HandlerTyped, DagInv, DagTyped
<1>1. DagInv' /\ SuppliersShrink /\ fin' = fin /\ PeersTyped' /\ RefusedSupplyNothing'
  BY <1>0, SelectGraph, RefusedKept, Zenon DEF PeersTyped
<1>2. faulted' = faulted \/ faulted' = TRUE
  BY Zenon DEF SelectTarget
<1>3. ChainInv'
  BY <1>0, <1>1, <1>2, ChainKept, Zenon DEF ChainInv, ChainTyped
<1>4. PlanInv'
  <2>1. plan' = plan \/ plan' = Suffix(best', work.from)
    BY Zenon DEF SelectTarget
  <2> QED
    BY <1>0, <2>1, PlanKept, SuffixFits, Zenon
<1>5. LoopInv'
  <2>1. CASE work' = IdleLoop
    BY <2>1, LoopIdle, Zenon
  <2>2. CASE work' = [work EXCEPT !.kind = "panicked"]
    <3>1. work \in Handlers /\ work.peers \cap (rejected \cup refused) = {}
          /\ \A p, q \in work.peers : p = q
      BY Zenon DEF LoopInv, HandlerTyped, HandlerFits
    <3>2. /\ work' \in Handlers /\ work'.kind = "panicked" /\ work'.target = work.target
          /\ work'.from = work.from /\ work'.peers = work.peers
      BY <2>2, <3>1, Zenon DEF Handlers
    <3>3. /\ Extends(work.from, best')
          /\ best' = work.target \/ CompletesRoot(best')
      BY <1>0, <3>2, HandlerFields, Zenon DEF SelectTarget
    <3>4. best' # work.target /\ CompletesRoot(best')
      BY <1>0, <1>1, <3>3, SelectedAhead, Zenon
    <3>5. SuffixEmptyOnlyAtRoot'
      BY <3>2, <3>3, <3>4, Zenon DEF SuffixEmptyOnlyAtRoot, CompletesRoot, Extends
    <3> QED
      BY <1>0, <3>1, <3>2, <3>5, Zenon DEF LoopInv, HandlerTyped, HandlerFits, Free
  <2> QED
    BY <2>1, <2>2, Zenon DEF SelectTarget
<1> QED
  BY <1>1, <1>3, <1>4, <1>5, Zenon

\* forget_unsupplied_branch
LEMMA ForgetStep == ASSUME Inv, ForgetNext PROVE Inv'
<1> USE DEF Inv
<1>0. UNCHANGED <<tip, final, seenTip, faulted, live, rejected, refused, plan>>
  BY Zenon DEF ForgetNext, chainVars, peerVars
<1>1. DagInv' /\ SuppliersShrink /\ fin' = fin
  <2>1. CASE UNCHANGED dagVars
    BY <2>1, DagKept, SuppliersSame, Zenon DEF dagVars
  <2>2. CASE Forget(best)
    BY <2>2, ForgetGraph, Zenon DEF DagInv, DagTyped
  <2> QED
    BY <2>1, <2>2, Zenon DEF ForgetNext
<1>2. LoopInv'
  <2>1. CASE work' = IdleLoop
    BY <2>1, LoopIdle, Zenon
  <2>2. CASE UNCHANGED work
    <3>1. work.kind # "panicked"
      BY Zenon DEF ForgetNext
    <3> QED
      BY <1>0, <1>1, <2>2, <3>1, LoopKept, Zenon
  <2> QED
    BY <2>1, <2>2, Zenon DEF ForgetNext
<1>3. ChainInv' /\ PlanInv' /\ PeersTyped' /\ RefusedSupplyNothing'
  BY <1>0, <1>1, ChainKept, PlanKept, RefusedKept, Zenon DEF ChainInv, ChainTyped, PeersTyped
<1> QED
  BY <1>1, <1>2, <1>3, Zenon

-----------------------------------------------------------------------------
(* Completions. *)

\* The graph learns a verdict: only what the verdict names leaves it, and a
\* verdict of a native rule never names its finalized point.
LEMMA CompletionGraph ==
    ASSUME Inv, NEW p \in Peer, HandleCompletion(p)
    PROVE  /\ DagInv' /\ SuppliersShrink /\ fin' = fin
           /\ \A b \in Block : suppliers'[b] \cap (rejected' \ rejected) = {}
<1> USE DEF Inv
<1> DEFINE sources == IF plan.fault \in {"condemned", "body", "terminal"} THEN {p} ELSE {}
           left == SuppliersLess(sources)
           drop == IF plan.fault = "condemned" THEN WithDescendants(Culprit)
                   ELSE IF plan.fault = "terminal" /\ left[plan.target] = {} /\ plan.target # fin
                   THEN WithDescendants(plan.target)
                   ELSE {}
<1>0. /\ plan.stage = "done" /\ rejected' = rejected \cup sources /\ nodes' = nodes \ drop
      /\ suppliers' = [b \in Block |-> IF b \in drop THEN {} ELSE left[b]]
      /\ best' = (IF drop = {} THEN best ELSE BestOf(Known \ drop))
      /\ invalid' = (IF plan.fault = "condemned" THEN invalid \cup drop ELSE invalid)
      /\ fin' = fin
  BY Zenon DEF HandleCompletion
<1>1. plan.base \in Block /\ plan.target \in Block
  BY PlanFields, Zenon DEF PlanInv, PlanTyped
<1>2. DagTyped /\ Graph /\ CondemnedUnsound
  BY Zenon DEF DagInv
<1>3. \A b \in Block : left[b] = suppliers[b] \ sources /\ suppliers[b] \subseteq Peer
  BY <1>2, Zenon DEF SuppliersLess, DagTyped
<1>4. \A b \in Block : suppliers'[b] = IF b \in drop THEN {} ELSE suppliers[b] \ sources
  BY <1>0, <1>3, Zenon
<1>5. suppliers' \in [Block -> SUBSET Peer] /\ SuppliersShrink
  BY <1>0, <1>3, <1>4, Zenon DEF SuppliersShrink
<1>6. \A b \in Block : suppliers'[b] \cap (rejected' \ rejected) = {}
  BY <1>0, <1>4, Zenon
<1>7. CASE plan.fault = "condemned"
  <2>1. BadOn(plan.target) # {}
    BY <1>0, <1>7, Zenon DEF PlanInv, PlanFits
  <2>2. Culprit \in Block /\ Culprit \in Bad
    BY <1>1, <2>1, CulpritIsBad, Zenon
  <2>3. Culprit # fin
    BY <2>2, BadUnsound, ExtendsRefl, Zenon DEF ChainInv, ChainSound
  <2>4. drop = WithDescendants(Culprit) /\ drop # {}
    BY <1>7, Zenon DEF WithDescendants
  <2>5. /\ nodes' = nodes \ WithDescendants(Culprit)
        /\ best' = BestOf(Known \ WithDescendants(Culprit))
        /\ invalid' = invalid \cup WithDescendants(Culprit)
        /\ \A x \in Block : x \in WithDescendants(Culprit) => suppliers'[x] = {}
    BY <1>0, <1>4, <1>7, <2>4, Zenon
  <2>6. DagInv'
    BY <1>0, <1>2, <1>5, <2>2, <2>3, <2>5, DropGraph, Zenon DEF DagInv
  <2> QED
    BY <1>0, <1>5, <1>6, <2>6, Zenon
<1>8. CASE plan.fault # "condemned" /\ drop # {}
  <2>1. drop = WithDescendants(plan.target) /\ plan.target # fin
    BY <1>8, Zenon
  <2>2. /\ nodes' = nodes \ WithDescendants(plan.target)
        /\ best' = BestOf(Known \ WithDescendants(plan.target))
        /\ invalid' = invalid
        /\ \A x \in Block : x \in WithDescendants(plan.target) => suppliers'[x] = {}
    BY <1>0, <1>4, <1>8, <2>1, Zenon
  <2>3. DagInv'
    BY <1>0, <1>1, <1>2, <1>5, <2>1, <2>2, DropGraph, Zenon DEF DagInv
  <2> QED
    BY <1>0, <1>5, <1>6, <2>3, Zenon
<1>9. CASE plan.fault # "condemned" /\ drop = {}
  <2>1. UNCHANGED <<fin, best, nodes, invalid>>
    BY <1>0, <1>9, Zenon
  <2>2. DagInv'
    BY <1>5, <2>1, DagSuppliersGo, Zenon
  <2> QED
    BY <1>0, <1>5, <1>6, <2>2, Zenon
<1> QED
  BY <1>7, <1>8, <1>9, Zenon

\* exact suffix completion: sources are rejected, the graph learns, a handler may start.
LEMMA CompletionStep ==
    ASSUME Inv, NEW p \in Peer, HandleCompletion(p)
    PROVE  Inv'
<1> USE DEF Inv
<1>0. /\ Free /\ plan' = NoPlan /\ UNCHANGED <<tip, final, seenTip, faulted, live, refused>>
      /\ rejected \subseteq rejected' /\ rejected' \subseteq rejected \cup {p}
  BY Zenon DEF HandleCompletion, chainVars
<1>1. DagInv' /\ fin' = fin /\ PlanInv'
  BY <1>0, CompletionGraph, PlanGone, Zenon
<1>2. ChainInv' /\ PeersTyped'
  BY <1>0, <1>1, ChainKept, Zenon DEF ChainInv, ChainTyped, PeersTyped
<1>3. RefusedSupplyNothing'
  BY <1>0, CompletionGraph, Zenon DEF RefusedSupplyNothing, SuppliersShrink
<1>4. LoopInv'
  <2>1. CASE UNCHANGED work
    BY <1>0, <2>1, LoopFree, Zenon
  <2>2. CASE work' # work
    <3> DEFINE from == IF plan.live THEN plan.applied ELSE tip
    <3>1. work' = [IdleLoop EXCEPT !.kind = "forget", !.target = plan.target, !.from = from]
      BY <2>2, Zenon DEF HandleCompletion
    <3>2. work' = [kind |-> "forget", at |-> 0, base |-> Genesis, target |-> plan.target,
                   from |-> from, peers |-> {}]
      BY <3>1, Zenon DEF IdleLoop
    <3>3. plan.target \in Block /\ from \in Block
      BY PlanFields, Zenon DEF PlanInv, PlanTyped, ChainInv, ChainTyped
    <3>4. 0 \in 0 .. MaxHeight + 1 /\ Genesis \in Block /\ {} \in SUBSET Peer
      BY TreeFacts
    <3> HIDE DEF from
    <3>5. work' \in Handlers /\ work'.kind = "forget" /\ work'.peers = {}
      BY <3>2, <3>3, <3>4, Zenon DEF Handlers
    <3> QED
      BY <3>5, Zenon DEF LoopInv, HandlerTyped, HandlerFits, SuffixEmptyOnlyAtRoot, Free
  <2> QED
    BY <2>1, <2>2, Zenon
<1> QED
  BY <1>1, <1>2, <1>3, <1>4, Zenon

-----------------------------------------------------------------------------
(* Reconciliation and restart. *)

\* canonical_header_dag on the committed chain.
LEMMA RebuildStep ==
    ASSUME ChainInv, Rebuild, UNCHANGED <<tip, final>>, seenTip' = tip, faulted' = FALSE
    PROVE  DagInv' /\ ChainInv' /\ RefusedSupplyNothing'
<1>0. tip \in Block /\ final \in Block /\ ChainSound
  BY Zenon DEF ChainInv, ChainTyped
<1>1. DagInv' /\ fin' = final /\ \A b \in Block : suppliers'[b] = {}
  BY <1>0, RebuildGraph, Zenon DEF DagInv
<1>2. Sound(final)
  BY <1>0, SoundDown, Zenon DEF ChainSound
<1>3. ChainInv'
  BY <1>0, <1>1, <1>2, Zenon DEF ChainInv, ChainTyped, ChainSound, Sound, Path, Extends
<1> QED
  BY <1>1, <1>3, Zenon DEF RefusedSupplyNothing

\* reconcile_canonical_header_dag up to its loop: a fault, a rebuild, or the loop.
LEMMA StartReconcileStep == ASSUME Inv, StartReconcile PROVE Inv'
<1> USE DEF Inv
<1>0. Free /\ UNCHANGED <<tip, final, live, rejected, refused, plan>>
  BY Zenon DEF StartReconcile, chainVars, peerVars
<1>1. PlanInv' /\ PeersTyped'
  BY <1>0, PlanKept, Zenon DEF PeersTyped
<1>2. CASE Rebuild /\ faulted' = FALSE /\ seenTip' = tip /\ UNCHANGED work
  BY <1>0, <1>1, <1>2, RebuildStep, LoopFree, Zenon
<1>3. CASE faulted' = TRUE /\ UNCHANGED <<dagVars, seenTip, work>>
  <2>1. DagInv' /\ LoopInv' /\ SuppliersShrink
    BY <1>0, <1>3, DagKept, LoopFree, SuppliersSame, Zenon DEF dagVars
  <2>2. ChainInv' /\ RefusedSupplyNothing'
    BY <1>0, <1>3, <2>1, ChainKept, RefusedKept, Zenon DEF dagVars, ChainInv, ChainTyped
  <2> QED
    BY <1>1, <2>1, <2>2, Zenon
<1>4. CASE /\ ~(Height[final] < Height[fin] \/ (Height[final] = Height[fin] /\ final # fin))
           /\ work' = [IdleLoop EXCEPT !.kind = "reconcile", !.at = Height[fin] + 1]
           /\ UNCHANGED <<dagVars, seenTip, faulted>>
  <2>1. DagInv' /\ SuppliersShrink /\ fin' = fin
    BY <1>4, DagKept, SuppliersSame, Zenon DEF dagVars
  <2>2. ChainInv' /\ RefusedSupplyNothing'
    BY <1>0, <1>4, <2>1, ChainKept, RefusedKept, Zenon DEF ChainInv, ChainTyped
  <2>3. work' = [kind |-> "reconcile", at |-> Height[fin] + 1, base |-> Genesis,
                 target |-> Genesis, from |-> Genesis, peers |-> {}]
    BY <1>4, Zenon DEF IdleLoop
  <2>4. /\ Height[fin] \in Nat /\ Height[final] \in Nat /\ Height[fin] + 1 \in 0 .. MaxHeight + 1
        /\ Genesis \in Block /\ {} \in SUBSET Peer
    BY TreeFacts DEF DagInv, DagTyped, ChainInv, ChainTyped
  <2>5. work' \in Handlers /\ work'.kind = "reconcile" /\ work'.peers = {}
    BY <2>3, <2>4, Zenon DEF Handlers
  <2>6. fin = final \/ Height[fin] < Height[final]
    BY <1>4, <2>4
  <2>7. LoopInv'
    BY <1>0, <2>1, <2>5, <2>6, Zenon DEF LoopInv, HandlerTyped, HandlerFits, SuffixEmptyOnlyAtRoot, Free
  <2> QED
    BY <1>1, <2>1, <2>2, <2>7, Zenon
<1> QED
  BY <1>2, <1>3, <1>4, Zenon DEF StartReconcile

\* The end of the reconciliation moves the finalized point, or reports a fault.
LEMMA FinishReconcileStep == ASSUME Inv, FinishReconcile PROVE Inv'
<1> USE DEF Inv
<1>0. /\ work.kind = "reconcile" /\ work' = IdleLoop
      /\ UNCHANGED <<tip, final, live, rejected, refused, plan>>
      /\ tip \in Block /\ final \in Block
  BY Zenon DEF FinishReconcile, chainVars, peerVars, ChainInv, ChainTyped
<1>1. PlanInv' /\ PeersTyped' /\ LoopInv'
  BY <1>0, PlanKept, LoopIdle, Zenon DEF PeersTyped
<1>2. CASE Advanceable(final)
  <2>1. AdvanceFinalized(final) /\ faulted' = FALSE /\ seenTip' = tip
    BY <1>2, Zenon DEF FinishReconcile
  <2>2. final = fin \/ Height[fin] < Height[final]
    BY <1>0, Zenon DEF LoopInv, HandlerFits
  <2>3. DagTyped' /\ Graph' /\ SuppliersShrink /\ fin' = final /\ invalid' = invalid
    BY <1>0, <1>2, <2>1, <2>2, AdvanceGraph, Zenon DEF DagInv
  <2>4. CondemnedUnsound'
    BY <2>3, Zenon DEF DagInv, CondemnedUnsound, Sound, Path
  <2>5. Sound(final)
    BY <1>0, SoundDown, Zenon DEF ChainInv, ChainSound
  <2>6. ChainInv'
    BY <1>0, <2>1, <2>3, <2>5, Zenon DEF ChainInv, ChainTyped, ChainSound, Sound, Path, Extends
  <2>7. RefusedSupplyNothing'
    BY <1>0, <2>3, RefusedKept, Zenon
  <2> QED
    BY <1>1, <2>3, <2>4, <2>6, <2>7, Zenon DEF DagInv
<1>3. CASE ~Advanceable(final)
  <2>1. faulted' = TRUE /\ UNCHANGED <<dagVars, seenTip>>
    BY <1>3, Zenon DEF FinishReconcile
  <2>2. DagInv' /\ SuppliersShrink /\ fin' = fin
    BY <2>1, DagKept, SuppliersSame, Zenon DEF dagVars
  <2>3. ChainInv' /\ RefusedSupplyNothing'
    BY <1>0, <2>1, <2>2, ChainKept, RefusedKept, Zenon DEF ChainInv, ChainTyped
  <2> QED
    BY <1>1, <2>2, <2>3, Zenon
<1> QED
  BY <1>2, <1>3, Zenon

\* A restart rebuilds the graph from the committed chain.
LEMMA RestartStep == ASSUME Inv, Restart PROVE Inv'
<1>1. /\ ChainInv /\ Rebuild /\ UNCHANGED <<tip, final>> /\ seenTip' = tip /\ faulted' = FALSE
      /\ plan' = NoPlan /\ work' = IdleLoop /\ PeersTyped'
  BY Zenon DEF Inv, Restart, chainVars, PeersTyped
<1> QED
  BY <1>1, RebuildStep, PlanGone, LoopIdle, Zenon DEF Inv

-----------------------------------------------------------------------------
(* The theorems. *)

\* At first the graph is the genesis block.
LEMMA InvInit == ASSUME Init PROVE Inv
<1>0. /\ fin = Genesis /\ best = Genesis /\ nodes = {} /\ invalid = {}
      /\ suppliers = [b \in Block |-> {}] /\ tip = Genesis /\ final = Genesis
      /\ seenTip = Genesis /\ faulted = FALSE /\ live = {} /\ rejected = {} /\ refused = {}
      /\ plan = NoPlan /\ work = IdleLoop /\ Genesis \in Block /\ Height[Genesis] = 0
      /\ FinalityDepth \in Nat /\ MaxNodes \in Nat /\ MaxProviders \in Nat
  BY TreeFacts, GraphConstants, Zenon DEF Init, GraphConstants
<1>1. IsFiniteSet({}) /\ Cardinality({}) = 0
  BY FS_EmptySet, Zenon
<1>2. Sound(Genesis) /\ Extends(Genesis, Genesis)
  <2>1. Path(Genesis, Genesis) = {}
    BY <1>0 DEF Path
  <2> QED
    BY <1>0, <2>1, ExtendsRefl, Zenon DEF Sound
<1>3. DagTyped /\ Linked /\ BestIsBest /\ CondemnedStayOut /\ CondemnedUnsound
  BY <1>0, Zenon DEF DagTyped, Linked, BestIsBest, Known, CondemnedStayOut, CondemnedUnsound
<1>4. WithinCapacity
  <2>1. \A b \in Block : suppliers[b] = {}
    BY <1>0, Zenon
  <2> QED
    BY <1>0, <1>1, <2>1 DEF WithinCapacity
<1>5. DagInv
  BY <1>0, <1>1, <1>3, <1>4, Zenon DEF DagInv, Graph
<1>6. ChainInv
  <2>1. Height[tip] <= Height[final] + FinalityDepth
    BY <1>0
  <2> QED
    BY <1>0, <1>2, <2>1, Zenon DEF ChainInv, ChainTyped, ChainSound
<1>9. PeersTyped /\ RefusedSupplyNothing
  BY <1>0, Zenon DEF PeersTyped, RefusedSupplyNothing
<1>7. PlanInv
  BY <1>0, <1>2, PlanFields, Zenon DEF PlanInv, PlanTyped, PlanFits
<1>8. LoopInv
  BY <1>0, HandlerFields, Zenon DEF LoopInv, HandlerTyped, HandlerFits, SuffixEmptyOnlyAtRoot
<1> QED
  BY <1>5, <1>6, <1>7, <1>8, <1>9, Zenon DEF Inv

\* A step that changes nothing.
LEMMA Stutter == ASSUME Inv, UNCHANGED vars PROVE Inv'
<1> USE DEF Inv
<1>1. UNCHANGED <<dagVars, tip, final, seenTip, faulted, live, rejected, refused, plan, work>>
  BY Zenon DEF vars, dagVars
<1>2. DagInv' /\ PlanInv'
  BY <1>1, DagKept, PlanKept, Zenon
<1>3. ChainInv'
  BY <1>1, ChainKept, Zenon DEF dagVars, ChainInv, ChainTyped
<1>4. LoopInv'
  BY <1>1, LoopKept, Zenon DEF dagVars
<1>5. PeersTyped' /\ RefusedSupplyNothing'
  BY <1>1, Zenon DEF dagVars, PeersTyped, RefusedSupplyNothing
<1> QED
  BY <1>2, <1>3, <1>4, <1>5, Zenon

\* Every step keeps the invariant.
LEMMA InvStep == ASSUME Inv, [Next]_vars PROVE Inv'
<1>1. ASSUME NEW b \in Block, MineBlock(b) \/ InstallSnapshot(b) PROVE Inv'
  BY <1>1, MineStep, SnapshotStep, Zenon
<1>2. ASSUME NEW p \in Peer, NEW t \in Block, NEW objects \in BOOLEAN,
             NEW lo \in 0 .. Height[t], ReceiveBatch(p, lo, t, objects)
      PROVE  Inv'
  BY <1>2, ReceiveStep, Zenon
<1>3. ASSUME NEW p \in Peer, NEW b \in Block, NEW ready \in BOOLEAN, AnnounceChild(p, b, ready)
      PROVE  Inv'
  BY <1>3, AnnounceStep, Zenon
<1>4. ASSUME NEW p \in Peer,
             \/ Connect(p) \/ Disconnect(p) \/ RefusePeerBranch(p) \/ EndVerdict(p)
             \/ Quarantine(p) \/ HandleCompletion(p)
      PROVE  Inv'
  BY <1>4, PeerSteps, CompletionStep, Zenon
<1>5. ASSUME RetirePlan \/ StartApply \/ ProbeTip PROVE Inv'
  BY <1>5, PlanSteps, Zenon
<1>6. ASSUME NEW b \in Block, NEW fault \in Faults, ApplySuffix(b, fault) PROVE Inv'
  BY <1>6, ApplyStep, Zenon
<1>7. ASSUME Handler PROVE Inv'
  BY <1>7, InsertSteps, AttachStep, ForgetStep, FinishReconcileStep, SelectStep, Zenon DEF Handler
<1>8. ASSUME StartReconcile \/ Restart \/ UNCHANGED vars PROVE Inv'
  BY <1>8, StartReconcileStep, RestartStep, Stutter, Zenon
<1> QED
  BY <1>1, <1>2, <1>3, <1>4, <1>5, <1>6, <1>7, <1>8, Zenon DEF Next

\* The invariant always holds.
LEMMA InvAlways == Spec => []Inv
<1>1. Init => Inv
  BY InvInit, Zenon
<1>2. Inv /\ [Next]_vars => Inv'
  BY InvStep, Zenon
<1> QED
  BY <1>1, <1>2, PTL DEF Spec

\* Whatever peers send, whatever is evicted, forgotten, condemned or finalized,
\* and wherever the chain moves meanwhile: the graph stays connected, bounded and
\* free of condemned headers, and its selected tip is the best of it.
THEOREM GraphAlwaysSound == Spec => []GraphSound
<1>1. Inv => GraphSound
  <2> SUFFICES ASSUME Inv PROVE GraphSound
    BY Zenon
  <2>1. TypeOK
    BY InvIsTyped, Zenon
  <2>2. DagTyped /\ Linked /\ BestIsBest /\ CondemnedStayOut /\ WithinCapacity
    BY Zenon DEF Inv, DagInv, Graph
  <2>3. ASSUME NEW n \in nodes PROVE Height[n] > Height[fin] /\ Parent(n) \in Known
    <3>1. /\ n \in Block /\ fin \in Block /\ Height[n] \in Nat /\ Height[fin] \in Nat
          /\ Height[n] > Height[fin] /\ Extends(n, fin) /\ n \in Known
      BY <2>2, TreeFacts, Zenon DEF DagTyped, Linked, Known
    <3>2. /\ Parent(n) \in Block /\ Height[Parent(n)] = Height[n] - 1 /\ Extends(n, Parent(n))
          /\ Extends(Parent(n), fin)
      BY <3>1, ParentFacts
    <3>3. CASE Height[Parent(n)] > Height[fin]
      BY <2>2, <3>1, <3>2, <3>3, LinkedFacts, Zenon DEF Known
    <3>4. CASE Height[Parent(n)] = Height[fin]
      BY <3>1, <3>2, <3>4, ExtendsHeight, Zenon DEF Known
    <3> QED
      BY <3>1, <3>2, <3>3, <3>4
  <2> QED
    BY <2>1, <2>2, <2>3, Zenon DEF GraphSound, GraphConnected
<1> QED
  BY <1>1, InvAlways, PTL

\* A verdict on a suffix, delivered after any number of commits, condemns no
\* block of the committed chain: it would have to be one that breaks a rule.
THEOREM CanonicalNeverEverCondemned == Spec => []CanonicalNeverCondemned
<1>1. Inv => CanonicalNeverCondemned
  <2> SUFFICES ASSUME Inv, NEW x \in Path(Genesis, tip), x \in invalid PROVE FALSE
    BY Zenon DEF CanonicalNeverCondemned
  <2>1. tip \in Block /\ Sound(tip) /\ Genesis \in Block
    BY TreeFacts, Zenon DEF Inv, ChainInv, ChainTyped, ChainSound
  <2>2. x \in Block /\ Extends(tip, x)
    BY <2>1, PathIs, Zenon
  <2> QED
    BY <2>1, <2>2, SoundDown, Zenon DEF Inv, DagInv, CondemnedUnsound
<1> QED
  BY <1>1, InvAlways, PTL

\* A rejected or refused peer is the provider of no header, also when a batch it
\* sent earlier is attached later.
THEOREM RefusedNeverSupply == Spec => []RefusedSupplyNothing
<1>1. Inv => RefusedSupplyNothing
  BY Zenon DEF Inv
<1> QED
  BY <1>1, InvAlways, PTL

\* Wherever the activations are, the batch handler freezes an empty suffix only
\* for a batch that ended at a relation-root height with another tip selected.
THEOREM SuffixEmptyAtRootAlone == Spec => []SuffixEmptyOnlyAtRoot
<1>1. Inv => SuffixEmptyOnlyAtRoot
  BY Zenon DEF Inv, LoopInv
<1> QED
  BY <1>1, InvAlways, PTL

\* A plan from a header of the graph to its selected tip, when that is not on the
\* way to it: the tip wins, and the fork point is in the graph.
LEMMA SelectedWins ==
    ASSUME DagInv', NEW from \in Known', ~Extends(from, best')
    PROVE  ChainWins(best', from) /\ ForkPoint(from, best') \in Known'
<1> DEFINE N == nodes' F == fin' B == best' f == ForkPoint(from, B)
<1>0. /\ N \subseteq Block /\ F \in Block /\ B \in Block /\ B \in N \cup {F} /\ from \in N \cup {F}
      /\ \A n \in N \cup {F} : n = B \/ ChainWins(B, n)
      /\ \A n \in N : Height[n] > Height[F] /\ Extends(n, F) /\ Path(F, n) \subseteq N
      /\ Known' = N \cup {F}
  BY Zenon DEF DagInv, DagTyped, Graph, BestIsBest, Known, Linked
<1>1. ~Extends(from, B)
  BY Zenon DEF Extends
<1> HIDE DEF N, F, B
<1>2. from \in Block /\ from # B /\ ChainWins(B, from)
  BY <1>0, <1>1, ExtendsRefl, Zenon
<1>3. Extends(from, F) /\ Extends(B, F)
  BY <1>0, ExtendsRefl, Zenon
<1>4. f \in Block /\ Extends(B, f) /\ Extends(f, F) /\ Height[F] <= Height[f]
      /\ Height[F] \in Nat /\ Height[f] \in Nat
  BY <1>0, <1>2, <1>3, ForkPointIs, ExtendsHeight, TreeFacts, Zenon
<1>7. f \in N \cup {F}
  <2> HIDE DEF f
  <2>1. CASE Height[f] = Height[F]
    BY <1>0, <1>4, <2>1, ExtendsHeight, Zenon
  <2>2. CASE Height[f] > Height[F]
    <3>1. f \in Path(F, B)
      BY <1>0, <1>4, <2>2, PathIs, Zenon
    <3>2. B # F
      BY <1>0, <1>4, <2>2, ExtendsHeight
    <3> QED
      BY <1>0, <3>1, <3>2, Zenon
  <2> QED
    BY <1>4, <2>1, <2>2
<1> QED
  BY <1>0, <1>2, <1>7, Zenon DEF B, N, F, ChainWins

\* Plans are made by the batch handler and by announcements, and by nothing else.
LEMMA PlansMade ==
    ASSUME Inv, [Next]_vars, plan'.stage = "fetch", plan' # plan
    PROVE  \/ \E blocked, root, ready \in BOOLEAN : SelectTarget(blocked, root, ready)
           \/ \E p \in Peer, b \in Block, ready \in BOOLEAN : AnnounceChild(p, b, ready)
<1>0. plan \in Plans
  BY Zenon DEF Inv, PlanInv, PlanTyped
<1>1. ASSUME NEW p \in Peer, HandleCompletion(p) PROVE FALSE
  BY <1>1, Zenon DEF HandleCompletion, NoPlan
<1>2. ASSUME RetirePlan \/ Restart PROVE FALSE
  BY <1>2 DEF RetirePlan, Restart, NoPlan
<1>3. ASSUME StartApply PROVE FALSE
  BY <1>0, <1>3, Zenon DEF StartApply, Plans
<1>4. ASSUME NEW b, NEW fault, ApplySuffix(b, fault) PROVE FALSE
  BY <1>0, <1>4, Zenon DEF ApplySuffix, Plans
<1>5. ASSUME NEW b, MineBlock(b) \/ InstallSnapshot(b) PROVE FALSE
  BY <1>5, Zenon DEF MineBlock, InstallSnapshot
<1>6. ASSUME NEW p, NEW t, NEW lo, NEW objects, ReceiveBatch(p, lo, t, objects) PROVE FALSE
  BY <1>6, Zenon DEF ReceiveBatch
<1>7. ASSUME NEW p, \/ Connect(p) \/ Disconnect(p) \/ RefusePeerBranch(p) \/ EndVerdict(p)
                    \/ Quarantine(p)
      PROVE  FALSE
  BY <1>7, Zenon DEF Connect, Disconnect, RefusePeerBranch, EndVerdict, Quarantine
<1>8. ASSUME \/ InsertNext \/ AttachInventory \/ ForgetNext \/ InsertCanonical \/ FinishReconcile
             \/ StartReconcile \/ ProbeTip \/ UNCHANGED vars
      PROVE  FALSE
  BY <1>8, Zenon DEF InsertNext, AttachInventory, ForgetNext, InsertCanonical, FinishReconcile,
              StartReconcile, ProbeTip, vars
<1> QED
  BY <1>1, <1>2, <1>3, <1>4, <1>5, <1>6, <1>7, <1>8, Zenon DEF Next, Handler

\* Every plan is for a tip that beats the committed tip its handler started from,
\* and leaves that tip's chain at a block of the graph.
THEOREM PlansAlwaysWin == Spec => PlansWin
<1> DEFINE Winning == plan'.stage = "fetch" /\ plan' # plan =>
                          ChainWins(plan'.target, plan'.from) /\ plan'.base \in Known'
<1>1. ASSUME Inv, [Next]_vars, plan'.stage = "fetch", plan' # plan
      PROVE  ChainWins(plan'.target, plan'.from) /\ plan'.base \in Known'
  <2>0. DagInv'
    BY <1>1, InvStep, Zenon DEF Inv
  <2>1. ASSUME NEW blocked \in BOOLEAN, NEW root \in BOOLEAN, NEW ready \in BOOLEAN,
               SelectTarget(blocked, root, ready)
        PROVE  ChainWins(plan'.target, plan'.from) /\ plan'.base \in Known'
    <3>1. /\ work.from \in Known' /\ ~Extends(work.from, best') /\ plan' = Suffix(best', work.from)
      BY <1>1, <2>1, Zenon DEF SelectTarget
    <3>2. work.from \in Block /\ best' \in Block
      BY <1>1, <2>0, HandlerFields, Zenon DEF Inv, LoopInv, HandlerTyped, DagInv, DagTyped
    <3>3. /\ plan'.target = best' /\ plan'.from = work.from
          /\ plan'.base = ForkPoint(work.from, best')
      BY <3>1, <3>2, SuffixFits, Zenon
    <3>4. ChainWins(best', work.from) /\ ForkPoint(work.from, best') \in Known'
      BY <2>0, <3>1, SelectedWins, Zenon
    <3> QED
      BY <3>3, <3>4, Zenon DEF ChainWins
  <2>2. ASSUME NEW p \in Peer, NEW b \in Block, NEW ready \in BOOLEAN, AnnounceChild(p, b, ready)
        PROVE  ChainWins(plan'.target, plan'.from) /\ plan'.base \in Known'
    <3>1. /\ Insertable(b) /\ best' = b /\ plan' = Suffix(b, tip)
          /\ b # Genesis /\ Parent(b) = tip /\ Insert(b)
      BY <1>1, <2>2, Zenon DEF AnnounceChild
    <3>2. /\ tip \in Block /\ fin \in Block /\ fin' = fin /\ Height[b] > Height[fin]
          /\ Height[b] \in Nat /\ Height[fin] \in Nat
      BY <1>1, <3>1, TreeFacts, Zenon
         DEF Inv, ChainInv, ChainTyped, DagInv, DagTyped, Insertable, Insert, KeepGraph
    <3>3. Height[tip] = Height[b] - 1 /\ Extends(b, tip)
      BY <3>1, <3>2, ParentFacts
    <3>4. b \in nodes' /\ Extends(b, fin) /\ Path(fin, b) \subseteq nodes'
      BY <2>0, <3>1, <3>2 DEF DagInv, Graph, BestIsBest, Known, Linked
    <3>5. tip \in Known'
      <4>1. CASE Height[tip] = Height[fin]
        <5>1. Extends(tip, fin)
          BY <3>2, <3>3, <3>4, <4>1, AncestorsChain
        <5>2. tip = fin
          BY <3>2, <4>1, <5>1, ExtendsHeight, Zenon
        <5> QED
          BY <3>2, <5>2, Zenon DEF Known
      <4>2. CASE Height[tip] > Height[fin]
        <5>1. tip \in Path(fin, b)
          BY <3>2, <3>3, <4>2, PathIs, Zenon
        <5> QED
          BY <3>4, <5>1, Zenon DEF Known
      <4> QED
        BY <3>2, <3>3, <4>1, <4>2
    <3>6. ~Extends(tip, best')
      BY <3>1, <3>2, <3>3, ExtendsHeight DEF Extends
    <3>7. plan'.target = b /\ plan'.from = tip /\ plan'.base = ForkPoint(tip, b)
      BY <3>1, <3>2, SuffixFits, Zenon
    <3>8. ChainWins(best', tip) /\ ForkPoint(tip, best') \in Known'
      BY <2>0, <3>5, <3>6, SelectedWins, Zenon
    <3> QED
      BY <3>1, <3>7, <3>8, Zenon DEF ChainWins
  <2> QED
    BY <1>1, <2>1, <2>2, PlansMade, Zenon
<1>2. Inv /\ [Next]_vars => [Winning]_vars
  BY <1>1, Zenon
<1> QED
  BY <1>2, InvAlways, PTL DEF Spec, PlansWin
=============================================================================
