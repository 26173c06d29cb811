------------------------------ MODULE HeaderDag ------------------------------
(***************************************************************************)
(* The bounded graph of validated headers (networking/header_dag.rs) and   *)
(* the node loop that feeds it (main.rs): header batches and announcements *)
(* from peers, exact suffixes that succeed or fail, and the reconciliation *)
(* with the canonical chain.                                               *)
(*                                                                         *)
(* The loop runs one handler at a time.  A handler that inserts several    *)
(* headers is several steps here; `work' says which handler is running and *)
(* no other one starts before it ends.  The canonical chain moves on other *)
(* tasks.  A handler reads it once, at its start, and a commit touches     *)
(* nothing of the graph, so commits are placed between handlers.           *)
(*                                                                         *)
(* A header is its block; a chain point, a hash and a validated header of  *)
(* the code are the same thing here.  Object inventories are the peers     *)
(* that advertised a header; what exactly they offer is the business of    *)
(* the suffix transport.                                                   *)
(***************************************************************************)
EXTENDS BlockTree, FiniteSets

CONSTANTS
    Peer,           \* peers
    Bad,            \* blocks that a native rule refuses
    MaxNodes,       \* HEADER_DAG_MAX_NODES
    MaxProviders,   \* MAX_PROVIDERS_PER_HEADER
    FinalityDepth,  \* CONSENSUS_FINALITY_DEPTH
    MaxAdvance,     \* MAX_INCREMENTAL_FINALITY_ADVANCE
    MaxPlan,        \* the longest suffix fetched without a snapshot
    RelationRoot    \* the height before an activation; 0: none in the tree

ASSUME GraphConstants ==
    /\ IsFiniteSet(Peer)
    /\ Bad \subseteq Block \ {Genesis}
    /\ MaxNodes \in Nat \ {0} /\ MaxProviders \in Nat \ {0}
    /\ FinalityDepth \in Nat \ {0} /\ MaxAdvance \in Nat /\ MaxPlan \in Nat
    /\ RelationRoot \in Nat
    /\ FinalityDepth <= MaxNodes

VARIABLES
    \* HeaderDag
    fin,        \* finalized
    best,       \* best
    nodes,      \* nodes
    invalid,    \* invalid: headers condemned, and descendants seen since
    suppliers,  \* inventories: the providers of each header
    \* The canonical chain.
    tip, final,
    \* The node loop.
    seenTip,    \* header_dag_canonical_tip
    faulted,    \* header_dag_faulted
    live,       \* manifest_peers
    rejected,   \* rejected_suffix_object_peers
    refused,    \* peers with a divergence verdict (peer_chain_evidence)
    plan,       \* the exact suffix: being fetched, applied, or answered
    work        \* the handler that is running

dagVars == <<fin, best, nodes, invalid, suppliers>>
chainVars == <<tip, final>>
peerVars == <<live, rejected, refused>>
vars == <<fin, best, nodes, invalid, suppliers, tip, final,
          seenTip, faulted, live, rejected, refused, plan, work>>

Faults == {"none", "condemned", "body", "terminal", "other"}
NoPlan == [stage |-> "none", base |-> Genesis, target |-> Genesis, from |-> Genesis,
           live |-> FALSE, applied |-> Genesis, fault |-> "none"]
IdleLoop == [kind |-> "idle", at |-> 0, base |-> Genesis, target |-> Genesis,
             from |-> Genesis, peers |-> {}]

Free == work.kind = "idle"
Known == nodes \cup {fin}

\* The chain segment above a up to t.
Path(a, t) == {Anc[t][h] : h \in Height[a] + 1 .. Height[t]}

-----------------------------------------------------------------------------
(* HeaderDag.                                                              *)

\* Wrong: the headers above b stay.
Alone(b) == {b}

\* remove_with_descendants: b and whatever the graph links to it.
WithDescendants(b) ==
    {b} \cup {n \in nodes : Height[n] > Height[b] /\ Extends(n, b) /\ Path(b, n) \subseteq nodes}

\* reselect_best among the headers of S, which is never empty.
BestOf(S) == CHOOSE m \in S : \A n \in S : n = m \/ ChainWins(m, n)

\* Suppliers of the headers that stay.
SuppliersWithout(removed) == [b \in Block |-> IF b \in removed THEN {} ELSE suppliers[b]]

KeepGraph == UNCHANGED <<fin, best, nodes, suppliers>>

\* forget: headers that may come back leave with their descendants.
Forget(b) ==
    /\ IF b = fin THEN KeepGraph
       ELSE /\ nodes' = nodes \ WithDescendants(b)
            /\ suppliers' = SuppliersWithout(WithDescendants(b))
            /\ best' = BestOf(Known \ WithDescendants(b))
            /\ UNCHANGED fin
    /\ UNCHANGED invalid

\* Headers that make no room for c: the selected ancestry and the branch of c.
Protected(c) == {n \in nodes : Extends(best, n) \/ Extends(Parent(c), n)}

\* evict_unprotected_leaf: the candidates, and the worst of them.
Evictable(c) == {n \in nodes \ Protected(c) : \A m \in nodes : Parent(m) # n}
Worst(S) == CHOOSE w \in S : \A n \in S : n = w \/ ChainWins(n, w)

Full == Cardinality(nodes) >= MaxNodes
Evicted(c) == IF Full THEN {Worst(Evictable(c))} ELSE {}

\* insert answers Invalid and keeps nothing.
Condemned(c) == c \in invalid \/ Parent(c) \in invalid

\* insert reports no error.
Insertable(c) ==
    /\ Height[c] > Height[fin]
    /\ \/ Condemned(c)
       \/ c \in nodes
       \/ Parent(c) \in Known /\ (Full => Evictable(c) # {})

\* Wrong: a tie goes to the newcomer.
NoLessWork(c) == Work[c] >= Work[best]

\* The new header becomes the selected tip.
Overtakes(c) == ChainWins(c, best)

\* insert: a header on a condemned parent is condemned too.
Insert(c) ==
    IF Condemned(c) THEN KeepGraph /\ invalid' = invalid \cup {c}
    ELSE IF c \in nodes THEN KeepGraph /\ UNCHANGED invalid
    ELSE /\ nodes' = (nodes \ Evicted(c)) \cup {c}
         /\ suppliers' = SuppliersWithout(Evicted(c))
         /\ best' = IF Overtakes(c) THEN c ELSE best
         /\ UNCHANGED <<fin, invalid>>

\* advertise_inventory: all the headers or none of them.
Advertisable(p, S) ==
    S \subseteq nodes /\ \A b \in S : p \in suppliers[b] \/ Cardinality(suppliers[b]) < MaxProviders

SuppliersWith(peers, S) ==
    [b \in Block |-> IF b \in S THEN suppliers[b] \cup {p \in peers : Advertisable(p, S)}
                     ELSE suppliers[b]]

\* remove_inventory_provider
SuppliersLess(peers) == [b \in Block |-> suppliers[b] \ peers]

\* What advance_finalized keeps.
KeptAbove(f) == {n \in nodes : Height[n] > Height[f] /\ Extends(n, f)}

\* advance_finalized reports no error: the point is on the selected ancestry.
Advanceable(f) == f = fin \/ Extends(best, f)

AdvanceFinalized(f) ==
    /\ fin' = f
    /\ nodes' = IF f = fin THEN nodes ELSE KeptAbove(f)
    /\ suppliers' = SuppliersWithout(nodes \ nodes')
    /\ best' = IF Height[best] <= Height[f] THEN f ELSE best
    /\ UNCHANGED invalid

-----------------------------------------------------------------------------
(* The canonical chain: commits of other tasks.                            *)

Sound(b) == Path(Genesis, b) \cap Bad = {}

\* finalized_for_tip on the chain of t.
FinalizedFor(t) ==
    IF Height[t] <= Height[final] + FinalityDepth THEN final
    ELSE Anc[t][Height[t] - FinalityDepth]

MoveTo(t) == tip' = t /\ final' = FinalizedFor(t)

\* A locally mined or RPC-submitted block.
MineBlock(b) ==
    /\ Free
    /\ b # Genesis /\ Parent(b) = tip /\ Sound(b)
    /\ MoveTo(b)
    /\ UNCHANGED <<dagVars, seenTip, faulted, peerVars, plan, work>>

\* A verified snapshot of a higher chain with more work.
InstallSnapshot(t) ==
    /\ Free
    /\ Height[t] > Height[tip] /\ Work[t] > Work[tip]
    /\ Extends(t, final) /\ Sound(t)
    /\ tip' = t /\ final' = t
    /\ UNCHANGED <<dagVars, seenTip, faulted, peerVars, plan, work>>

-----------------------------------------------------------------------------
(* Headers from peers.                                                     *)

\* Wrong: every connected peer's inventory counts.
ConnectedPeers == live

\* Peers whose inventory counts.
Providers == live \ (rejected \cup refused)

\* plan_header_inventory on the headers lo..Height[t] of t's chain: the highest
\* canonical one not below the finalized point, else the highest the graph knows.
Canonical(range) == {c \in range : Extends(tip, c) /\ Height[c] >= Height[fin]}

\* Wrong: the committed chain is not looked at.
GraphAnchors(range) == range \cap Known

Anchors(range) == IF Canonical(range) # {} THEN Canonical(range) ELSE range \cap Known
Highest(S) == CHOOSE a \in S : \A b \in S : Height[b] <= Height[a]

\* A batch of headers from a peer that was not rejected.  Inventory of known
\* headers is attached at once.  The headers above the anchor were validated and
\* are inserted one by one, which may end a divergence verdict; without an anchor
\* in the graph, or with nothing above it, that was all.
ReceiveBatch(p, lo, t, objects) ==
    LET range == {Anc[t][h] : h \in lo .. Height[t]}
        a == Highest(Anchors(range))
        candidate == Anchors(range) # {} /\ a \in Known /\ a # t
    IN  /\ Free /\ p \notin rejected
        /\ suppliers' = IF objects THEN SuppliersWith({p} \cap Providers, range \cap nodes)
                        ELSE suppliers
        /\ IF candidate
           THEN /\ refused' \in {refused, refused \ {p}}
                /\ work' = [kind |-> "batch", at |-> Height[a] + 1, base |-> a, target |-> t,
                            from |-> tip, peers |-> ({p} \cap live) \ (rejected \cup refused')]
           ELSE UNCHANGED <<refused, work>>
        /\ UNCHANGED <<fin, best, nodes, invalid, chainVars, seenTip, faulted,
                       live, rejected, plan>>

\* record_validated_headers: an error ends the handler.
InsertNext ==
    /\ work.kind = "batch" /\ work.at <= Height[work.target]
    /\ LET c == Anc[work.target][work.at] IN
       IF Insertable(c)
       THEN Insert(c) /\ work' = [work EXCEPT !.at = @ + 1] /\ UNCHANGED faulted
       ELSE work' = IdleLoop /\ faulted' = TRUE /\ UNCHANGED dagVars
    /\ UNCHANGED <<chainVars, seenTip, peerVars, plan>>

\* Inventory of the whole batch, unless its peer is gone, rejected or refused.
AttachInventory ==
    /\ work.kind = "batch" /\ work.at > Height[work.target]
    /\ suppliers' = SuppliersWith(work.peers, Path(work.base, work.target))
    /\ work' = [IdleLoop EXCEPT !.kind = "select", !.target = work.target, !.from = work.from]
    /\ UNCHANGED <<fin, best, nodes, invalid, chainVars, seenTip, faulted, peerVars, plan>>

\* forget_unsupplied_tie: the selected tip is a tie that nobody supplies.
UnsuppliedTie ==
    /\ best # work.target /\ best # work.from
    /\ suppliers[best] = {} /\ suppliers[work.target] # {}
    /\ work.target \in nodes /\ Work[work.target] = Work[best]

\* range_completes_relation_root, in the graph with selected tip b.
CompletesRoot(b) ==
    /\ plan.stage # "fetch"
    /\ Height[b] > Height[work.target]
    /\ RelationRoot # 0 /\ Height[work.target] = RelationRoot
    /\ suppliers[work.target] # {} /\ work.target \in nodes

\* common_ancestor
ForkPoint(a, b) == Highest({Anc[a][h] : h \in 0 .. Height[a]} \cap {Anc[b][h] : h \in 0 .. Height[b]})

Suffix(b, from) ==
    [NoPlan EXCEPT !.stage = "fetch", !.base = ForkPoint(from, b), !.target = b, !.from = from]

\* The suffix is short enough to do without a snapshot.
InReach(new) ==
    /\ Height[new.target] - Height[new.base] <= MaxPlan
    /\ Height[new.from] - Height[new.base] <= FinalityDepth

\* admit_exact_suffix_offer starts the new plan or lets it replace the old one.
Admitted(new) ==
    \/ plan.stage = "none"
    \/ /\ plan.stage = "fetch"
       /\ plan.target \notin Path(new.base, new.target)
       /\ ChainWins(new.target, plan.target)

\* The rest of the batch handler.  A tie nobody supplies yields; the selected
\* tip becomes a plan if it is the batch's target, or if the batch ended in the
\* root of its relation.  A snapshot plan (`blocked') keeps the tie; it may still
\* hold the plan back, and so may missing objects (~ready).
SelectTarget(blocked, root, ready) ==
    /\ work.kind = "select"
    /\ IF plan.stage = "none" /\ ~blocked /\ UnsuppliedTie THEN Forget(best)
       ELSE UNCHANGED dagVars
    /\ IF best' # work.target /\ ~(root /\ CompletesRoot(best'))
       THEN work' = IdleLoop /\ UNCHANGED <<plan, faulted>>
       ELSE IF work.from \notin Known'
       THEN work' = IdleLoop /\ faulted' = TRUE /\ UNCHANGED plan
       ELSE IF Extends(work.from, best')
       THEN work' = [work EXCEPT !.kind = "panicked"] /\ UNCHANGED <<plan, faulted>>
       ELSE LET new == Suffix(best', work.from) IN
            /\ plan' = IF ready /\ InReach(new) /\ Admitted(new) THEN new ELSE plan
            /\ work' = IdleLoop /\ UNCHANGED faulted
    /\ UNCHANGED <<chainVars, seenTip, peerVars>>

\* A header announced as a child of the committed tip by a peer that was not
\* rejected; `ready' as above.
AnnounceChild(p, b, ready) ==
    /\ Free /\ p \notin rejected
    /\ b # Genesis /\ Parent(b) = tip /\ ~Condemned(b)
    /\ IF Insertable(b) THEN Insert(b) /\ UNCHANGED faulted
       ELSE faulted' = TRUE /\ UNCHANGED dagVars
    /\ plan' = IF /\ Insertable(b) /\ best' = b
                  /\ ready /\ p \in live /\ Admitted(Suffix(b, tip))
               THEN Suffix(b, tip) ELSE plan
    /\ UNCHANGED <<chainVars, seenTip, peerVars, work>>

Connect(p) ==
    /\ Free
    /\ live' = live \cup {p}
    /\ UNCHANGED <<dagVars, chainVars, seenTip, faulted, rejected, refused, plan, work>>

\* PeerDisconnected
Disconnect(p) ==
    /\ Free /\ p \in live
    /\ live' = live \ {p}
    /\ suppliers' = SuppliersLess({p})
    /\ UNCHANGED <<fin, best, nodes, invalid, chainVars, seenTip, faulted, rejected, refused,
                   plan, work>>

\* refuse_peer_branch, for whichever refusal of the peer's branch.
RefusePeerBranch(p) ==
    /\ Free
    /\ refused' = refused \cup {p}
    /\ suppliers' = SuppliersLess({p})
    /\ UNCHANGED <<fin, best, nodes, invalid, chainVars, seenTip, faulted, live, rejected,
                   plan, work>>

\* A divergence verdict ends: its time is over.
EndVerdict(p) ==
    /\ Free /\ p \in refused
    /\ refused' = refused \ {p}
    /\ UNCHANGED <<dagVars, chainVars, seenTip, faulted, live, rejected, plan, work>>

\* quarantine_exact_suffix_sources, for an object that is not what it claims.
Quarantine(p) ==
    /\ Free
    /\ rejected' = rejected \cup {p}
    /\ suppliers' = SuppliersLess({p})
    /\ UNCHANGED <<fin, best, nodes, invalid, chainVars, seenTip, faulted, live, refused,
                   plan, work>>

-----------------------------------------------------------------------------
(* Exact suffixes.                                                         *)

\* The transport gives a plan up.
RetirePlan ==
    /\ Free /\ plan.stage = "fetch"
    /\ plan' = NoPlan
    /\ UNCHANGED <<dagVars, chainVars, seenTip, faulted, peerVars, work>>

\* try_start_exact_suffix_apply: all objects are there and the target is still
\* on the selected ancestry.
StartApply ==
    /\ Free /\ plan.stage = "fetch" /\ ~faulted
    /\ Height[fin] <= Height[plan.target] /\ Extends(best, plan.target)
    /\ plan' = [plan EXCEPT !.stage = "apply"]
    /\ UNCHANGED <<dagVars, chainVars, seenTip, faulted, peerVars, work>>

BadOn(t) == Path(plan.base, t) \cap Bad
FirstBad == CHOOSE b \in BadOn(plan.target) : \A c \in BadOn(plan.target) : Height[b] <= Height[c]

\* Nothing is committed; a verdict on a body or a terminal needs no chain.
Refusal(fault) ==
    \/ fault \in {"body", "terminal", "other"}
    \/ fault = "condemned" /\ BadOn(plan.target) # {}

\* A live suffix on its unchanged base stops after any sound prefix, with the
\* error that stopped it.
Prefix(b, fault) ==
    /\ plan.base = plan.from /\ tip = plan.base
    /\ Extends(plan.target, b) /\ Extends(b, plan.base) /\ BadOn(b) = {}
    /\ IF b = plan.target THEN fault = "none"
       ELSE IF Anc[plan.target][Height[b] + 1] \in Bad THEN fault = "condemned"
       ELSE fault \in {"body", "other"}

\* A reorg from a point of the reorganizable window that wins over today's tip.
Replacement(b, fault) ==
    /\ plan.base # plan.from /\ b = plan.target /\ fault = "none" /\ BadOn(b) = {}
    /\ plan.base # tip /\ Extends(tip, plan.base) /\ Height[plan.base] >= Height[final]
    /\ Height[tip] - Height[plan.base] <= FinalityDepth
    /\ ChainWins(b, tip)

\* apply_exact_suffix_offthread
ApplySuffix(b, fault) ==
    /\ Free /\ plan.stage = "apply"
    /\ \/ /\ Refusal(fault) /\ b = tip
          /\ UNCHANGED chainVars
          /\ plan' = [plan EXCEPT !.stage = "done", !.fault = fault]
       \/ /\ Prefix(b, fault) \/ Replacement(b, fault)
          /\ MoveTo(b)
          /\ plan' = [plan EXCEPT !.stage = "done", !.fault = fault,
                                  !.live = (plan.base = plan.from), !.applied = b]
    /\ UNCHANGED <<dagVars, seenTip, faulted, peerVars, work>>

\* Wrong: the whole plan is condemned.
CondemnPlan == Anc[plan.target][Height[plan.base] + 1]

\* The block a verdict condemns.
Culprit == FirstBad

\* The completion: the source at fault is rejected, then the graph learns the
\* verdict.  A body fault goes on to forget tips that nobody supplies.
HandleCompletion(p) ==
    LET sources == IF plan.fault \in {"condemned", "body", "terminal"} THEN {p} ELSE {}
        left == SuppliersLess(sources)
        drop == IF plan.fault = "condemned" THEN WithDescendants(Culprit)
                ELSE IF plan.fault = "terminal" /\ left[plan.target] = {} /\ plan.target # fin
                THEN WithDescendants(plan.target)
                ELSE {}
    IN  /\ Free /\ plan.stage = "done"
        /\ rejected' = rejected \cup sources
        /\ nodes' = nodes \ drop
        /\ suppliers' = [b \in Block |-> IF b \in drop THEN {} ELSE left[b]]
        /\ best' = IF drop = {} THEN best ELSE BestOf(Known \ drop)
        /\ invalid' = IF plan.fault = "condemned" THEN invalid \cup drop ELSE invalid
        /\ work' = IF plan.fault = "body" /\ plan.target \in nodes
                   THEN [IdleLoop EXCEPT !.kind = "forget", !.target = plan.target,
                                         !.from = IF plan.live THEN plan.applied ELSE tip]
                   ELSE work
        /\ plan' = NoPlan
        /\ UNCHANGED <<fin, chainVars, seenTip, faulted, live, refused>>

\* forget_unsupplied_branch is done.
BranchSettled ==
    best \in {work.from, fin} \/ suppliers[best] # {} \/ ~Extends(work.target, best)

\* forget_unsupplied_branch, one turn of its loop.
ForgetNext ==
    /\ work.kind = "forget"
    /\ IF BranchSettled THEN work' = IdleLoop /\ UNCHANGED dagVars
       ELSE Forget(best) /\ UNCHANGED work
    /\ UNCHANGED <<chainVars, seenTip, faulted, peerVars, plan>>

-----------------------------------------------------------------------------
(* Reconciliation with the canonical chain.                                *)

\* canonical_header_dag
Rebuild ==
    /\ fin' = final /\ nodes' = Path(final, tip) /\ best' = tip
    /\ invalid' = {} /\ suppliers' = [b \in Block |-> {}]

\* Wrong: a failed reconciliation waits for the next tip.
ReconcileOnTip ==
    /\ Free /\ tip # seenTip
    /\ IF Height[final] - Height[fin] > MaxAdvance
       THEN Rebuild /\ faulted' = FALSE /\ seenTip' = tip /\ UNCHANGED work
       ELSE /\ work' = [IdleLoop EXCEPT !.kind = "reconcile", !.at = Height[fin] + 1]
            /\ UNCHANGED <<dagVars, seenTip, faulted>>
    /\ UNCHANGED <<chainVars, peerVars, plan>>

\* reconcile_canonical_header_dag up to its loop.
StartReconcile ==
    /\ Free
    /\ tip # seenTip \/ faulted
    /\ IF Height[final] < Height[fin] \/ (Height[final] = Height[fin] /\ final # fin)
       THEN faulted' = TRUE /\ UNCHANGED <<dagVars, seenTip, work>>
       ELSE IF Height[final] - Height[fin] > MaxAdvance
       THEN Rebuild /\ faulted' = FALSE /\ seenTip' = tip /\ UNCHANGED work
       ELSE /\ work' = [IdleLoop EXCEPT !.kind = "reconcile", !.at = Height[fin] + 1]
            /\ UNCHANGED <<dagVars, seenTip, faulted>>
    /\ UNCHANGED <<chainVars, peerVars, plan>>

\* One canonical row above the graph's finalized point.
InsertCanonical ==
    /\ work.kind = "reconcile" /\ work.at <= Height[tip]
    /\ LET c == Anc[tip][work.at] IN
       IF Insertable(c)
       THEN Insert(c) /\ work' = [work EXCEPT !.at = @ + 1] /\ UNCHANGED faulted
       ELSE work' = IdleLoop /\ faulted' = TRUE /\ UNCHANGED dagVars
    /\ UNCHANGED <<chainVars, seenTip, peerVars, plan>>

FinishReconcile ==
    /\ work.kind = "reconcile" /\ work.at > Height[tip]
    /\ IF Advanceable(final)
       THEN AdvanceFinalized(final) /\ faulted' = FALSE /\ seenTip' = tip
       ELSE faulted' = TRUE /\ UNCHANGED <<dagVars, seenTip>>
    /\ work' = IdleLoop
    /\ UNCHANGED <<chainVars, peerVars, plan>>

\* The heartbeat cannot place a better selected tip relative to the committed one.
ProbeTip ==
    /\ Free /\ plan.stage = "none" /\ ~faulted
    /\ ChainWins(best, tip) /\ tip \notin Known
    /\ faulted' = TRUE
    /\ UNCHANGED <<dagVars, chainVars, seenTip, peerVars, plan, work>>

\* A crash and a restart: divergence verdicts are durable.
Restart ==
    /\ Rebuild
    /\ seenTip' = tip /\ faulted' = FALSE
    /\ live' = {} /\ rejected' = {}
    /\ plan' = NoPlan /\ work' = IdleLoop
    /\ UNCHANGED <<chainVars, refused>>

-----------------------------------------------------------------------------
Init ==
    /\ fin = Genesis /\ best = Genesis /\ nodes = {} /\ invalid = {}
    /\ suppliers = [b \in Block |-> {}]
    /\ tip = Genesis /\ final = Genesis
    /\ seenTip = Genesis /\ faulted = FALSE
    /\ live = {} /\ rejected = {} /\ refused = {}
    /\ plan = NoPlan /\ work = IdleLoop

\* The steps of a handler that has started.
Handler ==
    \/ InsertNext \/ AttachInventory \/ ForgetNext \/ InsertCanonical \/ FinishReconcile
    \/ \E blocked, root, ready \in BOOLEAN : SelectTarget(blocked, root, ready)

Next ==
    \/ \E b \in Block : MineBlock(b) \/ InstallSnapshot(b)
    \/ \E p \in Peer, t \in Block, objects \in BOOLEAN :
          \E lo \in 0 .. Height[t] : ReceiveBatch(p, lo, t, objects)
    \/ \E p \in Peer, b \in Block, ready \in BOOLEAN : AnnounceChild(p, b, ready)
    \/ \E p \in Peer :
          \/ Connect(p) \/ Disconnect(p) \/ RefusePeerBranch(p) \/ EndVerdict(p)
          \/ Quarantine(p) \/ HandleCompletion(p)
    \/ RetirePlan \/ StartApply
    \/ \E b \in Block, fault \in Faults : ApplySuffix(b, fault)
    \/ Handler
    \/ StartReconcile \/ ProbeTip
    \/ Restart

Spec == Init /\ [][Next]_vars

\* The loop finishes every handler it starts, and its heartbeat comes round
\* however many events arrive in between.
FairSpec == Spec /\ WF_vars(Handler) /\ SF_vars(StartReconcile)

-----------------------------------------------------------------------------
(* Properties.                                                             *)

\* The state has its types, and nothing of a finished plan or handler lingers.
TypeOK ==
    /\ fin \in Block /\ best \in Block
    /\ nodes \subseteq Block /\ invalid \subseteq Block
    /\ suppliers \in [Block -> SUBSET Peer]
    /\ tip \in Block /\ final \in Block /\ seenTip \in Block
    /\ faulted \in BOOLEAN
    /\ live \subseteq Peer /\ rejected \subseteq Peer /\ refused \subseteq Peer
    /\ plan \in [stage : {"none", "fetch", "apply", "done"}, base : Block, target : Block,
                 from : Block, live : BOOLEAN, applied : Block, fault : Faults]
    /\ work \in [kind : {"idle", "batch", "select", "forget", "reconcile", "panicked"},
                 at : 0 .. MaxHeight + 1, base : Block, target : Block, from : Block,
                 peers : SUBSET Peer]
    /\ plan.stage = "none" => plan = NoPlan
    /\ Free => work = IdleLoop

\* Every header of the graph is linked to the finalized point through headers
\* of the graph: eviction at capacity, forgetting, condemning and finality
\* never leave an orphan behind, so every walk over parents ends.
GraphConnected ==
    \A n \in nodes : Height[n] > Height[fin] /\ Parent(n) \in Known

\* The selected tip is the best header of the graph by fork choice, also after
\* headers were evicted, forgotten, condemned or finalized away.
BestIsBest == best \in Known /\ \A n \in Known : n = best \/ ChainWins(best, n)

\* "they leave the DAG, are never re-admitted" (invalidate): no header of the
\* graph is condemned or stands on a condemned one.
CondemnedStayOut == \A n \in nodes : Path(fin, n) \cap invalid = {}

\* A verdict never reaches the committed chain, whichever blocks were committed
\* between the verdict and its delivery to the graph.
CanonicalNeverCondemned == Path(Genesis, tip) \cap invalid = {}

\* The graph and its provider sets stay within their limits, and a provider is
\* remembered only for a header of the graph.
WithinCapacity ==
    /\ Cardinality(nodes) <= MaxNodes
    /\ \A b \in Block : /\ Cardinality(suppliers[b]) <= MaxProviders
                        /\ suppliers[b] # {} => b \in nodes

\* Through admission, eviction at capacity, forgetting, condemning and finality
\* the graph stays connected, bounded and free of condemned headers, and the
\* selected tip is the best of what is left.
GraphSound ==
    /\ TypeOK
    /\ GraphConnected
    /\ BestIsBest
    /\ CondemnedStayOut
    /\ WithinCapacity

\* "a later batch must not make it a provider again" (the header batch handler):
\* a rejected or refused peer supplies no header, whatever it sends.
RefusedSupplyNothing == \A b \in Block : suppliers[b] \cap (rejected \cup refused) = {}

\* A plan is made only for a tip that beats the committed tip it starts from,
\* along a path that leaves it at or above the finalized point.
PlansWin ==
    [][ (plan'.stage = "fetch" /\ plan' # plan) =>
            /\ ChainWins(plan'.target, plan'.from)
            /\ plan'.base \in Known' ]_vars

\* "HeaderDAG selected a non-empty candidate suffix": the batch handler never
\* freezes an empty suffix, where its expect would end the loop.
SuffixNonEmpty == work.kind # "panicked"

\* The one way to an empty suffix: the batch ended in a block at the relation-root
\* height, which lets the handler go on with a selected tip other than its target,
\* and that tip is on the chain already committed.  Where the target is selected
\* the suffix is never empty, whatever the headers it came with did to the graph.
SuffixEmptyOnlyAtRoot ==
    work.kind = "panicked" =>
        /\ RelationRoot # 0 /\ Height[work.target] = RelationRoot
        /\ best # work.target /\ Extends(work.from, best)

\* The selected headers leave room in the graph for the committed chain.
CommittedFits == Cardinality(Path(fin, best) \cup Path(fin, tip)) <= MaxNodes

\* "a header alone must not be a permanent remote pause switch": while the loop
\* runs, a fault of the graph, which pauses mining and suffix application, is
\* cleared again.  Headers alone do keep it in two cases: the selected ones leave
\* the committed chain below its finalized block, or do not fit into the graph
\* together with it.
FaultCleared ==
    faulted ~> \/ ~faulted \/ work.kind = "panicked"
               \/ ~Extends(best, final) \/ ~CommittedFits
=============================================================================
