--------------------------- MODULE MiningReadiness ---------------------------
(***************************************************************************)
(* Permission to mine: networking/mining_readiness.rs, its wrapper         *)
(* MiningPeerQuorum and the handlers of the node loop that call it         *)
(* (main.rs).  Peers hold leases that expire: one for health, renewed by   *)
(* any compatible view, and one for the frontier, given for confirming the *)
(* committed tip and carried along by ordinary children of it.  The result *)
(* is published to the miner through two watch channels.                   *)
(*                                                                         *)
(* The chain moves on other tasks: an exact suffix, a snapshot install, a  *)
(* block mined here.  The loop learns of it later, from a completion, from *)
(* the miner's hook or from its own heartbeat, in any order.               *)
(*                                                                         *)
(* The code keeps committed_tip and template_parent equal, and every       *)
(* caller passes blocks_mining = false, so one tip and no blocking leases  *)
(* are kept here.  An expired lease and no lease are the same to every     *)
(* reader.  Isolated mode, always ready, is left out.                      *)
(***************************************************************************)
EXTENDS BlockTree, FiniteSets

CONSTANTS
    Peer,
    Domain,     \* the failure domain of each peer
    Required,   \* MINING_PEER_QUORUM
    TTL         \* MINING_PEER_CONFIRMATION_TTL, in ticks of the model

ASSUME ReadinessConstants ==
    /\ IsFiniteSet(Peer)
    /\ Required \in Nat \ {0} /\ TTL \in Nat \ {0}

VARIABLES
    tip,        \* the committed tip of the chain
    quorum,     \* MiningPeerQuorum and the MiningReadiness inside
    proofReady, \* the two watch channels
    nonceReady,
    synced,     \* initial_sync_ready
    plan,       \* active_suffix_sync
    job,        \* the canonical mutation that is in flight, and its outcome
    held,       \* other unresolved work: "fault", header_dag_faulted, and
                \* "snapshot", a snapshot plan on the way to its install
    hooked,     \* canonical_tip_changes has a value the loop has not seen
    beaten,     \* the heartbeat has run since the last tick
    said, age   \* what each connected peer last confirmed, and how many
                \* ticks ago, up to the TTL

chainVars == <<tip, hooked>>
workVars == <<plan, job, held>>
published == <<proofReady, nonceReady>>
vars == <<tip, quorum, proofReady, nonceReady, synced, plan, job, held, hooked,
          beaten, said, age>>

Nothing == [kind |-> "none"]
NoLease == [left |-> 0, ok |-> FALSE]
NoFrontier == [left |-> 0, parent |-> NoBlock]

-----------------------------------------------------------------------------
\* MiningReadiness::snapshot.

LiveHealth(q) == {p \in Peer : q.health[p].left > 0 /\ q.health[p].ok}

Authorizing(q) ==
    {p \in LiveHealth(q) : q.frontier[p].left > 0 /\ q.frontier[p].parent = q.tip}

DomainsOf(P) == {Domain[p] : p \in P}
Enough(P) == Cardinality(DomainsOf(P)) >= Required

ProofBuildReady(q) == q.complete /\ ~q.better
NonceSearchReady(q) ==
    ProofBuildReady(q) /\ Enough(LiveHealth(q)) /\ Enough(Authorizing(q))

\* publish_at
Publish(q) ==
    /\ quorum' = q
    /\ proofReady' = ProofBuildReady(q)
    /\ nonceReady' = NonceSearchReady(q)

-----------------------------------------------------------------------------
\* The operations of the quorum, on its state q.

\* set_committed_tip
LeasesMoved(q, b, extends) ==
    [p \in Peer |-> IF extends /\ q.frontier[p].parent = q.tip
                    THEN [q.frontier[p] EXCEPT !.parent = b] ELSE NoFrontier]

\* set_canonical_tip_state
WithTip(q, b, extends, better) ==
    [q EXCEPT !.tip = b, !.better = better,
              !.frontier = IF b = q.tip THEN @ ELSE LeasesMoved(q, b, extends)]

IsChild(b, previous) == Height[b] = Height[previous] + 1 /\ Parent(b) = previous

\* reconcile_canonical_tip
Reconciled(q, b) == IF q.tip = b THEN q ELSE WithTip(q, b, IsChild(b, q.tip), FALSE)

\* renew_health
Renewed(q, p, ok) ==
    IF p \notin q.connected THEN q
    ELSE [q EXCEPT !.health[p] = [left |-> TTL, ok |-> ok],
                   !.frontier[p] = IF ok THEN @ ELSE NoFrontier]

\* confirm_tip and authorize_frontier: only for the tip the quorum knows.
Confirmable(q, p, b) == p \in q.connected /\ q.tip = b
Confirmed(q, p, b) ==
    IF Confirmable(q, p, b)
    THEN [Renewed(q, p, TRUE) EXCEPT !.frontier[p] = [left |-> TTL, parent |-> b]]
    ELSE q

ConfirmedBy(q, P, b) ==
    [q EXCEPT !.health = [p \in Peer |->
                  IF p \in P THEN Confirmed(q, p, b).health[p] ELSE @[p]],
              !.frontier = [p \in Peer |->
                  IF p \in P THEN Confirmed(q, p, b).frontier[p] ELSE @[p]]]

\* disconnect
Departed(q, p) ==
    [q EXCEPT !.connected = @ \ {p}, !.health[p] = NoLease, !.frontier[p] = NoFrontier]

\* expire, which also drops a frontier lease without health
Expired(q) ==
    [q EXCEPT
        !.health = [p \in Peer |-> IF @[p].left > 0 THEN @[p] ELSE NoLease],
        !.frontier = [p \in Peer |->
            IF @[p].left > 0 /\ q.health[p].left > 0 THEN @[p] ELSE NoFrontier]]

\* set_sync_state returns early, without publishing, when nothing changes.
SetSyncState(q, complete, better) ==
    IF q.complete = complete /\ q.better = better
    THEN quorum' = q /\ UNCHANGED published
    ELSE Publish([q EXCEPT !.complete = complete, !.better = better])

\* The peers whose confirmation of b the handler just took.
Note(P, b) ==
    /\ said' = [p \in Peer |-> IF p \in P THEN b ELSE said[p]]
    /\ age' = [p \in Peer |-> IF p \in P THEN 0 ELSE age[p]]

-----------------------------------------------------------------------------
\* Peers.

\* connect does not publish.
Connect(p) ==
    /\ p \notin quorum.connected
    /\ quorum' = [quorum EXCEPT !.connected = @ \cup {p}]
    /\ UNCHANGED <<published, chainVars, workVars, synced, beaten, said, age>>

Disconnect(p) ==
    /\ p \in quorum.connected
    /\ Publish(Departed(quorum, p))
    /\ said' = [said EXCEPT ![p] = NoBlock]
    /\ age' = [age EXCEPT ![p] = TTL + 1]
    /\ UNCHANGED <<chainVars, workVars, synced, beaten>>

\* An announcement of the tip this node has.
AnnounceTip(p) ==
    /\ Confirmable(quorum, p, tip)
    /\ Publish(Confirmed(quorum, p, tip))
    /\ Note({p}, tip)
    /\ UNCHANGED <<chainVars, workVars, synced, beaten>>

\* A validated header batch that ends in the tip, while no suffix is fetched.
ConfirmHeaders(p) ==
    /\ plan = Nothing
    /\ synced' = TRUE
    /\ IF Confirmable(quorum, p, tip)
       THEN Publish(Confirmed(quorum, p, tip)) /\ Note({p}, tip)
       ELSE UNCHANGED <<quorum, published, said, age>>
    /\ UNCHANGED <<chainVars, workVars, beaten>>

\* A compatible view that is not the tip, and an incompatible one.
ObserveCompatible(p) ==
    /\ p \in quorum.connected
    /\ Publish(Renewed(quorum, p, TRUE))
    /\ UNCHANGED <<chainVars, workVars, synced, beaten, said, age>>

RejectIncompatible(p) ==
    /\ p \in quorum.connected
    /\ Publish(Renewed(quorum, p, FALSE))
    /\ UNCHANGED <<chainVars, workVars, synced, beaten, said, age>>

-----------------------------------------------------------------------------
\* Suffixes, snapshots and blocks of this node.

ForkPoint(a, b) ==
    Anc[b][CHOOSE h \in Heights :
        /\ h <= Height[a] /\ h <= Height[b] /\ Anc[a][h] = Anc[b][h]
        /\ \A k \in Heights : k > h /\ k <= Height[a] /\ k <= Height[b] => Anc[a][k] # Anc[b][k]]

\* An exact plan to a heavier tip is admitted while no mutation is in flight; a
\* snapshot plan in its way has verified nothing yet and is retired.
AdmitSuffix(b) ==
    /\ job = Nothing /\ ChainWins(b, tip) /\ plan = Nothing
    /\ plan' = [kind |-> IF Extends(b, tip) THEN "live" ELSE "reorg",
                base |-> ForkPoint(tip, b), target |-> b]
    /\ held' = held \ {"snapshot"}
    /\ SetSyncState(quorum, synced, TRUE)
    /\ UNCHANGED <<chainVars, job, synced, beaten, said, age>>

\* The plan ran out of sources; resolve_committed_view publishes.
RetirePlan ==
    /\ plan # Nothing
    /\ plan' = Nothing
    /\ Publish(quorum)
    /\ UNCHANGED <<chainVars, job, held, synced, beaten, said, age>>

StartApply ==
    /\ plan # Nothing /\ job = Nothing /\ "fault" \notin held
    /\ job' = [kind |-> plan.kind, base |-> plan.base, target |-> plan.target,
               reached |-> NoBlock, stage |-> "running"]
    /\ plan' = Nothing
    /\ UNCHANGED <<chainVars, held, quorum, published, synced, beaten, said, age>>

\* A manifest starts a snapshot plan, whether or not a suffix is under way, and
\* retire_snapshot_plan ends it; neither tells the quorum.
PlanSnapshot ==
    /\ "snapshot" \notin held /\ (job # Nothing => job.kind # "snapshot")
    /\ held' = held \cup {"snapshot"}
    /\ UNCHANGED <<chainVars, plan, job, quorum, published, synced, beaten, said, age>>

RetireSnapshot ==
    /\ "snapshot" \in held
    /\ held' = held \ {"snapshot"}
    /\ UNCHANGED <<chainVars, plan, job, quorum, published, synced, beaten, said, age>>

\* A header that does not fit leaves a fault of the graph to the heartbeat.
GraphFaults ==
    /\ "fault" \notin held
    /\ held' = held \cup {"fault"}
    /\ UNCHANGED <<chainVars, plan, job, quorum, published, synced, beaten, said, age>>

\* The verified snapshot at b is installed.
StartInstall(b, p) ==
    /\ "snapshot" \in held /\ plan = Nothing /\ job = Nothing /\ ChainWins(b, tip)
    /\ held' = held \ {"snapshot"}
    /\ job' = [kind |-> "snapshot", target |-> b, observer |-> p,
               reached |-> NoBlock, stage |-> "running"]
    /\ UNCHANGED <<chainVars, plan, quorum, published, synced, beaten, said, age>>

\* What a job can commit: a live suffix any prefix of it, a reorg all of it if
\* it still wins, a snapshot its boundary.
Reachable(b) ==
    \/ /\ job.kind = "live" /\ tip = job.base
       /\ b # tip /\ Extends(b, tip) /\ Extends(job.target, b)
    \/ /\ job.kind = "reorg" /\ Extends(tip, job.base)
       /\ b = job.target /\ ChainWins(b, tip)
    \/ /\ job.kind = "snapshot"
       /\ b = job.target /\ ChainWins(b, tip)

JobCommits(b) ==
    /\ job # Nothing /\ job.stage = "running" /\ Reachable(b)
    /\ tip' = b
    /\ job' = [job EXCEPT !.reached = b, !.stage = "done"]
    /\ UNCHANGED <<hooked, plan, held, quorum, published, synced, beaten, said, age>>

JobFails ==
    /\ job # Nothing /\ job.stage = "running"
    /\ job' = [job EXCEPT !.stage = "done"]
    /\ UNCHANGED <<chainVars, plan, held, quorum, published, synced, beaten, said, age>>

\* The completion of a suffix: `selected' says whether the header graph still
\* selects its target, `sources' who supplied the exact tip.
SuffixDone(selected, sources) ==
    /\ job # Nothing /\ job.kind # "snapshot" /\ job.stage = "done"
    /\ job' = Nothing
    /\ LET whole == selected /\ "fault" \notin held /\ job.reached = job.target
           told == WithTip(quorum, job.reached, job.kind = "live", ~whole)
           agreed == {p \in sources : Confirmable(told, p, job.reached)}
       IN  \/ /\ job.reached = NoBlock
              /\ UNCHANGED <<quorum, published, said, age>>
           \/ /\ job.reached # NoBlock /\ whole
              /\ Publish(ConfirmedBy(told, agreed, job.reached))
              /\ Note(agreed, job.reached)
           \/ /\ job.reached # NoBlock /\ ~whole
              /\ Publish(told)
              /\ UNCHANGED <<said, age>>
    /\ UNCHANGED <<chainVars, plan, held, synced, beaten>>

SnapshotDone ==
    /\ job # Nothing /\ job.kind = "snapshot" /\ job.stage = "done"
    /\ job' = Nothing
    /\ IF job.reached = NoBlock
       THEN UNCHANGED <<quorum, published, said, age>>
       ELSE LET told == WithTip(quorum, job.reached, FALSE, FALSE)
                agreed == {p \in {job.observer} : Confirmable(told, p, job.reached)}
            IN  Publish(ConfirmedBy(told, agreed, job.reached)) /\ Note(agreed, job.reached)
    /\ UNCHANGED <<chainVars, plan, held, synced, beaten>>

\* A block mined here or handed in over RPC, and the hook both of them call.
LocalCommit(b) ==
    /\ b # Genesis /\ Parent(b) = tip
    /\ tip' = b
    /\ hooked' = TRUE
    /\ UNCHANGED <<workVars, quorum, published, synced, beaten, said, age>>

-----------------------------------------------------------------------------
\* The loop's own events.

CanonicalTipChanged ==
    /\ hooked
    /\ hooked' = FALSE
    /\ IF quorum.tip = tip THEN UNCHANGED <<quorum, published>>
       ELSE Publish(Reconciled(quorum, tip))
    /\ UNCHANGED <<tip, workVars, synced, beaten, said, age>>

\* unresolved_canonical_work.  plan is active_suffix_sync; job is
\* exact_suffix_apply_inflight or snapshot_install_inflight; "fault" in held is
\* header_dag_faulted, and "snapshot" stands for pending_manifest,
\* pending_snapshot_header_sync, snapshot_header_staging_inflight and
\* history_step_verification_inflight, the stages of one snapshot plan.
Unresolved == plan # Nothing \/ job # Nothing \/ held # {}

\* What the heartbeat's own reconciliation of the graph leaves: it clears a fault
\* unless it fails too.
ReconcileGraph ==
    /\ held' \in {held, held \ {"fault"}}
    /\ UNCHANGED <<plan, job>>

\* Wrong: leaves the published values to the next event.
HeartbeatWithoutExpiry ==
    /\ ReconcileGraph
    /\ quorum' = [Reconciled(quorum, tip) EXCEPT !.complete = synced, !.better = Unresolved']
    /\ UNCHANGED published
    /\ beaten' = TRUE
    /\ UNCHANGED <<chainVars, synced, said, age>>

\* Wrong: does not look at the chain.
HeartbeatWithoutReconcile ==
    /\ ReconcileGraph
    /\ Publish(Expired([quorum EXCEPT !.complete = synced, !.better = Unresolved']))
    /\ beaten' = TRUE
    /\ UNCHANGED <<chainVars, synced, said, age>>

\* Wrong: leaves the sync state to the next suffix.
HeartbeatWithoutSync ==
    /\ ReconcileGraph
    /\ Publish(Expired(Reconciled(quorum, tip)))
    /\ beaten' = TRUE
    /\ UNCHANGED <<chainVars, synced, said, age>>

\* The graph first, then reconcile_canonical_tip, set_sync_state and expire_stale,
\* which publishes.
Heartbeat ==
    /\ ReconcileGraph
    /\ Publish(Expired([Reconciled(quorum, tip) EXCEPT
                            !.complete = synced, !.better = Unresolved']))
    /\ beaten' = TRUE
    /\ UNCHANGED <<chainVars, synced, said, age>>

\* A lease that has run out is the same as none to every reader.
Aged(lease, none) == IF lease.left > 1 THEN [lease EXCEPT !.left = @ - 1] ELSE none

\* Time.  The loop runs a heartbeat between any two ticks.
Tick ==
    /\ beaten
    /\ beaten' = FALSE
    /\ quorum' = [quorum EXCEPT !.health = [p \in Peer |-> Aged(@[p], NoLease)],
                                !.frontier = [p \in Peer |-> Aged(@[p], NoFrontier)]]
    /\ age' = [p \in Peer |-> IF age[p] > TTL THEN age[p] ELSE age[p] + 1]
    /\ said' = [p \in Peer |-> IF age[p] >= TTL THEN NoBlock ELSE said[p]]
    /\ UNCHANGED <<chainVars, workVars, published, synced>>

-----------------------------------------------------------------------------
Init ==
    /\ tip = Genesis
    /\ quorum = [tip |-> Genesis, complete |-> FALSE, better |-> FALSE, connected |-> {},
                 health |-> [p \in Peer |-> NoLease],
                 frontier |-> [p \in Peer |-> NoFrontier]]
    /\ proofReady = FALSE /\ nonceReady = FALSE
    /\ synced = FALSE
    /\ plan = Nothing /\ job = Nothing /\ held = {}
    /\ hooked = FALSE /\ beaten = FALSE
    /\ said = [p \in Peer |-> NoBlock]
    /\ age = [p \in Peer |-> TTL + 1]

PeerStep(p) ==
    \/ Connect(p) \/ Disconnect(p)
    \/ AnnounceTip(p) \/ ConfirmHeaders(p)
    \/ ObserveCompatible(p) \/ RejectIncompatible(p)

Next ==
    \/ \E p \in Peer : PeerStep(p)
    \/ \E b \in Block : AdmitSuffix(b) \/ JobCommits(b) \/ LocalCommit(b)
    \/ \E b \in Block, p \in Peer : StartInstall(b, p)
    \/ PlanSnapshot \/ RetireSnapshot \/ GraphFaults
    \/ RetirePlan \/ StartApply \/ JobFails
    \/ \E selected \in BOOLEAN, sources \in SUBSET Peer : SuffixDone(selected, sources)
    \/ SnapshotDone
    \/ CanonicalTipChanged \/ Heartbeat \/ Tick

Spec == Init /\ [][Next]_vars

-----------------------------------------------------------------------------
LeaseType == [left : 0 .. TTL, ok : BOOLEAN]
FrontierType == [left : 0 .. TTL, parent : Block \cup {NoBlock}]

QuorumType ==
    [tip : Block, complete : BOOLEAN, better : BOOLEAN, connected : SUBSET Peer,
     health : [Peer -> LeaseType], frontier : [Peer -> FrontierType]]

TypeOK ==
    /\ tip \in Block
    /\ quorum \in QuorumType
    /\ proofReady \in BOOLEAN /\ nonceReady \in BOOLEAN
    /\ held \subseteq {"fault", "snapshot"}
    /\ said \in [Peer -> Block \cup {NoBlock}]
    /\ age \in [Peer -> 0 .. TTL + 1]

OnOneChain(a, b) == Extends(a, b) \/ Extends(b, a)

\* A branch replacement or a snapshot is committed, its completion not handled.
Replaced == job # Nothing /\ job.kind # "live" /\ job.reached # NoBlock

\* Until then the tip the quorum knows is on the chain of the committed tip, in
\* every order of completions, hooks and heartbeats (reconcile_canonical_tip,
\* set_canonical_tip): what a live suffix moves its leases to is on one chain
\* with what they were given for.
ViewOnChain == Replaced \/ Extends(tip, quorum.tip)

\* A running frontier lease belongs to a connected peer, and it ends within the
\* TTL of what that peer last confirmed, however often the tip it is for moved
\* (set_committed_tip, renew_health, disconnect).
LeaseFresh ==
    \A p \in Peer : quorum.frontier[p].left > 0 =>
        p \in quorum.connected /\ age[p] + quorum.frontier[p].left <= TTL

\* While the miner is told to search, enough failure domains are connected that
\* confirmed a tip of this node no more than the TTL ago: what the miner reads
\* is at most one heartbeat behind the leases (publish_at, expire_stale).
NonceBacked == nonceReady => Enough({p \in quorum.connected : age[p] <= TTL})

\* Leases and the miner's permission are backed by fresh confirmations, and the
\* quorum looks at the chain of the tip.
MiningBacked ==
    /\ TypeOK
    /\ ViewOnChain
    /\ LeaseFresh
    /\ NonceBacked

\* A step gives a peer a lease for the tip when the peer confirms that tip, or
\* moves the lease it had from a tip on the same chain: no single handler carries
\* a lease to another branch (set_committed_tip).
LeaseMove ==
    \A p \in Peer : quorum'.frontier[p].parent = quorum'.tip =>
        \/ said'[p] = quorum'.tip
        \/ /\ quorum.frontier[p].parent = quorum.tip
           /\ OnOneChain(quorum.tip, quorum'.tip)

LeaseMovesOnChain == [][LeaseMove]_vars

\* What MiningPeerQuorum says of itself: a branch replacement revokes a lease, so
\* whoever holds one for the tip last confirmed a block on one chain with it.
LeaseOnAncestry ==
    \A p \in Peer : quorum.frontier[p].parent = quorum.tip =>
        said[p] # NoBlock /\ OnOneChain(said[p], quorum.tip)

\* Whatever order the loop learns of commits in, the quorum ends on the tip the
\* chain ends on.
QuorumConverges == <>[][UNCHANGED tip]_tip => <>[](quorum.tip = tip)

\* A connected peer that keeps confirming the tip brings mining back for ever,
\* once no suffix, no snapshot and no fault of the header graph is left.
MiningResumes ==
    \A p \in Peer :
        <>[](p \in quorum.connected /\ ~Unresolved) /\ []<><<ConfirmHeaders(p)>>_vars
            => []<>nonceReady

\* The loop gets to every event that is due, and a job ends.
Fairness ==
    /\ WF_vars(Heartbeat) /\ WF_vars(CanonicalTipChanged) /\ WF_vars(SnapshotDone)
    /\ WF_vars(\E selected \in BOOLEAN, sources \in SUBSET Peer : SuffixDone(selected, sources))
    /\ WF_vars(JobFails)

FairSpec == Spec /\ Fairness
=============================================================================
