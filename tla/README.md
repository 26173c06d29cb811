# A TLA+ model of the Jetsam node

Jetsam is a proof-native UTXO chain written in Rust. A node keeps one canonical
chain in an MDBX database with a hot copy in memory, follows its peers by
fetching exact block suffixes or snapshots, keeps a transaction pool, mines, and
serves a wallet and RPC. This directory models the parts whose correctness
depends on the order of events (crashes, reorganizations, late answers, awaits
between a check and its use), checks them with TLC on small instances, and
proves the central invariants with TLAPS for every instance.

Contents: [inventory](#inventory), [overview](#overview),
[modules](#modules), [runs](#runs), [bounds](#bounds), [fairness](#fairness),
[proofs](#proofs), [findings](#findings),
[where comments and code part](#where-comments-and-code-part),
[not modelled](#not-modelled).

## Inventory

For each part: the state it owns, what changes it, whom it talks to, what is
hard about it, and what must be true. Paths are relative to `src/`.

**Chain store and context** (`jetsam_chain/src/storage/mdbx_store.rs`,
`mdbx_context.rs`). State: header, undo, body, terminal and segment tables, tip
and finalized checkpoint, the verified suffix authority record, the payload
pruning watermark; in memory the tip, checkpoint, UTXO image, header window and
a staged reorg. Operations: open, restore, commit a locally proved block, begin
and apply a recursively verified suffix, authorize, roll back, stage, commit or
abort a reorg, install a snapshot, prune. Hard: every transaction may be the
last before a crash; a suffix is committed block by block on the strength of a
proof about its last block, so half a suffix is durable with *markers* in the
place of proofs; a reorg runs in memory against a table that still shows the old
branch; pruning, finality and undo retention use different depths. Must hold: a
restart always resumes; headers are exactly the chain of the tip; memory equals
disk between operations; the finalized prefix never changes; every adopted chain
wins fork choice; what the non-final suffix needs for rollback and serving is
kept.

**Transaction pool** (`jetsam_mempool`, `jetsam_chain/src/mempool.rs`). State:
entries with two slot indexes, two further slot sets used by admission, the fee
floor, the chain view, a verification semaphore, an event channel. Operations:
submit (check, verify outside the lock, check again), follow a block, reclaim
after a reorg, sweep and select for a template. Interacts with every commit path
through the operation gate, which submissions do not take. Must hold: no two
entries conflict, every entry is minable on the view, the view is the tip when
nobody holds the gate, limits hold, every submission is answered.

**Commit paths** (`jetsam_node/src/main.rs`, `jetsam_miner/src/miner.rs`,
`jetsam_rpc/src/server.rs`). Each takes the operation gate, commits, captures the
pool's view under the same chain lock and updates the pool. Hard: a suffix that
fails half way has committed a prefix.

**Exact suffix transport** (`jetsam_node/src/networking/suffix_sync.rs`,
`object_fetcher.rs`, `sync_plan.rs`). State: a plan of claims, one fetch state
per claim, active leases and hedges, request tokens, excluded and busy sources.
Hard: responses, failures and disconnects come through different event lanes
(`jetsam_p2p/src/event_dispatch.rs`) and in any order; several claims share one
token. Must hold: a claim in flight always has a request that can still end it;
a late answer never ends another peer's lease; a plan without usable sources is
recognised as extinct.

**Header graph** (`networking/header_dag.rs`). State: validated headers above
the finalized point, condemned hashes, suppliers, the best tip. Must hold:
connected to the finalized point, closed under condemnation, bounded, best tip
is the best node.

**Commit admission** (`networking/chain_committer.rs`): one ticket at a time, a
generation counter, a recheck before the write; called by its own tests only.

**Snapshots** (`networking/snapshot_sync.rs`, `storage/snapshot_staging.rs`,
`storage/snapshot_generation.rs`, `snapshot_header_staging.rs`,
`snapshot_tail_staging.rs`): segment leases, a staging directory that survives
crashes, published generations that serve peers while blocks commit.

**Mining readiness** (`networking/mining_readiness.rs`,
`peer_chain_evidence.rs`): leases of independent failure domains; revoked by a
branch replacement.

**P2P** (`jetsam_p2p`): swarm, codecs, event and command lanes, peer diversity
and store, inbound and outbound byte budgets.

**UTXO state** (`jetsam_chain/src/state.rs`, `segmented_state.rs`,
`state_delta.rs`): slots in segments, undo logs, domain expansion, eviction.

**Consensus rules** (`jetsam_chain/src/consensus`): difficulty, timestamps,
fees, emission, epoch anchors, fork choice, paged spends, templates: pure.

**Client objects** (`consensus/client_objects*`, `jetsam_node/src/client_*.rs`):
ranked bounded queues of proofs and batches, announced and fetched from peers.

**Miner** (`jetsam_miner`): template preparation, proving, nonce search, and
`cpu_budget.rs`, one condition variable on which proving, mining and wallet work
wait. **External mining** (`jetsam_rpc/src/server.rs`, `jetsam_extminer`): one
prepared attempt, a published preview, a nonce that may be used once.

**Wallet** (`jetsam_node/src/wallet`, `jetsam_rpc/src/wallet_submit.rs`): coins
reserved by a guard across an admission, released by pool events, replayed on a
reorg.

**Proof system** (`jetsam_recursive`, `jetsam_ivc_core`, `jetsam_gkr`, ...):
prover and verifier arithmetic.

The hazards that follow from this, each at its line, are listed in
`PROJECT.json`.

## Overview

| module | of | how it is checked |
|---|---|---|
| `BlockTree`, `CanonicalLedger` | fork choice; what a chain store promises | abstract specification, refined by `ChainStore` |
| `ChainStore`, `ChainStoreProofs` | store and context | run `chain_store`, proofs |
| `Mempool`, `AdmissionProofs` | pool, commit paths, template builder | run `mempool`, proofs |
| `HeaderDag`, `HeaderDagProofs` | header graph and its handlers | runs `header_dag`, `empty_suffix`, proofs |
| `SuffixSync`, `SyncProofs` | exact suffix transport and event lanes | run `suffix_sync`, proofs |
| `MiningReadiness`, `MiningReadinessProofs` | permission to mine | runs `mining_readiness`, `lease_carried`, proofs |
| `ExternalMining`, `ExternalMiningProofs` | templates for external miners | run `external_mining`, proofs |
| `BlockMiner`, `BlockMinerProofs` | the internal miner | run `miner`, proofs |
| `CpuBudget`, `AdmissionProofs` | the shared worker pool | run `cpu_budget`, proofs |
| `Wallet`, `WalletProofs` | cache, reservations and record of the wallet | runs `wallet`, `reorg_record`, proofs |

How they fit together: a commit of `ChainStore` is a move of `CanonicalLedger`;
`HeaderDag` decides which suffix to fetch, `SuffixSync` fetches it, its
application is `ApplySuffixBlock` or a reorg of `ChainStore` and the commits of
`Mempool` and `Wallet`. `MiningReadiness` publishes the two watches that
`BlockMiner` waits on, and `CpuBudget` is the pool in which the workers of
`BlockMiner` run: its property `CallsReturn` is what `BlockMiner` assumes when it
takes a preparation to end and a cancelled search to give up. The announcements
of departures that `Wallet` depends on are `DeparturesAnnounced` of `Mempool`.
Each module is checked against an environment that may do all the neighbour can
do, so the modules are not composed into one state space.

## Modules

**`BlockTree`** declares the blocks the world may produce as constants: height,
the ancestor at each height, cumulative work and hash. Validity of a block is not
modelled, a block of the tree is a valid block. `ChainWins` is
`choose_chain_by_work`: more work, then the smaller hash.

**`CanonicalLedger`** is the abstract promise: a tip and a finalized checkpoint;
every move wins fork choice, keeps the finalized prefix and leaves the checkpoint
within the finality depth.

**`ChainStore`** models `mdbx_store.rs` and `mdbx_context.rs`. Tables are
functions from heights to blocks. A state image and an undo log are named by the
block they belong to, because the code compares roots and hashes, never contents.
A terminal row is a block together with the block whose proof covers it: itself
for a complete terminal, a later one for a marker.

| action | code |
|---|---|
| `CommitLocal` | `commit_locally_proved_next_block`, `commit_block` |
| `BeginSuffix`, `ApplySuffixBlock`, `AbandonCapability` | `begin_verified_recursive_suffix`, `apply_verified_recursive_suffix_block`, the caller dropping its capability after an error |
| `AuthorizeReorg`, `StartReorg`, `RevertBlock`, `StageBlock`, `CommitReorg`, `AbortReorg` | `authorize_preverified_reorg_suffix_with_root`, `apply_reorg_mdbx_with_objects` and its loops, `commit_reorg`, `abort_staged_reorg` |
| `InstallSnapshot` | `install_finalized_snapshot_staging`, `apply_staged_state_snapshot` |
| `PrunePayloads`, `PruneUndo`, `PruneFails` | the two transactions of `prune_after_commit`, and their errors |
| `Restart` | a crash at any point followed by `open_or_create` and `restore_from_mdbx` |

Each write transaction is one step, so a crash can fall between any two. The two
capabilities (a verified suffix, a verified reorg) are values a caller may keep
while the chain moves: the node holds the chain lock over their whole life, the
API does not require it, and the model takes the wider reading.

The theorems about a module `M` are in `MProofs`, see [Proofs](#proofs).

**`Mempool`** models `pool.rs`, the synchronous pool below it, the fee floor, the
commits that drive it and the template builder. A submission is a task with four
steps (pre-filter, permit, verification outside the lock, second check). A commit
first moves the tip (`CommitSuffix`, `CommitReorg`, `CommitSnapshot`), then the
pool (`OnNewBlock`, `ReadmitAfterReorg`), all while `update.stage` says that the
operation gate is held; submissions run in between. The builder captures its
parent under the gate and reads the pool without it (`CaptureTemplate`,
`EvictUnminable`, `SelectForBlock`). What the chain says about a transaction is
given by constants: the coin in each slot after each block, the accepted
anchors, the height from which it is refused.

**`HeaderDag`** models `header_dag.rs` and the handlers of `main.rs` that use it.
Headers are blocks of the tree. An inventory is reduced to the peers that
advertised a header, a suffix plan to its base, target and the tip it starts
from, and a verdict on a suffix to its kind. `Bad` is the set of blocks a native
rule refuses. The node loop runs one handler at a time; a handler that inserts
several headers takes several steps and `work` names it. Commits by other tasks
fall between handlers: a handler reads the chain once, at its start, and a commit
does not touch the graph.

| action | code |
|---|---|
| `ReceiveBatch`, `InsertNext`, `AttachInventory`, `SelectTarget` | the `HeaderInventoryBatch` handler: `plan_header_inventory`, `record_validated_headers`, the inventory, `forget_unsupplied_tie`, the frozen path and `admit_exact_suffix_offer` |
| `AnnounceChild` | the direct-child branch of the `HeaderAnnouncement` handler |
| `Connect`, `Disconnect`, `RefusePeerBranch`, `EndVerdict`, `Quarantine` | peer events, divergence verdicts, `quarantine_exact_suffix_sources` |
| `StartApply`, `ApplySuffix`, `HandleCompletion`, `ForgetNext`, `RetirePlan` | `try_start_exact_suffix_apply`, the task it starts, its completion with `invalidate`, `forget` and `forget_unsupplied_branch`, the retirement of a plan |
| `StartReconcile`, `InsertCanonical`, `FinishReconcile` | `reconcile_canonical_header_dag`, called by the heartbeat |
| `ProbeTip`, `Restart` | the heartbeat's fault on a tip it cannot place; `canonical_header_dag` at startup |
| `MineBlock`, `InstallSnapshot` | commits of other tasks |

**`SuffixSync`** models one plan being fetched: the leases of
`object_fetcher.rs`, the request table of `suffix_sync.rs`, the node loop's
handlers, and the swarm with its two event lanes (`event_dispatch.rs`). A claim
has a job: wanted, in flight with a primary and perhaps a hedge, or verified. Clocks are abstracted: a source in backoff is parked until
time passes; a hedge, rotation or expiry may be due at any heartbeat. `held` stands
for all that can keep a complete plan waiting: an apply in flight, a faulted header
graph or one that left the target, matrices still awaited. A source keeps the
failure domain it came with, while `advertise_new` would overwrite it with a later
announcement's.

| action | code |
|---|---|
| `HandleOutcome` | the live lane: `accept_response`, `request_busy`, `request_unavailable`, failures |
| `HandleDisconnect` | the control lane: `disconnect` |
| `Heartbeat` | `schedule`, hedges, rotations, expiry of late answers |
| `TryStart` (in the handlers), `Hold`, `HoldEnds` | `try_start_exact_suffix_apply` and its guards |
| `Discover`, `SomeProbeEnds`, `Retire` | the heartbeat's provider discovery, the answers to it, and the retirement of an extinct plan |
| `ReceiveInventory` | a header batch that brings a source |
| `SwarmStep`, `OpenConnection`, `CloseConnection`, `SomeBackoffEnds` | the network and time |

**`MiningReadiness`** models `mining_readiness.rs`, its wrapper in `main.rs` and
the handlers that feed it: peers connect, confirm, diverge and go (`PeerStep`),
the chain moves on other tasks (`JobCommits`, `LocalCommit`), and the loop
learns of it from `SuffixDone`, `SnapshotDone`, `CanonicalTipChanged` or
`Heartbeat`. What else keeps `unresolved_canonical_work` true is `held`: a fault of
the header graph (`GraphFaults`, cleared or not by each heartbeat) and the stages of
a snapshot plan before its install (`PlanSnapshot`, `RetireSnapshot`), which are not
told apart. `Tick` ages the leases; a heartbeat falls between any two ticks.
Publications inside one handler are not told apart.

**`ExternalMining`** models the template calls of `server.rs`: the attempt slot,
the published preview, preparation (`PrepareStep`), the calls of each miner
(`CallStep`, `HangUp`), sealing (`SealStep`), and the two ways a new tip reaches
the slot (`TaskInvalidates`, `HookInvalidates`). Tips are numbered and never come
back. A miner submits only for templates it was given. Looking for a preview and
reserving the slot is one step. A suffix task releases the operation gate before
its completion reaches the loop, as in the code.

**`BlockMiner`** models the loop of `miner.rs`, one action per place where it can
wait or be interrupted: `Top` to `Build`, the select around the preparation, the
gate (`Gate` to `Recheck`), `Begin`, `Reset`, `Start`, the select around the
search (`PowEnds` to `JoinPow`), `Seal`, `ApplyFoundBlock`. The node's side is
`CommitOther`, `Announce`, `SwitchAddress`, `FlipProof`, `FlipNonce`, `Admit`,
`SetStopped`, `SetCancel`; the workers are `Prepare`, `FindNonce`, `GiveUp` and
`Preempted` (a wallet proof takes the pool). A watch is its value and an unseen
bit. Template changes are one bit, since every receipt leads to the top, which
drains the channel.

**`CpuBudget`** models `cpu_budget.rs` with a step wherever another thread can
notice: `Publish` counts a wallet request outside the mutex, `Check` takes the
mutex and looks, `Sleep` and `WakeSpuriously` are the condition variable, `Admit`
enters, `Yield` is the search that sees a wallet request, `Release` and `Notify`
are the guard's drop. `Configure` and `PublishPlan` race for the one
configuration. The selection of worker counts is checked against its promises
for all hosts up to twelve threads.

**`Wallet`** models the wallet of the node: the cache and its reloads, a send
(`SendBegin`, `SendStep`) under the wallet gate with its rollback guard, a client
payment (`ClientSelect`, `ClientStep`, `ReleaseExpired`) without it, the relay of
the pool's evictions (`Relay`) and the events it misses when it falls behind
the channel (`Lag`), peers that send a payment back (`Regossip`), and
what the chain does: `AcceptBlock`, `Reorg`, `Jump` (a snapshot), `Restart`.
Writes of the record and reads of the owner index may fail. Amounts are left
out: any set of free coins may be what an amount selects.

The `MC` modules give the constants values.

## Runs

Nine runs pass; `reorg_record`, `lease_carried` and `empty_suffix` are violated as
the [findings](#findings) say.
Several invariants of a module are checked as one conjunction, whose parts keep
their names and their comments in the module.

| run | properties | states |
|---|---|---|
| `chain_store` | `RestartResumes`, `StoreConsistent`, `InterruptedSuffixResumable`, `StagedReorgCommits`, `PruningSound`, `ImplementsLedger` | 132,357 |
| `mempool` | `PoolSound`, `TemplateApplies`, `DeparturesAnnounced`, `SubmissionAnswered` | 61,096 |
| `header_dag` | `GraphSound`, `CanonicalNeverCondemned`, `RefusedSupplyNothing`, `SuffixEmptyOnlyAtRoot`, `PlansWin`, `FaultCleared` | 225,660 |
| `empty_suffix` | `SuffixNonEmpty` (violated) | |
| `suffix_sync` | `SourcesSound`, `LeaseHasRequest`, `PlanEnds` | 305,107 |
| `mining_readiness` | `MiningBacked`, `QuorumConverges`, `MiningResumes` | 314,082 |
| `lease_carried` | `LeaseOnAncestry` (violated) | |
| `external_mining` | `SlotSound`, `MinedOnce`, `TipTemplateKept`, `CallsAnswered` | 350,373 |
| `miner` | `SearchSound`, `StaleSearchEnds`, `StopEnds`, `MinerSettles` | 293,321 |
| `cpu_budget` | `PhasesSound`, `OvertakenAtMostOnce`, `PlanSound`, `WalletServed`, `CallsReturn` | 20,680 |
| `wallet` | `CoinsSound`, `NothingStranded`, `MinedRecorded`, `ExpiryIsFinal` | 1,330,262 |
| `reorg_record` | `ReminedRecorded` (violated) | |

`chain_store`:
- `RestartResumes`: the durable tables always pass `restore_from_mdbx`, so the
  branch of `open_or_create` that clears the database is never taken.
- `StoreConsistent`: no stale or missing header (`HeadersAreTheChain`); memory
  equals disk between operations (`HotMatchesDurable`) and during a staged reorg
  is a prefix of the new branch (`StagedReorgInStep`).
- `InterruptedSuffixResumable`: a half-applied suffix can be continued towards the
  target its markers name. `StagedReorgCommits`: a fully staged reorg is accepted.
- `PruningSound`: non-final blocks keep undo log, body and terminal, and the
  checks of the pruning loop can always pass again.
- `ImplementsLedger`: refinement of `CanonicalLedger`.

`mempool`:
- `PoolSound`: no two entries conflict and the indexes are exact; every entry is
  minable on the view; the view is the tip when nobody holds the gate; the slot
  sets miss no entry; limits hold; an empty pool asks the base fee.
- `TemplateApplies`: a template on a parent that is still the tip applies whole.
- `DeparturesAnnounced`: a departure is announced, except a reorg's reclaim.
- `SubmissionAnswered`: every submission ends.

`header_dag`:
- `GraphSound`: every header is linked to the finalized point, the selected tip is
  the best header left, condemned headers and what stands on them stay out,
  capacities hold.
- `SuffixEmptyOnlyAtRoot`: the batch handler freezes an empty suffix only for a batch
  that ended at a relation-root height while another tip, on the committed chain, is
  selected; `empty_suffix` shows that this happens. `PlansWin`: a plan is made only
  towards a tip that beats the tip it starts from.
- `FaultCleared`: a fault of the graph is cleared, but for two states in which headers
  alone keep it: the selected ones leave the committed chain below its checkpoint, or
  they fill the graph, where they are protected from eviction, so that the committed
  block finds no room (`CommittedFits`).
- `CanonicalNeverCondemned`: a late verdict never hits the committed chain.
  `RefusedSupplyNothing`: late batches make no refused peer a provider again.

`suffix_sync`:
- `LeaseHasRequest`: a lease has a pending request that can end it: terminals
  always, coalesced bodies while no connection is lost.
- `SourcesSound`: an excluded source never comes back; the legs of a hedge never
  share a failure domain.
- `PlanEnds`: while connections last, a plan is completed, or found extinct with its
  discovery rounds done or with no peer left to ask. Excepted is a claim pinned to an
  encoding that all its sources have replaced (`Outdated`).

`mining_readiness`:
- `MiningBacked`: the tip the quorum knows is on the chain of the committed tip,
  unless a replacement is committed and its completion not handled
  (`ViewOnChain`); a running lease belongs to a connected peer and ends within the
  TTL of what that peer confirmed (`LeaseFresh`); the miner is told to search only
  with enough such peers (`NonceBacked`).
- `QuorumConverges`: the quorum ends on the tip the chain ends on.
  `MiningResumes`: a peer that keeps confirming brings mining back once no suffix, no
  snapshot and no fault of the graph is left.

`external_mining`:
- `SlotSound`: the slot is busy exactly while a task owns it; a ready template is
  on the tip or about to be dropped; promised lifetimes and payees hold; while the
  tip stays, junk nonces cost no template, and a preview on offer is live and is
  not taken down by another template's guard.
- `MinedOnce`: a committed template never becomes ready again.
- `TipTemplateKept`: a template on the tip leaves the slot only to be sealed or
  expired, except when a completion is handled late.
- `CallsAnswered`: every call of a miner is answered.

`miner`:
- `SearchSound`: no worker outlives its select branch; a search has both watches
  ready or a change still to see, unless readiness was lost between the gate's
  look and the mark.
- `StaleSearchEnds`, `StopEnds`: a search on an old tip or payout ends, and
  shutdown ends the loop, also when no nonce is ever found.
- `MinerSettles`: while the watches stay ready, the miner keeps coming back to a
  search for the block after the tip.

`cpu_budget`:
- `PhasesSound`: exclusive phases exclude each other; the counter of wallet
  requests is exact. `OvertakenAtMostOnce`: a counted wallet request sees at most
  one block-production phase start.
- `PlanSound`: whoever was told that the pool is configured got its plan; an
  internal miner leaves the protocol's reserve free; a larger host never gets
  fewer workers.
- `WalletServed`, `CallsReturn`: no wake-up is lost.

`wallet`:
- `CoinsSound`: a cache that claims to be the tip's is, as long as the owner index
  can be read; the coins of a send under way are live.
- `NothingStranded`: what is reserved or pending can still be settled, unless the relay
  missed its eviction, a write failed, or a restart or reorganisation came.
- `MinedRecorded`: without reorganisations and snapshots, a payment in the chain is
  recorded as mined. When the process stopped between the commit and the wallet's
  update, two records stay as they were: that of a consolidation, which the startup
  reconciliation skips, and one that was given up before.
- `ExpiryIsFinal`: a client payment is given up only when no block can include it.

## Bounds

`MCChainStore` has ten blocks up to height 5: a main branch, a branch of equal
work from height 2 that hashes decide, and a block at height 4 that outweighs
two blocks, so that a shorter chain replaces a longer one. Finality 2, undo
retention 3, serving depth 3, prune limit 1, header window 2, snapshot window 3
stand for 8, 16, 22, the batch limit, 25 and the median plus epoch window. They
keep the order of the real constants as far as it matters (undo beyond finality,
serving beyond finality, windows at least finality) and make finality move,
pruning lag behind and both forks straddle the boundary within five blocks.
Deadlock is not checked there because the tree is finite: at its last block only
a restart remains.

`MCMempool` has a tree of two branches of two blocks, the second of which wins
late; five transactions that conflict on inputs, on outputs and across, one whose
proof fails, one that a later height refuses; two tasks, one permit, two entries,
three bytes, a fee window of two.

`MCHeaderDag` has a branch of three blocks, whose tip a native rule refuses, and a
block that ties with its first one. The graph has room for three headers of the
four: the long branch fills it, arrivals meet eviction, and a committed block may
find no room. The relation-root height is 1, that of the two tied blocks, so a batch
may end there with another tip selected. Finality 1 makes the checkpoint move on the
second block, and an advance limit of 1 separates the
incremental reconciliation from the rebuild (which a snapshot brings about).
There is one peer, which is rejected with a verdict and brings no header
afterwards; that a second one cannot bring condemned headers back either is proved
(`GraphAlwaysSound` is for any peers). `MCEmptySuffix.cfg` is the same instance. Deadlock is not checked since a finite tree runs out of headers.

`MCSuffixSync` looks at four plans, each with the faults it is about: a terminal
from two peers that flap, a terminal hedged over three peers with a Busy answer,
two bodies in coalesced requests, and a body whose sources may announce other bytes
and which may have to wait when it is complete. Two objects per request and a failure
limit of one or two make exclusion, rotation and extinction happen; two discovery
rounds stand for the six of `EXACT_PLAN_DISCOVERY_ROUNDS`.

`MCMiningReadiness` has one peer, a quorum of one, leases of two ticks, and a block
with two children of which one outweighs the other, enough for a lease to meet a
child, a sibling of that child, a replacement and its expiry. More peers only add leases that
do not interact. `MCLeaseCarried.cfg` is the same instance.

`MCExternalMining.cfg` has two miners, two templates, two tips and one tick of
lifetime: a template of one miner races the other's preparation, submission and
expiry. `MCBlockMiner.cfg` has three tips and two events besides commits and
shutdown; the tips and events end, so deadlock is not checked in either.

`MCCpuBudget` has a miner that never stops calling, and a wallet sender and a
verifier with one call each: a third wallet request would wait as the second does.

`MCWallet` looks at four situations, so that every fault occurs without all of
them multiplying: no fault; a client payment with a reorganisation and a failed
write; every fault once but a relay that lags; a restart and a lagging relay. Two sends are interchangeable (only safety is
checked). `MCReorgRecord.cfg` is the restart situation with a reorganisation
instead.

## Fairness

`ChainStore` and `Wallet` have no fairness: nothing obliges a
caller to continue.

- `Mempool`: weak fairness of verification and of the answer (the runtime runs
  every woken task and the blocking pool finishes every proof), strong fairness of
  the permit (tokio's semaphore is first in, first out), weak fairness of the pool
  update (the gate holder runs to its end).
- `HeaderDag`: weak fairness of the steps of a handler that has started, strong
  fairness of `StartReconcile`: the heartbeat is a branch of the loop's `select!`
  on a timer, so it comes round although other handlers disable it again and again.
- `SuffixSync`: the lanes are drained, the heartbeat comes, the swarm settles each
  request and every probe by its deadline, some backoff ends, an extinct plan is asked
  about while some peer may be asked: each if it stays due, as branches of the same
  loop. Nothing makes a complete plan start or an extinct one retire: the wait may last,
  and each heartbeat may find a probe unanswered.
- `MiningReadiness`: weak fairness of the heartbeat, of the three completions and of
  a task that cannot commit failing. Peers owe nothing.
- `ExternalMining`: weak fairness of each miner's running call, of preparation, of
  sealing, of the task's invalidation and of time. Miners owe no call.
- `BlockMiner`: weak fairness of its task, of the preparation ending, of a cancelled
  search giving up, of shutdown's second flag and of the loop announcing a commit.
  None of a nonce being found, nor of the heartbeat.
- `CpuBudget`: weak fairness of each thread's own steps and of every phase ending
  but the nonce search, which ends only when it yields; strong fairness of taking
  the mutex (`Check`, `Release`): a mutex that is free again and again is got.

## Proofs

The theorems hold for every value of the constants that the named assumptions
admit. Each safety theorem rests on an inductive invariant, which TLC checked on
the module's run before it was proved; the paragraphs say what it adds to the
property and why.

| theorem | of | states |
|---|---|---|
| `NeverCleared`, `StoreAlwaysConsistent`, `SuffixAlwaysResumable`, `StagedReorgAlwaysCommits`, `PruningAlwaysSound`, `Refinement` | `ChainStore` | `RestartResumes`, `StoreConsistent`, `InterruptedSuffixResumable`, `StagedReorgCommits`, `PruningSound`, `ImplementsLedger` |
| `PoolAlwaysSound`, `TemplateAlwaysApplies`, `DeparturesAlwaysAnnounced` | `Mempool` | `PoolSound`, `TemplateApplies`, `DeparturesAnnounced` |
| `GraphAlwaysSound`, `SuffixEmptyAtRootAlone`, `PlansAlwaysWin`, `CanonicalNeverEverCondemned`, `RefusedNeverSupply` | `HeaderDag` | `GraphSound`, `SuffixEmptyOnlyAtRoot`, `PlansWin`, `CanonicalNeverCondemned`, `RefusedSupplyNothing` |
| `SourcesAlwaysSound`, `LeasesHaveRequests` | `SuffixSync` | `SourcesSound`, `LeaseHasRequest` |
| `SlotAlwaysSound`, `AlwaysMinedOnce`, `TipTemplateAlwaysKept` | `ExternalMining` | `SlotSound`, `MinedOnce`, `TipTemplateKept` |
| `CoinsAlwaysSound`, `NothingEverStranded`, `MinedAlwaysRecorded`, `OnlyDeadPaymentsExpire` | `Wallet` | `CoinsSound`, `NothingStranded`, `MinedRecorded`, `ExpiryIsFinal` |
| `MiningAlwaysBacked`, `LeasesStayOnChain` | `MiningReadiness` | `MiningBacked`, and that no step carries a lease to another branch |
| `PhasesAlwaysSound`, `AlwaysOvertakenAtMostOnce`, `PlanAlwaysSound` | `CpuBudget` | `PhasesSound`, `OvertakenAtMostOnce`, `PlanSound` |
| `SearchAlwaysSound` | `BlockMiner` | `SearchSound` |

**`ChainStoreProofs`** assumes `TreeTypes`, `TreeShape`, `TreeWork` (a block tree in
which work grows along a chain and hashes differ), `Depths` and `EmptyCell`. A commit
keeps the header table right only if memory equals disk; memory equals disk after a
reorg only if the staged branch was in step; the staged branch commits to the right
checkpoint only if the finalized block lies on the chain of the tip. The inductive
invariant `Inv` is their conjunction with `FinalityBound`. The delicate step is a
commit that advances finality: `FinalizedOnChain` shows that the header found at the
new finalized height lies on the new tip's chain, from the in-memory window while a
reorg is staged and from the table otherwise. `ExtendsTransitive` and `ChainIsLinear`
are the facts about trees that everything rests on, and `ExtensionWins` (a longer
chain on the same block has more work) turns an ordinary commit into a ledger step.
What pruning keeps is a second invariant on top, `Retained`: above the watermark each
height has its terminal row, for the block of that height, and the watermark stays
below the checkpoint (`RowsBind`); above the checkpoint each block has its own undo
log and body (`LogsKept`); and a half-applied suffix can be resumed.
`PruningSound` alone says nothing of the row at the checkpoint, which a reorg that
branches there needs. `StagedReorgCommits` then follows without further induction:
the rows a fully staged branch would write authorize its tip (`BranchAuthorized`).

**`HeaderDagProofs`** assumes the block tree and `GraphConstants`, among them
`FinalityDepth <= MaxNodes`: with less room the canonical headers evict each other.
The invariant has four parts besides the types. The graph holds the whole path from
the finalized point to each header (`Linked`; `GraphSound` speaks of one parent) and
selects the best (`DagInv`). The committed chain breaks no native rule, and what is
condemned stands on a block that does (`ChainInv`, `CondemnedUnsound`): hence
`CanonicalNeverCondemned`. A plan leads from its base to its target (`PlanFits`). A
handler that is halfway through works for one peer that is neither rejected nor
refused, and a reconciliation moves finality forward (`HandlerFits`). The hard step is
the eviction of the worst leaf, which must leave a linked graph whose best header is
still selected.

**`ExternalMiningProofs`** assumes `ExternalConstants` (a finite set of miners). The
parts of `SlotSound` are inductive only together with who was given which identifier
(`Issued`, `Published`), that a replaced parent will be reported to the slot, by the
hook or by a task (`Told`), that a miner read the tip after it was given its template
(`ReadAfter`), and that a junk nonce gets past the check only when its template is
gone for good (`JunkIsLate`).

**`WalletProofs`** assumes `WalletConstants`. The invariant ties the cache to the gate:
while a send is under way, or no read has failed, the cache is the owner index of
the tip (`CacheInv`). Blocks keep it by `DeltaIsReload`: the delta of a block on the
owned coins before it gives those after it, since what it mints took empty slots. A
payment under way is known to nobody else (`OpInv`, `BuildInv`), so that a record,
once mined, never goes back. `Settled` says that a send is tracked exactly while its
record is pending; a send that is neither under way nor in the pool has an eviction
that is queued or was lost. `MinedRecorded` needs the cache: a payment nobody noted is
recognised by the coins it spends. Expiry is final because a payment is handed out
no earlier than its anchor (`PaidInv`) and lives longer than a window from there.

**`MiningReadinessProofs`** assumes the block tree and `ReadinessConstants` (finitely
many peers). Each handler but time is shown to be one kind of step (`Move`): the
leases after it are those of the peers that just confirmed, and old ones that stayed
or followed the tip along one chain (`Carried`). The invariant then has to know why a
completion may move leases although it never looks at the quorum's tip: mutations are
exclusive, so what a job committed stays below the committed tip until its completion
is handled (`WorkOK`), and so does what the quorum knows (`ViewOnChain`); two
ancestors of one block are on one chain. `NonceBacked` is not inductive as it stands,
since the miner keeps the permission until the next heartbeat: between a heartbeat
and the tick after it the leases behind the permission have a tick to spare
(`NonceInv`).

**`SyncProofs`** assumes `SuffixConstants` (peers and claims are numbers, so that
`choose_source` has a least one to return). A job by itself is sound when its legs are
sources and what is excluded is neither source nor late (`Shape`), and when whoever
is not excluded has failed less often than the limit (`Below`): the limit excludes in
the very step that reaches it. `LeaseHasRequest` speaks of one lease; a coalesced
request may end several, and the answer to one may end those of another. While no
connection was lost the invariant therefore adds that a request for bodies is current
as a whole, or its peer is excluded from all it asks for (`Whole`), and that no two
current ones share a body (`Apart`). Settling a current request then takes its own
leases and no other (`Settles`), which is what fails once a connection is lost.
Terminals need neither, since a request for one carries nothing else. The hard step is
the dispatch: primaries, hedges and the rotation are started in one pass, and each new
lease has its request although the full lane may refuse any of them
(`DispatchInStep`). `CloseConnection` counts in `used.flaps`, so a disconnect is
handled only where bodies are no longer looked at.

**`AdmissionProofs`** has the two gates, the worker pool's and the transaction pool's. `CpuBudget` is for any finite set of
threads. The invariant adds who holds the mutex (`LockInv`), that a thread about to be
admitted finds nobody inside (`ActiveInv`), and that once a counted request was
overtaken no block-production phase is about to start (`OvertakenInv`): the checks
after it see the counter. `PlanSound` rests on the bounds of the worker count for each
mode (`CeilingFacts`, `SelectedCount`) and on an invariant of the configuration race
(`PlanInv`).

`Mempool` assumes the block tree, `PoolConstants` and `PagedSpends` (a
transaction does not spend what it mints). The invariant adds that the holder of
the gate carries the view of the tip it committed (`UpdateOnTip`), that the fee window
of a drained pool is empty (`WindowDrained`), and `TemplateDated`: the parent of a
template is the tip or was beaten by it, so that a tip never comes back under a
template, and one that is still the tip was captured when the view was it. The bytes
in the pool are a cardinality, so that the limit needs no sum by recursion.

**`BlockMinerProofs`** is for any number of tips and events, from the assumption
`Bounds`. `WorkersJoined` is inductive. `SearchAuthorized` needs `Admitted`: what the
gate saw holds at each place behind it, or was lost (`lapsed`), and from the mark on
every loss leaves an edge.

Only model-checked:

- the liveness properties (`SubmissionAnswered`, `FaultCleared`, `PlanEnds`,
  `QuorumConverges`, `MiningResumes`, `CallsAnswered`, `StaleSearchEnds`, `StopEnds`,
  `MinerSettles`, `WalletServed`, `CallsReturn`): liveness under fairness is out of
  the prover's reach.

Every safety property that a passing run checks is proved.

## Findings

`reorg_record`: a payment of the wallet that is mined again on the branch that
replaces the chain keeps its record pending, although the comment at
`wallet/mod.rs:364` says that the caller gives it its new height.

`lease_carried`: `main.rs:459` says that a branch replacement revokes the leases, and
each handler does so for the tip the quorum knows (`LeasesStayOnChain`). Together
they do not. A live suffix commits b1, this node mines b2 on it and the hook moves
the quorum to b2, which a peer confirms. The completion of the suffix comes late and
moves the lease back to b1, as if b1 extended b2 (`main.rs:16479` passes
`extends_previous = true`). When a sibling of b2 then replaces it before the next
heartbeat, `reconcile_canonical_tip` takes it for a child of b1: the peer that
confirmed b2 authorizes mining on the sibling until its lease ends.

`empty_suffix`: the batch handler expects that the suffix it froze has a last header
(`main.rs:14367`). `range_completes_relation_root` (6548) lets it go on with a selected
tip other than the batch's target, and compares heights only: a batch that ends in a
competing block at the relation-root height, while the selected tip is the committed
one, leads to an empty suffix and ends the loop. `SuffixEmptyAtRootAlone` proves that
there is no other way to it.

Quotations are in `PROJECT.json`.

## Where comments and code part

Met while modelling. Each was seen as a TLC counterexample to the property read
literally, except where "read" is written; the property that is now checked names
the exception.

*Chain store.* A reorg asks for the undo log of the common ancestor, which it
never applies (`mdbx_context.rs:2203`). After a snapshot install there is none, so
a winning branch from the boundary is authorized and then refused.
`find_ancestor_height` (1857) bounds only its second half by finality; its
comment (1853) promises the bound for the whole.

*Pool.* `readmit_after_reorg` (`pool.rs:714`) does not rebuild the slot sets, so a
transaction it removed is refused when it is submitted again, and it announces no
departure. The event channel is sized for one block; a suffix announces several
at once.

*Header graph.* When the committed chain finalizes past the fork with a heavier
branch known only by headers, `advance_finalized` fails on every retry, although a
comment says that a header alone must not be a permanent pause switch (`main.rs:18327`).
So it does when a selected branch known only by headers fills the graph: all of it is
protected, and the committed block is refused with `Capacity` each time.

*Suffix transport.* `accept_response` (`suffix_sync.rs:616`) consumes the token and
stops at the first claim whose lease is gone; the claims after it stay in flight
without a request until that peer disconnects, contrary to the comment at 585. `mark_unavailable` and its siblings
(`object_fetcher.rs:562`) clear the chosen encoding although a late answer is still
queued (comment at 75). A Busy answer overtaken by the disconnect of its peer
leaves a late entry (`suffix_sync.rs:736`), and the plan is never extinct (comment
at `object_fetcher.rs:705`). A claim pinned to an encoding whose last source
disconnected stays pinned (`object_fetcher.rs:700`), since
`release_unavailable_encoding` has no caller (comment at 726); so does one whose only
sources announce other bytes, since `advertise_new` overwrites what they offered. When
every peer that could be asked has been quarantined, no discovery round is counted, so
an extinct plan is not retired and mining stays paused (`main.rs:18304`, comment at
18327), until a new peer comes.

*Miner side.* A wallet request can be overtaken by the one phase that looked at the
counter before it was raised (`cpu_budget.rs:301`; the comment at 299 says none).
`reconcile_canonical_tip` clears `unresolved_better_header` while a suffix to a
heavier tip is being fetched (`main.rs:612`, comment at 459) until the next
heartbeat. A preview for a custom address is served to callers that name none
(`server.rs:3465`, comment at 3459); a preparation on the new tip is marked by the
completion of that very tip (1028, comment at 1326); a late completion drops a
template on a newer tip (`main.rs:16498`, comment at `server.rs:1042`); a guard can
clear the preview of another template once the tip moved (1868, comment at 302). In
`miner.rs`: readiness lost between the gate's look and the mark at 861 is not
noticed until the next change (comment at 188); read: a nonce found while the
select takes another branch is dropped by the join (1034 to 1091, comment at 900
on discarding found nonces); read: old `TxAdmitted` events are not drained at the
top, so each can cancel a later coinbase-only search (comment at 157).

*Wallet.* After a snapshot, a send mined below the boundary is evicted as consumed
and its record erased (`main.rs:19185`, comment at `state.rs:430`). A reload frees
the coins of a client payment that can still be mined (`state.rs:358`, comment at
`server.rs:3288`). `wallet_build_client_payment` selects without the wallet gate
(`server.rs:3262`, comment at `wallet_submit.rs:7`). The late eviction of an old
send frees coins a newer one reserved (`state.rs:442`, comment at 539). A record
that cannot be written leaves the reservation (`wallet_submit.rs:46`, comment at
`wallet_ops.rs:252`); so does a client payment dropped before it is tracked
(`server.rs:3299`, comment at `wallet_ops.rs:264`). A block applied after a failed
owner lookup makes the cache claim to be the tip's (`wallet/mod.rs:138`, comment at
`state.rs:123`). When the relay falls behind the pool's events, an eviction is never
applied, and the line of that send stays pending; its coins come back with the next
reload of the cache, not "for the life of the process" (`pool.rs:181`, `main.rs:3144`).

## Not modelled

Of the modelled parts:

- Store: the exact object archives and their pruning, the transaction and owner
  indexes, the client registry column and relation-root terminals (no modelled
  guard reads them); reads that fail while a reorg is aborted.
- Pool: `update_chain_view` and `check_client_payment` (the first has no caller in
  the node, the second admits nothing); the page budget of a template, which only
  shrinks the selection.
- Header graph: the validation of headers, what exactly an inventory offers,
  `highest_announced`, the probes that ask for headers.
- Readiness: isolated mode, which is always ready; which peers are probed.
- External mining: long polling, timestamps, hash-rate estimates, the strict gate.
- Miner: the closure of its channels, the launch gate, how a nonce is searched.
- Wallet: amounts, several outputs, switching and discovery of addresses, received
  payments.

A block's validity, a proof's verdict and a transaction's authorization are inputs
everywhere.

Not modelled at all:

- Snapshot transport and staging: directory and file operations whose atomicity is
  the file system's; `ChainStore` has what the install does with a finished one.
- UTXO state, undo and expansion, Merkle roots, most consensus rules: sequential or
  pure code over large data, better reached by its unit tests. The models name a
  state by its block.
- `chain_committer.rs`: the node does not call it.
- Client object queues: only the payment for one is in `Wallet`.
- Wire codecs, keys, the command line, the desktop wallet and the proof system: data
  layout, cryptography, user interface, and arithmetic out of a checker's reach.

The parts left out hold most of the repository's lines, so the share of all lines
that is modelled is small; the map in `PROJECT.json` names the ones that are.
