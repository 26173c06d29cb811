------------------------------- MODULE Mempool -------------------------------
(***************************************************************************)
(* The transaction pool (AsyncMempool over the synchronous Mempool), the   *)
(* canonical commits that drive it and the template builder that reads it. *)
(*                                                                         *)
(* Submissions check the pool, verify an authorization proof outside the   *)
(* pool lock and check again before admission.  Commits move the chain     *)
(* first and the pool's view of it afterwards: both happen under one       *)
(* operation gate, but submissions never take that gate, so they run       *)
(* between the two.                                                        *)
(*                                                                         *)
(* A transaction is a name with the slots and coins it binds; pages,       *)
(* amounts, owners and proof bytes are abstracted.  A view of the chain is *)
(* the block it was captured at.                                           *)
(***************************************************************************)
EXTENDS BlockTree, Sequences, FiniteSets

CONSTANTS
    Tx,             \* logical transaction ids
    Slot,           \* slot indices of the UTXO state
    Coin,           \* slot values (value, creation id, owner), all different
    Empty,          \* SlotValue::EMPTY
    Image,          \* Image[b][s]: slot s in the state after block b
    TxsOf,          \* TxsOf[b]: the logical transactions of block b
    Spent,          \* Spent[t]: the <<slot, coin>> pairs t spends
    Minted,         \* Minted[t]: the slots t writes
    AnchorOf,       \* AnchorOf[t]: the epoch anchor t binds
    Accepted,       \* Accepted[b]: the anchors the child of b accepts
    RefusedFrom,    \* RefusedFrom[t]: first height that refuses t as a plain
                    \* transaction (the v1.5 client-object rule)
    FeeOf,          \* FeeOf[t]
    RequiredFee,    \* RequiredFee[b][t]: the consensus minimum at view b
    SizeOf,         \* SizeOf[t]: bytes of the retained intent
    Authorized,     \* the transactions whose authorization proof verifies
    Task,           \* concurrent submit() calls
    Capacity,       \* MempoolConfig::capacity
    MaxBytes,       \* MempoolConfig::max_total_intent_bytes
    Workers,        \* MempoolConfig::auth_verify_workers
    FloorWindow,    \* MempoolConfig::fee_floor_window
    MinFeeBase,     \* MIN_FEE_BASE
    MaxBlockTxs,    \* BLOCK_MAX_USER_PAGES
    NoTx            \* no transaction: an idle submit() call

ASSUME PoolConstants ==
    /\ Empty \notin Coin
    /\ Image \in [Block -> [Slot -> Coin \cup {Empty}]]
    /\ TxsOf \in [Block -> SUBSET Tx]
    /\ Spent \in [Tx -> SUBSET (Slot \X Coin)]
    /\ Minted \in [Tx -> SUBSET Slot]
    /\ AnchorOf \in [Tx -> Block]
    /\ Accepted \in [Block -> SUBSET Block]
    /\ RefusedFrom \in [Tx -> Nat]
    /\ FeeOf \in [Tx -> Nat]
    /\ RequiredFee \in [Block -> [Tx -> Nat]]
    /\ SizeOf \in [Tx -> Nat]
    /\ Authorized \subseteq Tx
    /\ Capacity \in Nat /\ MaxBytes \in Nat /\ Workers \in Nat \ {0}
    /\ FloorWindow \in Nat \ {0} /\ MinFeeBase \in Nat /\ MaxBlockTxs \in Nat
    /\ NoTx \notin Tx

\* validate_paged_spend: the pages of one transaction never spend and write
\* the same slot.
ASSUME PagedSpends ==
    \A t \in Tx : {p[1] : p \in Spent[t]} \cap Minted[t] = {}

VARIABLES
    tip,        \* the canonical tip of MdbxChainContext
    update,     \* what the holder of the operation gate has still to do
    view,       \* MempoolState::view, named by the block it was captured at
    pool,       \* Mempool::entries (fee_index has the same keys)
    spentInputs,    \* Mempool::spent_inputs, its keys
    mintedOutputs,  \* Mempool::minted_outputs, its keys
    inSlots,    \* MempoolState::admitted_input_slots
    outSlots,   \* MempoolState::admitted_output_slots
    recent,     \* FeeFloor::recent
    task,       \* task[k]: a submit() call, its step and its transaction
    template,   \* the template builder
    sent        \* the events the last step broadcast

chainVars == <<tip, update>>
poolVars == <<view, pool, spentInputs, mintedOutputs, inSlots, outSlots, recent>>
vars == <<chainVars, poolVars, task, template, sent>>

Idle == [stage |-> "idle", at |-> Genesis, confirmed |-> {}, reclaimed |-> {}]
NoTemplate == [step |-> "none", parent |-> Genesis, picked |-> {}]
IdleTask == [step |-> "idle", tx |-> NoTx]

\* live_inputs(), their slot_index.
InputsOf(t) == {p[1] : p \in Spent[t]}
SlotsOf(t) == InputsOf(t) \cup Minted[t]

-----------------------------------------------------------------------------
(* The chain's verdict on a transaction.                                   *)

\* check_input_slots: every input slot holds exactly the coin t spends.
InputsLive(t, b) == \A p \in Spent[t] : Image[b][p[1]] = p[2]

\* check_output_slots: every output slot is empty.
OutputsEmpty(t, b) == \A s \in Minted[t] : Image[b][s] = Empty

AnchorAccepted(t, b) == AnchorOf[t] \in Accepted[b]

\* check_plain_transaction at the height of the next block.
PlainAt(t, h) == h < RefusedFrom[t]

-----------------------------------------------------------------------------
(* FeeFloor.                                                               *)

\* median_u64: the element at index len / 2 of the sorted window.
Median(fees) ==
    LET below(m) == Cardinality({i \in DOMAIN fees : fees[i] < m})
        upto(m) == Cardinality({i \in DOMAIN fees : fees[i] <= m})
    IN  CHOOSE m \in {fees[i] : i \in DOMAIN fees} :
            below(m) <= Len(fees) \div 2 /\ Len(fees) \div 2 < upto(m)

\* FeeFloor::compute: 90% of the median of the recent fees, at least the base.
Floor(fees) ==
    IF fees = <<>> THEN MinFeeBase
    ELSE LET ninety == (Median(fees) * 9) \div 10
         IN  IF ninety > MinFeeBase THEN ninety ELSE MinFeeBase

\* FeeFloor::record.
Recorded(fees, fee) ==
    Append(IF Len(fees) >= FloorWindow THEN Tail(fees) ELSE fees, fee)

-----------------------------------------------------------------------------
(* submit().                                                               *)

\* run_admission_checks against the pool's view and its slot sets.
AdmissionChecks(t) ==
    /\ FeeOf[t] >= Floor(recent)
    /\ FeeOf[t] >= RequiredFee[view][t]
    /\ PlainAt(t, Height[view] + 1)
    /\ AnchorAccepted(t, view)
    /\ InputsOf(t) \cap inSlots = {}
    /\ Minted[t] \cap outSlots = {}
    /\ InputsLive(t, view)
    /\ OutputsEmpty(t, view)

\* total_intent_bytes: the sum of the sizes, as the number of retained bytes.
Bytes(t) == {t} \X (1 .. SizeOf[t])
Retained(txs) == UNION {Bytes(t) : t \in txs}
TotalBytes(txs) == Cardinality(Retained(txs))

\* The checks submit() makes under the lock, before and after verification.
MayEnter(t) ==
    /\ t \notin pool
    /\ TotalBytes(pool) + SizeOf[t] <= MaxBytes
    /\ AdmissionChecks(t)

Running == {k \in Task : task[k].step = "running"}

PermitFree == Cardinality(Running) < Workers

\* The pre-filter.  A submission it refuses changes nothing.
SubmitPrefilter(k, t) ==
    /\ task[k].step = "idle"
    /\ MayEnter(t)
    /\ task' = [task EXCEPT ![k] = [step |-> "waiting", tx |-> t]]
    /\ sent' = {}
    /\ UNCHANGED <<chainVars, poolVars, template>>

\* auth_verify_semaphore.acquire().
AcquirePermit(k) ==
    /\ task[k].step = "waiting"
    /\ PermitFree
    /\ task' = [task EXCEPT ![k].step = "running"]
    /\ sent' = {}
    /\ UNCHANGED <<chainVars, poolVars, template>>

\* Mutant: a proof that does not verify is tried again, permit held.
VerifyAgain(k) ==
    /\ task[k].step = "running"
    /\ task' = [task EXCEPT ![k].step = IF task[k].tx \in Authorized
                                        THEN "verified" ELSE "running"]
    /\ sent' = {}
    /\ UNCHANGED <<chainVars, poolVars, template>>

\* verify_intent_authorization, outside the lock; the permit is released.
VerifyAuthorization(k) ==
    /\ task[k].step = "running"
    /\ task' = [task EXCEPT ![k] = IF task[k].tx \in Authorized
                                   THEN [@ EXCEPT !.step = "verified"]
                                   ELSE IdleTask]
    /\ sent' = {}
    /\ UNCHANGED <<chainVars, poolVars, template>>

\* Mempool::admit: capacity, duplicates, and conflicts between any two live
\* actions of different transactions, whichever side they are on.
Admissible(t) ==
    /\ Cardinality(pool) < Capacity
    /\ t \notin pool
    /\ SlotsOf(t) \cap (spentInputs \cup mintedOutputs) = {}

\* Mutant: the pre-filter is trusted.
PrefilterTrusted(t) == t \notin pool

\* The whole check again, against what is current now.
Recheck(t) == MayEnter(t)

\* Final admission.
SubmitAdmit(k) ==
    /\ task[k].step = "verified"
    /\ LET t == task[k].tx IN
       /\ Recheck(t)
       /\ Admissible(t)
       /\ pool' = pool \cup {t}
       /\ spentInputs' = spentInputs \cup InputsOf(t)
       /\ mintedOutputs' = mintedOutputs \cup Minted[t]
       /\ inSlots' = inSlots \cup InputsOf(t)
       /\ outSlots' = outSlots \cup Minted[t]
       /\ recent' = Recorded(recent, FeeOf[t])
       /\ sent' = {<<"admitted", t>>, <<"verified", t>>}
    /\ task' = [task EXCEPT ![k] = IdleTask]
    /\ UNCHANGED <<chainVars, view, template>>

\* The second check refuses.  A view behind the durable tip may also fail to
\* read a segment (ChainViewReadError::StaleOrUnavailable).
SubmitRefuse(k) ==
    /\ task[k].step = "verified"
    /\ \/ ~Recheck(task[k].tx)
       \/ ~Admissible(task[k].tx)
       \/ view # tip
    /\ task' = [task EXCEPT ![k] = IdleTask]
    /\ sent' = {}
    /\ UNCHANGED <<chainVars, poolVars, template>>

-----------------------------------------------------------------------------
(* Canonical commits, under the operation gate.                            *)

\* The transactions of the blocks of b's chain above block a.
TxsAbove(a, b) ==
    UNION {TxsOf[Anc[b][h]] : h \in (Height[a] + 1) .. Height[b]}

\* ChainView::from_mdbx, captured under the same write lock as the commit.
CapturedView(old, new) == new

\* A mined block or an exact live suffix of one or more blocks; a suffix that
\* fails half way reports the blocks it did commit.
CommitSuffix(b) ==
    /\ update.stage = "idle"
    /\ b # tip /\ Extends(b, tip)
    /\ tip' = b
    /\ update' = [stage |-> "view", at |-> CapturedView(tip, b),
                  confirmed |-> TxsAbove(tip, b), reclaimed |-> {}]
    /\ sent' = {}
    /\ UNCHANGED <<poolVars, task, template>>

\* An atomic reorg: the undo logs name the transactions of the lost blocks.
CommitReorg(f, b) ==
    /\ update.stage = "idle"
    /\ Extends(tip, f) /\ Extends(b, f) /\ f # b
    /\ \A g \in Block : Extends(tip, g) /\ Extends(b, g) => Extends(f, g)
    /\ f # tip
    /\ ChainWins(b, tip)
    /\ tip' = b
    /\ update' = [stage |-> "view", at |-> CapturedView(tip, b),
                  confirmed |-> TxsAbove(f, b), reclaimed |-> TxsAbove(f, tip)]
    /\ sent' = {}
    /\ UNCHANGED <<poolVars, task, template>>

\* apply_verified_snapshot_boundary: the state jumps, no block is named.  A
\* snapshot that is no higher than the tip is superseded; ChainStore has the
\* rest of the install's conditions.
CommitSnapshot(b) ==
    /\ update.stage = "idle"
    /\ Height[tip] < Height[b]
    /\ Extends(b, tip) \/ ChainWins(b, tip)
    /\ tip' = b
    /\ update' = [stage |-> "view", at |-> CapturedView(tip, b),
                  confirmed |-> {}, reclaimed |-> {}]
    /\ sent' = {}
    /\ UNCHANGED <<poolVars, task, template>>

-----------------------------------------------------------------------------
(* The pool follows.                                                       *)

\* Mempool::remove for every transaction of txs.
Remove(txs) ==
    /\ pool' = pool \ txs
    /\ spentInputs' = spentInputs \ UNION {InputsOf(t) : t \in pool \cap txs}
    /\ mintedOutputs' = mintedOutputs \ UNION {Minted[t] : t \in pool \cap txs}

\* rebuild_slot_sets.
RebuildSlotSets(txs) ==
    /\ inSlots' = UNION {InputsOf(t) : t \in txs}
    /\ outSlots' = UNION {Minted[t] : t \in txs}

\* FeeFloor::reset once the pool has drained.
ResetFloorIfEmpty(txs) == recent' = IF txs = {} THEN <<>> ELSE recent

\* What a pool entry needs to stay when the view moves to b.
Survives(t, b) ==
    /\ AnchorAccepted(t, b)
    /\ OutputsEmpty(t, b)
    /\ InputsLive(t, b)
    /\ PlainAt(t, Height[b] + 1)

\* Mutant: the evicted entries go without a word.
EvictQuietly ==
    /\ update.stage = "view"
    /\ view' = update.at
    /\ LET left == pool \ update.confirmed
           evicted == {t \in left : ~Survives(t, update.at)}
       IN  /\ Remove(update.confirmed \cup evicted)
           /\ RebuildSlotSets(left \ evicted)
           /\ ResetFloorIfEmpty(left \ evicted)
           /\ sent' = {"confirmed"} \X update.confirmed
    /\ update' = IF update.reclaimed = {} THEN Idle ELSE [update EXCEPT !.stage = "readmit"]
    /\ UNCHANGED <<tip, task, template>>

\* on_new_block.  After a reorg the same gate holder still calls
\* readmit_after_reorg.
OnNewBlock ==
    /\ update.stage = "view"
    /\ view' = update.at
    /\ LET left == pool \ update.confirmed
           evicted == {t \in left : ~Survives(t, update.at)}
       IN  /\ Remove(update.confirmed \cup evicted)
           /\ RebuildSlotSets(left \ evicted)
           /\ ResetFloorIfEmpty(left \ evicted)
           /\ sent' = ({"confirmed"} \X update.confirmed) \cup ({"evicted"} \X evicted)
    /\ update' = IF update.reclaimed = {} THEN Idle ELSE [update EXCEPT !.stage = "readmit"]
    /\ UNCHANGED <<tip, task, template>>

\* readmit_after_reorg: the reclaimed transactions leave the pool.  It touches
\* neither the slot sets nor the event channel.
ReadmitAfterReorg ==
    /\ update.stage = "readmit"
    /\ Remove(update.reclaimed)
    /\ ResetFloorIfEmpty(pool \ update.reclaimed)
    /\ update' = Idle
    /\ sent' = {}
    /\ UNCHANGED <<tip, view, inSlots, outSlots, task, template>>

-----------------------------------------------------------------------------
(* The template builder.                                                   *)

\* Mutant: the parent is captured without the operation gate.
CaptureUngated ==
    /\ template.step \in {"none", "built"}
    /\ template' = [step |-> "captured", parent |-> tip, picked |-> {}]
    /\ sent' = {}
    /\ UNCHANGED <<chainVars, poolVars, task>>

\* TemplateChainSnapshot::from_context under the operation gate, which is
\* released before the pool is read.
CaptureTemplate ==
    /\ update.stage = "idle"
    /\ template.step \in {"none", "built"}
    /\ template' = [step |-> "captured", parent |-> tip, picked |-> {}]
    /\ sent' = {}
    /\ UNCHANGED <<chainVars, poolVars, task>>

\* evict_unminable_at for the child of the captured parent.
EvictUnminable ==
    /\ template.step = "captured"
    /\ LET evicted == {t \in pool : ~PlainAt(t, Height[template.parent] + 1)}
       IN  IF evicted = {}
           THEN sent' = {} /\ UNCHANGED poolVars
           ELSE /\ Remove(evicted)
                /\ RebuildSlotSets(pool \ evicted)
                /\ ResetFloorIfEmpty(pool \ evicted)
                /\ sent' = {"evicted"} \X evicted
                /\ UNCHANGED view
    /\ template' = [template EXCEPT !.step = "swept"]
    /\ UNCHANGED <<chainVars, task>>

\* select_for_block_at_anchors and minable_plain_entries.  The page budget
\* only makes the selection smaller.
SelectForBlock ==
    /\ template.step = "swept"
    /\ template' = [template EXCEPT
           !.step = "built",
           !.picked = {t \in pool : /\ AnchorAccepted(t, template.parent)
                                    /\ PlainAt(t, Height[template.parent] + 1)}]
    /\ sent' = {}
    /\ UNCHANGED <<chainVars, poolVars, task>>

-----------------------------------------------------------------------------
Init ==
    /\ tip = Genesis /\ update = Idle /\ view = Genesis
    /\ pool = {} /\ spentInputs = {} /\ mintedOutputs = {}
    /\ inSlots = {} /\ outSlots = {} /\ recent = <<>>
    /\ task = [k \in Task |-> IdleTask]
    /\ template = NoTemplate
    /\ sent = {}

Submitting(k) == AcquirePermit(k) \/ VerifyAuthorization(k) \/ SubmitAdmit(k) \/ SubmitRefuse(k)
Following == OnNewBlock \/ ReadmitAfterReorg

Next ==
    \/ \E k \in Task, t \in Tx : SubmitPrefilter(k, t)
    \/ \E k \in Task : Submitting(k)
    \/ \E b \in Block : CommitSuffix(b) \/ CommitSnapshot(b)
    \/ \E f, b \in Block : CommitReorg(f, b)
    \/ Following
    \/ CaptureTemplate \/ EvictUnminable \/ SelectForBlock

Spec == Init /\ [][Next]_vars

\* A runtime runs every woken task; tokio's semaphore hands permits out in
\* arrival order, so a waiting submission is not overtaken for ever.
Fairness ==
    /\ \A k \in Task : /\ WF_vars(VerifyAuthorization(k))
                       /\ WF_vars(SubmitAdmit(k) \/ SubmitRefuse(k))
                       /\ SF_vars(AcquirePermit(k))
    /\ WF_vars(Following)

FairSpec == Spec /\ Fairness

-----------------------------------------------------------------------------
TypeOK ==
    /\ tip \in Block /\ view \in Block
    /\ update \in [stage : {"idle", "view", "readmit"}, at : Block,
                   confirmed : SUBSET Tx, reclaimed : SUBSET Tx]
    /\ pool \subseteq Tx
    /\ spentInputs \subseteq Slot /\ mintedOutputs \subseteq Slot
    /\ inSlots \subseteq Slot /\ outSlots \subseteq Slot
    /\ recent \in Seq(Nat)
    /\ task \in [Task -> [step : {"idle", "waiting", "running", "verified"},
                          tx : Tx \cup {NoTx}]]
    /\ \A k \in Task : task[k].step # "idle" => task[k].tx \in Tx
    /\ template \in [step : {"none", "captured", "swept", "built"},
                     parent : Block, picked : SUBSET Tx]
    /\ sent \subseteq ({"admitted", "verified", "confirmed", "evicted"} \X Tx)

\* "No two live actions share any physical slot" (Mempool), and the two slot
\* indexes of the synchronous pool name exactly the slots of its entries,
\* however admissions, confirmations, evictions and reorgs interleave.
ConflictFree ==
    /\ \A t, u \in pool : t # u => SlotsOf(t) \cap SlotsOf(u) = {}
    /\ spentInputs = UNION {InputsOf(t) : t \in pool}
    /\ mintedOutputs = UNION {Minted[t] : t \in pool}

\* Every entry could be mined on the view the pool holds: a submission that
\* passed its first check against an older view, and verified while blocks
\* arrived, never slips in.
PoolFollowsView == \A t \in pool : Survives(t, view)

\* Whenever nobody holds the operation gate, the pool's view is the chain's
\* tip: the four commit paths never leave the pool behind.
ViewIsTip == update.stage # "view" => view = tip

\* The slot sets admission consults reserve at least the slots of every entry.
ReservationsCover ==
    \A t \in pool : InputsOf(t) \subseteq inSlots /\ Minted[t] \subseteq outSlots

\* The limits hold although each submission checks them twice, far apart:
\* entries, retained bytes, and proof verifications running at once.
WithinLimits ==
    /\ Cardinality(pool) <= Capacity
    /\ TotalBytes(pool) <= MaxBytes
    /\ Cardinality(Running) <= Workers

\* "Once no transaction remains ... the next admission starts from the base
\* floor" (FeeFloor::reset): no eviction path leaves an empty pool with the
\* floor raised.
IdlePoolHasBaseFloor == pool = {} => Floor(recent) = MinFeeBase

\* The pool is sound whatever submissions, blocks and reorgs interleave: its
\* entries could be mined together on the view it holds, that view is the tip
\* outside the gate, the slot sets miss no entry, the limits hold, and an empty
\* pool asks for no more than the base fee.
PoolSound ==
    /\ TypeOK
    /\ ConflictFree
    /\ PoolFollowsView
    /\ ViewIsTip
    /\ ReservationsCover
    /\ WithinLimits
    /\ IdlePoolHasBaseFloor

\* One entry that does not apply aborts the whole template.  A template whose
\* parent is still the tip holds only transactions that apply on it, and no
\* two that conflict, although the pool was read after the gate was released.
TemplateApplies ==
    template.step = "built" /\ template.parent = tip =>
        /\ \A t \in template.picked : InputsLive(t, tip) /\ OutputsEmpty(t, tip)
        /\ \A t, u \in template.picked : t # u => SlotsOf(t) \cap SlotsOf(u) = {}

\* submit() always answers, also when the proof does not verify or the chain
\* keeps moving while it runs.
SubmissionAnswered == \A k \in Task : task[k].step # "idle" ~> task[k].step = "idle"

\* A transaction that leaves the pool is reported confirmed or evicted ("this
\* channel is how the node's wallet learns that one of its own sends will never
\* confirm"), except one that readmit_after_reorg takes out.
DeparturesAnnounced ==
    [][\A t \in pool \ pool' :
          \/ \E kind \in {"confirmed", "evicted"} : <<kind, t>> \in sent'
          \/ update.stage = "readmit" /\ t \in update.reclaimed]_vars
=============================================================================
