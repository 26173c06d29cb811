----------------------------- MODULE ChainStore -----------------------------
(***************************************************************************)
(* The durable chain store (storage/mdbx_store.rs) and the hot chain       *)
(* context in front of it (storage/mdbx_context.rs).                       *)
(*                                                                         *)
(* Every MDBX write transaction is one step; a crash may fall between any  *)
(* two of them.  The context is driven through the exclusive chain writer, *)
(* so the steps of one operation are not interleaved with the steps of     *)
(* another, but the two capabilities (a verified suffix, a verified reorg) *)
(* are values their holder keeps while the chain may move underneath.      *)
(*                                                                         *)
(* Abstracted: a state image is named by the block whose post-state it is  *)
(* (the state root in that block's header); an undo log is named by the    *)
(* block it undoes; bodies and terminals by the block they bind; an I/O    *)
(* error is a step that gives up.  The transaction, owner and object       *)
(* indexes and the client registry are written in the same transactions    *)
(* and read by no guard below; they are not part of this module.           *)
(***************************************************************************)
EXTENDS BlockTree

CONSTANTS
    FinalityDepth,     \* CONSENSUS_FINALITY_DEPTH
    UndoDepth,         \* UNDO_RETENTION_DEPTH
    ServingDepth,      \* RETAINED_BLOCK_SERVING_DEPTH
    PruneLimit,        \* RETAINED_PAYLOAD_PRUNE_HEIGHT_LIMIT
    MaxReplacement,    \* MAX_REORG_REPLACEMENT_BLOCKS
    HeaderWindow,      \* recent_header_lookback()
    SnapshotWindow     \* the header window a snapshot carries

\* The relations between the depths that consensus/params.rs fixes and the
\* store relies on: undo logs outlive finality, and the header window in RAM
\* reaches down to the block that a new tip finalizes.
ASSUME Depths ==
    /\ FinalityDepth \in Nat \ {0}
    /\ UndoDepth \in Nat /\ UndoDepth > FinalityDepth
    /\ ServingDepth \in Nat \ {0}
    /\ PruneLimit \in Nat \ {0}
    /\ MaxReplacement \in Nat \ {0}
    /\ HeaderWindow \in Nat /\ HeaderWindow >= FinalityDepth
    /\ SnapshotWindow \in Nat /\ SnapshotWindow >= FinalityDepth

VARIABLES
    \* Durable tables.
    headers,    \* height -> canonical header (with its hash, work and anchor)
    tip,        \* canonical tip (chain_tip and consensus_meta)
    final,      \* finalized checkpoint (consensus_meta)
    utxo,       \* the block whose post-state the segment tables hold
    undo,       \* height -> undo log
    bodies,     \* height -> retained block body
    terms,      \* height -> history terminal or recursive suffix marker
    authority,  \* the verified suffix authority record
    watermark,  \* last height fully retired by payload pruning; 0: none
    \* The context in RAM.
    memTip, memFinal, memUtxo,
    recent,     \* height -> header: the recent_headers window
    staging,    \* the staged reorg
    cap,        \* the capability a caller holds
    phase       \* what the operation in progress does next

durable == <<headers, tip, final, utxo, undo, bodies, terms, authority, watermark>>
vars    == <<headers, tip, final, utxo, undo, bodies, terms, authority, watermark,
             memTip, memFinal, memUtxo, recent, staging, cap, phase>>

Cell == Block \cup {NoBlock}

\* A terminal row binds a block.  Its authority is the block whose recursive
\* proof covers it: the block itself for a complete terminal, a later block
\* for a recursive suffix marker.
Row == [block : Block, authority : Block]
Authority == [boundary : Block, tip : Block]
Suffix == [kind : {"suffix"}, previous : Block, target : Block]
Reorg == [kind : {"reorg"}, ancestor : Block, target : Block,
          oldTip : Block, oldFinal : Block]
Staging == [ancestor : Block, target : Block, at : Heights]
Phase == {"idle", "revert", "apply", "payloads", "undo"}

\* The empty cell is no record either.
ASSUME EmptyCell ==
    NoBlock \notin Row \cup Authority \cup Staging \cup Suffix \cup Reorg

TypeOK ==
    /\ headers \in [Heights -> Cell]
    /\ tip \in Block /\ final \in Block /\ utxo \in Block
    /\ undo \in [Heights -> Cell]
    /\ bodies \in [Heights -> Cell]
    /\ terms \in [Heights -> Row \cup {NoBlock}]
    /\ authority \in Authority \cup {NoBlock}
    /\ watermark \in Nat
    /\ memTip \in Block /\ memFinal \in Block /\ memUtxo \in Block
    /\ recent \in [Heights -> Cell]
    /\ staging \in Staging \cup {NoBlock}
    /\ cap \in Suffix \cup Reorg \cup {NoBlock}
    /\ phase \in Phase
    /\ staging = NoBlock <=> phase \notin {"revert", "apply"}

-----------------------------------------------------------------------------
(* Terminals, markers and their authority. *)

CompleteRow(b) == [block |-> b, authority |-> b]
MarkerRow(b, t) == [block |-> b, authority |-> t]
\* Wrong: a marker also counts as complete, so committing one drops its record.
AnyRowComplete(row) == row # NoBlock

IsMarker(row) == row # NoBlock /\ row.authority # row.block
IsComplete(row) == row # NoBlock /\ row.authority = row.block

\* The authority record rec covers a marker at height h pointing at t.
RecordCovers(rec, h, t) ==
    /\ rec # NoBlock
    /\ rec.tip = t
    /\ Height[rec.boundary] < h
    /\ h < Height[rec.tip]

\* recursive_suffix_marker_has_durable_authority
MarkerAuthorized(hs, ts, rec, h, t) ==
    /\ h < Height[t]
    /\ \/ RecordCovers(rec, h, t)
       \/ hs[Height[t]] = t /\ ts[Height[t]] = CompleteRow(t)

\* validate_history_step_parent_boundary_in_rw_txn, for a child of height h + 1
\* whose parent is p at height h.
ParentAuthorized(hs, ts, rec, p) ==
    LET h == Height[p] IN
    /\ hs[h] = p
    /\ h # 0 => /\ ts[h] # NoBlock
                /\ ts[h].block = p
                /\ IsMarker(ts[h]) => MarkerAuthorized(hs, ts, rec, h, ts[h].authority)

\* validate_durable_tip_history_terminal
TipAuthorized ==
    \/ Height[tip] = 0
    \/ terms[Height[tip]] = CompleteRow(tip)
    \/ /\ authority # NoBlock
       /\ RecordCovers(authority, Height[tip], authority.tip)
       /\ terms[Height[tip]] = MarkerRow(tip, authority.tip)

-----------------------------------------------------------------------------
(* The header window and the finalized checkpoint of a new tip. *)

\* get_header_from_store: the window in RAM first, then the header table.
HeaderAt(h) == IF recent[h] # NoBlock THEN recent[h] ELSE headers[h]

\* finalized_for_tip
FinalizedForTip(h) ==
    IF h <= Height[memFinal] + FinalityDepth THEN memFinal
    ELSE HeaderAt(h - FinalityDepth)

\* recent_headers after b was inserted: one header leaves at the far end.
WindowWith(b) ==
    [h \in Heights |-> IF h = Height[b] THEN b
                       ELSE IF h = Height[b] - HeaderWindow - 1 THEN NoBlock
                       ELSE recent[h]]

\* The window rebuilt from the header table below tip t.
WindowFrom(hs, t, width) ==
    [h \in Heights |-> IF h <= Height[t] /\ h >= Height[t] - width
                       THEN hs[h] ELSE NoBlock]

Idle == phase = "idle"

-----------------------------------------------------------------------------
\* open_or_create on an empty database: persist_genesis.
Init ==
    /\ headers = [h \in Heights |-> IF h = 0 THEN Genesis ELSE NoBlock]
    /\ tip = Genesis /\ final = Genesis /\ utxo = Genesis
    /\ undo = [h \in Heights |-> IF h = 0 THEN Genesis ELSE NoBlock]
    /\ bodies = [h \in Heights |-> NoBlock]
    /\ terms = [h \in Heights |-> NoBlock]
    /\ authority = NoBlock
    /\ watermark = 0
    /\ memTip = Genesis /\ memFinal = Genesis /\ memUtxo = Genesis
    /\ recent = [h \in Heights |-> IF h = 0 THEN Genesis ELSE NoBlock]
    /\ staging = NoBlock
    /\ cap = NoBlock
    /\ phase = "idle"

\* commit_block and the rest of commit_applied_next_block: the one transaction
\* that makes b the durable tip, then the hot fields.  The state image written
\* is the one materialized in RAM, whose root must be the one b's header names;
\* a marker is written only under a matching authority record, and a complete
\* terminal closes the record.  The transaction is followed by pruning.
CommitBlock(b, row) ==
    LET h == Height[b]
        newFinal == FinalizedForTip(h)
    IN  /\ memUtxo = Parent(b)
        /\ newFinal # NoBlock
        /\ tip = Parent(b)
        /\ ParentAuthorized(headers, terms, authority, tip)
        /\ IsMarker(row) => RecordCovers(authority, h, row.authority)
        /\ headers' = [headers EXCEPT ![h] = b]
        /\ tip' = b
        /\ final' = newFinal
        /\ utxo' = b
        /\ undo' = [undo EXCEPT ![h] = b]
        /\ bodies' = [bodies EXCEPT ![h] = b]
        /\ terms' = [terms EXCEPT ![h] = row]
        /\ authority' = IF IsComplete(row) THEN NoBlock ELSE authority
        /\ memTip' = b
        /\ memFinal' = newFinal
        /\ memUtxo' = b
        /\ recent' = WindowWith(b)
        /\ phase' = "payloads"
        /\ UNCHANGED <<watermark, staging>>

\* commit_locally_proved_next_block: a block this node mined and proved itself.
CommitLocal(b) ==
    /\ Idle
    /\ Height[b] = Height[memTip] + 1
    /\ Parent(b) = memTip
    /\ CommitBlock(b, CompleteRow(b))
    /\ UNCHANGED cap

-----------------------------------------------------------------------------
(* A live suffix: one recursive terminal at the target, bodies one by one. *)

\* The durable tip is a marker: its suffix was interrupted.
TipIsMarker ==
    LET row == terms[Height[tip]] IN
    Height[tip] # 0 /\ row # NoBlock /\ row.block = tip /\ IsMarker(row)

\* begin_preverified_recursive_suffix.  The plan's headers link the base to the
\* target.  A boundary that is itself a marker can only be resumed towards the
\* target its marker names, and then keeps the existing record.
BeginSuffix(t) ==
    /\ Idle
    /\ Height[memTip] < Height[t]
    /\ Extends(t, memTip)
    /\ tip = memTip
    /\ headers[Height[tip]] = tip
    /\ TipIsMarker => /\ terms[Height[tip]].authority = t
                      /\ RecordCovers(authority, Height[tip], t)
    /\ authority' = IF TipIsMarker THEN authority ELSE [boundary |-> tip, tip |-> t]
    /\ cap' = [kind |-> "suffix", previous |-> memTip, target |-> t]
    /\ UNCHANGED <<headers, tip, final, utxo, undo, bodies, terms, watermark,
                   memTip, memFinal, memUtxo, recent, staging, phase>>

\* Wrong: any child of the tip passes for a body of the plan.
AnyBody(b) == TRUE

\* The body fetched for a height has the header the plan validated there.
BodyOfPlan(b) == Anc[cap.target][Height[b]] = b

\* apply_verified_recursive_suffix_block outside a reorg: the next body of the
\* plan.  An intermediate body leaves a marker, the last one the terminal.
ApplySuffixBlock(b) ==
    /\ Idle
    /\ cap \in Suffix
    /\ memTip = cap.previous
    /\ Height[b] = Height[memTip] + 1
    /\ Height[b] <= Height[cap.target]
    /\ BodyOfPlan(b)
    /\ Parent(b) = memTip
    /\ CommitBlock(b, IF b = cap.target THEN CompleteRow(b) ELSE MarkerRow(b, cap.target))
    /\ cap' = IF b = cap.target THEN NoBlock ELSE [cap EXCEPT !.previous = b]

\* The holder of a capability gives it up: an error ended the suffix loop
\* (reject_uncommitted_block has restored the hot state), or the capability
\* was refused because the chain moved.
AbandonCapability ==
    /\ Idle
    /\ cap # NoBlock
    /\ cap' = NoBlock
    /\ UNCHANGED <<headers, tip, final, utxo, undo, bodies, terms, authority, watermark,
                   memTip, memFinal, memUtxo, recent, staging, phase>>

-----------------------------------------------------------------------------
(* A reorg: authorized against one view, staged in RAM, committed at once. *)

\* The branch point a lies in the reorganizable window of the current view.
InReorgWindow(a) ==
    /\ Height[a] < Height[memTip]
    /\ Height[memTip] - Height[a] <= FinalityDepth
    /\ Height[a] >= Height[memFinal]
    /\ HeaderAt(Height[a]) = a
    /\ Height[a] = Height[memFinal] => a = memFinal

\* authorize_preverified_reorg_suffix, for a plan of linked headers from a to t.
AuthorizeReorg(a, t) ==
    /\ Idle
    /\ InReorgWindow(a)
    /\ Height[a] < Height[t]
    /\ Extends(t, a)
    /\ cap' = [kind |-> "reorg", ancestor |-> a, target |-> t,
               oldTip |-> memTip, oldFinal |-> memFinal]
    /\ UNCHANGED <<headers, tip, final, utxo, undo, bodies, terms, authority, watermark,
                   memTip, memFinal, memUtxo, recent, staging, phase>>

\* Every undo log the rollback to height a reads.  The log of the ancestor is
\* not applied, but its presence is demanded.
UndoAvailable(a) ==
    /\ a # 0 => undo[a] # NoBlock
    /\ \A h \in a + 1 .. Height[memTip] : undo[h] # NoBlock

\* Wrong: the longer chain wins.
LongerWins == Height[cap.target] > Height[memTip]

\* The fork choice recheck of an authorized candidate.
CandidateWins == ChainWins(cap.target, memTip)

\* apply_verified_reorg_suffix up to the rollback loop: the view is rechecked,
\* the candidate must win fork choice, and nothing is touched before every
\* undo log was seen.
StartReorg ==
    /\ Idle
    /\ cap \in Reorg
    /\ memTip = cap.oldTip
    /\ memFinal = cap.oldFinal
    /\ Height[cap.target] - Height[cap.ancestor] <= MaxReplacement
    /\ CandidateWins
    /\ InReorgWindow(cap.ancestor)
    /\ UndoAvailable(Height[cap.ancestor])
    /\ staging' = [ancestor |-> cap.ancestor, target |-> cap.target, at |-> Height[memTip]]
    /\ phase' = "revert"
    /\ UNCHANGED <<headers, tip, final, utxo, undo, bodies, terms, authority, watermark,
                   memTip, memFinal, memUtxo, recent, cap>>

\* One turn of the rollback loop.  An undo log restores the pre-state of its
\* own block only; the restored root is compared with the parent header's.
\* The last turn moves the hot tip to the ancestor.
RevertBlock ==
    LET h == staging.at IN
    /\ phase = "revert"
    /\ undo[h] # NoBlock
    /\ memUtxo = undo[h]
    /\ Parent(undo[h]) = headers[h - 1]
    /\ memUtxo' = Parent(undo[h])
    /\ recent' = [recent EXCEPT ![h] = NoBlock]
    /\ staging' = [staging EXCEPT !.at = h - 1]
    /\ IF h - 1 = Height[staging.ancestor]
       THEN memTip' = staging.ancestor /\ phase' = "apply"
       ELSE UNCHANGED <<memTip, phase>>
    /\ UNCHANGED <<headers, tip, final, utxo, undo, bodies, terms, authority, watermark,
                   memFinal, cap>>

\* apply_verified_recursive_suffix_block while a reorg is staged: the commit
\* is pushed on the staging list and finality is deferred.
StageBlock ==
    LET b == Anc[staging.target][Height[memTip] + 1] IN
    /\ phase = "apply"
    /\ memTip # staging.target
    /\ memUtxo = Parent(b)
    /\ memTip' = b
    /\ memUtxo' = b
    /\ recent' = WindowWith(b)
    /\ UNCHANGED <<headers, tip, final, utxo, undo, bodies, terms, authority, watermark,
                   memFinal, staging, cap, phase>>

\* Wrong: the rows of a longer old suffix stay behind.
OldSuffixKept(f, a, t, new) ==
    [h \in Heights |-> IF h > a /\ h <= Height[t] THEN new[h] ELSE f[h]]

\* A table of per-block rows after the old suffix above height a was removed
\* and the branch a + 1 .. Height[t] was written.
Replaced(f, a, t, new) ==
    [h \in Heights |-> IF h <= a THEN f[h]
                       ELSE IF h <= Height[t] THEN new[h]
                       ELSE IF h <= Height[tip] THEN NoBlock
                       ELSE f[h]]

\* Wrong: markers keep naming the terminal that the reorg removes.
NotRebound(f, a, t) == f

\* The markers at or below the ancestor that a later reorg could still build
\* on now name the terminal of the replacement tip.
Rebound(f, a, t) ==
    [h \in Heights |-> IF h <= a /\ h >= a - FinalityDepth /\ IsMarker(f[h])
                       THEN MarkerRow(f[h].block, t) ELSE f[h]]

\* The rows of a branch with one terminal at its tip t.
BranchRows(t) ==
    [h \in Heights |-> [block |-> Anc[t][h], authority |-> t]]

\* Every replaced block finds its parent authorized in the new tables.
ReplacementAuthorized(hs, ts, t) ==
    \A h \in Height[staging.ancestor] .. Height[t] - 1 :
        ParentAuthorized(hs, ts, authority, Anc[t][h])

\* commit_reorg and the hot fields set after it: the whole replacement is one
\* transaction, in which every replaced block's parent must be authorized once
\* the new terminal and the rebound markers are in place.
CommitReorg ==
    LET a == Height[staging.ancestor]
        t == staging.target
        newFinal == FinalizedForTip(Height[t])
        newHeaders == Replaced(headers, a, t, Anc[t])
        newTerms == Replaced(Rebound(terms, a, t), a, t, BranchRows(t))
    IN  /\ phase = "apply"
        /\ memTip = t
        /\ newFinal # NoBlock
        /\ Height[tip] >= a
        /\ Height[tip] - a <= FinalityDepth
        /\ ReplacementAuthorized(newHeaders, newTerms, t)
        /\ headers' = newHeaders
        /\ terms' = newTerms
        /\ undo' = Replaced(undo, a, t, Anc[t])
        /\ bodies' = Replaced(bodies, a, t, Anc[t])
        /\ watermark' = IF watermark > a THEN a ELSE watermark
        /\ authority' = NoBlock
        /\ tip' = t
        /\ final' = newFinal
        /\ utxo' = memUtxo
        /\ memFinal' = newFinal
        /\ staging' = NoBlock
        /\ cap' = NoBlock
        /\ phase' = "payloads"
        /\ UNCHANGED <<memTip, memUtxo, recent>>

\* abort_staged_reorg: an error anywhere in the staged part; the hot state is
\* rebuilt from the durable tables, which the reorg has not touched.
AbortReorg ==
    /\ phase \in {"revert", "apply"}
    /\ TipAuthorized
    /\ headers[Height[tip]] = tip
    /\ memTip' = tip
    /\ memFinal' = final
    /\ memUtxo' = utxo
    /\ recent' = WindowFrom(headers, tip, HeaderWindow)
    /\ staging' = NoBlock
    /\ cap' = NoBlock
    /\ phase' = "idle"
    /\ UNCHANGED durable

-----------------------------------------------------------------------------
(* A finalized snapshot. *)

\* The header stream of a snapshot at t joins the canonical chain at height m:
\* at the tip, or below it when t's chain may replace a non-final suffix.
JoinsAt(t, m) ==
    /\ headers[m] = Anc[t][m]
    /\ \/ m = Height[tip]
       \/ /\ headers[m + 1] # Anc[t][m + 1]
          /\ m >= Height[final]
          /\ Height[tip] - m <= FinalityDepth
          /\ ChainWins(t, tip)

\* Wrong: the watermark is reset along with the payload tables.
WatermarkReset(t) == 0

\* The heights below the boundary t count as retired.
SnapshotWatermark(t) == Height[t] - 1

\* apply_staged_state_snapshot and install_finalized_snapshot_staging: headers,
\* state, terminal and checkpoint move to t in one transaction; every payload
\* and undo row is cleared, and the boundary counts as pruned up to t's parent.
InstallSnapshot(t) ==
    /\ Idle
    /\ Height[memTip] < Height[t]
    /\ \A h \in Heights : headers[h] # NoBlock <=> h <= Height[tip]
    /\ \E m \in 0 .. Height[tip] :
          /\ JoinsAt(t, m)
          /\ headers' = Replaced(headers, m, t, Anc[t])
    /\ tip' = t /\ final' = t /\ utxo' = t
    /\ undo' = [h \in Heights |-> NoBlock]
    /\ bodies' = [h \in Heights |-> NoBlock]
    /\ terms' = [h \in Heights |-> IF h = Height[t] THEN CompleteRow(t) ELSE NoBlock]
    /\ authority' = NoBlock
    /\ watermark' = SnapshotWatermark(t)
    /\ memTip' = t /\ memFinal' = t /\ memUtxo' = t
    /\ recent' = WindowFrom(Anc[t], t, SnapshotWindow)
    /\ UNCHANGED <<staging, cap, phase>>

-----------------------------------------------------------------------------
(* prune_after_commit: two transactions; an error in either ends it. *)

\* The boundary F: payloads strictly below it go, its own body goes too.
PruneCutoff ==
    IF Height[tip] - ServingDepth <= Height[final]
    THEN Height[tip] - ServingDepth ELSE Height[final]

\* prune_retained_payloads_bounded retires the heights after the watermark up
\* to and including last, and the body at the cutoff when it gets that far.
\* How many heights fit the byte and delete budget is left open, but the first
\* one always fits; every height it visits must still have its terminal.
RetirePayloads(last, dropBoundaryBody) ==
    LET first == watermark + 1 IN
    /\ Height[tip] > ServingDepth
    /\ headers[Height[final]] = final
    /\ watermark <= Height[tip]
    /\ first <= PruneCutoff
    /\ last \in watermark .. PruneCutoff - 1
    /\ last - watermark <= PruneLimit
    /\ first < PruneCutoff => last >= first
    /\ last = PruneCutoff - 1 \/ ~dropBoundaryBody
    /\ first = PruneCutoff => dropBoundaryBody
    /\ \A h \in first .. last : headers[h] # NoBlock /\ terms[h] # NoBlock
    /\ last = PruneCutoff - 1 => headers[last + 1] # NoBlock /\ terms[last + 1] # NoBlock
    /\ bodies' = [h \in Heights |->
                    IF h \in first .. last \/ (dropBoundaryBody /\ h = PruneCutoff)
                    THEN NoBlock ELSE bodies[h]]
    /\ terms' = [h \in Heights |-> IF h \in first .. last THEN NoBlock ELSE terms[h]]
    /\ watermark' = last

\* Nothing is old enough to retire.
NothingToRetire ==
    /\ Height[tip] <= ServingDepth \/ watermark + 1 > PruneCutoff
    /\ UNCHANGED <<bodies, terms, watermark>>

PrunePayloads ==
    /\ phase = "payloads"
    /\ \/ NothingToRetire
       \/ \E last \in Heights : \E dropBoundaryBody \in BOOLEAN :
             RetirePayloads(last, dropBoundaryBody)
    /\ phase' = IF Height[tip] > UndoDepth THEN "undo" ELSE "idle"
    /\ UNCHANGED <<headers, tip, final, utxo, undo, authority,
                   memTip, memFinal, memUtxo, recent, staging, cap>>

\* Undo logs at or below this height are deleted.
UndoCutoff == Height[tip] - UndoDepth

PruneUndo ==
    /\ phase = "undo"
    /\ undo' = [h \in Heights |-> IF h <= UndoCutoff THEN NoBlock ELSE undo[h]]
    /\ phase' = "idle"
    /\ UNCHANGED <<headers, tip, final, utxo, bodies, terms, authority, watermark,
                   memTip, memFinal, memUtxo, recent, staging, cap>>

\* A failed maintenance transaction rolls back; the commit before it stands.
PruneFails ==
    /\ phase \in {"payloads", "undo"}
    /\ phase' = "idle"
    /\ UNCHANGED durable
    /\ UNCHANGED <<memTip, memFinal, memUtxo, recent, staging, cap>>

-----------------------------------------------------------------------------
(* Restart. *)

\* What restore_from_mdbx requires of the durable tables.
Restorable ==
    /\ Height[final] <= Height[tip]
    /\ headers[Height[tip]] = tip
    /\ TipAuthorized
    /\ headers[Height[final]] = final
    /\ utxo = tip

\* A crash at any point, then open_or_create.  Everything in RAM is lost; a
\* database that does not restore is cleared and starts again from genesis.
Restart ==
    /\ staging' = NoBlock /\ cap' = NoBlock /\ phase' = "idle"
    /\ IF Restorable
       THEN /\ memTip' = tip /\ memFinal' = final /\ memUtxo' = utxo
            /\ recent' = WindowFrom(headers, tip, HeaderWindow)
            /\ UNCHANGED durable
       ELSE /\ headers' = [h \in Heights |-> IF h = 0 THEN Genesis ELSE NoBlock]
            /\ undo' = [h \in Heights |-> IF h = 0 THEN Genesis ELSE NoBlock]
            /\ recent' = [h \in Heights |-> IF h = 0 THEN Genesis ELSE NoBlock]
            /\ bodies' = [h \in Heights |-> NoBlock]
            /\ terms' = [h \in Heights |-> NoBlock]
            /\ authority' = NoBlock /\ watermark' = 0
            /\ tip' = Genesis /\ final' = Genesis /\ utxo' = Genesis
            /\ memTip' = Genesis /\ memFinal' = Genesis /\ memUtxo' = Genesis

-----------------------------------------------------------------------------
Next ==
    \/ \E b \in Block : CommitLocal(b)
    \/ \E t \in Block : BeginSuffix(t)
    \/ \E b \in Block : ApplySuffixBlock(b)
    \/ AbandonCapability
    \/ \E a, t \in Block : AuthorizeReorg(a, t)
    \/ StartReorg
    \/ RevertBlock
    \/ StageBlock
    \/ CommitReorg
    \/ AbortReorg
    \/ \E t \in Block : InstallSnapshot(t)
    \/ PrunePayloads
    \/ PruneUndo
    \/ PruneFails
    \/ Restart

Spec == Init /\ [][Next]_vars

-----------------------------------------------------------------------------
(* Properties. *)

\* A restart resumes: whatever transaction was the last one before a crash, the
\* durable tables pass every check of restore_from_mdbx, so open_or_create
\* never takes the branch that clears the database.
RestartResumes == Restorable

\* The header table is exactly the chain of the durable tip: no reorg, shorter
\* replacement or snapshot leaves a stale header, and none is missing.
HeadersAreTheChain ==
    \A h \in Heights : headers[h] = IF h <= Height[tip] THEN Anc[tip][h] ELSE NoBlock

\* Between operations the context in RAM is the durable chain: tip, checkpoint
\* and state agree, and every cached header is the canonical one.
HotMatchesDurable ==
    phase \in {"idle", "payloads", "undo"} =>
        /\ memTip = tip /\ memFinal = final /\ memUtxo = utxo
        /\ \A h \in Heights : recent[h] # NoBlock => recent[h] = headers[h]

\* Every block above the finalized checkpoint keeps what a rollback or a peer
\* needs of it: its own undo log, its body and a terminal row that binds it.
SuffixRetained ==
    \A h \in Height[final] + 1 .. Height[tip] :
        /\ undo[h] = headers[h]
        /\ bodies[h] = headers[h]
        /\ terms[h] # NoBlock /\ terms[h].block = headers[h]

\* An interrupted suffix can be resumed: while the tip is a marker, the block it
\* names as its authority still extends the tip and the record still covers it,
\* so begin_verified_recursive_suffix accepts that target again.
InterruptedSuffixResumable ==
    TipIsMarker =>
        LET t == terms[Height[tip]].authority IN
        /\ Height[tip] < Height[t]
        /\ Extends(t, tip)
        /\ RecordCovers(authority, Height[tip], t)

\* The finalized checkpoint lies on the chain of the tip, at most FinalityDepth
\* below it.
FinalityBound ==
    /\ Extends(tip, final)
    /\ Height[tip] - Height[final] <= FinalityDepth

\* A reorg capability holds a plan of linked headers above its ancestor.
CapabilityLinked ==
    cap \in Reorg =>
        Extends(cap.target, cap.ancestor) /\ Height[cap.ancestor] < Height[cap.target]

\* What a staged reorg was checked for still holds: it branches off the chain of
\* the durable tip, not below the finalized checkpoint, and wins fork choice.
StagedCandidate ==
    staging # NoBlock =>
        /\ Extends(tip, staging.ancestor)
        /\ Extends(staging.ancestor, final)
        /\ Height[tip] - Height[staging.ancestor] <= FinalityDepth
        /\ Extends(staging.target, staging.ancestor)
        /\ Height[staging.ancestor] < Height[staging.target]
        /\ ChainWins(staging.target, tip)

\* While blocks are rolled back, the state in RAM is that of the block at the
\* loop position, and no header above it is left in the window.
RollbackInStep ==
    phase = "revert" =>
        /\ Height[staging.ancestor] < staging.at
        /\ staging.at <= Height[tip]
        /\ memTip = tip /\ memFinal = final
        /\ memUtxo = headers[staging.at]
        /\ \A h \in Heights : recent[h] # NoBlock =>
              h <= staging.at /\ recent[h] = headers[h]

\* While the replacement is applied, the tip, the state and the header window in
\* RAM are those of one block on the way to the target, although the header
\* table is still the old branch.  The window holds every new header that
\* finalized_for_tip may ask for.
ReplayInStep ==
    phase = "apply" =>
        /\ Extends(staging.target, memTip)
        /\ Extends(memTip, staging.ancestor)
        /\ memUtxo = memTip /\ memFinal = final
        /\ \A h \in Heights :
              /\ recent[h] # NoBlock => h <= Height[memTip] /\ recent[h] = Anc[memTip][h]
              /\ (Height[staging.ancestor] < h /\ h <= Height[memTip]
                     /\ h >= Height[memTip] - HeaderWindow) => recent[h] # NoBlock

\* A planned or staged reorg and the durable chain stay in step.
StagedReorgInStep == CapabilityLinked /\ StagedCandidate /\ RollbackInStep /\ ReplayInStep

\* A fully staged reorg commits: the checkpoint it computes lies on the new
\* branch, and commit_reorg finds no unauthorized parent, although markers
\* below the branch point may have lost the terminal they named.
StagedReorgCommits ==
    (phase = "apply" /\ memTip = staging.target) =>
        LET a == Height[staging.ancestor]
            t == staging.target
        IN  /\ Extends(t, FinalizedForTip(Height[t]))
            /\ ReplacementAuthorized(Replaced(headers, a, t, Anc[t]),
                   Replaced(Rebound(terms, a, t), a, t, BranchRows(t)), t)

\* Payload pruning is never stuck: every height between the watermark and the
\* cutoff still has the terminal row the bounded loop insists on, and the
\* watermark never passes the finalized checkpoint.
PruningNeverStuck ==
    /\ \A h \in watermark + 1 .. Height[tip] : h # 0 => terms[h] # NoBlock
    /\ watermark = 0 \/ watermark < Height[final]

\* Pruning, one bounded step per commit with crashes and failures between its
\* transactions, takes neither too much nor stops: what a rollback or a peer
\* needs above the checkpoint stays, and the next step can always be taken.
PruningSound == SuffixRetained /\ PruningNeverStuck

\* The store's tables and the context in RAM agree through every commit, reorg,
\* snapshot, crash and half-done prune: the headers are the chain of the tip,
\* the hot state is the durable one between operations and the staged branch
\* during a reorg.
StoreConsistent ==
    /\ TypeOK
    /\ HeadersAreTheChain
    /\ HotMatchesDurable
    /\ StagedReorgInStep

\* The store implements the canonical ledger: every durable change of the tip
\* wins fork choice and keeps the finalized prefix; a restart changes nothing.
Ledger == INSTANCE CanonicalLedger WITH canonical <- tip, finalized <- final
ImplementsLedger == Ledger!LedgerSpec
=============================================================================
