--------------------------- MODULE ExternalMining ---------------------------
(***************************************************************************)
(* Work for external miners: the template calls of jetsam_rpc/server.rs    *)
(* (getBlockTemplate, submitBlock), the one slot of attempts they share    *)
(* with the node loop, and the preview of the work that is published       *)
(* before the proof of the block exists, so that miners search meanwhile.  *)
(*                                                                         *)
(* Five kinds of actors interleave: the calls of the miners, the task that *)
(* prepares a template, the task that seals a nonce into a block, the node *)
(* loop that invalidates attempts when it hears of a new tip, and the      *)
(* timer.  Slot and preview have a lock each, so every access is a step of *)
(* its own; the tip is read under the chain's lock and used later.         *)
(*                                                                         *)
(* Only the identity of a tip matters: tips are numbered as they are       *)
(* committed and never come back.  A nonce is good or it is not a proof of *)
(* work; miners submit only for templates they were given.                 *)
(***************************************************************************)
EXTENDS Naturals, FiniteSets

CONSTANTS
    Miner,
    Request,      \* what miners name: no address, the node's own, another
    AllowCustom,  \* allow_custom_coinbase
    TTL,          \* external_mining_template_ttl, in ticks
    MaxTip,       \* bound: tips committed in a behaviour
    MaxSequence   \* bound: templates prepared in a behaviour

ASSUME ExternalConstants ==
    /\ IsFiniteSet(Miner) /\ Request \subseteq {"none", "own", "custom"}
    /\ AllowCustom \in BOOLEAN
    /\ TTL \in Nat \ {0} /\ MaxTip \in Nat /\ MaxSequence \in Nat \ {0}

VARIABLES
    tip,      \* the committed tip
    hooked,   \* canonical_tip_changes holds a value the loop has not seen
    applied,  \* the tip a suffix or snapshot task committed and whose
              \* completion has not invalidated the attempts yet, or NoTip
    gate,     \* a snapshot install holds wallet_operation_gate
    slot,     \* ExternalMiningAttemptSlot
    sequence, \* its next_sequence: the last template id
    preview,  \* POW_PREVIEW
    prep,     \* the task of prepare_external_mining_attempt, or NoPrep
    guards,   \* failed preparations whose lease is gone and whose
              \* PreviewGuard has not run yet
    seal,     \* the task of finalize_node_owned_template_after_nonce
    call,     \* where each miner is in its call
    work,     \* the template each miner searches for
    mined     \* templates whose block was committed

chainVars == <<tip, hooked, applied, gate>>
slotVars == <<slot, sequence>>
vars == <<tip, hooked, applied, gate, slot, sequence, preview, prep, guards,
          seal, call, work, mined>>

Tip == 0 .. MaxTip
NoTip == MaxTip + 1

Idle == [state |-> "Idle", id |-> 0]
NoPreview == [id |-> 0, parent |-> NoTip, payee |-> "node", left |-> 0]
NoPrep == [pc |-> "none"]
NoSeal == [pc |-> "none"]
NoWork == [id |-> 0]
NoCall == [pc |-> "none"]

-----------------------------------------------------------------------------
\* ExternalMiningAttemptSlot.

Purged(s) == IF s.state = "Ready" /\ s.left = 0 THEN Idle ELSE s

Preparing(id) == [state |-> "Preparing", id |-> id, invalidated |-> FALSE]
Ready(id, parent) == [state |-> "Ready", id |-> id, parent |-> parent, left |-> TTL]
Proving(id) == [state |-> "Proving", id |-> id]

\* cancel_preparation and finish_proving: only the owner's own attempt.
Cancelled(s, id) == IF s.state = "Preparing" /\ s.id = id THEN Idle ELSE s
Finished(s, id) == IF s.state = "Proving" /\ s.id = id THEN Idle ELSE s

Installable(s, id) == s.state = "Preparing" /\ s.id = id /\ ~s.invalidated

\* peek_ready
IsReady(s, id) == s.state = "Ready" /\ s.id = id

\* Wrong: the new tip is not compared.
DropReady(s, t) ==
    IF s.state = "Preparing" THEN [s EXCEPT !.invalidated = TRUE]
    ELSE IF s.state = "Ready" THEN Idle
    ELSE s

\* invalidate_except: a preparation is marked whatever its parent is.
Invalidated(s, t) ==
    IF s.state = "Preparing" THEN [s EXCEPT !.invalidated = TRUE]
    ELSE IF s.state = "Ready" /\ s.parent # t THEN Idle
    ELSE s

-----------------------------------------------------------------------------
\* getBlockTemplate.

\* take_pow_preview
Servable(p, t) == p.id # 0 /\ p.parent = t /\ p.left > 0

Job(p, request) ==
    [id |-> p.id, parent |-> p.parent, payee |-> p.payee, asked |-> request]

\* The gate is open; the tip is read.  MaxSequence leaves an id for every
\* call under way.
GetTemplate(m, request) ==
    /\ call[m] = NoCall
    /\ sequence + Cardinality({k \in Miner : call[k].pc = "asked"}) < MaxSequence
    /\ call' = [call EXCEPT ![m] = [pc |-> "asked", tip |-> tip, asked |-> request]]
    /\ UNCHANGED <<chainVars, slotVars, preview, prep, guards, seal, work, mined>>

\* Only a call that names no address is served the preview.
WantsPreview(m) == call[m].asked = "none" /\ Servable(preview, call[m].tip)

ServePreview(m) ==
    /\ call[m].pc = "asked" /\ WantsPreview(m)
    /\ work' = [work EXCEPT ![m] = Job(preview, call[m].asked)]
    /\ call' = [call EXCEPT ![m] = NoCall]
    /\ UNCHANGED <<chainVars, slotVars, preview, prep, guards, seal, mined>>

\* reserve_preparation, and the task is spawned with the lease.
ReservePreparation(m) ==
    /\ call[m].pc = "asked" /\ ~WantsPreview(m)
    /\ IF Purged(slot) = Idle
       THEN /\ sequence' = sequence + 1
            /\ slot' = Preparing(sequence + 1)
            /\ prep' = [pc |-> "capture", id |-> sequence + 1, parent |-> NoTip,
                        asked |-> call[m].asked]
            /\ call' = [call EXCEPT ![m] = [pc |-> "await", id |-> sequence + 1]]
       ELSE call' = [call EXCEPT ![m] = NoCall] /\ UNCHANGED <<slotVars, prep>>
    /\ UNCHANGED <<chainVars, preview, guards, seal, work, mined>>

-----------------------------------------------------------------------------
\* The preparation task.

PayeeOf(request) == IF request = "custom" THEN "custom" ELSE "node"

\* The parent and the payout are captured under the locks.
Capture ==
    /\ prep.pc = "capture" /\ ~gate /\ (prep.asked = "custom" => AllowCustom)
    /\ prep' = [prep EXCEPT !.pc = "build", !.parent = tip]
    /\ UNCHANGED <<chainVars, slotVars, preview, guards, seal, call, work, mined>>

\* The caller gets an answer through the oneshot, unless it has hung up.
Answer(w) ==
    LET waiting == {m \in Miner : call[m].pc = "await" /\ call[m].id = prep.id}
    IN  /\ call' = [m \in Miner |-> IF m \in waiting THEN NoCall ELSE call[m]]
        /\ work' = [m \in Miner |-> IF m \in waiting THEN w ELSE work[m]]

\* An error before any work exists: a closed gate, a payout that is not
\* allowed, a template that cannot be built.  The lease is dropped.
PrepareFailsEarly ==
    /\ prep.pc \in {"capture", "build"}
    /\ slot' = Cancelled(slot, prep.id)
    /\ prep' = NoPrep
    /\ Answer(NoWork)
    /\ UNCHANGED <<chainVars, sequence, preview, guards, seal, mined>>

\* publish_pow_preview, the guard, and the early answer.
PublishPreview ==
    /\ prep.pc = "build"
    /\ preview' = [id |-> prep.id, parent |-> prep.parent,
                   payee |-> PayeeOf(prep.asked), left |-> TTL]
    /\ Answer(Job(preview', prep.asked))
    /\ prep' = [prep EXCEPT !.pc = "prove"]
    /\ UNCHANGED <<chainVars, slotVars, guards, seal, mined>>

\* The proof is built and the tip is still the parent.
Proved ==
    /\ prep.pc = "prove" /\ tip = prep.parent
    /\ prep' = [prep EXCEPT !.pc = "install"]
    /\ UNCHANGED <<chainVars, slotVars, preview, guards, seal, call, work, mined>>

\* Wrong: the lease is dropped before the guard runs.
LeaseBeforeGuard ==
    /\ prep.pc = "prove"
    /\ slot' = Cancelled(slot, prep.id)
    /\ prep' = NoPrep
    /\ guards' = guards + 1
    /\ UNCHANGED <<chainVars, sequence, preview, seal, call, work, mined>>

\* Any error after the preview was published: a proof that fails, a closed
\* gate, a tip that moved.  The guard runs before the lease is dropped.
PrepareFails ==
    /\ prep.pc = "prove"
    /\ preview' = NoPreview
    /\ prep' = [prep EXCEPT !.pc = "release"]
    /\ UNCHANGED <<chainVars, slotVars, guards, seal, call, work, mined>>

ReleasePreparation ==
    /\ prep.pc = "release"
    /\ slot' = Cancelled(slot, prep.id)
    /\ prep' = NoPrep
    /\ UNCHANGED <<chainVars, sequence, preview, guards, seal, call, work, mined>>

\* install_ready takes the lease with it, so that after a refusal the slot
\* is free while the guard has still to run.
InstallReady ==
    /\ prep.pc = "install"
    /\ prep' = NoPrep
    /\ IF Installable(slot, prep.id)
       THEN slot' = Ready(prep.id, prep.parent) /\ UNCHANGED guards
       ELSE slot' = Cancelled(slot, prep.id) /\ guards' = guards + 1
    /\ UNCHANGED <<chainVars, sequence, preview, seal, call, work, mined>>

\* PreviewGuard::drop after such a refusal.
LateGuard ==
    /\ guards > 0
    /\ guards' = guards - 1
    /\ preview' = NoPreview
    /\ UNCHANGED <<chainVars, slotVars, prep, seal, call, work, mined>>

-----------------------------------------------------------------------------
\* submitBlock.

\* The tip is read when the call arrives.
Submit(m, good) ==
    /\ call[m] = NoCall /\ work[m] # NoWork
    /\ call' = [call EXCEPT ![m] = [pc |-> "check", id |-> work[m].id, tip |-> tip,
                                    good |-> good]]
    /\ UNCHANGED <<chainVars, slotVars, preview, prep, guards, seal, work, mined>>

\* The nonce is checked against the ready template, else against the preview
\* of that id; with neither the consume below gives the answer.
CheckNonce(m) ==
    /\ call[m].pc = "check"
    /\ LET c == call[m]
           known == IsReady(slot, c.id) \/ preview.id = c.id
       IN  call' = [call EXCEPT ![m] =
               IF known /\ ~c.good THEN NoCall
               ELSE IF known /\ ~IsReady(slot, c.id) THEN [c EXCEPT !.pc = "wait"]
               ELSE [c EXCEPT !.pc = "consume"]]
    /\ UNCHANGED <<chainVars, slotVars, preview, prep, guards, seal, work, mined>>

\* The proof lands while the call polls for it.
TemplateLands(m) ==
    /\ call[m].pc = "wait" /\ IsReady(slot, call[m].id)
    /\ call' = [call EXCEPT ![m].pc = "consume"]
    /\ UNCHANGED <<chainVars, slotVars, preview, prep, guards, seal, work, mined>>

\* Wrong: the call waits until another template takes the slot.
WaitForAnother(m) ==
    /\ call[m].pc = "wait" /\ slot # Idle /\ slot.id # call[m].id
    /\ call' = [call EXCEPT ![m] = NoCall]
    /\ UNCHANGED <<chainVars, slotVars, preview, prep, guards, seal, work, mined>>

\* EXTERNAL_MINING_PREVIEW_WAIT is over.
WaitEnds(m) ==
    /\ call[m].pc = "wait" /\ ~IsReady(slot, call[m].id)
    /\ call' = [call EXCEPT ![m] = NoCall]
    /\ UNCHANGED <<chainVars, slotVars, preview, prep, guards, seal, work, mined>>

\* Wrong: the template stays in the slot while its block is sealed.
ConsumeCopy(m) ==
    /\ call[m].pc = "consume"
    /\ seal = NoSeal
    /\ LET c == call[m]
           s == Purged(slot)
           taken == IsReady(s, c.id) /\ s.parent = c.tip
       IN  /\ slot' = s
           /\ seal' = IF taken THEN [pc |-> "clear", id |-> c.id, parent |-> s.parent,
                                     good |-> c.good] ELSE seal
           /\ call' = [call EXCEPT ![m] =
                           IF taken THEN [pc |-> "sealing", id |-> c.id] ELSE NoCall]
    /\ UNCHANGED <<chainVars, sequence, preview, prep, guards, work, mined>>

\* begin_proving with the tip read at the start of the call.  A ready
\* template with another parent is dropped; any other state is left alone.
Consume(m) ==
    /\ call[m].pc = "consume"
    /\ LET c == call[m]
           s == Purged(slot)
           taken == IsReady(s, c.id) /\ s.parent = c.tip
       IN  /\ slot' = IF taken THEN Proving(c.id) ELSE IF IsReady(s, c.id) THEN Idle ELSE s
           /\ seal' = IF taken THEN [pc |-> "clear", id |-> c.id, parent |-> s.parent,
                                     good |-> c.good] ELSE seal
           /\ call' = [call EXCEPT ![m] =
                           IF taken THEN [pc |-> "sealing", id |-> c.id] ELSE NoCall]
    /\ UNCHANGED <<chainVars, sequence, preview, prep, guards, work, mined>>

\* The connection of a miner goes away.  The tasks go on without it.
HangUp(m) ==
    /\ call[m] # NoCall
    /\ call' = [call EXCEPT ![m] = NoCall]
    /\ UNCHANGED <<chainVars, slotVars, preview, prep, guards, seal, work, mined>>

-----------------------------------------------------------------------------
\* The sealing task, which owns the proving lease.

SealClearsPreview ==
    /\ seal.pc = "clear"
    /\ preview' = NoPreview
    /\ seal' = [seal EXCEPT !.pc = "seal"]
    /\ UNCHANGED <<chainVars, slotVars, prep, guards, call, work, mined>>

\* The parent is no longer the tip, the nonce is no proof of work, or the
\* proof fails.
SealFails ==
    /\ seal.pc = "seal"
    /\ seal' = [seal EXCEPT !.pc = "release"]
    /\ UNCHANGED <<chainVars, slotVars, preview, prep, guards, call, work, mined>>

\* The block is committed on its parent, and the loop is told.
SealCommits ==
    /\ seal.pc = "seal" /\ seal.good /\ tip = seal.parent
    /\ ~gate /\ tip < MaxTip
    /\ tip' = tip + 1
    /\ hooked' = TRUE
    /\ mined' = mined \union {seal.id}
    /\ seal' = [seal EXCEPT !.pc = "release"]
    /\ UNCHANGED <<applied, gate, slotVars, preview, prep, guards, call, work>>

\* The lease is dropped and the call returns.
ReleaseProving ==
    /\ seal.pc = "release"
    /\ slot' = Finished(slot, seal.id)
    /\ seal' = NoSeal
    /\ call' = [m \in Miner |-> IF call[m].pc = "sealing" /\ call[m].id = seal.id
                                THEN NoCall ELSE call[m]]
    /\ UNCHANGED <<chainVars, sequence, preview, prep, guards, work, mined>>

-----------------------------------------------------------------------------
\* The node and the clock.

\* A suffix, a reorg or a snapshot is committed on its own task, one at a
\* time and under the gate.  A suffix task gives the gate back before its
\* completion reaches the loop; a snapshot install invalidates first.
TaskCommits(snapshot) ==
    /\ applied = NoTip /\ tip < MaxTip
    /\ tip' = tip + 1
    /\ applied' = tip + 1
    /\ gate' = snapshot
    /\ UNCHANGED <<hooked, slotVars, preview, prep, guards, seal, call, work, mined>>

\* invalidate_for_tip with the tip that task committed.
TaskInvalidates ==
    /\ applied # NoTip
    /\ slot' = Invalidated(slot, applied)
    /\ applied' = NoTip /\ gate' = FALSE
    /\ UNCHANGED <<tip, hooked, sequence, preview, prep, guards, seal, call, work, mined>>

\* The loop sees canonical_tip_changes and reads the tip of the chain.
HookInvalidates ==
    /\ hooked
    /\ slot' = Invalidated(slot, tip)
    /\ hooked' = FALSE
    /\ UNCHANGED <<tip, applied, gate, sequence, preview, prep, guards, seal, call, work,
                   mined>>

\* Time passes for the two lifetimes at once.
Tick ==
    /\ preview.left > 0 \/ (slot.state = "Ready" /\ slot.left > 0)
    /\ preview' = IF preview.left > 0 THEN [preview EXCEPT !.left = @ - 1] ELSE preview
    /\ slot' = IF slot.state = "Ready" /\ slot.left > 0
               THEN [slot EXCEPT !.left = @ - 1] ELSE slot
    /\ UNCHANGED <<chainVars, sequence, prep, guards, seal, call, work, mined>>

\* The timer of install_ready.
ExpireReady ==
    /\ slot # Purged(slot)
    /\ slot' = Idle
    /\ UNCHANGED <<chainVars, sequence, preview, prep, guards, seal, call, work, mined>>

-----------------------------------------------------------------------------
Init ==
    /\ tip = 0 /\ hooked = FALSE /\ applied = NoTip /\ gate = FALSE
    /\ slot = Idle /\ sequence = 0 /\ preview = NoPreview
    /\ prep = NoPrep /\ guards = 0 /\ seal = NoSeal
    /\ call = [m \in Miner |-> NoCall] /\ work = [m \in Miner |-> NoWork]
    /\ mined = {}

PrepareStep ==
    \/ Capture \/ PrepareFailsEarly \/ PublishPreview \/ Proved \/ PrepareFails
    \/ ReleasePreparation \/ InstallReady \/ LateGuard

SealStep == SealClearsPreview \/ SealFails \/ SealCommits \/ ReleaseProving

CallStep(m) ==
    \/ ServePreview(m) \/ ReservePreparation(m) \/ CheckNonce(m)
    \/ TemplateLands(m) \/ WaitEnds(m) \/ Consume(m)

Next ==
    \/ \E m \in Miner :
        \/ \E request \in Request : GetTemplate(m, request)
        \/ \E good \in BOOLEAN : Submit(m, good)
        \/ CallStep(m)
        \/ HangUp(m)
    \/ PrepareStep
    \/ SealStep
    \/ \E snapshot \in BOOLEAN : TaskCommits(snapshot)
    \/ TaskInvalidates \/ HookInvalidates
    \/ Tick \/ ExpireReady

Spec == Init /\ [][Next]_vars

\* Tasks run and timers fire; miners and other writers need not do anything.
Fairness ==
    /\ \A m \in Miner : WF_vars(CallStep(m))
    /\ WF_vars(PrepareStep)
    /\ WF_vars(SealStep)
    /\ WF_vars(TaskInvalidates)
    /\ WF_vars(Tick) /\ WF_vars(ExpireReady)

FairSpec == Spec /\ Fairness

-----------------------------------------------------------------------------
\* Ids are in range, a lifetime is at most the TTL.
TypeOK ==
    /\ tip \in Tip /\ hooked \in BOOLEAN /\ applied \in Tip \union {NoTip}
    /\ gate \in BOOLEAN /\ (gate => applied # NoTip)
    /\ sequence \in 0 .. MaxSequence /\ slot.id \in 0 .. sequence
    /\ slot.state \in {"Idle", "Preparing", "Ready", "Proving"}
    /\ preview.id \in 0 .. sequence /\ preview.left \in 0 .. TTL
    /\ guards \in 0 .. sequence /\ mined \subseteq 1 .. sequence
    /\ prep.pc \in {"none", "capture", "build", "prove", "install", "release"}
    /\ seal.pc \in {"none", "clear", "seal", "release"}
    /\ \A m \in Miner :
        /\ call[m].pc \in {"none", "asked", "await", "check", "wait", "consume", "sealing"}
        /\ work[m].id \in 0 .. sequence

\* The single slot is busy exactly as long as a task owns it: "Running
\* preparation/proof owners remain occupied until their cancellation-safe
\* lease is dropped", so a hung-up client neither frees the slot under its
\* task nor wedges it.
SlotOwned ==
    /\ slot.state = "Preparing" <=> prep # NoPrep
    /\ slot.state = "Proving" <=> seal # NoSeal
    /\ prep # NoPrep => prep.id = slot.id
    /\ seal # NoSeal => seal.id = slot.id

\* A template is sealed by one nonce only: a template that is out of the slot
\* for good, because its block was committed, is never ready or prepared
\* again, whatever the miners that hold it submit.
MinedOnce ==
    \A id \in mined : slot.id = id => slot.state = "Proving" /\ seal.pc = "release"

\* The lifetime told to a miner with the preview is never longer than the
\* slot keeps the template: work it is promised can still be submitted.
PromiseKept == slot.state = "Ready" /\ preview.id = slot.id => preview.left <= slot.left

\* A template that is ready was built on a tip that is still the tip, or whose
\* replacement the node has still to tell the slot about.
ReadyOrTold ==
    slot.state = "Ready" /\ slot.parent # tip => hooked \/ applied # NoTip

\* No tip was committed since the first template.
Quiet == tip = 0

\* A nonce that is no proof of work never takes the template out of the slot:
\* "junk nonces still cannot cost anyone their template".
JunkKeepsTemplate == Quiet /\ seal # NoSeal => seal.good

\* Every call of a miner is answered.
CallAnswered(m) == call[m] # NoCall ~> call[m] = NoCall

\* A miner that named an address searches for a block that pays it, whichever
\* preview is on offer and whoever asked for it.
PaysWhoAsked ==
    \A m \in Miner : work[m] # NoWork /\ work[m].asked # "none"
        => work[m].payee = PayeeOf(work[m].asked)

\* "immediately drops a ready attempt when a P2P block, reorg or snapshot
\* replaces its parent" (server.rs:1042): an attempt whose parent is the tip
\* leaves the slot only to be sealed or when its time is over.  The one
\* exception is a task's completion handled late: it invalidates with the tip
\* that task committed, which a miner's block may have replaced meanwhile.
TipTemplateKept ==
    [][slot.state = "Ready" /\ slot.parent = tip /\ slot.left > 0
       => slot'.state \in {"Ready", "Proving"} \/ applied \notin {tip, NoTip}]_vars

\* A preview on offer belongs to a template that is being prepared, ready, or
\* being sealed; its guard takes it down otherwise, "on every early return".
OfferedIsLive ==
    Quiet /\ Servable(preview, tip) => slot.id = preview.id \/ guards > 0

\* "Drops a published preview unless the template reached `Ready`"
\* (server.rs:302): the guard of one template leaves the preview of another.
GuardedOwn == Quiet /\ prep.pc \in {"prove", "install"} => preview.id = prep.id

\* However calls, hang-ups, commits and expiries interleave, the slot and the
\* preview belong to a live task, what is ready is on the tip or about to be
\* dropped, and what a miner was promised holds: lifetime, payee, and a template
\* that junk nonces and other miners' guards leave alone.
SlotSound ==
    /\ TypeOK
    /\ SlotOwned
    /\ PromiseKept
    /\ ReadyOrTold
    /\ JunkKeepsTemplate
    /\ PaysWhoAsked
    /\ OfferedIsLive
    /\ GuardedOwn
==============================================================================
