------------------------ MODULE ExternalMiningProofs ------------------------
(***************************************************************************)
(* For any number of miners, tips, templates and any lifetime: the slot of *)
(* attempts and the preview of the work belong to live tasks, a template   *)
(* is mined once, and an attempt on the tip is not dropped.                *)
(***************************************************************************)
EXTENDS ExternalMining, FiniteSetTheorems, TLAPS

-----------------------------------------------------------------------------
\* The inductive invariant.

Id == Nat \ {0}
Points == Tip \union {NoTip}

SlotStates ==
    {Idle} \union [state : {"Preparing"}, id : Id, invalidated : BOOLEAN]
           \union [state : {"Ready"}, id : Id, parent : Tip, left : 0 .. TTL]
           \union [state : {"Proving"}, id : Id]

Previews == [id : Nat, parent : Points, payee : {"node", "custom"},
             left : 0 .. TTL]

PrepStates ==
    {NoPrep} \union [pc : {"capture"}, id : Id, parent : {NoTip}, asked : Request]
             \union [pc : {"build", "prove", "install", "release"}, id : Id,
                     parent : Tip, asked : Request]

SealStates ==
    {NoSeal} \union [pc : {"clear", "seal", "release"}, id : Id, parent : Tip,
                     good : BOOLEAN]

CallStates ==
    {NoCall} \union [pc : {"asked"}, tip : Tip, asked : Request]
             \union [pc : {"await", "sealing"}, id : Id]
             \union [pc : {"check", "wait", "consume"}, id : Id, tip : Tip, good : BOOLEAN]

Jobs == {NoWork} \union [id : Id, parent : Points, payee : {"node", "custom"},
                         asked : Request]

\* The kinds of records the variables hold.
Shapes ==
    /\ tip \in Tip /\ hooked \in BOOLEAN /\ applied \in Points /\ gate \in BOOLEAN
    /\ sequence \in Nat /\ guards \in Nat
    /\ slot \in SlotStates /\ preview \in Previews
    /\ prep \in PrepStates /\ seal \in SealStates
    /\ call \in [Miner -> CallStates] /\ work \in [Miner -> Jobs]
    /\ mined \in SUBSET Id

Asking == {k \in Miner : call[k].pc = "asked"}

\* Every id in use was handed out by the slot.
Issued ==
    /\ slot.id <= sequence /\ preview.id <= sequence
    /\ \A id \in mined : id <= sequence
    /\ \A m \in Miner :
        /\ work[m].id <= sequence
        /\ call[m].pc \in {"check", "wait", "consume"} => call[m].id <= sequence

\* Every call that asks has an id left, and every late guard had one.
Counted ==
    /\ sequence + Cardinality(Asking) <= MaxSequence
    /\ guards <= sequence /\ (prep # NoPrep => guards < sequence)

\* Only the holder of the gate's task is told about.
GateHeld == gate => applied # NoTip

\* Nobody holds the id of a template before its preview is published, and the
\* preview is gone once the owner of the template has taken it down.
Published ==
    /\ prep.pc \in {"capture", "build"} =>
        /\ preview.id # prep.id
        /\ \A m \in Miner :
            /\ work[m].id # prep.id
            /\ call[m].pc \in {"check", "wait", "consume"} => call[m].id # prep.id
    /\ prep.pc = "release" => preview = NoPreview
    /\ seal.pc \in {"seal", "release"} => preview = NoPreview

\* Whom a captured parent binds: a preparation that nobody has marked.
Unmarked == prep.pc \in {"build", "prove", "install"} /\ slot.state = "Preparing" /\ ~slot.invalidated

\* A parent that has been replaced will be reported to the slot, by the hook
\* or by a task that committed another tip.
Reported(parent) == parent # tip => hooked \/ (applied # NoTip /\ parent # applied)

Told ==
    /\ applied # NoTip => applied <= tip
    /\ slot.state = "Ready" => slot.parent <= tip /\ Reported(slot.parent)
    /\ prep.pc \in {"build", "prove", "install"} => prep.parent <= tip
    /\ Unmarked => Reported(prep.parent)

\* A miner that submits was given its template before it read the tip.
ReadAfter ==
    \A m \in Miner : call[m].pc \in {"check", "wait", "consume"} =>
        /\ call[m].tip <= tip
        /\ slot.state = "Ready" /\ slot.id = call[m].id => slot.parent <= call[m].tip
        /\ prep.pc \in {"prove", "install"} /\ prep.id = call[m].id
               => prep.parent <= call[m].tip

\* Before the first commit nothing is told to the slot.
QuietSlot ==
    Quiet => /\ ~hooked /\ applied = NoTip /\ guards = 0
             /\ slot.state = "Preparing" => ~slot.invalidated

\* A nonce that is no proof of work gets past the check only when the template
\* it names is gone for good.
JunkIsLate ==
    Quiet => \A m \in Miner :
        /\ call[m].pc = "wait" => call[m].good
        /\ call[m].pc = "consume" /\ ~call[m].good =>
            ~(slot.id = call[m].id /\ (slot.state = "Ready" \/ prep.pc \in {"prove", "install"}))

Inv ==
    /\ Shapes /\ Issued /\ Counted /\ GateHeld /\ SlotOwned /\ Published
    /\ Told /\ ReadAfter /\ MinedOnce /\ PromiseKept
    /\ QuietSlot /\ GuardedOwn /\ OfferedIsLive /\ JunkIsLate /\ JunkKeepsTemplate
    /\ PaysWhoAsked

-----------------------------------------------------------------------------
\* What invalidate_except and the two cancellations leave in the slot.
LEMMA InvalidatedShape ==
    ASSUME NEW s \in SlotStates, NEW t
    PROVE  /\ Invalidated(s, t) \in SlotStates
           /\ Invalidated(s, t).id \in {s.id, 0}
<1> USE DEF SlotStates, Id, Idle, Invalidated
<1>1. CASE s.state = "Preparing"
  <2>1. s \in [state : {"Preparing"}, id : Id, invalidated : BOOLEAN]
    BY <1>1
  <2>2. Invalidated(s, t) = [state |-> "Preparing", id |-> s.id, invalidated |-> TRUE]
    BY <1>1, <2>1, Zenon
  <2> QED
    BY <2>1, <2>2, Zenon
<1>2. CASE s.state # "Preparing"
  BY <1>2, Zenon
<1> QED
  BY <1>1, <1>2, Zenon

\* Every step keeps the kinds of records.
LEMMA ShapesStep == ASSUME Shapes, [Next]_vars PROVE Shapes'
<1> USE ExternalConstants
   DEF ExternalConstants, SlotStates, Previews, PrepStates, SealStates, CallStates, Jobs,
       Points, Id, Tip, NoTip, Idle, NoPreview, NoPrep, NoSeal, NoCall, NoWork
<1>1. ASSUME NEW m \in Miner, NEW request \in Request, GetTemplate(m, request) PROVE Shapes'
  BY <1>1 DEF GetTemplate, Shapes, chainVars, slotVars
<1>2. ASSUME NEW m \in Miner, NEW good \in BOOLEAN, Submit(m, good) PROVE Shapes'
  BY <1>2 DEF Submit, Shapes, chainVars, slotVars
<1>3. ASSUME NEW m \in Miner, ServePreview(m) PROVE Shapes'
  BY <1>3 DEF ServePreview, WantsPreview, Servable, Job, Shapes, chainVars, slotVars
<1>4. ASSUME NEW m \in Miner, ReservePreparation(m) PROVE Shapes'
  <2>1. CASE Purged(slot) = Idle
    <3>1. call[m] \in [pc : {"asked"}, tip : Tip, asked : Request]
      BY <1>4 DEF ReservePreparation, Shapes
    <3>2. sequence + 1 \in Id /\ sequence' = sequence + 1
      BY <1>4, <2>1 DEF ReservePreparation, Shapes
    <3>3. slot' \in SlotStates
      <4>1. slot' = Preparing(sequence + 1)
        BY <1>4, <2>1, Zenon DEF ReservePreparation
      <4>2. Preparing(sequence + 1) \in [state : {"Preparing"}, id : Id, invalidated : BOOLEAN]
        BY <3>2, Zenon DEF Preparing
      <4> QED
        BY <4>1, <4>2, Zenon
    <3>4. prep' \in PrepStates
      BY <1>4, <2>1, <3>1, <3>2 DEF ReservePreparation
    <3>5. call' \in [Miner -> CallStates]
      BY <1>4, <2>1, <3>2 DEF ReservePreparation, Shapes
    <3> QED
      BY <1>4, <3>2, <3>3, <3>4, <3>5, Zenon DEF ReservePreparation, Shapes, chainVars
  <2>2. CASE Purged(slot) # Idle
    BY <1>4, <2>2 DEF ReservePreparation, Shapes, chainVars, slotVars
  <2> QED
    BY <2>1, <2>2, Zenon
<1>5. ASSUME NEW m \in Miner, CheckNonce(m) PROVE Shapes'
  BY <1>5 DEF CheckNonce, IsReady, Shapes, chainVars, slotVars
<1>6. ASSUME NEW m \in Miner, TemplateLands(m) PROVE Shapes'
  BY <1>6 DEF TemplateLands, IsReady, Shapes, chainVars, slotVars
<1>7. ASSUME NEW m \in Miner, WaitEnds(m) PROVE Shapes'
  BY <1>7 DEF WaitEnds, IsReady, Shapes, chainVars, slotVars
<1>8. ASSUME NEW m \in Miner, Consume(m) PROVE Shapes'
  BY <1>8 DEF Consume, Purged, IsReady, Proving, Shapes, chainVars, slotVars
<1>9. ASSUME NEW m \in Miner, HangUp(m) PROVE Shapes'
  BY <1>9 DEF HangUp, Shapes, chainVars, slotVars
<1>10. CASE Capture
  <2>1. prep \in [pc : {"capture"}, id : Id, parent : {NoTip}, asked : Request]
    BY <1>10 DEF Capture, Shapes
  <2>2. prep' = [pc |-> "build", id |-> prep.id, parent |-> tip, asked |-> prep.asked]
    BY <1>10, <2>1, Zenon DEF Capture
  <2>3. prep' \in PrepStates
    BY <2>1, <2>2, Zenon DEF Shapes
  <2> QED
    BY <1>10, <2>3 DEF Capture, Shapes, chainVars, slotVars
<1>11. CASE PrepareFailsEarly
  BY <1>11, Zenon DEF PrepareFailsEarly, Cancelled, Answer, Shapes, chainVars, slotVars
<1>12. CASE PublishPreview
  BY <1>12 DEF PublishPreview, Answer, Job, PayeeOf, Shapes, chainVars, slotVars
<1>13. CASE Proved
  BY <1>13 DEF Proved, Shapes, chainVars, slotVars
<1>14. CASE PrepareFails
  BY <1>14 DEF PrepareFails, Shapes, chainVars, slotVars
<1>15. CASE ReleasePreparation
  BY <1>15, Zenon DEF ReleasePreparation, Cancelled, Shapes, chainVars, slotVars
<1>16. CASE InstallReady
  BY <1>16 DEF InstallReady, Installable, Ready, Cancelled, Shapes, chainVars, slotVars
<1>17. CASE LateGuard
  BY <1>17 DEF LateGuard, Shapes, chainVars, slotVars
<1>18. CASE SealClearsPreview
  BY <1>18 DEF SealClearsPreview, Shapes, chainVars, slotVars
<1>19. CASE SealFails
  BY <1>19 DEF SealFails, Shapes, chainVars, slotVars
<1>20. CASE SealCommits
  BY <1>20 DEF SealCommits, Shapes, chainVars, slotVars
<1>21. CASE ReleaseProving
  BY <1>21, Zenon DEF ReleaseProving, Finished, Shapes, chainVars, slotVars
<1>22. ASSUME NEW snapshot \in BOOLEAN, TaskCommits(snapshot) PROVE Shapes'
  BY <1>22 DEF TaskCommits, Shapes, chainVars, slotVars
<1>23. CASE TaskInvalidates
  <2>1. slot' \in SlotStates
    BY <1>23, InvalidatedShape, Zenon DEF TaskInvalidates, Shapes
  <2>2. applied' \in Points /\ gate' \in BOOLEAN
    BY <1>23, Zenon DEF TaskInvalidates, Points
  <2>3. UNCHANGED <<tip, hooked, sequence, preview, prep, guards, seal, call, work, mined>>
    BY <1>23, Zenon DEF TaskInvalidates
  <2> QED
    BY <2>1, <2>2, <2>3, Zenon DEF Shapes
<1>24. CASE HookInvalidates
  <2>1. slot' \in SlotStates
    BY <1>24, InvalidatedShape, Zenon DEF HookInvalidates, Shapes
  <2>2. hooked' \in BOOLEAN
    BY <1>24, Zenon DEF HookInvalidates
  <2>3. UNCHANGED <<tip, applied, gate, sequence, preview, prep, guards, seal, call, work,
                    mined>>
    BY <1>24, Zenon DEF HookInvalidates
  <2> QED
    BY <2>1, <2>2, <2>3 DEF Shapes
<1>25. CASE Tick
  BY <1>25 DEF Tick, Shapes, chainVars, slotVars
<1>26. CASE ExpireReady
  BY <1>26 DEF ExpireReady, Purged, Shapes, chainVars, slotVars
<1>27. CASE UNCHANGED <<tip, hooked, applied, gate, sequence, guards, slot, preview, prep, seal, call, work, mined>>
  BY <1>27 DEF Shapes
<1> QED
  BY <1>1, <1>2, <1>3, <1>4, <1>5, <1>6, <1>7, <1>8, <1>9, <1>10, <1>11, <1>12, <1>13, <1>14,
     <1>15, <1>16, <1>17, <1>18, <1>19, <1>20, <1>21, <1>22, <1>23, <1>24, <1>25, <1>26, <1>27, Zenon
     DEF Next, PrepareStep, SealStep, CallStep, vars, chainVars, slotVars

\* What the records hold, field by field.
LEMMA SlotFields ==
    ASSUME Shapes
    PROVE  /\ slot.state \in {"Idle", "Preparing", "Ready", "Proving"} /\ slot.id \in Nat
           /\ Idle.state = "Idle" /\ Idle.id = 0
           /\ slot.state = "Idle" => slot = Idle
           /\ slot.state # "Idle" => slot.id # 0
           /\ slot.state = "Preparing" =>
                /\ slot.invalidated \in BOOLEAN
                /\ slot = [state |-> "Preparing", id |-> slot.id, invalidated |-> slot.invalidated]
           /\ slot.state = "Ready" =>
                /\ slot.parent \in Tip /\ slot.left \in 0 .. TTL
                /\ slot = [state |-> "Ready", id |-> slot.id, parent |-> slot.parent,
                           left |-> slot.left]
BY DEF Shapes, SlotStates, Id, Idle

\* The preview.
LEMMA PreviewFields ==
    ASSUME Shapes
    PROVE  /\ preview.id \in Nat /\ preview.parent \in Points /\ preview.left \in 0 .. TTL
           /\ preview.payee \in {"node", "custom"}
           /\ preview = [id |-> preview.id, parent |-> preview.parent,
                         payee |-> preview.payee, left |-> preview.left]
           /\ NoPreview.id = 0 /\ NoPreview.left = 0 /\ NoPreview.parent = NoTip
BY Zenon DEF Shapes, Previews, NoPreview

\* The task that prepares a template.
LEMMA PrepFields ==
    ASSUME Shapes
    PROVE  /\ prep.pc \in {"none", "capture", "build", "prove", "install", "release"}
           /\ NoPrep.pc = "none" /\ (prep.pc = "none" <=> prep = NoPrep)
           /\ prep.pc # "none" =>
                /\ prep.id \in Nat /\ prep.id # 0 /\ prep.asked \in Request
                /\ prep = [pc |-> prep.pc, id |-> prep.id, parent |-> prep.parent,
                           asked |-> prep.asked]
           /\ prep.pc \in {"build", "prove", "install", "release"} => prep.parent \in Tip
BY DEF Shapes, PrepStates, Id, NoPrep

\* The task that seals a block.
LEMMA SealFields ==
    ASSUME Shapes
    PROVE  /\ seal.pc \in {"none", "clear", "seal", "release"}
           /\ NoSeal.pc = "none" /\ (seal.pc = "none" <=> seal = NoSeal)
           /\ seal.pc # "none" =>
                /\ seal.id \in Nat /\ seal.id # 0 /\ seal.parent \in Tip /\ seal.good \in BOOLEAN
                /\ seal = [pc |-> seal.pc, id |-> seal.id, parent |-> seal.parent,
                           good |-> seal.good]
BY DEF Shapes, SealStates, Id, NoSeal

\* The calls of the miners.
LEMMA CallFields ==
    ASSUME Shapes, NEW m \in Miner
    PROVE  /\ call[m].pc \in {"none", "asked", "await", "check", "wait", "consume", "sealing"}
           /\ NoCall.pc = "none" /\ (call[m].pc = "none" <=> call[m] = NoCall)
           /\ call[m].pc = "asked" => call[m].tip \in Tip /\ call[m].asked \in Request
           /\ call[m].pc \in {"check", "wait", "consume"} =>
                /\ call[m].id \in Nat /\ call[m].id # 0 /\ call[m].tip \in Tip
                /\ call[m].good \in BOOLEAN
                /\ call[m] = [pc |-> call[m].pc, id |-> call[m].id, tip |-> call[m].tip,
                              good |-> call[m].good]
<1>1. call[m] \in CallStates
  BY Zenon DEF Shapes
<1> QED
  BY <1>1 DEF CallStates, Id, NoCall

\* What the miners work on.
LEMMA WorkFields ==
    ASSUME Shapes, NEW m \in Miner
    PROVE  /\ work[m].id \in Nat /\ NoWork.id = 0 /\ (work[m].id = 0 <=> work[m] = NoWork)
           /\ work[m] # NoWork => work[m].payee \in {"node", "custom"} /\ work[m].asked \in Request
<1>1. work[m] \in Jobs
  BY Zenon DEF Shapes
<1> QED
  BY <1>1 DEF Jobs, Id, NoWork

\* What is not a record.
LEMMA PlainFields ==
    ASSUME Shapes
    PROVE  /\ tip \in Nat /\ tip <= MaxTip /\ hooked \in BOOLEAN /\ gate \in BOOLEAN
           /\ applied # NoTip => applied \in Nat /\ applied <= MaxTip
           /\ NoTip = MaxTip + 1 /\ NoTip \in Nat /\ \A p \in Tip : p \in Nat /\ p <= MaxTip
           /\ sequence \in Nat /\ guards \in Nat
           /\ mined \subseteq Nat \ {0}
           /\ call = [m \in Miner |-> call[m]] /\ work = [m \in Miner |-> work[m]]
BY ExternalConstants DEF ExternalConstants, Shapes, Points, Tip, NoTip, Id

\* The slot stays with the task that owns it.
LEMMA OwnedStep == ASSUME Shapes, SlotOwned, [Next]_vars PROVE SlotOwned'
<1> USE ExternalConstants, PlainFields, SlotFields, PrepFields, SealFields DEF ExternalConstants
<1>1. ASSUME NEW m \in Miner, ReservePreparation(m) PROVE SlotOwned'
  BY <1>1 DEF ReservePreparation, Purged, Preparing, SlotOwned, chainVars, slotVars
<1>2. ASSUME NEW m \in Miner, Consume(m) PROVE SlotOwned'
  BY <1>2 DEF Consume, Purged, IsReady, Proving, SlotOwned, chainVars, slotVars
<1>3. CASE Capture
  BY <1>3, Zenon DEF Capture, SlotOwned, chainVars, slotVars
<1>4. CASE PrepareFailsEarly
  BY <1>4, Zenon DEF PrepareFailsEarly, Cancelled, Answer, SlotOwned, chainVars, slotVars
<1>5. CASE PublishPreview
  BY <1>5, Zenon DEF PublishPreview, Answer, Job, PayeeOf, SlotOwned, chainVars, slotVars
<1>6. CASE Proved
  BY <1>6, Zenon DEF Proved, SlotOwned, chainVars, slotVars
<1>7. CASE PrepareFails
  BY <1>7, Zenon DEF PrepareFails, SlotOwned, chainVars, slotVars
<1>8. CASE ReleasePreparation
  BY <1>8, Zenon DEF ReleasePreparation, Cancelled, SlotOwned, chainVars, slotVars
<1>9. CASE InstallReady
  BY <1>9 DEF InstallReady, Installable, Ready, Cancelled, SlotOwned, chainVars, slotVars
<1>10. CASE SealClearsPreview
  BY <1>10, Zenon DEF SealClearsPreview, SlotOwned, chainVars, slotVars
<1>11. CASE SealFails
  BY <1>11, Zenon DEF SealFails, SlotOwned, chainVars, slotVars
<1>12. CASE SealCommits
  BY <1>12, Zenon DEF SealCommits, SlotOwned, chainVars, slotVars
<1>13. CASE ReleaseProving
  BY <1>13, Zenon DEF ReleaseProving, Finished, SlotOwned, chainVars, slotVars
<1>14. CASE TaskInvalidates
  BY <1>14, Zenon DEF TaskInvalidates, Invalidated, SlotOwned, chainVars, slotVars
<1>15. CASE HookInvalidates
  BY <1>15, Zenon DEF HookInvalidates, Invalidated, SlotOwned, chainVars, slotVars
<1>16. CASE Tick
  BY <1>16, Zenon DEF Tick, SlotOwned, chainVars, slotVars
<1>17. CASE ExpireReady
  BY <1>17, Zenon DEF ExpireReady, Purged, SlotOwned, chainVars, slotVars
<1>18. CASE UNCHANGED <<slot, prep, seal>>
  BY <1>18, Zenon DEF SlotOwned
<1> QED
  BY <1>1, <1>2, <1>3, <1>4, <1>5, <1>6, <1>7, <1>8, <1>9, <1>10, <1>11, <1>12, <1>13, <1>14,
     <1>15, <1>16, <1>17, <1>18, Zenon
     DEF Next, PrepareStep, SealStep, CallStep, vars, chainVars, slotVars,
     GetTemplate, Submit, ServePreview, CheckNonce, TemplateLands, WaitEnds, HangUp,
     LateGuard, TaskCommits

\* No id is used before the slot has handed it out.
LEMMA IssuedStep == ASSUME Shapes, SlotOwned, Issued, [Next]_vars PROVE Issued'
<1> USE ExternalConstants, PlainFields, SlotFields, PreviewFields, WorkFields, CallFields
   DEF ExternalConstants
<1>1. ASSUME NEW m \in Miner, NEW request \in Request, GetTemplate(m, request) PROVE Issued'
  BY <1>1, Zenon DEF GetTemplate, Issued, chainVars, slotVars
<1>2. ASSUME NEW m \in Miner, NEW good \in BOOLEAN, Submit(m, good) PROVE Issued'
  BY <1>2, Zenon DEF Submit, Issued, chainVars, slotVars
<1>3. ASSUME NEW m \in Miner, ServePreview(m) PROVE Issued'
  BY <1>3, Zenon DEF ServePreview, WantsPreview, Servable, Job, Issued, chainVars, slotVars
<1>4. ASSUME NEW m \in Miner, ReservePreparation(m) PROVE Issued'
  BY <1>4 DEF ReservePreparation, Purged, Preparing, Issued, chainVars, slotVars
<1>5. ASSUME NEW m \in Miner, CheckNonce(m) PROVE Issued'
  BY <1>5 DEF CheckNonce, IsReady, Issued, chainVars, slotVars
<1>6. ASSUME NEW m \in Miner, TemplateLands(m) PROVE Issued'
  BY <1>6 DEF TemplateLands, IsReady, Issued, chainVars, slotVars
<1>7. ASSUME NEW m \in Miner, WaitEnds(m) PROVE Issued'
  BY <1>7, Zenon DEF WaitEnds, IsReady, Issued, chainVars, slotVars
<1>8. ASSUME NEW m \in Miner, Consume(m) PROVE Issued'
  <2>1. slot'.id \in {slot.id, 0}
    BY <1>8, Zenon DEF Consume, Purged, IsReady, Proving, Idle
  <2> QED
    BY <1>8, <2>1 DEF Consume, Issued, NoCall, chainVars
<1>9. ASSUME NEW m \in Miner, HangUp(m) PROVE Issued'
  BY <1>9, Zenon DEF HangUp, Issued, chainVars, slotVars
<1>10. CASE PrepareFailsEarly
  BY <1>10 DEF PrepareFailsEarly, Cancelled, Answer, Issued, chainVars, slotVars
<1>11. CASE PublishPreview
  BY <1>11, PrepFields, Zenon
     DEF PublishPreview, Answer, Job, PayeeOf, Issued, SlotOwned, chainVars, slotVars
<1>12. CASE PrepareFails
  BY <1>12 DEF PrepareFails, Issued, chainVars, slotVars
<1>13. CASE ReleasePreparation
  BY <1>13 DEF ReleasePreparation, Cancelled, Issued, chainVars, slotVars
<1>14. CASE InstallReady
  BY <1>14, PrepFields
     DEF InstallReady, Installable, Ready, Cancelled, Issued, SlotOwned, chainVars, slotVars
<1>15. CASE LateGuard
  BY <1>15 DEF LateGuard, Issued, chainVars, slotVars
<1>16. CASE SealClearsPreview
  BY <1>16 DEF SealClearsPreview, Issued, chainVars, slotVars
<1>17. CASE SealCommits
  BY <1>17, SealFields, Zenon DEF SealCommits, Issued, SlotOwned, chainVars, slotVars
<1>18. CASE ReleaseProving
  BY <1>18 DEF ReleaseProving, Finished, Issued, chainVars, slotVars
<1>19. CASE TaskInvalidates
  BY <1>19 DEF TaskInvalidates, Invalidated, Issued, chainVars, slotVars
<1>20. CASE HookInvalidates
  BY <1>20 DEF HookInvalidates, Invalidated, Issued, chainVars, slotVars
<1>21. CASE Tick
  BY <1>21, Zenon DEF Tick, Issued, chainVars, slotVars
<1>22. CASE ExpireReady
  BY <1>22 DEF ExpireReady, Purged, Issued, chainVars, slotVars
<1>23. CASE UNCHANGED <<slot, preview, mined, work, call, sequence>>
  BY <1>23, Zenon DEF Issued
<1> QED
  BY <1>1, <1>2, <1>3, <1>4, <1>5, <1>6, <1>7, <1>8, <1>9, <1>10, <1>11, <1>12, <1>13, <1>14,
     <1>15, <1>16, <1>17, <1>18, <1>19, <1>20, <1>21, <1>22, <1>23, Zenon
     DEF Next, PrepareStep, SealStep, CallStep, vars, chainVars, slotVars,
     Capture, Proved, SealFails, TaskCommits

\* The gate is closed only for a task that is still to be told about.
LEMMA GateStep == ASSUME Shapes, GateHeld, [Next]_vars PROVE GateHeld'
<1> USE ExternalConstants, PlainFields DEF ExternalConstants
<1>1. ASSUME NEW snapshot \in BOOLEAN, TaskCommits(snapshot) PROVE GateHeld'
  BY <1>1 DEF TaskCommits, GateHeld, chainVars, slotVars
<1>2. CASE TaskInvalidates
  BY <1>2, Zenon DEF TaskInvalidates, Invalidated, GateHeld, chainVars, slotVars
<1>3. CASE UNCHANGED <<gate, applied>>
  BY <1>3, Zenon DEF GateHeld
<1> QED
  BY <1>1, <1>2, <1>3, Zenon DEF Next, PrepareStep, SealStep, CallStep, vars, chainVars, slotVars,
     GetTemplate, Submit, ServePreview, ReservePreparation, CheckNonce, TemplateLands,
     WaitEnds, Consume, HangUp, Capture, PrepareFailsEarly, PublishPreview, Proved,
     PrepareFails, ReleasePreparation, InstallReady, LateGuard, SealClearsPreview, SealFails,
     SealCommits, ReleaseProving, HookInvalidates, Tick, ExpireReady

\* Ids are held only once they are published.
LEMMA PublishedStep == ASSUME Shapes, SlotOwned, Issued, Published, [Next]_vars PROVE Published'
<1> USE ExternalConstants, PlainFields, PrepFields, SealFields, PreviewFields, WorkFields,
   CallFields
   DEF ExternalConstants
<1>1. ASSUME NEW m \in Miner, NEW request \in Request, GetTemplate(m, request) PROVE Published'
  BY <1>1, Zenon DEF GetTemplate, Published, chainVars, slotVars
<1>2. ASSUME NEW m \in Miner, NEW good \in BOOLEAN, Submit(m, good) PROVE Published'
  BY <1>2, Zenon DEF Submit, Published, chainVars, slotVars
<1>3. ASSUME NEW m \in Miner, ServePreview(m) PROVE Published'
  BY <1>3, Zenon DEF ServePreview, WantsPreview, Servable, Job, Published, Issued, chainVars, slotVars
<1>4. ASSUME NEW m \in Miner, ReservePreparation(m) PROVE Published'
  BY <1>4 DEF ReservePreparation, Purged, Preparing, Published, Issued, chainVars, slotVars
<1>5. ASSUME NEW m \in Miner, CheckNonce(m) PROVE Published'
  BY <1>5 DEF CheckNonce, IsReady, Published, chainVars, slotVars
<1>6. ASSUME NEW m \in Miner, TemplateLands(m) PROVE Published'
  BY <1>6 DEF TemplateLands, IsReady, Published, chainVars, slotVars
<1>7. ASSUME NEW m \in Miner, WaitEnds(m) PROVE Published'
  BY <1>7, Zenon DEF WaitEnds, IsReady, Published, chainVars, slotVars
<1>8. ASSUME NEW m \in Miner, Consume(m) PROVE Published'
  BY <1>8, SlotFields, Zenon
     DEF Consume, Purged, IsReady, Proving, Published, SlotOwned, chainVars, slotVars
<1>9. ASSUME NEW m \in Miner, HangUp(m) PROVE Published'
  BY <1>9, Zenon DEF HangUp, Published, chainVars, slotVars
<1>10. CASE Capture
  BY <1>10, Zenon DEF Capture, Published, chainVars, slotVars
<1>11. CASE PrepareFailsEarly
  BY <1>11, Zenon DEF PrepareFailsEarly, Cancelled, Answer, Published, chainVars, slotVars
<1>12. CASE PublishPreview
  BY <1>12, SlotFields, Zenon
     DEF PublishPreview, Answer, Job, PayeeOf, Published, SlotOwned, chainVars, slotVars
<1>13. CASE Proved
  BY <1>13, Zenon DEF Proved, Published, chainVars, slotVars
<1>14. CASE PrepareFails
  BY <1>14, Zenon DEF PrepareFails, Published, chainVars, slotVars
<1>15. CASE ReleasePreparation
  BY <1>15, Zenon DEF ReleasePreparation, Cancelled, Published, chainVars, slotVars
<1>16. CASE InstallReady
  BY <1>16, Zenon DEF InstallReady, Installable, Ready, Cancelled, Published, chainVars, slotVars
<1>17. CASE LateGuard
  BY <1>17, Zenon DEF LateGuard, Published, chainVars, slotVars
<1>18. CASE SealClearsPreview
  BY <1>18, SlotFields, Zenon DEF SealClearsPreview, Published, SlotOwned, chainVars, slotVars
<1>19. CASE SealFails
  BY <1>19, Zenon DEF SealFails, Published, chainVars, slotVars
<1>20. CASE SealCommits
  BY <1>20, Zenon DEF SealCommits, Published, chainVars, slotVars
<1>21. CASE ReleaseProving
  BY <1>21, Zenon DEF ReleaseProving, Finished, Published, chainVars, slotVars
<1>22. CASE Tick
  BY <1>22 DEF Tick, Published, chainVars, slotVars
<1>23. CASE UNCHANGED <<prep, preview, work, call, seal>>
  BY <1>23, Zenon DEF Published
<1> QED
  BY <1>1, <1>2, <1>3, <1>4, <1>5, <1>6, <1>7, <1>8, <1>9, <1>10, <1>11, <1>12, <1>13, <1>14,
     <1>15, <1>16, <1>17, <1>18, <1>19, <1>20, <1>21, <1>22, <1>23, Zenon
     DEF Next, PrepareStep, SealStep, CallStep, vars, chainVars, slotVars,
     TaskCommits, TaskInvalidates, HookInvalidates, ExpireReady

\* A replaced parent is reported.
LEMMA ToldStep == ASSUME Shapes, SlotOwned, Told, [Next]_vars PROVE Told'
<1> USE ExternalConstants, PlainFields, SlotFields, PrepFields DEF ExternalConstants
<1>1. ASSUME NEW m \in Miner, ReservePreparation(m) PROVE Told'
  BY <1>1
     DEF ReservePreparation, Purged, Preparing, SlotOwned, Told, Unmarked, Reported,
         chainVars, slotVars
<1>2. ASSUME NEW m \in Miner, Consume(m) PROVE Told'
  BY <1>2, Zenon
     DEF Consume, Purged, IsReady, Proving, SlotOwned, Told, Unmarked, Reported, chainVars,
         slotVars
<1>3. CASE Capture
  BY <1>3 DEF Capture, SlotOwned, Told, Unmarked, Reported, chainVars, slotVars
<1>4. CASE PrepareFailsEarly
  BY <1>4, Zenon
     DEF PrepareFailsEarly, Cancelled, Answer, SlotOwned, Told, Unmarked, Reported, chainVars,
         slotVars
<1>5. CASE PublishPreview
  BY <1>5, Zenon
     DEF PublishPreview, Answer, Job, PayeeOf, SlotOwned, Told, Unmarked, Reported, chainVars,
         slotVars
<1>6. CASE Proved
  BY <1>6, Zenon DEF Proved, SlotOwned, Told, Unmarked, Reported, chainVars, slotVars
<1>7. CASE PrepareFails
  BY <1>7, Zenon DEF PrepareFails, SlotOwned, Told, Unmarked, Reported, chainVars, slotVars
<1>8. CASE ReleasePreparation
  BY <1>8, Zenon
     DEF ReleasePreparation, Cancelled, SlotOwned, Told, Unmarked, Reported, chainVars,
         slotVars
<1>9. CASE InstallReady
  BY <1>9
     DEF InstallReady, Installable, Ready, Cancelled, SlotOwned, Told, Unmarked, Reported,
         chainVars, slotVars
<1>10. CASE SealCommits
  BY <1>10 DEF SealCommits, SlotOwned, Told, Unmarked, Reported, chainVars, slotVars
<1>11. CASE ReleaseProving
  BY <1>11, Zenon
     DEF ReleaseProving, Finished, SlotOwned, Told, Unmarked, Reported, chainVars, slotVars
<1>12. ASSUME NEW snapshot \in BOOLEAN, TaskCommits(snapshot) PROVE Told'
  BY <1>12 DEF TaskCommits, SlotOwned, Told, Unmarked, Reported, chainVars, slotVars
<1>13. CASE TaskInvalidates
  BY <1>13, Zenon
     DEF TaskInvalidates, Invalidated, SlotOwned, Told, Unmarked, Reported, chainVars,
         slotVars
<1>14. CASE HookInvalidates
  BY <1>14, Zenon
     DEF HookInvalidates, Invalidated, SlotOwned, Told, Unmarked, Reported, chainVars,
         slotVars
<1>15. CASE Tick
  BY <1>15, Zenon DEF Tick, SlotOwned, Told, Unmarked, Reported, chainVars, slotVars
<1>16. CASE ExpireReady
  BY <1>16, Zenon DEF ExpireReady, Purged, SlotOwned, Told, Unmarked, Reported, chainVars, slotVars
<1>17. CASE UNCHANGED <<applied, tip, slot, prep, hooked>>
  BY <1>17, Zenon DEF SlotOwned, Told, Unmarked, Reported
<1> QED
  BY <1>1, <1>2, <1>3, <1>4, <1>5, <1>6, <1>7, <1>8, <1>9, <1>10, <1>11, <1>12, <1>13, <1>14,
     <1>15, <1>16, <1>17, Zenon
     DEF Next, PrepareStep, SealStep, CallStep, vars, chainVars, slotVars,
     GetTemplate, Submit, ServePreview, CheckNonce, TemplateLands, WaitEnds, HangUp,
     LateGuard, SealClearsPreview, SealFails

\* The tip is read after the template was given.
LEMMA ReadAfterStep ==
    ASSUME Shapes, SlotOwned, Issued, Published, Told, ReadAfter, [Next]_vars
    PROVE  ReadAfter'
<1> USE ExternalConstants, PlainFields, SlotFields, PrepFields, CallFields DEF ExternalConstants
<1>1. ASSUME NEW m \in Miner, NEW request \in Request, GetTemplate(m, request) PROVE ReadAfter'
  BY <1>1, Zenon DEF GetTemplate, ReadAfter, chainVars, slotVars
<1>2. ASSUME NEW m \in Miner, NEW good \in BOOLEAN, Submit(m, good) PROVE ReadAfter'
  BY <1>2, WorkFields DEF Submit, ReadAfter, Told, Published, chainVars, slotVars
<1>3. ASSUME NEW m \in Miner, ServePreview(m) PROVE ReadAfter'
  BY <1>3, Zenon DEF ServePreview, WantsPreview, Servable, Job, ReadAfter, chainVars, slotVars
<1>4. ASSUME NEW m \in Miner, ReservePreparation(m) PROVE ReadAfter'
  BY <1>4 DEF ReservePreparation, Purged, Preparing, ReadAfter, Issued, chainVars, slotVars
<1>5. ASSUME NEW m \in Miner, CheckNonce(m) PROVE ReadAfter'
  BY <1>5 DEF CheckNonce, IsReady, ReadAfter, chainVars, slotVars
<1>6. ASSUME NEW m \in Miner, TemplateLands(m) PROVE ReadAfter'
  BY <1>6 DEF TemplateLands, IsReady, ReadAfter, chainVars, slotVars
<1>7. ASSUME NEW m \in Miner, WaitEnds(m) PROVE ReadAfter'
  BY <1>7, Zenon DEF WaitEnds, IsReady, ReadAfter, chainVars, slotVars
<1>8. ASSUME NEW m \in Miner, Consume(m) PROVE ReadAfter'
  BY <1>8, Zenon DEF Consume, Purged, IsReady, Proving, ReadAfter, chainVars, slotVars
<1>9. ASSUME NEW m \in Miner, HangUp(m) PROVE ReadAfter'
  BY <1>9, Zenon DEF HangUp, ReadAfter, chainVars, slotVars
<1>10. CASE Capture
  BY <1>10, Zenon DEF Capture, ReadAfter, chainVars, slotVars
<1>11. CASE PrepareFailsEarly
  BY <1>11, Zenon DEF PrepareFailsEarly, Cancelled, Answer, ReadAfter, chainVars, slotVars
<1>12. CASE PublishPreview
  BY <1>12, Zenon DEF PublishPreview, Answer, Job, PayeeOf, ReadAfter, Published, chainVars, slotVars
<1>13. CASE Proved
  BY <1>13, Zenon DEF Proved, ReadAfter, chainVars, slotVars
<1>14. CASE PrepareFails
  BY <1>14, Zenon DEF PrepareFails, ReadAfter, chainVars, slotVars
<1>15. CASE ReleasePreparation
  BY <1>15, Zenon DEF ReleasePreparation, Cancelled, ReadAfter, chainVars, slotVars
<1>16. CASE InstallReady
  BY <1>16
     DEF InstallReady, Installable, Ready, Cancelled, ReadAfter, SlotOwned, chainVars,
         slotVars
<1>17. CASE SealCommits
  BY <1>17 DEF SealCommits, ReadAfter, chainVars, slotVars
<1>18. CASE ReleaseProving
  BY <1>18, Zenon DEF ReleaseProving, Finished, ReadAfter, chainVars, slotVars
<1>19. ASSUME NEW snapshot \in BOOLEAN, TaskCommits(snapshot) PROVE ReadAfter'
  BY <1>19 DEF TaskCommits, ReadAfter, chainVars, slotVars
<1>20. CASE TaskInvalidates
  BY <1>20, Zenon DEF TaskInvalidates, Invalidated, ReadAfter, chainVars, slotVars
<1>21. CASE HookInvalidates
  BY <1>21, Zenon DEF HookInvalidates, Invalidated, ReadAfter, chainVars, slotVars
<1>22. CASE Tick
  BY <1>22, Zenon DEF Tick, ReadAfter, chainVars, slotVars
<1>23. CASE ExpireReady
  BY <1>23, Zenon DEF ExpireReady, Purged, ReadAfter, chainVars, slotVars
<1>24. CASE UNCHANGED <<call, tip, slot, prep>>
  BY <1>24, Zenon DEF ReadAfter
<1> QED
  BY <1>1, <1>2, <1>3, <1>4, <1>5, <1>6, <1>7, <1>8, <1>9, <1>10, <1>11, <1>12, <1>13, <1>14,
     <1>15, <1>16, <1>17, <1>18, <1>19, <1>20, <1>21, <1>22, <1>23, <1>24, Zenon
     DEF Next, PrepareStep, SealStep, CallStep, vars, chainVars, slotVars,
     LateGuard, SealClearsPreview, SealFails

\* A mined template is not ready again.
LEMMA MinedStep == ASSUME Shapes, SlotOwned, Issued, MinedOnce, [Next]_vars PROVE MinedOnce'
<1> USE ExternalConstants, PlainFields, SlotFields, PrepFields, SealFields DEF ExternalConstants
<1>1. ASSUME NEW m \in Miner, ReservePreparation(m) PROVE MinedOnce'
  BY <1>1
     DEF ReservePreparation, Purged, Preparing, SlotOwned, Issued, MinedOnce, chainVars,
         slotVars
<1>2. ASSUME NEW m \in Miner, Consume(m) PROVE MinedOnce'
  BY <1>2, Zenon
     DEF Consume, Purged, IsReady, Proving, SlotOwned, Issued, MinedOnce, chainVars, slotVars
<1>3. CASE PrepareFailsEarly
  BY <1>3, Zenon
     DEF PrepareFailsEarly, Cancelled, Answer, SlotOwned, Issued, MinedOnce, chainVars,
         slotVars
<1>4. CASE ReleasePreparation
  BY <1>4, Zenon DEF ReleasePreparation, Cancelled, SlotOwned, Issued, MinedOnce, chainVars, slotVars
<1>5. CASE InstallReady
  BY <1>5
     DEF InstallReady, Installable, Ready, Cancelled, SlotOwned, Issued, MinedOnce, chainVars,
         slotVars
<1>6. CASE SealClearsPreview
  BY <1>6, Zenon DEF SealClearsPreview, SlotOwned, Issued, MinedOnce, chainVars, slotVars
<1>7. CASE SealFails
  BY <1>7, Zenon DEF SealFails, SlotOwned, Issued, MinedOnce, chainVars, slotVars
<1>8. CASE SealCommits
  BY <1>8, Zenon DEF SealCommits, SlotOwned, Issued, MinedOnce, chainVars, slotVars
<1>9. CASE ReleaseProving
  BY <1>9, Zenon DEF ReleaseProving, Finished, SlotOwned, Issued, MinedOnce, chainVars, slotVars
<1>10. CASE TaskInvalidates
  BY <1>10, Zenon DEF TaskInvalidates, Invalidated, SlotOwned, Issued, MinedOnce, chainVars, slotVars
<1>11. CASE HookInvalidates
  BY <1>11, Zenon DEF HookInvalidates, Invalidated, SlotOwned, Issued, MinedOnce, chainVars, slotVars
<1>12. CASE Tick
  BY <1>12, Zenon DEF Tick, SlotOwned, Issued, MinedOnce, chainVars, slotVars
<1>13. CASE ExpireReady
  BY <1>13, Zenon DEF ExpireReady, Purged, SlotOwned, Issued, MinedOnce, chainVars, slotVars
<1>14. CASE UNCHANGED <<mined, slot, seal>>
  BY <1>14, Zenon DEF SlotOwned, Issued, MinedOnce
<1> QED
  BY <1>1, <1>2, <1>3, <1>4, <1>5, <1>6, <1>7, <1>8, <1>9, <1>10, <1>11, <1>12, <1>13, <1>14, Zenon
     DEF Next, PrepareStep, SealStep, CallStep, vars, chainVars, slotVars,
     GetTemplate, Submit, ServePreview, CheckNonce, TemplateLands, WaitEnds, HangUp, Capture,
     PublishPreview, Proved, PrepareFails, LateGuard, TaskCommits

\* The two lifetimes run together.
LEMMA PromiseStep ==
    ASSUME Shapes, SlotOwned, Issued, PromiseKept, [Next]_vars
    PROVE  PromiseKept'
<1> USE ExternalConstants, PlainFields, SlotFields, PreviewFields DEF ExternalConstants
<1>1. ASSUME NEW m \in Miner, ReservePreparation(m) PROVE PromiseKept'
  BY <1>1 DEF ReservePreparation, Purged, Preparing, PromiseKept, chainVars, slotVars
<1>2. ASSUME NEW m \in Miner, Consume(m) PROVE PromiseKept'
  BY <1>2, Zenon DEF Consume, Purged, IsReady, Proving, PromiseKept, chainVars, slotVars
<1>3. CASE PrepareFailsEarly
  BY <1>3, Zenon DEF PrepareFailsEarly, Cancelled, Answer, PromiseKept, chainVars, slotVars
<1>4. CASE PublishPreview
  BY <1>4, PrepFields, Zenon
     DEF PublishPreview, Answer, Job, PayeeOf, PromiseKept, SlotOwned, chainVars, slotVars
<1>5. CASE PrepareFails
  BY <1>5, Zenon DEF PrepareFails, PromiseKept, chainVars, slotVars
<1>6. CASE ReleasePreparation
  BY <1>6, Zenon DEF ReleasePreparation, Cancelled, PromiseKept, chainVars, slotVars
<1>7. CASE InstallReady
  BY <1>7 DEF InstallReady, Installable, Ready, Cancelled, PromiseKept, chainVars, slotVars
<1>8. CASE LateGuard
  BY <1>8, Zenon DEF LateGuard, PromiseKept, chainVars, slotVars
<1>9. CASE SealClearsPreview
  BY <1>9, Zenon DEF SealClearsPreview, PromiseKept, chainVars, slotVars
<1>10. CASE ReleaseProving
  BY <1>10, Zenon DEF ReleaseProving, Finished, PromiseKept, chainVars, slotVars
<1>11. CASE TaskInvalidates
  BY <1>11, Zenon DEF TaskInvalidates, Invalidated, PromiseKept, chainVars, slotVars
<1>12. CASE HookInvalidates
  BY <1>12, Zenon DEF HookInvalidates, Invalidated, PromiseKept, chainVars, slotVars
<1>13. CASE Tick
  BY <1>13 DEF Tick, PromiseKept, chainVars, slotVars
<1>14. CASE ExpireReady
  BY <1>14, Zenon DEF ExpireReady, Purged, PromiseKept, chainVars, slotVars
<1>15. CASE UNCHANGED <<slot, preview>>
  BY <1>15, Zenon DEF PromiseKept
<1> QED
  BY <1>1, <1>2, <1>3, <1>4, <1>5, <1>6, <1>7, <1>8, <1>9, <1>10, <1>11, <1>12, <1>13, <1>14,
     <1>15, Zenon
     DEF Next, PrepareStep, SealStep, CallStep, vars, chainVars, slotVars,
     GetTemplate, Submit, ServePreview, CheckNonce, TemplateLands, WaitEnds, HangUp, Capture,
     Proved, SealFails, SealCommits, TaskCommits

\* Nothing is told before the first commit.
LEMMA QuietSlotStep == ASSUME Shapes, SlotOwned, QuietSlot, [Next]_vars PROVE QuietSlot'
<1> USE ExternalConstants, PlainFields, SlotFields, PrepFields DEF ExternalConstants
<1>1. ASSUME NEW m \in Miner, ReservePreparation(m) PROVE QuietSlot'
  BY <1>1 DEF ReservePreparation, Purged, Preparing, QuietSlot, Quiet, chainVars, slotVars
<1>2. ASSUME NEW m \in Miner, Consume(m) PROVE QuietSlot'
  BY <1>2, Zenon DEF Consume, Purged, IsReady, Proving, QuietSlot, Quiet, chainVars, slotVars
<1>3. CASE PrepareFailsEarly
  BY <1>3, Zenon DEF PrepareFailsEarly, Cancelled, Answer, QuietSlot, Quiet, chainVars, slotVars
<1>4. CASE ReleasePreparation
  BY <1>4, Zenon DEF ReleasePreparation, Cancelled, QuietSlot, Quiet, chainVars, slotVars
<1>5. CASE InstallReady
  BY <1>5
     DEF InstallReady, Installable, Ready, Cancelled, QuietSlot, Quiet, SlotOwned, chainVars,
         slotVars
<1>6. CASE LateGuard
  BY <1>6 DEF LateGuard, QuietSlot, Quiet, chainVars, slotVars
<1>7. CASE SealCommits
  BY <1>7 DEF SealCommits, QuietSlot, Quiet, chainVars, slotVars
<1>8. CASE ReleaseProving
  BY <1>8, Zenon DEF ReleaseProving, Finished, QuietSlot, Quiet, chainVars, slotVars
<1>9. ASSUME NEW snapshot \in BOOLEAN, TaskCommits(snapshot) PROVE QuietSlot'
  BY <1>9 DEF TaskCommits, QuietSlot, Quiet, chainVars, slotVars
<1>10. CASE TaskInvalidates
  BY <1>10, Zenon DEF TaskInvalidates, Invalidated, QuietSlot, Quiet, chainVars, slotVars
<1>11. CASE HookInvalidates
  BY <1>11, Zenon DEF HookInvalidates, Invalidated, QuietSlot, Quiet, chainVars, slotVars
<1>12. CASE Tick
  BY <1>12, Zenon DEF Tick, QuietSlot, Quiet, chainVars, slotVars
<1>13. CASE ExpireReady
  BY <1>13, Zenon DEF ExpireReady, Purged, QuietSlot, Quiet, chainVars, slotVars
<1>14. CASE UNCHANGED <<tip, hooked, applied, guards, slot>>
  BY <1>14, Zenon DEF QuietSlot, Quiet
<1> QED
  BY <1>1, <1>2, <1>3, <1>4, <1>5, <1>6, <1>7, <1>8, <1>9, <1>10, <1>11, <1>12, <1>13, <1>14, Zenon
     DEF Next, PrepareStep, SealStep, CallStep, vars, chainVars, slotVars,
     GetTemplate, Submit, ServePreview, CheckNonce, TemplateLands, WaitEnds, HangUp, Capture,
     PublishPreview, Proved, PrepareFails, SealClearsPreview, SealFails

\* A guard leaves the preview of another template.
LEMMA GuardedStep ==
    ASSUME Shapes, SlotOwned, QuietSlot, GuardedOwn, [Next]_vars
    PROVE  GuardedOwn'
<1> USE ExternalConstants, PlainFields, PrepFields, PreviewFields DEF ExternalConstants
<1>1. ASSUME NEW m \in Miner, ReservePreparation(m) PROVE GuardedOwn'
  BY <1>1 DEF ReservePreparation, Purged, Preparing, GuardedOwn, Quiet, chainVars, slotVars
<1>2. CASE Capture
  BY <1>2, Zenon DEF Capture, GuardedOwn, Quiet, chainVars, slotVars
<1>3. CASE PrepareFailsEarly
  BY <1>3, Zenon DEF PrepareFailsEarly, Cancelled, Answer, GuardedOwn, Quiet, chainVars, slotVars
<1>4. CASE PublishPreview
  BY <1>4, Zenon DEF PublishPreview, Answer, Job, PayeeOf, GuardedOwn, Quiet, chainVars, slotVars
<1>5. CASE Proved
  BY <1>5, Zenon DEF Proved, GuardedOwn, Quiet, chainVars, slotVars
<1>6. CASE PrepareFails
  BY <1>6, Zenon DEF PrepareFails, GuardedOwn, Quiet, chainVars, slotVars
<1>7. CASE ReleasePreparation
  BY <1>7, Zenon DEF ReleasePreparation, Cancelled, GuardedOwn, Quiet, chainVars, slotVars
<1>8. CASE InstallReady
  BY <1>8, Zenon
     DEF InstallReady, Installable, Ready, Cancelled, GuardedOwn, Quiet, chainVars, slotVars
<1>9. CASE LateGuard
  BY <1>9 DEF LateGuard, GuardedOwn, Quiet, QuietSlot, chainVars, slotVars
<1>10. CASE SealClearsPreview
  BY <1>10, SlotFields, SealFields, Zenon
     DEF SealClearsPreview, GuardedOwn, Quiet, SlotOwned, chainVars, slotVars
<1>11. CASE SealCommits
  BY <1>11 DEF SealCommits, GuardedOwn, Quiet, chainVars, slotVars
<1>12. ASSUME NEW snapshot \in BOOLEAN, TaskCommits(snapshot) PROVE GuardedOwn'
  BY <1>12 DEF TaskCommits, GuardedOwn, Quiet, chainVars, slotVars
<1>13. CASE Tick
  BY <1>13, Zenon DEF Tick, GuardedOwn, Quiet, chainVars, slotVars
<1>14. CASE UNCHANGED <<tip, prep, preview>>
  BY <1>14, Zenon DEF GuardedOwn, Quiet
<1> QED
  BY <1>1, <1>2, <1>3, <1>4, <1>5, <1>6, <1>7, <1>8, <1>9, <1>10, <1>11, <1>12, <1>13, <1>14, Zenon
     DEF Next, PrepareStep, SealStep, CallStep, vars, chainVars, slotVars,
     GetTemplate, Submit, ServePreview, CheckNonce, TemplateLands, WaitEnds, Consume, HangUp,
     SealFails, ReleaseProving, TaskInvalidates, HookInvalidates, ExpireReady

\* A preview on offer has a live owner.
LEMMA OfferedStep ==
    ASSUME Shapes, SlotOwned, Issued, Published, Told, ReadAfter, PromiseKept,
           QuietSlot, OfferedIsLive, [Next]_vars
    PROVE  OfferedIsLive'
<1> USE ExternalConstants, PlainFields, SlotFields, PreviewFields DEF ExternalConstants
<1>1. ASSUME NEW m \in Miner, ReservePreparation(m) PROVE OfferedIsLive'
  BY <1>1
     DEF ReservePreparation, Purged, Preparing, OfferedIsLive, Servable, Quiet, PromiseKept,
         chainVars, slotVars
<1>2. ASSUME NEW m \in Miner, Consume(m) PROVE OfferedIsLive'
  BY <1>2, CallFields
     DEF Consume, Purged, IsReady, Proving, OfferedIsLive, Servable, Quiet, PromiseKept, Told,
         ReadAfter, chainVars, slotVars
<1>3. CASE PrepareFailsEarly
  BY <1>3, PrepFields, Zenon
     DEF PrepareFailsEarly, Cancelled, Answer, OfferedIsLive, Servable, Quiet, Published,
         SlotOwned, chainVars, slotVars
<1>4. CASE PublishPreview
  BY <1>4, PrepFields, Zenon
     DEF PublishPreview, Answer, Job, PayeeOf, OfferedIsLive, Servable, Quiet, SlotOwned,
         chainVars, slotVars
<1>5. CASE PrepareFails
  BY <1>5, Zenon DEF PrepareFails, OfferedIsLive, Servable, Quiet, chainVars, slotVars
<1>6. CASE ReleasePreparation
  BY <1>6, PrepFields, Zenon
     DEF ReleasePreparation, Cancelled, OfferedIsLive, Servable, Quiet, Published, SlotOwned,
         chainVars, slotVars
<1>7. CASE InstallReady
  BY <1>7, PrepFields
     DEF InstallReady, Installable, Ready, Cancelled, OfferedIsLive, Servable, Quiet,
         QuietSlot, SlotOwned, chainVars, slotVars
<1>8. CASE LateGuard
  BY <1>8, Zenon DEF LateGuard, OfferedIsLive, Servable, Quiet, QuietSlot, chainVars, slotVars
<1>9. CASE SealClearsPreview
  BY <1>9, Zenon DEF SealClearsPreview, OfferedIsLive, Servable, Quiet, chainVars, slotVars
<1>10. CASE SealCommits
  BY <1>10 DEF SealCommits, OfferedIsLive, Servable, Quiet, chainVars, slotVars
<1>11. CASE ReleaseProving
  BY <1>11, Zenon
     DEF ReleaseProving, Finished, OfferedIsLive, Servable, Quiet, Published, chainVars,
         slotVars
<1>12. ASSUME NEW snapshot \in BOOLEAN, TaskCommits(snapshot) PROVE OfferedIsLive'
  BY <1>12 DEF TaskCommits, OfferedIsLive, Servable, Quiet, chainVars, slotVars
<1>13. CASE TaskInvalidates
  BY <1>13, Zenon
     DEF TaskInvalidates, Invalidated, OfferedIsLive, Servable, Quiet, QuietSlot, chainVars,
         slotVars
<1>14. CASE HookInvalidates
  BY <1>14, Zenon
     DEF HookInvalidates, Invalidated, OfferedIsLive, Servable, Quiet, QuietSlot, chainVars,
         slotVars
<1>15. CASE Tick
  BY <1>15, Zenon DEF Tick, OfferedIsLive, Servable, Quiet, chainVars, slotVars
<1>16. CASE ExpireReady
  BY <1>16
     DEF ExpireReady, Purged, OfferedIsLive, Servable, Quiet, PromiseKept, chainVars, slotVars
<1>17. CASE UNCHANGED <<tip, preview, slot, guards>>
  BY <1>17, Zenon DEF OfferedIsLive, Servable, Quiet
<1> QED
  BY <1>1, <1>2, <1>3, <1>4, <1>5, <1>6, <1>7, <1>8, <1>9, <1>10, <1>11, <1>12, <1>13, <1>14,
     <1>15, <1>16, <1>17, Zenon
     DEF Next, PrepareStep, SealStep, CallStep, vars, chainVars, slotVars,
     GetTemplate, Submit, ServePreview, CheckNonce, TemplateLands, WaitEnds, HangUp, Capture,
     Proved, SealFails

\* Junk nonces get past the check only for templates that are gone.
LEMMA JunkLateStep ==
    ASSUME Shapes, SlotOwned, Issued, Published, QuietSlot, GuardedOwn, JunkIsLate,
           [Next]_vars
    PROVE  JunkIsLate'
<1> USE ExternalConstants, PlainFields, SlotFields, PrepFields, CallFields DEF ExternalConstants
<1>1. ASSUME NEW m \in Miner, NEW request \in Request, GetTemplate(m, request) PROVE JunkIsLate'
  BY <1>1, Zenon DEF GetTemplate, JunkIsLate, Quiet, chainVars, slotVars
<1>2. ASSUME NEW m \in Miner, NEW good \in BOOLEAN, Submit(m, good) PROVE JunkIsLate'
  BY <1>2, Zenon DEF Submit, JunkIsLate, Quiet, chainVars, slotVars
<1>3. ASSUME NEW m \in Miner, ServePreview(m) PROVE JunkIsLate'
  BY <1>3, Zenon DEF ServePreview, WantsPreview, Servable, Job, JunkIsLate, Quiet, chainVars, slotVars
<1>4. ASSUME NEW m \in Miner, ReservePreparation(m) PROVE JunkIsLate'
  BY <1>4
     DEF ReservePreparation, Purged, Preparing, JunkIsLate, Quiet, Issued, chainVars, slotVars
<1>5. ASSUME NEW m \in Miner, CheckNonce(m) PROVE JunkIsLate'
  BY <1>5
     DEF CheckNonce, IsReady, JunkIsLate, Quiet, GuardedOwn, Published, SlotOwned, chainVars,
         slotVars
<1>6. ASSUME NEW m \in Miner, TemplateLands(m) PROVE JunkIsLate'
  BY <1>6 DEF TemplateLands, IsReady, JunkIsLate, Quiet, chainVars, slotVars
<1>7. ASSUME NEW m \in Miner, WaitEnds(m) PROVE JunkIsLate'
  BY <1>7, Zenon DEF WaitEnds, IsReady, JunkIsLate, Quiet, chainVars, slotVars
<1>8. ASSUME NEW m \in Miner, Consume(m) PROVE JunkIsLate'
  <2>1. slot'.id \in {slot.id, 0} /\ (slot'.state = "Ready" => slot' = slot) /\ prep' = prep
    BY <1>8, Zenon DEF Consume, Purged, IsReady, Proving
  <2>2. tip' = tip /\ (slot.state = "Ready" => prep = NoPrep)
    BY <1>8, Zenon DEF Consume, SlotOwned, chainVars
  <2>3. \A k \in Miner : call'[k].pc \in {"wait", "consume"} => call'[k] = call[k] /\ call[k].id # 0
    BY <1>8, Zenon DEF Consume
  <2> QED
    BY <2>1, <2>2, <2>3 DEF JunkIsLate, Quiet
<1>9. ASSUME NEW m \in Miner, HangUp(m) PROVE JunkIsLate'
  BY <1>9, Zenon DEF HangUp, JunkIsLate, Quiet, chainVars, slotVars
<1>10. CASE Capture
  BY <1>10, Zenon DEF Capture, JunkIsLate, Quiet, chainVars, slotVars
<1>11. CASE PrepareFailsEarly
  BY <1>11, Zenon DEF PrepareFailsEarly, Cancelled, Answer, JunkIsLate, Quiet, chainVars, slotVars
<1>12. CASE PublishPreview
  BY <1>12, Zenon
     DEF PublishPreview, Answer, Job, PayeeOf, JunkIsLate, Quiet, Published, SlotOwned,
         chainVars, slotVars
<1>13. CASE Proved
  BY <1>13, Zenon DEF Proved, JunkIsLate, Quiet, chainVars, slotVars
<1>14. CASE PrepareFails
  BY <1>14, Zenon DEF PrepareFails, JunkIsLate, Quiet, chainVars, slotVars
<1>15. CASE ReleasePreparation
  BY <1>15, Zenon DEF ReleasePreparation, Cancelled, JunkIsLate, Quiet, chainVars, slotVars
<1>16. CASE InstallReady
  BY <1>16
     DEF InstallReady, Installable, Ready, Cancelled, JunkIsLate, Quiet, SlotOwned, chainVars,
         slotVars
<1>17. CASE SealCommits
  BY <1>17 DEF SealCommits, JunkIsLate, Quiet, chainVars, slotVars
<1>18. CASE ReleaseProving
  BY <1>18, Zenon DEF ReleaseProving, Finished, JunkIsLate, Quiet, chainVars, slotVars
<1>19. ASSUME NEW snapshot \in BOOLEAN, TaskCommits(snapshot) PROVE JunkIsLate'
  BY <1>19 DEF TaskCommits, JunkIsLate, Quiet, chainVars, slotVars
<1>20. CASE TaskInvalidates
  BY <1>20, Zenon DEF TaskInvalidates, Invalidated, JunkIsLate, Quiet, chainVars, slotVars
<1>21. CASE HookInvalidates
  BY <1>21, Zenon DEF HookInvalidates, Invalidated, JunkIsLate, Quiet, chainVars, slotVars
<1>22. CASE Tick
  BY <1>22, Zenon DEF Tick, JunkIsLate, Quiet, chainVars, slotVars
<1>23. CASE ExpireReady
  BY <1>23, Zenon DEF ExpireReady, Purged, JunkIsLate, Quiet, chainVars, slotVars
<1>24. CASE UNCHANGED <<tip, call, slot, prep>>
  BY <1>24, Zenon DEF JunkIsLate, Quiet
<1> QED
  BY <1>1, <1>2, <1>3, <1>4, <1>5, <1>6, <1>7, <1>8, <1>9, <1>10, <1>11, <1>12, <1>13, <1>14,
     <1>15, <1>16, <1>17, <1>18, <1>19, <1>20, <1>21, <1>22, <1>23, <1>24, Zenon
     DEF Next, PrepareStep, SealStep, CallStep, vars, chainVars, slotVars,
     LateGuard, SealClearsPreview, SealFails

\* A junk nonce takes no template.
LEMMA JunkStep ==
    ASSUME Shapes, SlotOwned, JunkIsLate, JunkKeepsTemplate, [Next]_vars
    PROVE  JunkKeepsTemplate'
<1> USE ExternalConstants, PlainFields, SealFields DEF ExternalConstants
<1>1. ASSUME NEW m \in Miner, Consume(m) PROVE JunkKeepsTemplate'
  BY <1>1, SlotFields, CallFields, Zenon
     DEF Consume, Purged, IsReady, Proving, JunkKeepsTemplate, Quiet, JunkIsLate, chainVars,
         slotVars
<1>2. CASE SealClearsPreview
  BY <1>2, Zenon DEF SealClearsPreview, JunkKeepsTemplate, Quiet, chainVars, slotVars
<1>3. CASE SealFails
  BY <1>3, Zenon DEF SealFails, JunkKeepsTemplate, Quiet, chainVars, slotVars
<1>4. CASE SealCommits
  BY <1>4, Zenon DEF SealCommits, JunkKeepsTemplate, Quiet, chainVars, slotVars
<1>5. CASE ReleaseProving
  BY <1>5, Zenon DEF ReleaseProving, Finished, JunkKeepsTemplate, Quiet, chainVars, slotVars
<1>6. ASSUME NEW snapshot \in BOOLEAN, TaskCommits(snapshot) PROVE JunkKeepsTemplate'
  BY <1>6 DEF TaskCommits, JunkKeepsTemplate, Quiet, chainVars, slotVars
<1>7. CASE UNCHANGED <<tip, seal>>
  BY <1>7, Zenon DEF JunkKeepsTemplate, Quiet
<1> QED
  BY <1>1, <1>2, <1>3, <1>4, <1>5, <1>6, <1>7, Zenon
     DEF Next, PrepareStep, SealStep, CallStep, vars, chainVars, slotVars,
     GetTemplate, Submit, ServePreview, ReservePreparation, CheckNonce, TemplateLands,
     WaitEnds, HangUp, Capture, PrepareFailsEarly, PublishPreview, Proved, PrepareFails,
     ReleasePreparation, InstallReady, LateGuard, TaskInvalidates, HookInvalidates, Tick,
     ExpireReady

\* A miner's work pays the address it named.
LEMMA PaysStep == ASSUME Shapes, PaysWhoAsked, [Next]_vars PROVE PaysWhoAsked'
<1> USE ExternalConstants, PlainFields, WorkFields, CallFields DEF ExternalConstants
<1>1. ASSUME NEW m \in Miner, ServePreview(m) PROVE PaysWhoAsked'
  BY <1>1, Zenon
     DEF ServePreview, WantsPreview, Servable, Job, PaysWhoAsked, PayeeOf, chainVars, slotVars
<1>2. CASE PrepareFailsEarly
  BY <1>2, Zenon DEF PrepareFailsEarly, Cancelled, Answer, PaysWhoAsked, PayeeOf, chainVars, slotVars
<1>3. CASE PublishPreview
  BY <1>3, Zenon DEF PublishPreview, Answer, Job, PayeeOf, PaysWhoAsked, PayeeOf, chainVars, slotVars
<1>4. CASE UNCHANGED <<work>>
  BY <1>4, Zenon DEF PaysWhoAsked, PayeeOf
<1> QED
  BY <1>1, <1>2, <1>3, <1>4, Zenon
     DEF Next, PrepareStep, SealStep, CallStep, vars, chainVars, slotVars,
     GetTemplate, Submit, ReservePreparation, CheckNonce, TemplateLands, WaitEnds, Consume,
     HangUp, Capture, Proved, PrepareFails, ReleasePreparation, InstallReady, LateGuard,
     SealClearsPreview, SealFails, SealCommits, ReleaseProving, TaskCommits, TaskInvalidates,
     HookInvalidates, Tick, ExpireReady

\* The calls that ask can be counted.
LEMMA AskingIsFinite == ASSUME Shapes PROVE IsFiniteSet(Asking) /\ Cardinality(Asking) \in Nat
<1>1. Asking \subseteq Miner
  BY Zenon DEF Asking
<1> QED
  BY <1>1, ExternalConstants, FS_Subset, FS_CardinalityType, Zenon DEF ExternalConstants

\* A call that stops asking lowers the count.
LEMMA AskingShrinks ==
    ASSUME Shapes, NEW m \in Miner, call[m].pc = "asked", Asking' \subseteq Asking \ {m}
    PROVE  Cardinality(Asking') \in Nat /\ Cardinality(Asking') < Cardinality(Asking)
<1>1. m \in Asking
  BY Zenon DEF Asking
<1>2. /\ IsFiniteSet(Asking \ {m})
      /\ Cardinality(Asking \ {m}) = Cardinality(Asking) - 1
  BY <1>1, AskingIsFinite, FS_RemoveElement, Zenon
<1>3. Cardinality(Asking') \in Nat /\ Cardinality(Asking') <= Cardinality(Asking \ {m})
  BY <1>2, FS_Subset, FS_CardinalityType, Zenon
<1> QED
  BY <1>2, <1>3, AskingIsFinite

\* The count does not grow when nobody new asks.
LEMMA AskingKept ==
    ASSUME Shapes, Asking' \subseteq Asking
    PROVE  Cardinality(Asking') \in Nat /\ Cardinality(Asking') <= Cardinality(Asking)
BY AskingIsFinite, FS_Subset, FS_CardinalityType, Zenon

\* Bounds on ids and guards are kept.
LEMMA CountedStep == ASSUME Shapes, Counted, [Next]_vars PROVE Counted'
<1> USE ExternalConstants, PlainFields, PrepFields, CallFields DEF ExternalConstants
<1>1. ASSUME NEW m \in Miner, NEW request \in Request, GetTemplate(m, request) PROVE Counted'
  <2>1. Asking' = Asking \union {m} /\ m \notin Asking
    BY <1>1 DEF GetTemplate, Asking
  <2>2. Cardinality(Asking') = Cardinality(Asking) + 1
    BY <2>1, AskingIsFinite, FS_AddElement, Zenon
  <2>3. sequence + Cardinality(Asking) < MaxSequence
    BY <1>1, Zenon DEF GetTemplate, Asking
  <2> QED
    BY <1>1, <2>2, <2>3, AskingIsFinite DEF GetTemplate, Counted, slotVars
<1>2. ASSUME NEW m \in Miner, NEW good \in BOOLEAN, Submit(m, good) PROVE Counted'
  <2>1. Asking' \subseteq Asking
    BY <1>2, Zenon DEF Asking, Submit
  <2>2. sequence' = sequence /\ guards' = guards /\ (prep' # NoPrep => prep # NoPrep)
    BY <1>2, Zenon DEF Submit, slotVars
  <2> QED
    BY <2>1, <2>2, AskingKept, AskingIsFinite DEF Counted
<1>3. ASSUME NEW m \in Miner, ServePreview(m) PROVE Counted'
  <2>1. Asking' \subseteq Asking
    BY <1>3, Zenon DEF Asking, ServePreview, WantsPreview, Servable, Job
  <2>2. sequence' = sequence /\ guards' = guards /\ (prep' # NoPrep => prep # NoPrep)
    BY <1>3, Zenon DEF ServePreview, WantsPreview, Servable, Job, slotVars
  <2> QED
    BY <2>1, <2>2, AskingKept, AskingIsFinite DEF Counted
<1>4. ASSUME NEW m \in Miner, ReservePreparation(m) PROVE Counted'
  <2>1. Asking' \subseteq Asking \ {m} /\ call[m].pc = "asked"
    BY <1>4 DEF ReservePreparation, Asking
  <2>2. Cardinality(Asking') \in Nat /\ Cardinality(Asking') < Cardinality(Asking)
    BY <2>1, AskingShrinks, Zenon
  <2>3. guards' = guards /\ (sequence' = sequence + 1 \/ (sequence' = sequence /\ prep' = prep))
    BY <1>4, Zenon DEF ReservePreparation, slotVars
  <2> QED
    BY <2>2, <2>3, AskingIsFinite DEF Counted
<1>5. ASSUME NEW m \in Miner, CheckNonce(m) PROVE Counted'
  <2>1. Asking' \subseteq Asking
    BY <1>5 DEF Asking, CheckNonce, IsReady
  <2>2. sequence' = sequence /\ guards' = guards /\ (prep' # NoPrep => prep # NoPrep)
    BY <1>5, Zenon DEF CheckNonce, IsReady, slotVars
  <2> QED
    BY <2>1, <2>2, AskingKept, AskingIsFinite DEF Counted
<1>6. ASSUME NEW m \in Miner, TemplateLands(m) PROVE Counted'
  <2>1. Asking' \subseteq Asking
    BY <1>6 DEF Asking, TemplateLands, IsReady
  <2>2. sequence' = sequence /\ guards' = guards /\ (prep' # NoPrep => prep # NoPrep)
    BY <1>6, Zenon DEF TemplateLands, IsReady, slotVars
  <2> QED
    BY <2>1, <2>2, AskingKept, AskingIsFinite DEF Counted
<1>7. ASSUME NEW m \in Miner, WaitEnds(m) PROVE Counted'
  <2>1. Asking' \subseteq Asking
    BY <1>7, Zenon DEF Asking, WaitEnds, IsReady
  <2>2. sequence' = sequence /\ guards' = guards /\ (prep' # NoPrep => prep # NoPrep)
    BY <1>7, Zenon DEF WaitEnds, IsReady, slotVars
  <2> QED
    BY <2>1, <2>2, AskingKept, AskingIsFinite DEF Counted
<1>8. ASSUME NEW m \in Miner, Consume(m) PROVE Counted'
  <2>1. Asking' \subseteq Asking
    BY <1>8, Zenon DEF Asking, Consume, Purged, IsReady, Proving
  <2>2. sequence' = sequence /\ guards' = guards /\ (prep' # NoPrep => prep # NoPrep)
    BY <1>8, Zenon DEF Consume, Purged, IsReady, Proving, slotVars
  <2> QED
    BY <2>1, <2>2, AskingKept, AskingIsFinite DEF Counted
<1>9. ASSUME NEW m \in Miner, HangUp(m) PROVE Counted'
  <2>1. Asking' \subseteq Asking
    BY <1>9, Zenon DEF Asking, HangUp
  <2>2. sequence' = sequence /\ guards' = guards /\ (prep' # NoPrep => prep # NoPrep)
    BY <1>9, Zenon DEF HangUp, slotVars
  <2> QED
    BY <2>1, <2>2, AskingKept, AskingIsFinite DEF Counted
<1>10. CASE Capture
  <2>1. Asking' = Asking
    BY <1>10, Zenon DEF Capture, Asking
  <2> QED
    BY <1>10, <2>1, AskingIsFinite, Zenon DEF Capture, Counted, slotVars
<1>11. CASE PrepareFailsEarly
  <2>1. Asking' \subseteq Asking
    BY <1>11, Zenon DEF Asking, PrepareFailsEarly, Cancelled, Answer
  <2>2. sequence' = sequence /\ guards' = guards /\ (prep' # NoPrep => prep # NoPrep)
    BY <1>11, Zenon DEF PrepareFailsEarly, Cancelled, Answer, slotVars
  <2> QED
    BY <2>1, <2>2, AskingKept, AskingIsFinite DEF Counted
<1>12. CASE PublishPreview
  <2>1. Asking' \subseteq Asking
    BY <1>12, Zenon DEF Asking, PublishPreview, Answer, Job, PayeeOf
  <2>2. sequence' = sequence /\ guards' = guards /\ (prep' # NoPrep => prep # NoPrep)
    BY <1>12, Zenon DEF PublishPreview, Answer, Job, PayeeOf, slotVars
  <2> QED
    BY <2>1, <2>2, AskingKept, AskingIsFinite DEF Counted
<1>13. CASE Proved
  <2>1. Asking' = Asking
    BY <1>13, Zenon DEF Proved, Asking
  <2> QED
    BY <1>13, <2>1, AskingIsFinite, Zenon DEF Proved, Counted, slotVars
<1>14. CASE PrepareFails
  <2>1. Asking' = Asking
    BY <1>14, Zenon DEF PrepareFails, Asking
  <2> QED
    BY <1>14, <2>1, AskingIsFinite, Zenon DEF PrepareFails, Counted, slotVars
<1>15. CASE ReleasePreparation
  <2>1. Asking' = Asking
    BY <1>15, Zenon DEF ReleasePreparation, Asking
  <2> QED
    BY <1>15, <2>1, AskingIsFinite, Zenon DEF ReleasePreparation, Counted, slotVars
<1>16. CASE InstallReady
  <2>1. Asking' = Asking
    BY <1>16, Zenon DEF InstallReady, Asking
  <2> QED
    BY <1>16, <2>1, AskingIsFinite DEF InstallReady, Counted, slotVars
<1>17. CASE LateGuard
  <2>1. Asking' = Asking
    BY <1>17, Zenon DEF LateGuard, Asking
  <2> QED
    BY <1>17, <2>1, AskingIsFinite DEF LateGuard, Counted, slotVars
<1>18. CASE ReleaseProving
  <2>1. Asking' \subseteq Asking
    BY <1>18, Zenon DEF Asking, ReleaseProving, Finished
  <2>2. sequence' = sequence /\ guards' = guards /\ (prep' # NoPrep => prep # NoPrep)
    BY <1>18, Zenon DEF ReleaseProving, Finished, slotVars
  <2> QED
    BY <2>1, <2>2, AskingKept, AskingIsFinite DEF Counted
<1>19. CASE UNCHANGED <<sequence, call, guards, prep>>
  BY <1>19, Zenon DEF Counted, Asking
<1> QED
  BY <1>1, <1>2, <1>3, <1>4, <1>5, <1>6, <1>7, <1>8, <1>9, <1>10, <1>11, <1>12, <1>13, <1>14,
     <1>15, <1>16, <1>17, <1>18, <1>19, Zenon
     DEF Next, PrepareStep, SealStep, CallStep, vars, chainVars, slotVars,
     SealClearsPreview, SealFails, SealCommits, TaskCommits, TaskInvalidates, HookInvalidates,
     Tick, ExpireReady

\* The invariant holds at the start.
LEMMA InvInit == Init => Inv
<1> SUFFICES ASSUME Init PROVE Inv
  BY Zenon
<1> USE ExternalConstants DEF ExternalConstants
<1>1. Shapes
  <2>1. tip \in Tip /\ applied \in Points /\ sequence \in Nat /\ guards \in Nat /\ mined \in SUBSET Id
    BY DEF Init, Tip, Points, NoTip
  <2>2. slot \in SlotStates /\ prep \in PrepStates /\ seal \in SealStates
    BY Zenon DEF Init, SlotStates, PrepStates, SealStates
  <2>3. preview \in Previews
    BY DEF Init, Previews, Points, NoPreview
  <2>4. call \in [Miner -> CallStates] /\ work \in [Miner -> Jobs]
    BY Zenon DEF Init, CallStates, Jobs
  <2>5. hooked \in BOOLEAN /\ gate \in BOOLEAN
    BY Zenon DEF Init
  <2> QED
    BY <2>1, <2>2, <2>3, <2>4, <2>5, Zenon DEF Shapes
<1>2. Counted
  <2>1. Asking = {}
    BY Zenon DEF Init, Asking, NoCall
  <2>2. Cardinality(Asking) = 0
    BY <2>1, FS_EmptySet, Zenon
  <2> QED
    BY <2>2 DEF Init, Counted
<1> USE <1>1, PlainFields, SlotFields, PreviewFields, PrepFields, SealFields, CallFields,
   WorkFields
   DEF Init
<1>3. Issued /\ GateHeld /\ SlotOwned /\ MinedOnce
  BY DEF Issued, GateHeld, SlotOwned, MinedOnce
<1>4. Published /\ PromiseKept /\ PaysWhoAsked
  BY Zenon DEF Published, PromiseKept, PaysWhoAsked
<1>5. Told /\ ReadAfter
  BY Zenon DEF Told, Unmarked, ReadAfter
<1>6. QuietSlot /\ GuardedOwn /\ OfferedIsLive /\ JunkIsLate /\ JunkKeepsTemplate
  BY Zenon DEF QuietSlot, GuardedOwn, OfferedIsLive, Servable, JunkIsLate, JunkKeepsTemplate, Quiet
<1> QED
  BY <1>1, <1>2, <1>3, <1>4, <1>5, <1>6, Zenon DEF Inv

\* Every step keeps it.
LEMMA InvStep == Inv /\ [Next]_vars => Inv'
BY ShapesStep, IssuedStep, CountedStep, GateStep, OwnedStep, PublishedStep, ToldStep,
   ReadAfterStep, MinedStep, PromiseStep, QuietSlotStep, GuardedStep, OfferedStep,
   JunkLateStep, JunkStep, PaysStep, Zenon DEF Inv

\* So it always holds.
LEMMA InvHolds == Spec => []Inv
BY InvInit, InvStep, PTL DEF Spec

-----------------------------------------------------------------------------
\* The theorems.

\* It gives the types and the bounds of the state.
LEMMA InvIsTyped == ASSUME Inv PROVE TypeOK
<1> USE ExternalConstants, PlainFields, SlotFields, PreviewFields, PrepFields, SealFields,
        CallFields, WorkFields DEF ExternalConstants, Inv
<1>1. tip \in Tip /\ hooked \in BOOLEAN /\ applied \in Tip \union {NoTip} /\ gate \in BOOLEAN
  BY Zenon DEF Shapes, Points
<1>2. sequence \in 0 .. MaxSequence
  BY AskingIsFinite DEF Counted
<1>3. slot.id \in 0 .. sequence /\ preview.id \in 0 .. sequence /\ mined \subseteq 1 .. sequence
  BY DEF Issued
<1>4. guards \in 0 .. sequence
  BY DEF Counted
<1>5. \A m \in Miner : work[m].id \in 0 .. sequence
  BY DEF Issued
<1> QED
  BY <1>1, <1>2, <1>3, <1>4, <1>5, Zenon DEF TypeOK, GateHeld

\* In every reachable state, for any miners, lifetimes and number of tips: the
\* slot is owned by the task that fills it, a ready template is on the tip or
\* about to be dropped, and what the miners were promised holds (the template
\* calls of server.rs and ExternalMiningAttemptSlot).
THEOREM SlotAlwaysSound == Spec => []SlotSound
<1>1. Inv => SlotSound
  <2> SUFFICES ASSUME Inv PROVE SlotSound
    BY Zenon
  <2>1. ReadyOrTold
    BY Zenon DEF Inv, Told, Reported, ReadyOrTold
  <2> QED
    BY <2>1, InvIsTyped, Zenon DEF Inv, SlotSound
<1> QED
  BY <1>1, InvHolds, PTL

\* A template whose block was committed never comes back to the slot, whatever
\* the miners that hold it submit (begin_proving and finish_proving).
THEOREM AlwaysMinedOnce == Spec => []MinedOnce
<1>1. Inv => MinedOnce
  BY Zenon DEF Inv
<1> QED
  BY <1>1, InvHolds, PTL

\* No step drops an attempt whose parent is the tip before its time, unless the
\* completion of a task is handled after a miner's block has replaced its tip
\* (invalidate_except and begin_proving).
THEOREM TipTemplateAlwaysKept == Spec => TipTemplateKept
<1> DEFINE Kept == slot.state = "Ready" /\ slot.parent = tip /\ slot.left > 0
                   => slot'.state \in {"Ready", "Proving"} \/ applied \notin {tip, NoTip}
<1>1. Inv /\ [Next]_vars => [Kept]_vars
  <2> SUFFICES ASSUME Inv, Next, slot.state = "Ready", slot.parent = tip, slot.left > 0,
                      applied \in {tip, NoTip}
               PROVE  slot'.state \in {"Ready", "Proving"}
    BY Zenon DEF vars
  <2> USE ExternalConstants, PlainFields, SlotFields DEF ExternalConstants, Inv
  <2>1. ASSUME NEW m \in Miner, ReservePreparation(m) PROVE slot' = slot
    BY <2>1 DEF ReservePreparation, Purged, slotVars
  <2>2. ASSUME NEW m \in Miner, Consume(m) PROVE slot'.state \in {"Ready", "Proving"}
    <3>1. Purged(slot) = slot
      BY DEF Purged
    <3>2. IsReady(slot, call[m].id) => slot.parent = call[m].tip
      BY <2>2, CallFields, SMTT(20) DEF Consume, IsReady, ReadAfter
    <3> QED
      BY <2>2, <3>1, <3>2, Zenon DEF Consume, Proving
  <2>3. CASE PrepareStep
    <3>1. prep = NoPrep
      BY Zenon DEF SlotOwned
    <3> QED
      BY <2>3, <3>1, PrepFields, Zenon DEF PrepareStep, Capture, PrepareFailsEarly, PublishPreview,
         Proved, PrepareFails, ReleasePreparation, InstallReady, LateGuard, slotVars
  <2>4. CASE SealStep
    <3>1. seal = NoSeal
      BY Zenon DEF SlotOwned
    <3> QED
      BY <2>4, <3>1, SealFields, Zenon DEF SealStep, SealClearsPreview, SealFails, SealCommits,
         ReleaseProving
  <2>5. CASE TaskInvalidates
    BY <2>5, Zenon DEF TaskInvalidates, Invalidated
  <2>6. CASE HookInvalidates
    BY <2>6, Zenon DEF HookInvalidates, Invalidated
  <2>7. CASE Tick
    BY <2>7, Zenon DEF Tick
  <2>8. CASE ExpireReady
    BY <2>8 DEF ExpireReady, Purged
  <2>9. ASSUME NEW m \in Miner, NEW request, NEW good,
               \/ GetTemplate(m, request) \/ Submit(m, good) \/ ServePreview(m)
               \/ CheckNonce(m) \/ TemplateLands(m) \/ WaitEnds(m) \/ HangUp(m)
        PROVE  slot' = slot
    BY <2>9, Zenon DEF GetTemplate, Submit, ServePreview, CheckNonce, TemplateLands, WaitEnds,
       HangUp, slotVars
  <2>10. ASSUME NEW snapshot, TaskCommits(snapshot) PROVE slot' = slot
    BY <2>10, Zenon DEF TaskCommits, slotVars
  <2> HIDE DEF Inv
  <2> QED
    BY <2>1, <2>2, <2>3, <2>4, <2>5, <2>6, <2>7, <2>8, <2>9, <2>10, Zenon DEF Next, CallStep
<1>2. Spec => [][Kept]_vars
  BY <1>1, InvHolds, PTL DEF Spec
<1> QED
  BY <1>2, Zenon DEF TipTemplateKept
=============================================================================
