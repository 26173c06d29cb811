----------------------------- MODULE BlockMiner -----------------------------
(***************************************************************************)
(* The internal miner (jetsam_miner/src/miner.rs): one task that captures  *)
(* the tip and the payout address, has a template proved on a worker, waits*)
(* until peers confirm the tip, searches a nonce on another worker, and    *)
(* commits the block.  The node tells it of new tips and payouts through a *)
(* broadcast channel, of the state of the network through two watch        *)
(* channels, of transactions through the events of the memory pool, and of *)
(* the end through two flags.                                              *)
(*                                                                         *)
(* A template change that is received leads to the top of the loop, which  *)
(* drains the channel: one bit says that changes wait.  A watch channel    *)
(* keeps its value and whether the receiver has seen it.  Tips are numbered*)
(* and never come back.                                                    *)
(***************************************************************************)
EXTENDS Integers

CONSTANTS
    MaxTip,     \* the last tip
    MaxEvents   \* switches of the address, changes of readiness, transactions,
                \* preemptions and failures of the miner's work, together

ASSUME Bounds == MaxTip \in Nat /\ MaxEvents \in Nat

VARIABLES
    tip, payout,            \* the canonical tip and the active address
    owed,                   \* commits the node loop has not announced
    changes,                \* template_changes holds a message
    proofReady, proofEdge,  \* proof_network_ready; its value is unseen
    nonceReady, nonceEdge,  \* nonce_network_ready; its value is unseen
    pool, admits,           \* the pool has transactions; unread TxAdmitted events
    stop,                   \* shutdown: "no", "stopped" is set, "sent"
    cancel,                 \* cancel_pow
    pc, attempt,            \* the miner's task and its attempt
    prep, pow,              \* the preparation and the search on their workers
    lapsed,                 \* readiness was lost behind the gate's back
    used                    \* the events that have happened

chain == <<tip, payout, owed>>
network == <<proofReady, proofEdge, nonceReady, nonceEdge>>
mempool == <<pool, admits>>
signals == <<chain, changes, network, mempool, stop>>
workers == <<prep, pow>>
vars == <<signals, cancel, pc, attempt, workers, lapsed, used>>

stopped == stop # "no"
Stale == attempt.parent # tip \/ attempt.payout # payout
Searching == pc = "pow" /\ pow = "running" /\ ~cancel

Go(to) == pc' = to
Event == used < MaxEvents /\ used' = used + 1
-----------------------------------------------------------------------------
(* The node around the miner.                                              *)

\* A commit or a switch may take transactions out of the pool.
PoolShrinks == pool' \in {pool, FALSE} /\ UNCHANGED admits

\* A block of the RPC finalizer ("local"), a suffix or a snapshot; the node
\* loop runs one suffix at a time.
CommitOther(kind) ==
    /\ tip < MaxTip
    /\ kind = "suffix" => kind \notin owed
    /\ tip' = tip + 1
    /\ owed' = owed \union {kind}
    /\ PoolShrinks
    /\ UNCHANGED <<payout, changes, network, stop, cancel, pc, attempt, workers, lapsed, used>>

\* canonical_tip_changes.changed() or the completion of a suffix.
Announce(kind) ==
    /\ kind \in owed
    /\ owed' = owed \ {kind}
    /\ changes' = TRUE
    /\ UNCHANGED <<tip, payout, network, mempool, stop, cancel, pc, attempt, workers, lapsed, used>>

\* wallet_set_active_address, under the operation gate to its end.
SwitchAddress ==
    /\ Event
    /\ payout' = 1 - payout
    /\ changes' = TRUE
    /\ UNCHANGED <<tip, owed, network, mempool, stop, cancel, pc, attempt, workers, lapsed>>

\* MiningPeerQuorum publishes another value.
FlipProof ==
    /\ Event
    /\ proofReady' = ~proofReady /\ proofEdge' = TRUE
    /\ lapsed' = (lapsed \/ (proofReady /\ pc \in {"gateTip", "gateChange", "begin"}))
    /\ UNCHANGED <<chain, changes, nonceReady, nonceEdge, mempool, stop, cancel, pc, attempt, workers>>

FlipNonce ==
    /\ Event
    /\ nonceReady' = ~nonceReady /\ nonceEdge' = TRUE
    /\ lapsed' = (lapsed \/ (nonceReady /\ pc \in {"recheck", "begin"}))
    /\ UNCHANGED <<chain, changes, proofReady, proofEdge, mempool, stop, cancel, pc, attempt, workers>>

\* The pool admits a transaction.
Admit ==
    /\ Event
    /\ pool' = TRUE /\ admits' = admits + 1
    /\ UNCHANGED <<chain, changes, network, stop, cancel, pc, attempt, workers, lapsed>>

\* Shutdown sets the two flags one after the other.
SetStopped ==
    /\ stop = "no"
    /\ stop' = "stopped"
    /\ UNCHANGED <<chain, changes, network, mempool, cancel, pc, attempt, workers, lapsed, used>>

SetCancel ==
    /\ stop = "stopped"
    /\ stop' = "sent" /\ cancel' = TRUE
    /\ UNCHANGED <<chain, changes, network, mempool, pc, attempt, workers, lapsed, used>>

-----------------------------------------------------------------------------
(* The workers.                                                            *)

\* prepare_cancellable, or its failure.
Prepare ==
    /\ prep = "running"
    /\ \/ prep' = "ok" /\ UNCHANGED used
       \/ prep' = "failed" /\ Event
    /\ UNCHANGED <<signals, cancel, pc, attempt, pow, lapsed>>

\* search_pow_parallel finds a nonce, or sees the flag and gives up.
FindNonce ==
    /\ pow = "running" /\ tip < MaxTip
    /\ pow' = "found"
    /\ UNCHANGED <<signals, cancel, pc, attempt, prep, lapsed, used>>

GiveUp ==
    /\ pow = "running" /\ cancel
    /\ pow' = "none"
    /\ UNCHANGED <<signals, cancel, pc, attempt, prep, lapsed, used>>

\* pow_preemption_requested: a payment of the wallet needs the processors.
Preempted ==
    /\ pow = "running" /\ Event
    /\ pow' = "none"
    /\ UNCHANGED <<signals, cancel, pc, attempt, prep, lapsed>>
-----------------------------------------------------------------------------
(* The task, up to the prepared attempt.                                   *)

Quiet == UNCHANGED <<signals, cancel, attempt, workers, lapsed, used>>

\* The head of the loop and of wait_for_proof_network.
Top ==
    /\ pc = "top"
    /\ Go(IF stopped THEN "done" ELSE IF proofReady THEN "drain" ELSE "wait")
    /\ Quiet

\* wait_for_proof_network.
Wait ==
    /\ pc = "wait"
    /\ \/ stopped /\ Go("done") /\ Quiet
       \/ /\ proofEdge /\ proofEdge' = FALSE
          /\ Go(IF proofReady THEN "drain" ELSE "wait")
          /\ UNCHANGED <<chain, changes, proofReady, nonceReady, nonceEdge, mempool, stop,
                         cancel, attempt, workers, lapsed, used>>

\* What came before is in the snapshot that follows.
Drain ==
    /\ pc = "drain" /\ Go("capture")
    /\ changes' = FALSE /\ proofEdge' = FALSE /\ nonceEdge' = FALSE
    /\ UNCHANGED <<chain, proofReady, nonceReady, mempool, stop, cancel, attempt, workers, lapsed, used>>

\* TemplateChainSnapshot::from_context and the payout, under the gate.
Capture ==
    /\ pc = "capture" /\ Go("build")
    /\ attempt' = [parent |-> tip, payout |-> payout, pages |-> FALSE]
    /\ UNCHANGED <<signals, cancel, workers, lapsed, used>>

\* build_from_snapshot_with_limit; the preparation starts on a worker.
Build ==
    /\ pc = "build"
    /\ \/ /\ attempt' = [attempt EXCEPT !.pages = pool]
          /\ prep' = "running" /\ Go("prepare") /\ UNCHANGED used
       \/ Go("top") /\ Event /\ UNCHANGED <<attempt, prep>>
    /\ UNCHANGED <<signals, cancel, pow, lapsed>>

\* The select loop around the preparation.
Prepared ==
    /\ pc = "prepare" /\ prep # "running"
    /\ prep' = "none"
    /\ Go(IF prep = "ok" THEN "prepared" ELSE "top")
    /\ UNCHANGED <<signals, cancel, attempt, pow, lapsed, used>>

PrepareChange ==
    /\ pc = "prepare" /\ changes
    /\ changes' = FALSE /\ Go("abandon")
    /\ UNCHANGED <<chain, network, mempool, stop, cancel, attempt, workers, lapsed, used>>

PrepareProof ==
    /\ pc = "prepare" /\ proofEdge
    /\ proofEdge' = FALSE
    /\ Go(IF proofReady THEN "prepare" ELSE "abandon")
    /\ UNCHANGED <<chain, changes, proofReady, nonceReady, nonceEdge, mempool, stop,
                   cancel, attempt, workers, lapsed, used>>

PrepareStop == pc = "prepare" /\ stopped /\ Go("quit") /\ Quiet

\* prepare_handle.await, and the way out.
JoinPrepare ==
    /\ pc \in {"abandon", "quit"} /\ prep # "running"
    /\ prep' = "none"
    /\ Go(IF pc = "quit" THEN "done" ELSE "top")
    /\ UNCHANGED <<signals, cancel, attempt, pow, lapsed, used>>

\* The two checks after the preparation.
CheckPrepared ==
    /\ pc = "prepared"
    /\ Go(IF stopped THEN "done" ELSE IF proofReady THEN "gate" ELSE "top")
    /\ Quiet

-----------------------------------------------------------------------------
(* gate_prepared_attempt_for_nonce_search.                                 *)

Gate ==
    /\ pc = "gate"
    /\ Go(IF proofReady THEN "gateTip" ELSE "top")
    /\ lapsed' = FALSE
    /\ UNCHANGED <<signals, cancel, attempt, workers, used>>

\* parent_is_still_tip.
GateTip ==
    /\ pc = "gateTip"
    /\ Go(IF attempt.parent = tip THEN "gateChange" ELSE "top")
    /\ Quiet

\* template_changes.try_recv, then the look at nonce_network_ready.
GateChange ==
    /\ pc = "gateChange"
    /\ changes' = FALSE
    /\ Go(IF changes THEN "top" ELSE IF nonceReady THEN "begin" ELSE "await")
    /\ UNCHANGED <<chain, network, mempool, stop, cancel, attempt, workers, lapsed, used>>

AwaitStop == pc = "await" /\ stopped /\ Go("done") /\ Quiet

\* Wrong: any report of the frontier ends the wait.
AwaitAny ==
    /\ pc = "await" /\ nonceEdge
    /\ nonceEdge' = FALSE
    /\ Go("recheck")
    /\ UNCHANGED <<chain, changes, proofReady, proofEdge, nonceReady, mempool, stop,
                   cancel, attempt, workers, lapsed, used>>

AwaitNonce ==
    /\ pc = "await" /\ nonceEdge
    /\ nonceEdge' = FALSE
    /\ Go(IF nonceReady THEN "recheck" ELSE "await")
    /\ UNCHANGED <<chain, changes, proofReady, proofEdge, nonceReady, mempool, stop,
                   cancel, attempt, workers, lapsed, used>>

AwaitProof ==
    /\ pc = "await" /\ proofEdge
    /\ proofEdge' = FALSE
    /\ Go(IF proofReady THEN "await" ELSE "top")
    /\ UNCHANGED <<chain, changes, proofReady, nonceReady, nonceEdge, mempool, stop,
                   cancel, attempt, workers, lapsed, used>>

AwaitChange ==
    /\ pc = "await" /\ changes
    /\ changes' = FALSE /\ Go("top")
    /\ UNCHANGED <<chain, network, mempool, stop, cancel, attempt, workers, lapsed, used>>

Recheck ==
    /\ pc = "recheck"
    /\ Go(IF attempt.parent = tip /\ proofReady THEN "begin" ELSE "top")
    /\ Quiet
-----------------------------------------------------------------------------
(* The nonce search.                                                       *)

\* Wrong: a template change is taken for seen as well.
BeginDrained ==
    /\ pc = "begin" /\ Go("reset")
    /\ proofEdge' = FALSE /\ nonceEdge' = FALSE /\ changes' = FALSE
    /\ UNCHANGED <<chain, proofReady, nonceReady, mempool, stop, cancel,
                   attempt, workers, lapsed, used>>

\* borrow_and_update marks both watches seen, whatever they show.
Begin ==
    /\ pc = "begin" /\ Go("reset")
    /\ proofEdge' = FALSE /\ nonceEdge' = FALSE
    /\ UNCHANGED <<chain, changes, proofReady, nonceReady, mempool, stop, cancel,
                   attempt, workers, lapsed, used>>

\* Wrong: the flag of the last search stays.
ResetNothing ==
    /\ pc = "reset" /\ Go("check")
    /\ UNCHANGED <<signals, cancel, attempt, workers, lapsed, used>>

Reset ==
    /\ pc = "reset" /\ Go("check")
    /\ cancel' = FALSE
    /\ UNCHANGED <<signals, attempt, workers, lapsed, used>>

\* Wrong: the search starts without another look at stopped.
StartUnchecked ==
    /\ pc = "check"
    /\ pow' = "running" /\ Go("pow")
    /\ UNCHANGED <<signals, cancel, attempt, prep, lapsed, used>>

\* "Close the race where shutdown set cancel between the check above and the
\* reset."
Start ==
    /\ pc = "check"
    /\ \/ stopped /\ cancel' = TRUE /\ Go("done") /\ UNCHANGED pow
       \/ ~stopped /\ pow' = "running" /\ Go("pow") /\ UNCHANGED cancel
    /\ UNCHANGED <<signals, attempt, prep, lapsed, used>>

\* The search ended by itself: a nonce, or nothing.
PowEnds ==
    /\ pc = "pow" /\ pow # "running"
    /\ pow' = "none"
    /\ Go(IF pow = "none" THEN "top" ELSE IF stopped THEN "done" ELSE "seal")
    /\ UNCHANGED <<signals, cancel, attempt, prep, lapsed, used>>

\* The other branches cancel the search and wait for it, then go on to `to`.
Interrupt(to) ==
    /\ pc = "pow"
    /\ cancel' = TRUE /\ Go(to)
    /\ UNCHANGED <<chain, proofReady, nonceReady, pool, stop, attempt, workers, lapsed, used>>

Heartbeat ==
    /\ ~attempt.pages /\ Interrupt("joinTop")
    /\ UNCHANGED <<changes, proofEdge, nonceEdge, admits>>

\* next_mining_mempool_refresh: a transaction was admitted.
PowRefresh ==
    /\ ~attempt.pages /\ admits > 0 /\ Interrupt("joinTop")
    /\ admits' = admits - 1
    /\ UNCHANGED <<changes, proofEdge, nonceEdge>>

PowChange ==
    /\ changes /\ Interrupt("joinTop")
    /\ changes' = FALSE
    /\ UNCHANGED <<proofEdge, nonceEdge, admits>>

\* The attempt is kept: continue 'nonce_search.
PowNonce ==
    /\ nonceEdge /\ Interrupt("joinGate")
    /\ nonceEdge' = FALSE
    /\ UNCHANGED <<changes, proofEdge, admits>>

PowProof ==
    /\ proofEdge /\ Interrupt("joinTop")
    /\ proofEdge' = FALSE
    /\ UNCHANGED <<changes, nonceEdge, admits>>

\* pow_handle.await; a nonce found meanwhile is dropped.
JoinPow ==
    /\ pc \in {"joinTop", "joinGate"} /\ pow # "running"
    /\ pow' = "none"
    /\ Go(IF pc = "joinGate" THEN "gate" ELSE "top")
    /\ UNCHANGED <<signals, cancel, attempt, prep, lapsed, used>>
-----------------------------------------------------------------------------
(* A found nonce.                                                          *)

Seal ==
    /\ pc = "seal"
    /\ \/ Go(IF stopped THEN "done" ELSE "apply") /\ UNCHANGED used
       \/ Go("top") /\ Event
    /\ UNCHANGED <<signals, cancel, attempt, workers, lapsed>>

\* apply_found_block, under the gate: another payout or another parent refuses
\* the block.  Its hook marks the new tip for the node loop.
ApplyFoundBlock ==
    /\ pc = "apply" /\ Go("top")
    /\ IF Stale
       THEN UNCHANGED <<chain, mempool>>
       ELSE /\ tip' = tip + 1
            /\ owed' = owed \union {"local"}
            /\ PoolShrinks /\ UNCHANGED payout
    /\ UNCHANGED <<changes, network, stop, cancel, attempt, workers, lapsed, used>>
-----------------------------------------------------------------------------
Init ==
    /\ tip = 0 /\ payout = 0 /\ owed = {} /\ changes = FALSE
    /\ proofReady \in BOOLEAN /\ proofEdge = proofReady
    /\ nonceReady \in BOOLEAN /\ nonceEdge = nonceReady
    /\ pool = FALSE /\ admits = 0 /\ stop = "no" /\ cancel = FALSE
    /\ pc = "top" /\ attempt = [parent |-> 0, payout |-> 0, pages |-> FALSE]
    /\ prep = "none" /\ pow = "none" /\ lapsed = FALSE
    /\ used = 0

NodeStep ==
    \/ \E kind \in {"local", "suffix"} : CommitOther(kind) \/ Announce(kind)
    \/ SwitchAddress \/ FlipProof \/ FlipNonce \/ Admit \/ SetStopped \/ SetCancel

\* What the task does when it is polled; the heartbeat is a timer.
Run ==
    \/ Top \/ Wait \/ Drain \/ Capture \/ Build
    \/ Prepared \/ PrepareChange \/ PrepareProof \/ PrepareStop \/ JoinPrepare \/ CheckPrepared
    \/ Gate \/ GateTip \/ GateChange
    \/ AwaitStop \/ AwaitNonce \/ AwaitProof \/ AwaitChange \/ Recheck
    \/ Begin \/ Reset \/ Start
    \/ PowEnds \/ PowRefresh \/ PowChange \/ PowNonce \/ PowProof \/ JoinPow
    \/ Seal \/ ApplyFoundBlock

\* Without a step left the miner waits for the node, or is done.
Next == NodeStep \/ Prepare \/ FindNonce \/ GiveUp \/ Preempted \/ Run \/ Heartbeat

Spec == Init /\ [][Next]_vars

\* The task is polled when it can go on, the workers end, a cancelled search
\* gives up, the loop announces what was committed, shutdown sets both flags.
\* Nothing says that a nonce is ever found.
Fairness ==
    /\ WF_vars(Run) /\ WF_vars(Prepare) /\ WF_vars(GiveUp) /\ WF_vars(SetCancel)
    /\ \A kind \in {"local", "suffix"} : WF_vars(Announce(kind))

FairSpec == Spec /\ Fairness
-----------------------------------------------------------------------------
Places ==
    {"top", "wait", "drain", "capture", "build", "prepare", "abandon", "quit", "prepared",
     "gate", "gateTip", "gateChange", "await", "recheck", "begin", "reset", "check",
     "pow", "joinTop", "joinGate", "seal", "apply", "done"}

\* Types of the miner and of what it is told.
TypeOK ==
    /\ tip \in Nat /\ payout \in {0, 1} /\ owed \subseteq {"local", "suffix"}
    /\ {changes, proofReady, proofEdge, nonceReady, nonceEdge, pool, cancel, lapsed} \subseteq BOOLEAN
    /\ admits \in Nat /\ used \in Nat /\ stop \in {"no", "stopped", "sent"}
    /\ pc \in Places
    /\ attempt \in [parent : Nat, payout : {0, 1}, pages : BOOLEAN]
    /\ prep \in {"none", "running", "ok", "failed"} /\ pow \in {"none", "running", "found"}

\* "No blocking PoW task may escape this select branch": whatever interrupts
\* the task, it never goes on while a worker of its last attempt runs.
WorkersJoined ==
    /\ pow # "none" => pc \in {"pow", "joinTop", "joinGate"}
    /\ prep # "none" => pc \in {"prepare", "abandon", "quit"}

\* A nonce is searched while both watches allow it, or the task has yet to see
\* that they changed.  Begin marks the watches seen without looking: readiness
\* lost between the gate's look and that mark is not noticed (lapsed).
SearchAuthorized ==
    Searching /\ ~lapsed => (proofReady \/ proofEdge) /\ (nonceReady \/ nonceEdge)

\* The search is one at a time and authorized: no worker outlives the branch
\* that started it, and none runs without authority or an edge still to be seen.
SearchSound ==
    /\ TypeOK
    /\ WorkersJoined
    /\ SearchAuthorized

\* A search on a parent that is not the tip, or for an address that is not the
\* active one, does not go on for ever, also when no nonce is ever found.
StaleSearchEnds == []<>~(Searching /\ Stale)

\* Shutdown ends the task wherever it meets it, also when no nonce is found.
StopEnds == stopped ~> pc = "done"

\* Once both watches stay ready the miner keeps coming back to a search for the
\* block after the tip, paid to the active address.
MinerSettles ==
    <>[](proofReady /\ nonceReady /\ ~stopped) => []<>(Searching /\ ~Stale)
=============================================================================
