------------------------------ MODULE CpuBudget ------------------------------
(***************************************************************************)
(* The process CPU budget (jetsam_miner/src/cpu_budget.rs): one pool of    *)
(* workers that the proof of work, the HistoryStep proofs, the wallet's    *)
(* proofs and the verification of inbound blocks share.  Proof of work,    *)
(* HistoryStep and the wallet's phases exclude each other through a mutex, *)
(* a condition variable and a counter of wallet requests that is raised    *)
(* outside the mutex; inbound verification runs beside all of them.        *)
(*                                                                         *)
(* A step ends where another thread can notice: an access to the counter,  *)
(* taking or releasing the mutex, the wait, the notification.  The counter *)
(* is one atomic variable, so its accesses are totally ordered.  A poisoned *)
(* mutex is taken like any other, and a phase that panics drops its guard  *)
(* like one that returns.                                                  *)
(***************************************************************************)
EXTENDS Integers, FiniteSets

CONSTANTS
    Thread,      \* the threads outside the pool that call into it
    Duty,        \* the phases each of them runs
    Quota,       \* threads that make at most MaxCalls calls
    MaxCalls,    \* bound of the model
    Starter,     \* the callers of configure_process_cpu_budget
    Request,     \* the mode and the worker count each of them asks for
    Available,   \* host_available_threads
    Unset        \* no worker count requested

Wallet == {"WalletProof", "WalletVerify"}
Production == {"Pow", "HistoryStep"}
Phase == Wallet \cup Production \cup {"InboundVerify"}
Mode == {"ProofOnly", "InternalMiner"}
None == "none"
Unplanned == [shared |-> 0, pow |-> 0]

ASSUME BudgetConstants ==
    /\ IsFiniteSet(Thread) /\ None \notin Thread
    /\ Duty \in [Thread -> SUBSET Phase]
    /\ Quota \subseteq Thread /\ MaxCalls \in Nat
    /\ Available \in Nat /\ Unset \notin Nat
    /\ Request \in [Starter -> [mode : Mode, threads : Nat \cup {Unset}]]

VARIABLES
    plan,        \* PROCESS_CPU_BUDGET: the plan of the one pool, or None
    startup,     \* how far each configure call is
    pc,          \* where each thread is
    phase,       \* the phase it asked for
    nested,      \* its call from inside a phase, one per phase in the model
    mutex,       \* phase_admission's holder
    activeExclusive, \* active_exclusive
    requests,    \* wallet_priority_requests
    overtaken,   \* production phases started since a wallet's request
    calls        \* calls made by the threads with a quota

admission == <<mutex, activeExclusive, requests>>
threads == <<pc, phase, nested, overtaken, calls>>
budgetVars == <<plan, startup, pc, phase, nested, mutex, activeExclusive, requests,
          overtaken, calls>>

-----------------------------------------------------------------------------
\* The worker plan.

MiningProtocolThreadReserve(n) ==
    IF n <= 1 THEN 0 ELSE IF n <= 7 THEN 1 ELSE 2

InternalMinerThreadCeiling(n) ==
    LET usable == n - MiningProtocolThreadReserve(n)
    IN  IF usable <= 0 THEN 1 ELSE usable

Ceiling(n, mode) ==
    IF mode = "ProofOnly" THEN n ELSE InternalMinerThreadCeiling(n)

\* No CPU, or a count outside the host's range.
Impossible(n, r) == n = 0 \/ (r.threads # Unset /\ r.threads \notin 1 .. n)

\* Wrong: an explicit request is not capped.
RequestUncapped(n, r) ==
    IF Impossible(n, r) THEN 0
    ELSE IF r.threads = Unset THEN Ceiling(n, r.mode) ELSE r.threads

\* The number of workers; 0 stands for the two errors.
SelectProcessWorkerThreads(n, r) ==
    IF Impossible(n, r) THEN 0
    ELSE IF r.threads = Unset \/ r.threads > Ceiling(n, r.mode) THEN Ceiling(n, r.mode)
    ELSE r.threads

\* Whether plan_process_cpu_budget_with_threads accepts the count.
Plannable(n, workers) == n # 0 /\ workers \in 1 .. n

PlanOf(workers, mode) ==
    [shared |-> workers, pow |-> IF mode = "ProofOnly" THEN 0 ELSE workers]

RequestedPlan(s) ==
    PlanOf(SelectProcessWorkerThreads(Available, Request[s]), Request[s].mode)

Acceptable(s) ==
    LET workers == SelectProcessWorkerThreads(Available, Request[s])
    IN  workers # 0 /\ Plannable(Available, workers)

\* configure_process_cpu_budget_with_threads up to the construction of a
\* candidate pool: the errors, and the plan that is already active.
Configure(s) ==
    /\ startup[s] = "idle"
    /\ startup' = [startup EXCEPT ![s] =
           IF Acceptable(s) /\ plan = Unplanned THEN "built"
           ELSE IF Acceptable(s) /\ plan = RequestedPlan(s) THEN "configured"
           ELSE "refused"]
    /\ UNCHANGED <<plan, admission, threads>>

\* OnceLock::set, and the comparison with the winner of a race.
PublishPlan(s) ==
    /\ startup[s] = "built"
    /\ plan' = IF plan = Unplanned THEN RequestedPlan(s) ELSE plan
    /\ startup' = [startup EXCEPT ![s] =
           IF plan' = RequestedPlan(s) THEN "configured" ELSE "refused"]
    /\ UNCHANGED <<admission, threads>>

-----------------------------------------------------------------------------
\* Entering a phase.

MayCall(t) == t \in Quota => calls[t] < MaxCalls

\* install_*_cpu: refused without a plan, and proof of work without miners.
Offered(p) == plan # Unplanned /\ (p = "Pow" => plan.pow # 0)

\* install_phase on a thread outside the pool.
Call(t, p) ==
    /\ pc[t] = "idle" /\ p \in Duty[t] /\ MayCall(t) /\ Offered(p)
    /\ phase' = [phase EXCEPT ![t] = p]
    /\ pc' = [pc EXCEPT ![t] =
           IF p \in Wallet THEN "publish"
           ELSE IF p \in Production THEN "enter" ELSE "inbound"]
    /\ calls' = [calls EXCEPT ![t] = IF t \in Quota THEN @ + 1 ELSE @]
    /\ UNCHANGED <<plan, startup, nested, admission, overtaken>>

\* admit_phase: the request is counted before the lock is taken.
Publish(t) ==
    /\ pc[t] = "publish"
    /\ requests' = requests + 1
    /\ overtaken' = [overtaken EXCEPT ![t] = 0]
    /\ pc' = [pc EXCEPT ![t] = "enter"]
    /\ UNCHANGED <<plan, startup, phase, nested, mutex, activeExclusive, calls>>

\* Wrong: looks at the counter and forgets the phase that runs.
CounterOnly(p) == p \in Production /\ requests > 0

\* Wrong: the wallet's request does not hold the others back.
ExclusiveOnly(p) == activeExclusive # None

MustWait(p) == activeExclusive # None \/ (p \in Production /\ requests > 0)

\* The lock, and the condition of the loop.
Check(t) ==
    /\ pc[t] = "enter" /\ mutex = None
    /\ mutex' = t
    /\ pc' = [pc EXCEPT ![t] = IF MustWait(phase[t]) THEN "blocked" ELSE "granted"]
    /\ UNCHANGED <<plan, startup, phase, nested, activeExclusive, requests,
                   overtaken, calls>>

\* Condvar::wait releases the lock and sleeps in one step.
Sleep(t) ==
    /\ pc[t] = "blocked"
    /\ mutex' = None
    /\ pc' = [pc EXCEPT ![t] = "waiting"]
    /\ UNCHANGED <<plan, startup, phase, nested, activeExclusive, requests,
                   overtaken, calls>>

\* A condition variable may wake a sleeper for no reason.
WakeSpuriously(t) ==
    /\ pc[t] = "waiting"
    /\ pc' = [pc EXCEPT ![t] = "enter"]
    /\ UNCHANGED <<plan, startup, phase, nested, admission, overtaken, calls>>

\* The wallet requests that are published and not yet admitted.
Pending(t) == phase[t] \in Wallet /\ pc[t] \in {"enter", "granted", "blocked", "waiting"}

Admit(t) ==
    /\ pc[t] = "granted"
    /\ activeExclusive' = phase[t]
    /\ mutex' = None
    /\ pc' = [pc EXCEPT ![t] = "running"]
    /\ overtaken' = [w \in Thread |->
           IF phase[t] \in Production /\ Pending(w) THEN overtaken[w] + 1
           ELSE overtaken[w]]
    /\ UNCHANGED <<plan, startup, phase, nested, requests, calls>>

-----------------------------------------------------------------------------
\* Inside a phase, and out of it.

\* install_phase on a worker of the pool: the operation runs where it is.
Nest(t, p) ==
    /\ pc[t] \in {"running", "inbound"} /\ nested[t] = None /\ p \in Duty[t]
    /\ nested' = [nested EXCEPT ![t] = "inside"]
    /\ UNCHANGED <<plan, startup, pc, phase, admission, overtaken, calls>>

Unnest(t) ==
    /\ nested[t] = "inside"
    /\ nested' = [nested EXCEPT ![t] = "done"]
    /\ UNCHANGED <<plan, startup, pc, phase, admission, overtaken, calls>>

\* The operation returns or panics.
Finish(t) ==
    /\ pc[t] \in {"running", "inbound"} /\ nested[t] # "inside"
    /\ pc' = [pc EXCEPT ![t] = IF @ = "inbound" THEN "idle" ELSE "leaving"]
    /\ phase' = [phase EXCEPT ![t] = IF pc[t] = "inbound" THEN None ELSE @]
    /\ nested' = [nested EXCEPT ![t] = None]
    /\ UNCHANGED <<plan, startup, admission, overtaken, calls>>

\* Wrong: the search looks at its own cancellation flag only.
SearchIgnoresWallet(t) == FALSE /\ UNCHANGED budgetVars

\* search_pow_parallel returns at its next look at the counter.
Yield(t) ==
    /\ pc[t] = "running" /\ phase[t] = "Pow" /\ nested[t] # "inside" /\ requests > 0
    /\ pc' = [pc EXCEPT ![t] = "leaving"]
    /\ nested' = [nested EXCEPT ![t] = None]
    /\ UNCHANGED <<plan, startup, phase, admission, overtaken, calls>>

\* Wrong: the guard does not take the lock.
ReleaseUnlocked(t) ==
    /\ pc[t] = "leaving"
    /\ activeExclusive' = None
    /\ requests' = IF phase[t] \in Wallet THEN requests - 1 ELSE requests
    /\ pc' = [pc EXCEPT ![t] = "notify"]
    /\ UNCHANGED <<plan, startup, phase, nested, mutex, overtaken, calls>>

\* Drop of the guard, under the lock.
Release(t) ==
    /\ pc[t] = "leaving" /\ mutex = None
    /\ activeExclusive' = None
    /\ requests' = IF phase[t] \in Wallet THEN requests - 1 ELSE requests
    /\ pc' = [pc EXCEPT ![t] = "notify"]
    /\ UNCHANGED <<plan, startup, phase, nested, mutex, overtaken, calls>>

\* notify_all, after the lock is released.
Notify(t) ==
    /\ pc[t] = "notify"
    /\ pc' = [u \in Thread |->
           IF u = t THEN "idle" ELSE IF pc[u] = "waiting" THEN "enter" ELSE pc[u]]
    /\ phase' = [phase EXCEPT ![t] = None]
    /\ UNCHANGED <<plan, startup, nested, admission, overtaken, calls>>

-----------------------------------------------------------------------------
BudgetInit ==
    /\ plan = Unplanned
    /\ startup = [s \in Starter |-> "idle"]
    /\ pc = [t \in Thread |-> "idle"]
    /\ phase = [t \in Thread |-> None]
    /\ nested = [t \in Thread |-> None]
    /\ mutex = None /\ activeExclusive = None /\ requests = 0
    /\ overtaken = [t \in Thread |-> 0]
    /\ calls = [t \in Thread |-> 0]

BudgetNext ==
    \/ \E s \in Starter : Configure(s) \/ PublishPlan(s)
    \/ \E t \in Thread :
           \/ \E p \in Phase : Call(t, p) \/ Nest(t, p)
           \/ Publish(t) \/ Check(t) \/ Sleep(t) \/ WakeSpuriously(t)
           \/ Admit(t) \/ Unnest(t) \/ Finish(t) \/ Yield(t)
           \/ Release(t) \/ Notify(t)

BudgetSpec == BudgetInit /\ [][BudgetNext]_budgetVars

\* A thread goes on with what it does; a search for a nonce is only known to
\* end when the wallet asks for the pool, every other phase ends.  The mutex
\* is held for a few instructions, and a thread that keeps asking gets it.
BudgetFairness ==
    /\ \A s \in Starter : WF_budgetVars(Configure(s)) /\ WF_budgetVars(PublishPlan(s))
    /\ \A t \in Thread :
           /\ WF_budgetVars(Publish(t)) /\ WF_budgetVars(Sleep(t)) /\ WF_budgetVars(Admit(t))
           /\ WF_budgetVars(Unnest(t)) /\ WF_budgetVars(Yield(t)) /\ WF_budgetVars(Notify(t))
           /\ WF_budgetVars(phase[t] # "Pow" /\ Finish(t))
           /\ SF_budgetVars(Check(t)) /\ SF_budgetVars(Release(t))

BudgetFairSpec == BudgetSpec /\ BudgetFairness

-----------------------------------------------------------------------------
BudgetTypeOK ==
    /\ plan \in [shared : Nat, pow : Nat]
    /\ startup \in [Starter -> {"idle", "built", "configured", "refused"}]
    /\ pc \in [Thread -> {"idle", "publish", "enter", "blocked", "granted", "waiting",
                          "running", "inbound", "leaving", "notify"}]
    /\ phase \in [Thread -> Phase \cup {None}]
    /\ nested \in [Thread -> {None, "inside", "done"}]
    /\ mutex \in Thread \cup {None}
    /\ activeExclusive \in (Phase \ {"InboundVerify"}) \cup {None}
    /\ requests \in Nat
    /\ overtaken \in [Thread -> Nat]
    /\ calls \in [Thread -> Nat]

Holder == {t \in Thread : pc[t] \in {"running", "leaving"}}

\* Proof of work, HistoryStep and the wallet's phases exclude each other, and
\* active_exclusive names the one that runs: what the two debug_asserts of the
\* guard's drop say (cpu_budget.rs:227-228).
PhasesExclude ==
    /\ \A t, u \in Holder : t = u
    /\ \A t \in Holder : activeExclusive = phase[t]
    /\ activeExclusive # None => Holder # {}

Counted == {t \in Thread :
    /\ phase[t] \in Wallet
    /\ pc[t] \in {"enter", "blocked", "granted", "waiting", "running", "leaving"}}

\* wallet_priority_requests is the number of wallet calls that are waiting for
\* the pool or own it; a lost decrement would stop mining for good.
RequestsCounted == requests = Cardinality(Counted)

\* However callers interleave, at most one phase owns the pool and the counter
\* that holds block production back is exact.
PhasesSound ==
    /\ BudgetTypeOK
    /\ PhasesExclude
    /\ RequestsCounted

\* From the moment its request is counted until it is admitted, a wallet call
\* sees at most one block-production phase start: the one that had looked at
\* the counter before (the comment at cpu_budget.rs:299 says none does).
OvertakenAtMostOnce == \A t \in Thread : Pending(t) => overtaken[t] <= 1

\* Whoever was told that the pool is configured got the plan it asked for, and
\* the pool never changes (configure_process_cpu_budget).
ConfiguredAsAsked ==
    \A s \in Starter : startup[s] = "configured" => plan = RequestedPlan(s)

\* Every host has a worker, an internal miner leaves the reserve of the
\* protocol free whatever count was asked for, a selected count can always be
\* planned, and a larger host never gets fewer workers.
PlanLeavesReserve ==
    /\ plan # Unplanned => Plannable(Available, plan.shared)
    /\ plan = Unplanned => \A n \in 0 .. 2 * Available, mode \in Mode, k \in (0 .. 2 * Available) \cup {Unset} :
           LET r == [mode |-> mode, threads |-> k]
               workers == SelectProcessWorkerThreads(n, r)
           IN  /\ workers = 0 <=> Impossible(n, r)
               /\ workers # 0 =>
                      /\ Plannable(n, workers)
                      /\ mode = "InternalMiner" /\ n > 1 =>
                             n - workers >= MiningProtocolThreadReserve(n)
                      /\ workers <= SelectProcessWorkerThreads(n + 1, r)

\* The pool has the plan of whoever was told it is configured, and every plan
\* leaves the protocol's reserve free.
PlanSound == ConfiguredAsAsked /\ PlanLeavesReserve

\* A wallet call gets the pool, however often the miner comes back for it.
WalletServed == \A t \in Thread : Pending(t) ~> pc[t] = "running"

SearchRuns == \E t \in Thread : phase[t] = "Pow" /\ pc[t] = "running"

\* Every call returns when the wallet makes finitely many of them and the
\* search for a nonce does not hold the pool for ever: no wake-up is lost.
CallsReturn ==
    []<>~SearchRuns => \A t \in Thread : pc[t] # "idle" ~> pc[t] = "idle"
=============================================================================
