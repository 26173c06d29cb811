--------------------------- MODULE AdmissionProofs ---------------------------
(***************************************************************************)
(* The two gates that admit work: who may run on the CPU pool (CpuBudget), *)
(* and what may enter the pool of transactions (Mempool).                  *)
(*                                                                         *)
(* For any set of threads and any duties, the exclusive phases of the CPU  *)
(* budget exclude each other, its counter of wallet requests is exact, a   *)
(* wallet request is overtaken by at most one block-production phase, and  *)
(* every plan of the pools fits the CPUs.                                  *)
(* For every block tree, every set of transactions and of submissions, and *)
(* every limit, the pool stays sound, templates on the tip apply, and no   *)
(* entry leaves it unreported.                                             *)
(***************************************************************************)
EXTENDS CpuBudget, Mempool, FiniteSetTheorems, TLAPS

-----------------------------------------------------------------------------
(* The CPU pool. *)

Locked == {"granted", "blocked"}
Queued == {"enter", "blocked", "granted", "waiting"}
Inside == {"running", "leaving"}

\* The mutex is held exactly by a thread between the check and its outcome.
LockInv == \A t \in Thread : pc[t] \in Locked <=> mutex = t

\* What a thread at each place asked for.
PhaseInv == \A t \in Thread :
    /\ pc[t] = "publish" => phase[t] \in Wallet
    /\ pc[t] \in Queued \cup Inside => phase[t] \in Wallet \cup Production

\* Who is inside, and that a thread about to be admitted finds nobody.
ActiveInv ==
    /\ \A t \in Thread : pc[t] \in Inside => activeExclusive = phase[t]
    /\ \A t, u \in Thread : pc[t] \in Inside /\ pc[u] \in Inside => t = u
    /\ activeExclusive # None => \E t \in Thread : pc[t] \in Inside
    /\ \A t \in Thread : pc[t] = "granted" => activeExclusive = None

\* A request that was overtaken has no production phase about to start.
OvertakenInv == \A t \in Thread : Pending(t) =>
    /\ overtaken[t] <= 1
    /\ overtaken[t] = 1 =>
           \A u \in Thread : pc[u] = "granted" => phase[u] \notin Production

IInv ==
    /\ BudgetTypeOK /\ LockInv /\ PhaseInv /\ ActiveInv
    /\ RequestsCounted /\ OvertakenInv

-----------------------------------------------------------------------------
\* A published request that is waiting is counted.
LEMMA PendingCounted ==
    ASSUME BudgetTypeOK, RequestsCounted, NEW t \in Thread, Pending(t)
    PROVE  requests > 0
<1>1. IsFiniteSet(Counted) /\ Counted # {} /\ t \in Counted
  BY BudgetConstants, FS_Subset, Zenon DEF BudgetConstants, Counted, Pending
<1>2. Cardinality(Counted) \in Nat /\ Cardinality(Counted) # 0
  BY <1>1, FS_CardinalityType, FS_EmptySet, Zenon
<1> QED BY <1>2 DEF RequestsCounted

-----------------------------------------------------------------------------
\* Type correctness.
LEMMA TypeStep == ASSUME BudgetTypeOK, PhaseInv, RequestsCounted, [BudgetNext]_budgetVars PROVE BudgetTypeOK'
<1> USE DEF BudgetTypeOK
<1>1. CASE UNCHANGED budgetVars BY <1>1 DEF budgetVars
<1>2. ASSUME NEW s \in Starter, Configure(s) PROVE BudgetTypeOK'
  BY <1>2, Zenon DEF Configure, admission, threads
<1>3. ASSUME NEW s \in Starter, PublishPlan(s) PROVE BudgetTypeOK'
  <2>1. RequestedPlan(s) \in [shared : Nat, pow : Nat]
    <3>1. SelectProcessWorkerThreads(Available, Request[s]) \in Nat
      BY BudgetConstants DEF BudgetConstants, SelectProcessWorkerThreads, Impossible, Ceiling,
         InternalMinerThreadCeiling, MiningProtocolThreadReserve, Mode
    <3> QED BY <3>1 DEF RequestedPlan, PlanOf
  <2> QED BY <1>3, <2>1 DEF PublishPlan, admission, threads
<1>4. ASSUME NEW t \in Thread, NEW p \in Phase, Call(t, p) PROVE BudgetTypeOK'
  BY <1>4 DEF Call, admission
<1>5. ASSUME NEW t \in Thread, NEW p \in Phase, Nest(t, p) PROVE BudgetTypeOK'
  BY <1>5, Zenon DEF Nest, admission
<1>6. ASSUME NEW t \in Thread, Publish(t) PROVE BudgetTypeOK'
  BY <1>6 DEF Publish
<1>7. ASSUME NEW t \in Thread, Check(t) PROVE BudgetTypeOK'
  BY <1>7, Zenon DEF Check
<1>8. ASSUME NEW t \in Thread, Sleep(t) PROVE BudgetTypeOK'
  BY <1>8, Zenon DEF Sleep
<1>9. ASSUME NEW t \in Thread, WakeSpuriously(t) PROVE BudgetTypeOK'
  BY <1>9, Zenon DEF WakeSpuriously, admission
<1>10. ASSUME NEW t \in Thread, Admit(t) PROVE BudgetTypeOK'
  <2>1. phase[t] \in Wallet \cup Production
    BY <1>10, Zenon DEF Admit, PhaseInv, Queued
  <2>2. activeExclusive' \in (Phase \ {"InboundVerify"}) \cup {None}
    BY <1>10, <2>1, Zenon DEF Admit, Phase, Wallet, Production
  <2> QED BY <1>10, <2>2 DEF Admit
<1>11. ASSUME NEW t \in Thread, Unnest(t) PROVE BudgetTypeOK'
  BY <1>11, Zenon DEF Unnest, admission
<1>12. ASSUME NEW t \in Thread, Finish(t) PROVE BudgetTypeOK'
  BY <1>12, Zenon DEF Finish, admission
<1>13. ASSUME NEW t \in Thread, Yield(t) PROVE BudgetTypeOK'
  BY <1>13, Zenon DEF Yield, admission
<1>14. ASSUME NEW t \in Thread, Release(t) PROVE BudgetTypeOK'
  <2>1. phase[t] \in Wallet => requests > 0
    <3>1. SUFFICES ASSUME phase[t] \in Wallet PROVE requests > 0
      BY Zenon
    <3>2. IsFiniteSet(Counted) /\ t \in Counted
      BY <1>14, <3>1, BudgetConstants, FS_Subset, Zenon DEF BudgetConstants, Counted, Release
    <3>3. Cardinality(Counted) \in Nat /\ Cardinality(Counted) # 0
      BY <3>2, FS_CardinalityType, FS_EmptySet, Zenon
    <3> QED BY <3>3 DEF RequestsCounted
  <2>2. requests' \in Nat BY <1>14, <2>1 DEF Release
  <2> QED BY <1>14, <2>2 DEF Release
<1>15. ASSUME NEW t \in Thread, Notify(t) PROVE BudgetTypeOK'
  BY <1>15, Zenon DEF Notify, admission
<1> QED
  BY <1>1, <1>2, <1>3, <1>4, <1>5, <1>6, <1>7, <1>8, <1>9, <1>10, <1>11, <1>12,
     <1>13, <1>14, <1>15, Zenon DEF BudgetNext

-----------------------------------------------------------------------------
\* A thread that joins or leaves the counted ones changes their number by one.
LEMMA CountStep ==
    ASSUME BudgetTypeOK, NEW t \in Thread
    PROVE  /\ (t \notin Counted /\ Counted' = Counted \cup {t}) =>
                  Cardinality(Counted') = Cardinality(Counted) + 1
           /\ (t \in Counted /\ Counted' = Counted \ {t}) =>
                  Cardinality(Counted') = Cardinality(Counted) - 1
<1>1. IsFiniteSet(Counted)
  BY BudgetConstants, FS_Subset, Zenon DEF BudgetConstants, Counted
<1> QED BY <1>1, FS_AddElement, FS_RemoveElement

\* The counter stays exact: only the publication and the drop of a wallet's
\* guard change who is counted.
LEMMA CountedStep ==
    ASSUME IInv, [BudgetNext]_budgetVars
    PROVE  RequestsCounted'
<1> USE DEF IInv, BudgetTypeOK
<1> DEFINE Same == Counted' = Counted /\ requests' = requests
<1>0. ASSUME Same PROVE RequestsCounted'
  BY <1>0, Zenon DEF RequestsCounted
<1>1. CASE UNCHANGED budgetVars
  <2>1. Same BY <1>1 DEF budgetVars, Counted
  <2> QED BY <2>1, <1>0
<1>2. ASSUME NEW s \in Starter, Configure(s) \/ PublishPlan(s) PROVE RequestsCounted'
  <2>1. Same BY <1>2 DEF Configure, PublishPlan, admission, threads, Counted
  <2> QED BY <2>1, <1>0
<1>3. ASSUME NEW t \in Thread, NEW p \in Phase, Call(t, p) \/ Nest(t, p)
      PROVE  RequestsCounted'
  <2>1. Same
    BY <1>3 DEF Call, Nest, admission, Counted, Wallet, Production
  <2> QED BY <2>1, <1>0
<1>4. ASSUME NEW t \in Thread, Publish(t) PROVE RequestsCounted'
  <2>1. t \notin Counted /\ Counted' = Counted \cup {t}
    BY <1>4, Zenon DEF Publish, Counted, PhaseInv
  <2>2. Cardinality(Counted') = Cardinality(Counted) + 1
    BY <2>1, CountStep, Zenon
  <2> QED BY <1>4, <2>2 DEF Publish, RequestsCounted
<1>5. ASSUME NEW t \in Thread,
             \/ Check(t) \/ Sleep(t) \/ WakeSpuriously(t) \/ Admit(t)
             \/ Unnest(t) \/ Finish(t) \/ Yield(t) \/ Notify(t)
      PROVE  RequestsCounted'
  <2>1. Same
    BY <1>5 DEF Check, Sleep, WakeSpuriously, Admit, Unnest, Finish, Yield, Notify,
       admission, Counted
  <2> QED BY <2>1, <1>0
<1>6. ASSUME NEW t \in Thread, Release(t) PROVE RequestsCounted'
  <2>1. CASE phase[t] \in Wallet
    <3>1. t \in Counted /\ Counted' = Counted \ {t}
      BY <1>6, <2>1, Zenon DEF Release, Counted
    <3>2. Cardinality(Counted') = Cardinality(Counted) - 1
      BY <3>1, CountStep, Zenon
    <3> QED BY <1>6, <2>1, <3>2 DEF Release, RequestsCounted
  <2>2. CASE phase[t] \notin Wallet
    <3>1. Same BY <1>6, <2>2 DEF Release, Counted
    <3> QED BY <3>1, <1>0
  <2> QED BY <2>1, <2>2
<1> QED BY <1>1, <1>2, <1>3, <1>4, <1>5, <1>6 DEF BudgetNext

-----------------------------------------------------------------------------
\* The lock, the phases and the exclusion.
LEMMA ExclusionStep ==
    ASSUME IInv, [BudgetNext]_budgetVars
    PROVE  LockInv' /\ PhaseInv' /\ ActiveInv'
<1> DEFINE Goal == LockInv' /\ PhaseInv' /\ ActiveInv'
<1> USE BudgetConstants DEF BudgetConstants, IInv, BudgetTypeOK, LockInv, PhaseInv, ActiveInv,
        Locked, Queued, Inside
<1>1. CASE UNCHANGED budgetVars BY <1>1 DEF budgetVars
<1>2. ASSUME NEW s \in Starter, Configure(s) \/ PublishPlan(s) PROVE Goal
  BY <1>2, Zenon DEF Configure, PublishPlan, admission, threads
<1>3. ASSUME NEW t \in Thread, NEW p \in Phase, Call(t, p) PROVE Goal
  BY <1>3 DEF Call, admission
<1>4. ASSUME NEW t \in Thread, NEW p \in Phase, Nest(t, p) PROVE Goal
  BY <1>4, Zenon DEF Nest, admission
<1>5. ASSUME NEW t \in Thread, Publish(t) PROVE Goal
  BY <1>5 DEF Publish
<1>6. ASSUME NEW t \in Thread, Check(t) PROVE Goal
  BY <1>6 DEF Check, MustWait
<1>7. ASSUME NEW t \in Thread, Sleep(t) PROVE Goal
  BY <1>7 DEF Sleep
<1>8. ASSUME NEW t \in Thread, WakeSpuriously(t) PROVE Goal
  BY <1>8 DEF WakeSpuriously, admission
<1>9. ASSUME NEW t \in Thread, Admit(t) PROVE Goal
  <2>1. phase[t] # None /\ \A u \in Thread : pc[u] \notin Inside
    BY <1>9, Zenon DEF Admit, Wallet, Production, None
  <2> QED BY <1>9, <2>1 DEF Admit
<1>10. ASSUME NEW t \in Thread, Unnest(t) PROVE Goal
  BY <1>10, Zenon DEF Unnest, admission
<1>11. ASSUME NEW t \in Thread, Finish(t) PROVE Goal
  BY <1>11 DEF Finish, admission
<1>12. ASSUME NEW t \in Thread, Yield(t) PROVE Goal
  BY <1>12 DEF Yield, admission
<1>13. ASSUME NEW t \in Thread, Release(t) PROVE Goal
  BY <1>13 DEF Release
<1>14. ASSUME NEW t \in Thread, Notify(t) PROVE Goal
  BY <1>14 DEF Notify, admission
<1> QED
  BY <1>1, <1>2, <1>3, <1>4, <1>5, <1>6, <1>7, <1>8, <1>9, <1>10, <1>11, <1>12,
     <1>13, <1>14, Zenon DEF BudgetNext

-----------------------------------------------------------------------------
\* A request is overtaken at most once: the phase that overtakes it had looked
\* at the counter before, under the lock, and nobody else holds the lock.
LEMMA OvertakenStep ==
    ASSUME IInv, [BudgetNext]_budgetVars
    PROVE  OvertakenInv'
<1> USE DEF IInv, BudgetTypeOK, OvertakenInv, Pending
<1>1. CASE UNCHANGED budgetVars BY <1>1 DEF budgetVars
<1>2. ASSUME NEW s \in Starter, Configure(s) \/ PublishPlan(s) PROVE OvertakenInv'
  BY <1>2, Zenon DEF Configure, PublishPlan, admission, threads
<1>3. ASSUME NEW t \in Thread, NEW p \in Phase, Call(t, p) PROVE OvertakenInv'
  BY <1>3 DEF Call, Wallet, Production
<1>4. ASSUME NEW t \in Thread, NEW p \in Phase, Nest(t, p) PROVE OvertakenInv'
  BY <1>4, Zenon DEF Nest
<1>5. ASSUME NEW t \in Thread, Publish(t) PROVE OvertakenInv'
  BY <1>5 DEF Publish
<1>6. ASSUME NEW t \in Thread, Check(t) PROVE OvertakenInv'
  <2>1. (pc'[t] = "granted" /\ phase[t] \in Production) => \A w \in Thread : ~Pending(w)
    BY <1>6, PendingCounted, Zenon DEF Check, MustWait
  <2>2. \A w \in Thread : Pending(w)' => Pending(w)
    BY <1>6, Zenon DEF Check
  <2> QED BY <1>6, <2>1, <2>2 DEF Check
<1>7. ASSUME NEW t \in Thread, Sleep(t) PROVE OvertakenInv'
  BY <1>7, Zenon DEF Sleep
<1>8. ASSUME NEW t \in Thread, WakeSpuriously(t) PROVE OvertakenInv'
  BY <1>8, Zenon DEF WakeSpuriously
<1>9. ASSUME NEW t \in Thread, Admit(t) PROVE OvertakenInv'
  <2>1. \A u \in Thread : pc'[u] # "granted"
    BY <1>9, BudgetConstants, Zenon DEF Admit, LockInv, Locked, BudgetConstants
  <2>2. \A w \in Thread : Pending(w)' => Pending(w)
    BY <1>9, Zenon DEF Admit
  <2>3. \A w \in Thread : Pending(w) => overtaken'[w] <= 1
    BY <1>9 DEF Admit
  <2> QED BY <2>1, <2>2, <2>3
<1>10. ASSUME NEW t \in Thread, Unnest(t) PROVE OvertakenInv'
  BY <1>10, Zenon DEF Unnest
<1>11. ASSUME NEW t \in Thread, Finish(t) PROVE OvertakenInv'
  BY <1>11, Zenon DEF Finish
<1>12. ASSUME NEW t \in Thread, Yield(t) PROVE OvertakenInv'
  BY <1>12, Zenon DEF Yield
<1>13. ASSUME NEW t \in Thread, Release(t) PROVE OvertakenInv'
  BY <1>13, Zenon DEF Release
<1>14. ASSUME NEW t \in Thread, Notify(t) PROVE OvertakenInv'
  BY <1>14, Zenon DEF Notify
<1> QED
  BY <1>1, <1>2, <1>3, <1>4, <1>5, <1>6, <1>7, <1>8, <1>9, <1>10, <1>11, <1>12,
     <1>13, <1>14, Zenon DEF BudgetNext

-----------------------------------------------------------------------------
LEMMA InductiveInvariant == BudgetSpec => []IInv
<1>1. BudgetInit => IInv
  <2> SUFFICES ASSUME BudgetInit PROVE IInv OBVIOUS
  <2>1. BudgetTypeOK BY DEF BudgetInit, BudgetTypeOK, Unplanned
  <2>2. LockInv /\ PhaseInv /\ ActiveInv /\ OvertakenInv
    BY BudgetConstants, Zenon DEF BudgetConstants, BudgetInit, LockInv, PhaseInv, ActiveInv,
       OvertakenInv, Pending, Locked, Queued, Inside
  <2>3. Counted = {} BY DEF BudgetInit, Counted
  <2>4. RequestsCounted BY <2>3, FS_EmptySet DEF BudgetInit, RequestsCounted
  <2> QED BY <2>1, <2>2, <2>4 DEF IInv
<1>2. IInv /\ [BudgetNext]_budgetVars => IInv'
  BY TypeStep, CountedStep, ExclusionStep, OvertakenStep, Zenon DEF IInv
<1> QED BY <1>1, <1>2, PTL DEF BudgetSpec

\* Proof of work, HistoryStep and the wallet's phases exclude each other, and
\* wallet_priority_requests is exact, for any number of callers: no path through
\* admission and the guard loses or repeats a decrement.
THEOREM PhasesAlwaysSound == BudgetSpec => []PhasesSound
<1>1. IInv => PhasesExclude
  BY Zenon DEF IInv, ActiveInv, PhasesExclude, Holder, Inside
<1>2. IInv => PhasesSound
  BY <1>1, Zenon DEF IInv, PhasesSound
<1> QED BY <1>2, InductiveInvariant, PTL

\* A published wallet request is overtaken by at most one block-production
\* phase, for any number of callers.
THEOREM AlwaysOvertakenAtMostOnce == BudgetSpec => []OvertakenAtMostOnce
<1>1. IInv => OvertakenAtMostOnce
  BY Zenon DEF IInv, OvertakenInv, OvertakenAtMostOnce
<1> QED BY <1>1, InductiveInvariant, PTL
-----------------------------------------------------------------------------
\* The worker plan.

\* A built or configured plan was asked for and can be planned; the pool has
\* the plan of every caller that was told so.
PlanInv ==
    /\ \A s \in Starter :
        /\ startup[s] \in {"built", "configured"} => Acceptable(s)
        /\ startup[s] = "configured" => plan = RequestedPlan(s)
    /\ plan # Unplanned => Plannable(Available, plan.shared)

\* The ceiling of a host is one of its counts, leaves the reserve of the
\* protocol to an internal miner, and grows with the host.
LEMMA CeilingFacts ==
    ASSUME NEW n \in Nat \ {0}, NEW mode \in Mode
    PROVE  /\ Ceiling(n, mode) \in 1 .. n
           /\ mode = "InternalMiner" /\ n > 1 =>
                  n - Ceiling(n, mode) >= MiningProtocolThreadReserve(n)
           /\ Ceiling(n, mode) <= Ceiling(n + 1, mode)
<1>1. CASE mode = "ProofOnly"
  BY <1>1 DEF Ceiling
<1>2. CASE mode = "InternalMiner"
  BY <1>2 DEF Ceiling, InternalMinerThreadCeiling, MiningProtocolThreadReserve
<1> QED
  BY <1>1, <1>2, Zenon DEF Mode

\* What select_process_worker_threads returns, for every host, mode and count.
LEMMA SelectedCount ==
    ASSUME NEW n \in Nat, NEW mode \in Mode, NEW k \in Nat \cup {Unset}
    PROVE  LET r == [mode |-> mode, threads |-> k]
               workers == SelectProcessWorkerThreads(n, r)
           IN  /\ workers = 0 <=> Impossible(n, r)
               /\ workers # 0 =>
                      /\ Plannable(n, workers)
                      /\ mode = "InternalMiner" /\ n > 1 =>
                             n - workers >= MiningProtocolThreadReserve(n)
                      /\ workers <= SelectProcessWorkerThreads(n + 1, r)
<1> DEFINE r == [mode |-> mode, threads |-> k]
           workers == SelectProcessWorkerThreads(n, r)
           Selected ==
               /\ workers = 0 <=> Impossible(n, r)
               /\ workers # 0 =>
                      /\ Plannable(n, workers)
                      /\ mode = "InternalMiner" /\ n > 1 =>
                             n - workers >= MiningProtocolThreadReserve(n)
                      /\ workers <= SelectProcessWorkerThreads(n + 1, r)
<1> SUFFICES Selected
  BY Zenon
<1>0. r.mode = mode /\ r.threads = k /\ Unset \notin Nat
  BY BudgetConstants, Zenon DEF BudgetConstants
<1> HIDE DEF r
<1>1. CASE Impossible(n, r)
  BY <1>1, Zenon DEF SelectProcessWorkerThreads
<1>2. CASE ~Impossible(n, r)
  <2>1. n \in Nat \ {0} /\ ~Impossible(n + 1, r)
    BY <1>0, <1>2 DEF Impossible
  <2>2. /\ Ceiling(n, mode) \in 1 .. n
        /\ mode = "InternalMiner" /\ n > 1 =>
               n - Ceiling(n, mode) >= MiningProtocolThreadReserve(n)
        /\ Ceiling(n, mode) <= Ceiling(n + 1, mode)
        /\ Ceiling(n + 1, mode) \in 1 .. n + 1
        /\ MiningProtocolThreadReserve(n) \in Nat
    <3>1. n + 1 \in Nat \ {0}
      BY <2>1
    <3> QED
      BY <2>1, <3>1, CeilingFacts, Zenon DEF MiningProtocolThreadReserve
  <2>3. CASE k = Unset
    <3>1. workers = Ceiling(n, mode) /\ SelectProcessWorkerThreads(n + 1, r) = Ceiling(n + 1, mode)
      BY <1>0, <1>2, <2>1, <2>3, Zenon DEF SelectProcessWorkerThreads
    <3> QED
      BY <1>2, <2>1, <2>2, <3>1 DEF Plannable
  <2>4. CASE k # Unset
    <3>1. k \in 1 .. n
      BY <1>0, <1>2, <2>4, Zenon DEF Impossible
    <3>2. /\ workers = IF k > Ceiling(n, mode) THEN Ceiling(n, mode) ELSE k
          /\ SelectProcessWorkerThreads(n + 1, r) =
                 IF k > Ceiling(n + 1, mode) THEN Ceiling(n + 1, mode) ELSE k
      BY <1>0, <1>2, <2>1, <2>4, Zenon DEF SelectProcessWorkerThreads
    <3> QED
      BY <1>2, <2>1, <2>2, <3>1, <3>2 DEF Plannable
  <2> QED
    BY <2>3, <2>4, Zenon
<1> QED
  BY <1>1, <1>2, Zenon

\* An acceptable plan is a plan.
LEMMA AcceptedPlan ==
    ASSUME NEW s \in Starter, Acceptable(s)
    PROVE  /\ RequestedPlan(s) # Unplanned
           /\ Plannable(Available, RequestedPlan(s).shared)
BY Zenon DEF Acceptable, RequestedPlan, PlanOf, Unplanned

\* A caller is configured with the plan it asked for, and the first plan stays.
LEMMA PlanStep == ASSUME BudgetTypeOK, PlanInv, [BudgetNext]_budgetVars PROVE PlanInv'
<1> USE DEF PlanInv
<1>1. ASSUME NEW s \in Starter, Configure(s) PROVE PlanInv'
  <2>1. plan' = plan /\ startup' = [startup EXCEPT ![s] = startup'[s]]
    BY <1>1, Zenon DEF Configure, BudgetTypeOK
  <2>2. /\ startup'[s] \in {"built", "configured"} => Acceptable(s)
        /\ startup'[s] = "configured" => plan = RequestedPlan(s)
    BY <1>1, Zenon DEF Configure, BudgetTypeOK
  <2> QED
    BY <2>1, <2>2, Zenon DEF BudgetTypeOK, Acceptable, RequestedPlan
<1>2. ASSUME NEW s \in Starter, PublishPlan(s) PROVE PlanInv'
  <2>1. Acceptable(s) /\ startup' = [startup EXCEPT ![s] = startup'[s]]
    BY <1>2, Zenon DEF PublishPlan, BudgetTypeOK
  <2>2. startup'[s] = "configured" => plan' = RequestedPlan(s)
    BY <1>2, Zenon DEF PublishPlan, BudgetTypeOK
  <2>3. plan' # Unplanned => Plannable(Available, plan'.shared)
    BY <1>2, <2>1, AcceptedPlan, Zenon DEF PublishPlan
  <2>4. ASSUME NEW u \in Starter, startup[u] = "configured" PROVE plan' = RequestedPlan(u)
    BY <1>2, <2>4, AcceptedPlan, Zenon DEF PublishPlan
  <2> QED
    BY <2>1, <2>2, <2>3, <2>4, Zenon DEF BudgetTypeOK, Acceptable, RequestedPlan
<1>3. CASE UNCHANGED <<plan, startup>>
  BY <1>3, Zenon DEF Acceptable, RequestedPlan
<1> QED
  BY <1>1, <1>2, <1>3, Zenon DEF BudgetNext, budgetVars, threads, Call, Nest, Publish, Check, Sleep,
     WakeSpuriously, Admit, Unnest, Finish, Yield, Release, Notify

\* For every host, mode and requested count the selected workers leave the
\* protocol's reserve free, and whoever was told that the pool is configured got
\* the plan it asked for (configure_process_cpu_budget_with_threads).
THEOREM PlanAlwaysSound == BudgetSpec => []PlanSound
<1>1. BudgetInit => PlanInv
  BY Zenon DEF BudgetInit, PlanInv
<1>2. IInv /\ PlanInv /\ [BudgetNext]_budgetVars => PlanInv'
  BY PlanStep, Zenon DEF IInv
<1>3. PlanInv => PlanSound
  <2>1. 0 .. 2 * Available \subseteq Nat
    BY BudgetConstants DEF BudgetConstants
  <2> QED
    BY <2>1, SelectedCount, Zenon DEF PlanInv, PlanSound, ConfiguredAsAsked, PlanLeavesReserve
<1> QED
  BY <1>1, <1>2, <1>3, InductiveInvariant, PTL DEF BudgetSpec
-----------------------------------------------------------------------------
(* The pool of transactions. *)
(* The inductive invariant. *)

\* The gate holder carries the view of the tip it committed.
UpdateOnTip == update.stage = "view" => update.at = tip

\* The pool, and the verifications that run, were filled one by one.
Finite == IsFiniteSet(pool) /\ IsFiniteSet(Running) /\ IsFiniteSet(Retained(pool))

\* Nothing is left in the fee window of a pool that has drained.
WindowDrained == pool = {} => recent = <<>>

\* The parent of a template is the tip or has been beaten by it for good; one
\* that is still the tip was captured outside the gate, and the pool holds
\* that view when the template is filled.
TemplateDated ==
    template.step # "none" =>
        /\ template.parent = tip \/ ChainWins(tip, template.parent)
        /\ template.parent = tip => update.stage # "view"

Inv ==
    /\ TypeOK
    /\ ConflictFree
    /\ PoolFollowsView
    /\ ViewIsTip
    /\ UpdateOnTip
    /\ ReservationsCover
    /\ Finite
    /\ WithinLimits
    /\ WindowDrained
    /\ TemplateDated
    /\ TemplateApplies

-----------------------------------------------------------------------------
(* Fork choice never comes back to a block. *)

\* Heights and work are natural numbers, and ancestors are blocks.
LEMMA TreeFacts ==
    /\ Genesis \in Block
    /\ \A b \in Block : Height[b] \in Heights /\ Work[b] \in Nat /\ HashOf[b] \in Nat
    /\ \A b \in Block : \A h \in Heights : Anc[b][h] \in Block
    /\ \A h \in Heights : h \in Nat /\ h <= MaxHeight
<1>1. \A h \in Heights : h \in Nat /\ h <= MaxHeight
  BY TreeTypes DEF TreeTypes, Heights
<1>2. ASSUME NEW b \in Block PROVE Height[b] \in Heights /\ Work[b] \in Nat /\ HashOf[b] \in Nat
  BY TreeTypes, Zenon DEF TreeTypes
<1>3. ASSUME NEW b \in Block, NEW h \in Heights PROVE Anc[b][h] \in Block
  <2>1. Anc[b] \in [Heights -> Block]
    BY TreeTypes, Zenon DEF TreeTypes
  <2> QED
    BY <2>1, Zenon
<1>4. Genesis \in Block
  BY TreeTypes, Zenon DEF TreeTypes
<1> QED
  BY <1>1, <1>2, <1>3, <1>4, Zenon

\* A strict extension wins.
LEMMA ExtensionWins ==
    ASSUME NEW a \in Block, NEW b \in Block, Extends(b, a), a # b
    PROVE  ChainWins(b, a)
<1>1. Height[a] \in 0 .. Height[b] /\ Height[b] \in Nat
  BY TreeFacts DEF Extends
<1>2. Height[a] < Height[b]
  BY <1>1, TreeShape DEF TreeShape, Extends
<1>3. Work[Anc[b][Height[a]]] < Work[b]
  BY <1>1, <1>2, TreeWork, Zenon DEF TreeWork
<1> QED
  BY <1>3, TreeFacts, Zenon DEF ChainWins, Extends

\* Winning is a strict order.
LEMMA WinsTransitive ==
    ASSUME NEW a \in Block, NEW b \in Block, NEW c \in Block,
           ChainWins(a, b), ChainWins(b, c)
    PROVE  ChainWins(a, c)
BY TreeFacts DEF ChainWins

\* No block wins over itself.
LEMMA WinsStrict == ASSUME NEW a \in Block PROVE ~ChainWins(a, a)
BY TreeFacts DEF ChainWins

\* A commit names transactions.
LEMMA TxsAboveTyped ==
    ASSUME NEW a \in Block, NEW b \in Block
    PROVE  TxsAbove(a, b) \subseteq Tx
<1>1. ASSUME NEW h \in (Height[a] + 1) .. Height[b] PROVE h \in Heights
  <2>1. Height[a] \in Nat /\ Height[b] \in Nat /\ Height[b] <= MaxHeight /\ MaxHeight \in Nat
    BY TreeFacts, TreeTypes, Zenon DEF TreeTypes
  <2> QED
    BY <1>1, <2>1 DEF Heights
<1>2. ASSUME NEW h \in (Height[a] + 1) .. Height[b] PROVE TxsOf[Anc[b][h]] \subseteq Tx
  BY <1>1, TreeFacts, PoolConstants, Zenon DEF PoolConstants
<1> QED
  BY <1>2, Zenon DEF TxsAbove

-----------------------------------------------------------------------------
(* The retained bytes. *)

\* A transaction retains as many bytes as its size.
LEMMA BytesCounted ==
    ASSUME NEW t \in Tx
    PROVE  IsFiniteSet(Bytes(t)) /\ Cardinality(Bytes(t)) = SizeOf[t] /\ SizeOf[t] \in Nat
<1>1. SizeOf[t] \in Nat
  BY PoolConstants, Zenon DEF PoolConstants
<1>2. IsFiniteSet(1 .. SizeOf[t]) /\ Cardinality(1 .. SizeOf[t]) = SizeOf[t]
  <2>1. 1 \in Int /\ SizeOf[t] \in Int
    BY <1>1
  <2>2. /\ IsFiniteSet(1 .. SizeOf[t])
        /\ Cardinality(1 .. SizeOf[t]) = IF 1 > SizeOf[t] THEN 0 ELSE SizeOf[t] - 1 + 1
    BY <2>1, FS_Interval, Zenon
  <2>3. (IF 1 > SizeOf[t] THEN 0 ELSE SizeOf[t] - 1 + 1) = SizeOf[t]
    BY <1>1
  <2> QED
    BY <2>2, <2>3
<1>3. IsFiniteSet({t}) /\ Cardinality({t}) = 1
  BY FS_Singleton, Zenon
<1>4. IsFiniteSet(Bytes(t)) /\ Cardinality(Bytes(t)) = 1 * SizeOf[t]
  <2> DEFINE S == {t}
             T == 1 .. SizeOf[t]
  <2>1. IsFiniteSet(S) /\ Cardinality(S) = 1 /\ IsFiniteSet(T) /\ Cardinality(T) = SizeOf[t]
    BY <1>2, <1>3, Zenon
  <2> HIDE DEF S, T
  <2>2. IsFiniteSet(S \X T) /\ Cardinality(S \X T) = Cardinality(S) * Cardinality(T)
    BY <2>1, FS_Product, Zenon
  <2>3. Bytes(t) = S \X T
    BY Zenon DEF Bytes, S, T
  <2> QED
    BY <2>1, <2>2, <2>3, Zenon
<1> QED
  BY <1>1, <1>4

\* Admission adds the bytes of what it admits, and a removal adds none.
LEMMA RetainedAdd ==
    ASSUME NEW P \in SUBSET Tx, NEW t \in Tx, IsFiniteSet(Retained(P)), t \notin P
    PROVE  /\ IsFiniteSet(Retained(P \union {t}))
           /\ TotalBytes(P \union {t}) = TotalBytes(P) + SizeOf[t]
<1>1. Retained(P \union {t}) = Retained(P) \union Bytes(t)
  BY Zenon DEF Retained
<1>2. Retained(P) \intersect Bytes(t) = {}
  BY DEF Retained, Bytes
<1>3. Cardinality({}) = 0
  BY FS_EmptySet, Zenon
<1>4. Cardinality(Retained(P)) \in Nat
  BY FS_CardinalityType, Zenon
<1>5. IsFiniteSet(Bytes(t)) /\ Cardinality(Bytes(t)) = SizeOf[t] /\ SizeOf[t] \in Nat
  BY BytesCounted, Zenon
<1>6. /\ IsFiniteSet(Retained(P) \union Bytes(t))
      /\ Cardinality(Retained(P) \union Bytes(t))
            = Cardinality(Retained(P)) + Cardinality(Bytes(t)) - Cardinality(Retained(P) \intersect Bytes(t))
  BY <1>5, FS_Union, Zenon
<1>7. Cardinality(Retained(P) \intersect Bytes(t)) = 0
  BY <1>2, <1>3, Zenon
<1>8. Cardinality(Retained(P \union {t})) = Cardinality(Retained(P) \union Bytes(t))
  BY <1>1, Zenon
<1>9. Cardinality(Retained(P \union {t})) = Cardinality(Retained(P)) + SizeOf[t]
  BY <1>4, <1>5, <1>6, <1>7, <1>8
<1>10. IsFiniteSet(Retained(P \union {t}))
  BY <1>1, <1>6, Zenon
<1> QED
  BY <1>9, <1>10, Zenon DEF TotalBytes

\* A smaller pool retains no more bytes.
LEMMA RetainedShrinks ==
    ASSUME NEW P, NEW Q \in SUBSET P, IsFiniteSet(Retained(P))
    PROVE  /\ IsFiniteSet(Retained(Q))
           /\ TotalBytes(Q) \in Nat /\ TotalBytes(P) \in Nat /\ TotalBytes(Q) <= TotalBytes(P)
<1>1. Retained(Q) \subseteq Retained(P)
  BY Zenon DEF Retained
<1>2. IsFiniteSet(Retained(Q)) /\ Cardinality(Retained(Q)) <= Cardinality(Retained(P))
  BY <1>1, FS_Subset, Zenon
<1> QED
  BY <1>2, FS_CardinalityType, Zenon DEF TotalBytes

-----------------------------------------------------------------------------
(* Parts of steps. *)

\* The slots a transaction binds are slots, and its fee is a number.
LEMMA TxFacts ==
    ASSUME NEW t \in Tx
    PROVE  /\ InputsOf(t) \subseteq Slot /\ Minted[t] \subseteq Slot
           /\ FeeOf[t] \in Nat /\ TxsOf \in [Block -> SUBSET Tx]
<1>1. Spent[t] \subseteq Slot \X Coin /\ Minted[t] \subseteq Slot /\ FeeOf[t] \in Nat
      /\ TxsOf \in [Block -> SUBSET Tx]
  BY PoolConstants, Zenon DEF PoolConstants
<1>2. \A p \in Spent[t] : p[1] \in Slot
  BY <1>1, Zenon
<1> QED
  BY <1>1, <1>2, Zenon DEF InputsOf

\* Mempool::remove keeps the pool free of conflicts and its indexes exact: no
\* other entry shares a slot with what leaves.
LEMMA RemoveKeeps ==
    ASSUME TypeOK, ConflictFree, NEW txs, Remove(txs)
    PROVE  /\ ConflictFree'
           /\ pool' = pool \ txs
           /\ spentInputs' \subseteq Slot /\ mintedOutputs' \subseteq Slot
<1>1. pool' = pool \ txs
  BY Zenon DEF Remove
<1>2. spentInputs' = UNION {InputsOf(t) : t \in pool'}
  BY <1>1 DEF Remove, ConflictFree, SlotsOf
<1>3. mintedOutputs' = UNION {Minted[t] : t \in pool'}
  BY <1>1 DEF Remove, ConflictFree, SlotsOf
<1>4. \A t, u \in pool' : t # u => SlotsOf(t) \cap SlotsOf(u) = {}
  BY <1>1, Zenon DEF ConflictFree
<1>5. spentInputs' \subseteq Slot /\ mintedOutputs' \subseteq Slot
  BY Zenon DEF Remove, TypeOK
<1> QED
  BY <1>1, <1>2, <1>3, <1>4, <1>5, Zenon DEF ConflictFree

\* The limits are kept when neither the pool nor the verifications grow.
LEMMA LimitsKept ==
    ASSUME Finite, WithinLimits, pool' \subseteq pool, Running' \subseteq Running
    PROVE  Finite' /\ WithinLimits'
<1>0. Capacity \in Nat /\ MaxBytes \in Nat /\ Workers \in Nat
  BY PoolConstants, Zenon DEF PoolConstants
<1>1. /\ IsFiniteSet(pool') /\ Cardinality(pool') <= Cardinality(pool)
      /\ Cardinality(pool') \in Nat /\ Cardinality(pool) \in Nat
  BY FS_Subset, FS_CardinalityType, Zenon DEF Finite
<1>2. /\ IsFiniteSet(Running') /\ Cardinality(Running') <= Cardinality(Running)
      /\ Cardinality(Running') \in Nat /\ Cardinality(Running) \in Nat
  BY FS_Subset, FS_CardinalityType, Zenon DEF Finite
<1>3. /\ IsFiniteSet(Retained(pool')) /\ TotalBytes(pool') <= TotalBytes(pool)
      /\ TotalBytes(pool') \in Nat /\ TotalBytes(pool) \in Nat
  BY RetainedShrinks, Zenon DEF Finite
<1>4. Cardinality(pool') <= Capacity
  BY <1>0, <1>1 DEF WithinLimits
<1>5. Cardinality(Running') <= Workers
  BY <1>0, <1>2 DEF WithinLimits
<1>6. TotalBytes(pool') <= MaxBytes
  BY <1>0, <1>3 DEF WithinLimits
<1>7. Finite'
  BY <1>1, <1>2, <1>3, Zenon DEF Finite, Retained
<1> QED
  BY <1>4, <1>5, <1>6, <1>7, Zenon DEF WithinLimits, TotalBytes, Retained

\* The next window of fees is one.
LEMMA RecordedTyped ==
    ASSUME NEW fees \in Seq(Nat), NEW fee \in Nat
    PROVE  Recorded(fees, fee) \in Seq(Nat)
<1>1. Len(fees) >= FloorWindow => Tail(fees) \in Seq(Nat)
  <2> SUFFICES ASSUME Len(fees) >= FloorWindow PROVE Tail(fees) \in Seq(Nat)
    BY Zenon
  <2>1. fees # <<>>
    BY PoolConstants DEF PoolConstants
  <2> QED
    BY <2>1
<1> QED
  BY <1>1 DEF Recorded

\* What every entry and the template have to do with the chain.
PoolParts == ConflictFree /\ PoolFollowsView /\ ReservationsCover /\ WindowDrained
ChainParts == ViewIsTip /\ UpdateOnTip /\ TemplateDated /\ TemplateApplies

\* A step that leaves the pool alone.
LEMMA PoolPartsKept ==
    ASSUME PoolParts, UNCHANGED poolVars
    PROVE  PoolParts'
BY Zenon DEF PoolParts, poolVars, ConflictFree, PoolFollowsView, ReservationsCover, WindowDrained

\* A step that leaves chain, view and template alone.
LEMMA ChainPartsKept ==
    ASSUME ChainParts, UNCHANGED <<chainVars, view, template>>
    PROVE  ChainParts'
BY Zenon DEF ChainParts, chainVars, ViewIsTip, UpdateOnTip, TemplateDated, TemplateApplies

-----------------------------------------------------------------------------
(* submit(). *)

\* The pre-filter changes no more than the call.
LEMMA PrefilterStep ==
    ASSUME Inv, NEW k \in Task, NEW t \in Tx, SubmitPrefilter(k, t)
    PROVE  Inv'
<1> USE DEF Inv
<1>1. TypeOK'
  BY Zenon DEF TypeOK, SubmitPrefilter, chainVars, poolVars
<1>2. Running' \subseteq Running
  BY Zenon DEF TypeOK, SubmitPrefilter, Running
<1>3. PoolParts' /\ ChainParts'
  BY PoolPartsKept, ChainPartsKept, Zenon
     DEF SubmitPrefilter, PoolParts, ChainParts, poolVars, chainVars
<1>4. Finite' /\ WithinLimits'
  BY <1>2, LimitsKept, Zenon DEF SubmitPrefilter, poolVars
<1> QED
  BY <1>1, <1>3, <1>4, Zenon DEF PoolParts, ChainParts

\* A permit is taken only when one is free.
LEMMA AcquireStep ==
    ASSUME Inv, NEW k \in Task, AcquirePermit(k)
    PROVE  Inv'
<1> USE DEF Inv
<1>1. TypeOK'
  BY Zenon DEF TypeOK, AcquirePermit, chainVars, poolVars
<1>2. Running' = Running \union {k} /\ k \notin Running
  BY Zenon DEF TypeOK, AcquirePermit, Running
<1>3. PoolParts' /\ ChainParts'
  BY PoolPartsKept, ChainPartsKept, Zenon DEF AcquirePermit, PoolParts, ChainParts, poolVars, chainVars
<1>4. /\ IsFiniteSet(Running') /\ Cardinality(Running') = Cardinality(Running) + 1
      /\ Cardinality(Running) \in Nat
  BY <1>2, FS_AddElement, FS_CardinalityType, Zenon DEF Finite
<1>5. Cardinality(Running') <= Workers
  BY <1>4, PoolConstants DEF PoolConstants, AcquirePermit, PermitFree
<1>6. Finite' /\ WithinLimits'
  BY <1>4, <1>5, Zenon DEF AcquirePermit, poolVars, Finite, WithinLimits, TotalBytes, Retained
<1> QED
  BY <1>1, <1>3, <1>6, Zenon DEF PoolParts, ChainParts

\* Verification gives the permit back.
LEMMA VerifyStep ==
    ASSUME Inv, NEW k \in Task, VerifyAuthorization(k)
    PROVE  Inv'
<1> USE DEF Inv
<1>1. TypeOK'
  <2>1. task' \in [Task -> [step : {"idle", "waiting", "running", "verified"}, tx : Tx \cup {NoTx}]]
    BY DEF TypeOK, VerifyAuthorization, IdleTask
  <2>2. \A j \in Task : task'[j].step # "idle" => task'[j].tx \in Tx
    <3> SUFFICES ASSUME NEW j \in Task PROVE task'[j].step # "idle" => task'[j].tx \in Tx
      BY Zenon
    <3>1. CASE j # k
      BY <3>1, Zenon DEF TypeOK, VerifyAuthorization
    <3>2. CASE j = k
      BY <3>2, Zenon DEF TypeOK, VerifyAuthorization, IdleTask
    <3> QED
      BY <3>1, <3>2, Zenon
  <2> QED
    BY <2>1, <2>2, Zenon DEF TypeOK, VerifyAuthorization, chainVars, poolVars
<1>2. Running' \subseteq Running
  BY Zenon DEF TypeOK, VerifyAuthorization, IdleTask, Running
<1>3. PoolParts' /\ ChainParts'
  BY PoolPartsKept, ChainPartsKept, Zenon
     DEF VerifyAuthorization, PoolParts, ChainParts, poolVars, chainVars
<1>4. Finite' /\ WithinLimits'
  BY <1>2, LimitsKept, Zenon DEF VerifyAuthorization, poolVars
<1> QED
  BY <1>1, <1>3, <1>4, Zenon DEF PoolParts, ChainParts

\* A refusal ends the call.
LEMMA RefuseStep ==
    ASSUME Inv, NEW k \in Task, SubmitRefuse(k)
    PROVE  Inv'
<1> USE DEF Inv
<1>1. TypeOK'
  BY Zenon DEF TypeOK, SubmitRefuse, IdleTask, chainVars, poolVars
<1>2. Running' \subseteq Running
  BY Zenon DEF TypeOK, SubmitRefuse, IdleTask, Running
<1>3. PoolParts' /\ ChainParts'
  BY PoolPartsKept, ChainPartsKept, Zenon DEF SubmitRefuse, PoolParts, ChainParts, poolVars, chainVars
<1>4. Finite' /\ WithinLimits'
  BY <1>2, LimitsKept, Zenon DEF SubmitRefuse, poolVars
<1> QED
  BY <1>1, <1>3, <1>4, Zenon DEF PoolParts, ChainParts

\* Everything is checked again under the lock, against the view of now.
LEMMA AdmitStep ==
    ASSUME Inv, NEW k \in Task, SubmitAdmit(k)
    PROVE  Inv'
<1> USE DEF Inv
<1> DEFINE t == task[k].tx
<1>0. /\ t \in Tx /\ t \notin pool /\ AdmissionChecks(t)
      /\ TotalBytes(pool) + SizeOf[t] <= MaxBytes /\ Cardinality(pool) < Capacity
      /\ SlotsOf(t) \cap (spentInputs \cup mintedOutputs) = {}
  BY Zenon DEF SubmitAdmit, TypeOK, Recheck, MayEnter, Admissible
<1>1. /\ pool' = pool \cup {t}
      /\ spentInputs' = spentInputs \cup InputsOf(t) /\ mintedOutputs' = mintedOutputs \cup Minted[t]
      /\ inSlots' = inSlots \cup InputsOf(t) /\ outSlots' = outSlots \cup Minted[t]
      /\ recent' = Recorded(recent, FeeOf[t])
      /\ sent' = {<<"admitted", t>>, <<"verified", t>>}
      /\ task' = [task EXCEPT ![k] = IdleTask]
      /\ UNCHANGED <<chainVars, view, template>>
  BY Zenon DEF SubmitAdmit
<1> HIDE DEF t
<1>2. TypeOK'
  <2>1. /\ pool' \subseteq Tx /\ spentInputs' \subseteq Slot /\ mintedOutputs' \subseteq Slot
        /\ inSlots' \subseteq Slot /\ outSlots' \subseteq Slot
    BY <1>0, <1>1, TxFacts, Zenon DEF TypeOK
  <2>2. recent' \in Seq(Nat)
    BY <1>0, <1>1, TxFacts, RecordedTyped, Zenon DEF TypeOK
  <2>3. task' \in [Task -> [step : {"idle", "waiting", "running", "verified"}, tx : Tx \cup {NoTx}]]
    BY <1>1, Zenon DEF TypeOK, IdleTask
  <2>4. \A j \in Task : task'[j].step # "idle" => task'[j].tx \in Tx
    BY <1>1, Zenon DEF TypeOK, IdleTask
  <2>5. sent' \subseteq ({"admitted", "verified", "confirmed", "evicted"} \X Tx)
    BY <1>0, <1>1
  <2> QED
    BY <1>1, <2>1, <2>2, <2>3, <2>4, <2>5, Zenon DEF TypeOK, chainVars
<1>3. ConflictFree'
  <2>1. \A u \in pool : SlotsOf(u) \cap SlotsOf(t) = {}
    BY <1>0 DEF ConflictFree, SlotsOf
  <2>2. \A u, v \in pool' : u # v => SlotsOf(u) \cap SlotsOf(v) = {}
    BY <1>1, <2>1, Zenon DEF ConflictFree
  <2>3. spentInputs' = UNION {InputsOf(u) : u \in pool'}
    BY <1>1, Zenon DEF ConflictFree
  <2>4. mintedOutputs' = UNION {Minted[u] : u \in pool'}
    BY <1>1, Zenon DEF ConflictFree
  <2> QED
    BY <2>2, <2>3, <2>4, Zenon DEF ConflictFree
<1>4. PoolFollowsView'
  BY <1>0, <1>1, Zenon DEF PoolFollowsView, AdmissionChecks, Survives
<1>5. ReservationsCover' /\ WindowDrained'
  BY <1>1, Zenon DEF ReservationsCover, WindowDrained
<1>6. ChainParts'
  BY <1>1, ChainPartsKept, Zenon DEF ChainParts
<1>7. Running' \subseteq Running
  BY <1>1, Zenon DEF TypeOK, IdleTask, Running
<1>8. Finite' /\ WithinLimits'
  <2>0. Capacity \in Nat /\ MaxBytes \in Nat /\ Workers \in Nat
    BY PoolConstants, Zenon DEF PoolConstants
  <2>1. /\ IsFiniteSet(pool') /\ Cardinality(pool') = Cardinality(pool) + 1
        /\ Cardinality(pool) \in Nat
    BY <1>0, <1>1, FS_AddElement, FS_CardinalityType, Zenon DEF Finite
  <2>2. /\ IsFiniteSet(Running') /\ Cardinality(Running') <= Cardinality(Running)
        /\ Cardinality(Running') \in Nat /\ Cardinality(Running) \in Nat
    BY <1>7, FS_Subset, FS_CardinalityType, Zenon DEF Finite
  <2>3. IsFiniteSet(Retained(pool')) /\ TotalBytes(pool') = TotalBytes(pool) + SizeOf[t]
    BY <1>0, <1>1, RetainedAdd, Zenon DEF Finite, TypeOK
  <2>4. Cardinality(pool') <= Capacity
    BY <1>0, <2>0, <2>1
  <2>5. Cardinality(Running') <= Workers
    BY <2>0, <2>2 DEF WithinLimits
  <2>6. TotalBytes(pool') <= MaxBytes
    BY <1>0, <2>3, Zenon
  <2> QED
    BY <2>1, <2>2, <2>3, <2>4, <2>5, <2>6, Zenon DEF Finite, WithinLimits, TotalBytes, Retained
<1> QED
  BY <1>2, <1>3, <1>4, <1>5, <1>6, <1>8, Zenon DEF ChainParts

-----------------------------------------------------------------------------
(* The commits. *)

\* Whatever commit moved the tip, the new one beat the old one, so a template
\* built on the old one, or on one it had beaten, is off the tip for good.
LEMMA CommitStep ==
    ASSUME Inv, NEW b \in Block, ChainWins(b, tip), tip' = b,
           NEW c \in SUBSET Tx, NEW r \in SUBSET Tx,
           update' = [stage |-> "view", at |-> b, confirmed |-> c, reclaimed |-> r],
           sent' = {}, UNCHANGED <<poolVars, task, template>>
    PROVE  Inv'
<1> USE DEF Inv
<1>1. TypeOK'
  BY Zenon DEF TypeOK, poolVars
<1>2. PoolParts'
  BY PoolPartsKept, Zenon DEF PoolParts
<1>3. Finite' /\ WithinLimits'
  BY LimitsKept, Zenon DEF Running, poolVars
<1>4. ViewIsTip' /\ UpdateOnTip'
  BY Zenon DEF ViewIsTip, UpdateOnTip
<1>5. template.step # "none" => ChainWins(b, template.parent) /\ template.parent # b
  <2>1. template.parent \in Block /\ tip \in Block
    BY Zenon DEF TypeOK
  <2> QED
    BY <2>1, WinsTransitive, WinsStrict, Zenon DEF TemplateDated
<1>6. TemplateDated'
  BY <1>5, Zenon DEF TemplateDated, ChainWins
<1>7. TemplateApplies'
  BY <1>5, Zenon DEF TemplateApplies
<1> QED
  BY <1>1, <1>2, <1>3, <1>4, <1>6, <1>7, Zenon DEF PoolParts

\* A suffix extends the tip.
LEMMA CommitSuffixStep ==
    ASSUME Inv, NEW b \in Block, CommitSuffix(b)
    PROVE  Inv'
<1>1. tip \in Block
  BY Zenon DEF Inv, TypeOK
<1>2. ChainWins(b, tip)
  BY <1>1, ExtensionWins, Zenon DEF CommitSuffix
<1>3. TxsAbove(tip, b) \in SUBSET Tx
  BY <1>1, TxsAboveTyped, Zenon
<1> QED
  BY <1>2, <1>3, CommitStep, Zenon DEF CommitSuffix, CapturedView

\* A reorganisation wins over the tip.
LEMMA CommitReorgStep ==
    ASSUME Inv, NEW f \in Block, NEW b \in Block, CommitReorg(f, b)
    PROVE  Inv'
<1>1. tip \in Block
  BY Zenon DEF Inv, TypeOK
<1>3. TxsAbove(f, b) \in SUBSET Tx /\ TxsAbove(f, tip) \in SUBSET Tx
  BY <1>1, TxsAboveTyped, Zenon
<1> QED
  BY <1>3, CommitStep, Zenon DEF CommitReorg, CapturedView

\* A snapshot extends the tip or wins over it.
LEMMA CommitSnapshotStep ==
    ASSUME Inv, NEW b \in Block, CommitSnapshot(b)
    PROVE  Inv'
<1>1. tip \in Block /\ Height[tip] \in Nat
  BY TreeFacts, Zenon DEF Inv, TypeOK
<1>2. tip # b
  BY <1>1 DEF CommitSnapshot
<1>3. ChainWins(b, tip)
  BY <1>1, <1>2, ExtensionWins, Zenon DEF CommitSnapshot
<1>4. {} \in SUBSET Tx
  BY Zenon
<1> QED
  BY <1>3, <1>4, CommitStep, Zenon DEF CommitSnapshot, CapturedView

-----------------------------------------------------------------------------
(* The pool follows. *)

\* The record of an update, field by field.
LEMMA UpdateFields ==
    ASSUME TypeOK
    PROVE  /\ update.at \in Block /\ update.confirmed \subseteq Tx /\ update.reclaimed \subseteq Tx
           /\ Idle.stage = "idle"
           /\ [update EXCEPT !.stage = "readmit"].stage = "readmit"
           /\ Idle \in [stage : {"idle", "view", "readmit"}, at : Block,
                        confirmed : SUBSET Tx, reclaimed : SUBSET Tx]
           /\ [update EXCEPT !.stage = "readmit"]
                 \in [stage : {"idle", "view", "readmit"}, at : Block,
                      confirmed : SUBSET Tx, reclaimed : SUBSET Tx]
BY TreeFacts, Zenon DEF TypeOK, Idle

\* rebuild_slot_sets reserves the slots of the entries that stay.
LEMMA RebuiltTyped ==
    ASSUME NEW left \in SUBSET Tx, RebuildSlotSets(left)
    PROVE  /\ inSlots' \subseteq Slot /\ outSlots' \subseteq Slot
           /\ \A t \in left : InputsOf(t) \subseteq inSlots' /\ Minted[t] \subseteq outSlots'
BY TxFacts, Zenon DEF RebuildSlotSets

\* on_new_block takes the view of the tip and leaves what survives it.
LEMMA OnNewBlockStep ==
    ASSUME Inv, OnNewBlock
    PROVE  Inv'
<1> USE DEF Inv
<1> DEFINE evicted == {t \in pool \ update.confirmed : ~Survives(t, update.at)}
           left == (pool \ update.confirmed) \ evicted
<1>1. /\ update.stage = "view" /\ view' = update.at
      /\ Remove(update.confirmed \cup evicted)
      /\ RebuildSlotSets(left) /\ ResetFloorIfEmpty(left)
      /\ sent' = ({"confirmed"} \X update.confirmed) \cup ({"evicted"} \X evicted)
      /\ update' = IF update.reclaimed = {} THEN Idle ELSE [update EXCEPT !.stage = "readmit"]
      /\ UNCHANGED <<tip, task, template>>
  BY Zenon DEF OnNewBlock
<1>2. ConflictFree' /\ pool' = pool \ (update.confirmed \cup evicted)
      /\ spentInputs' \subseteq Slot /\ mintedOutputs' \subseteq Slot
  BY <1>1, RemoveKeeps, Zenon
<1>3. /\ pool' = left /\ left \in SUBSET Tx /\ evicted \subseteq Tx
      /\ \A t \in left : Survives(t, update.at)
  BY <1>2, Zenon DEF TypeOK
<1> HIDE DEF evicted, left
<1>4. /\ inSlots' \subseteq Slot /\ outSlots' \subseteq Slot
      /\ \A t \in left : InputsOf(t) \subseteq inSlots' /\ Minted[t] \subseteq outSlots'
  BY <1>1, <1>3, RebuiltTyped, Zenon
<1>5. recent' \in Seq(Nat) /\ (left = {} => recent' = <<>>)
  BY <1>1 DEF ResetFloorIfEmpty, TypeOK
<1>6. /\ update'.stage # "view"
      /\ update' \in [stage : {"idle", "view", "readmit"}, at : Block,
                      confirmed : SUBSET Tx, reclaimed : SUBSET Tx]
  BY <1>1, UpdateFields, Zenon
<1>7. view' = tip /\ tip' = tip /\ view' \in Block
  BY <1>1, Zenon DEF UpdateOnTip, TypeOK
<1>8. sent' \subseteq ({"admitted", "verified", "confirmed", "evicted"} \X Tx)
  BY <1>1, <1>3, UpdateFields, Zenon
<1>9. TypeOK'
  BY <1>1, <1>2, <1>3, <1>4, <1>5, <1>6, <1>7, <1>8, Zenon DEF TypeOK
<1>10. PoolFollowsView'
  BY <1>1, <1>3, Zenon DEF PoolFollowsView, Survives
<1>11. ReservationsCover' /\ WindowDrained'
  BY <1>3, <1>4, <1>5, Zenon DEF ReservationsCover, WindowDrained
<1>12. ViewIsTip' /\ UpdateOnTip'
  BY <1>6, <1>7, Zenon DEF ViewIsTip, UpdateOnTip
<1>13. TemplateDated' /\ TemplateApplies'
  BY <1>1, <1>6, Zenon DEF TemplateDated, TemplateApplies
<1>14. Finite' /\ WithinLimits'
  BY <1>1, <1>2, LimitsKept, Zenon DEF Running
<1> QED
  BY <1>2, <1>9, <1>10, <1>11, <1>12, <1>13, <1>14, Zenon

\* readmit_after_reorg only takes entries out; the slot sets it leaves are too large.
LEMMA ReadmitStep ==
    ASSUME Inv, ReadmitAfterReorg
    PROVE  Inv'
<1> USE DEF Inv
<1>1. /\ update.stage = "readmit" /\ Remove(update.reclaimed)
      /\ ResetFloorIfEmpty(pool \ update.reclaimed)
      /\ update' = Idle /\ sent' = {}
      /\ UNCHANGED <<tip, view, inSlots, outSlots, task, template>>
  BY Zenon DEF ReadmitAfterReorg
<1>2. ConflictFree' /\ pool' = pool \ update.reclaimed
      /\ spentInputs' \subseteq Slot /\ mintedOutputs' \subseteq Slot
  BY <1>1, RemoveKeeps, Zenon
<1>3. recent' \in Seq(Nat) /\ (pool' = {} => recent' = <<>>)
  BY <1>1, <1>2 DEF ResetFloorIfEmpty, TypeOK
<1>4. /\ update'.stage = "idle"
      /\ update' \in [stage : {"idle", "view", "readmit"}, at : Block,
                      confirmed : SUBSET Tx, reclaimed : SUBSET Tx]
  BY <1>1, UpdateFields, Zenon
<1>5. TypeOK'
  BY <1>1, <1>2, <1>3, <1>4, Zenon DEF TypeOK
<1>6. PoolFollowsView' /\ ReservationsCover' /\ WindowDrained'
  BY <1>1, <1>2, <1>3, Zenon DEF PoolFollowsView, ReservationsCover, WindowDrained, Survives
<1>7. ViewIsTip' /\ UpdateOnTip'
  BY <1>1, <1>4, Zenon DEF ViewIsTip, UpdateOnTip
<1>8. TemplateDated' /\ TemplateApplies'
  BY <1>1, <1>4, Zenon DEF TemplateDated, TemplateApplies
<1>9. Finite' /\ WithinLimits'
  BY <1>1, <1>2, LimitsKept, Zenon DEF Running
<1> QED
  BY <1>2, <1>5, <1>6, <1>7, <1>8, <1>9, Zenon

-----------------------------------------------------------------------------
(* The template builder. *)

\* The capture under the gate sees the tip and a pool that holds its view.
LEMMA CaptureStep ==
    ASSUME Inv, CaptureTemplate
    PROVE  Inv'
<1> USE DEF Inv
<1>1. /\ update.stage = "idle" /\ sent' = {}
      /\ template' = [step |-> "captured", parent |-> tip, picked |-> {}]
      /\ UNCHANGED <<chainVars, poolVars, task>>
  BY Zenon DEF CaptureTemplate
<1>2. TypeOK'
  BY <1>1, Zenon DEF TypeOK, chainVars, poolVars
<1>3. PoolParts'
  BY <1>1, PoolPartsKept, Zenon DEF PoolParts
<1>4. Finite' /\ WithinLimits'
  BY <1>1, LimitsKept, Zenon DEF Running, poolVars
<1>5. ChainParts'
  BY <1>1, Zenon
     DEF ChainParts, chainVars, poolVars, ViewIsTip, UpdateOnTip, TemplateDated,
         TemplateApplies
<1> QED
  BY <1>2, <1>3, <1>4, <1>5, Zenon DEF PoolParts, ChainParts

\* The sweep only takes entries out.
LEMMA EvictStep ==
    ASSUME Inv, EvictUnminable
    PROVE  Inv'
<1> USE DEF Inv
<1> DEFINE evicted == {t \in pool : ~PlainAt(t, Height[template.parent] + 1)}
<1>1. /\ template.step = "captured" /\ template' = [template EXCEPT !.step = "swept"]
      /\ UNCHANGED <<chainVars, view, task>>
  BY Zenon DEF EvictUnminable, poolVars
<1>2. ChainParts'
  BY <1>1, Zenon
     DEF ChainParts, chainVars, TypeOK, ViewIsTip, UpdateOnTip, TemplateDated, TemplateApplies
<1>3. CASE evicted = {}
  <2>1. sent' = {} /\ UNCHANGED poolVars
    BY <1>3, Zenon DEF EvictUnminable
  <2>2. TypeOK'
    BY <1>1, <2>1, Zenon DEF TypeOK, chainVars, poolVars
  <2>3. PoolParts'
    BY <2>1, PoolPartsKept, Zenon DEF PoolParts
  <2>4. Finite' /\ WithinLimits'
    BY <1>1, <2>1, LimitsKept, Zenon DEF Running, poolVars
  <2> QED
    BY <1>2, <2>2, <2>3, <2>4, Zenon DEF PoolParts, ChainParts
<1>4. CASE evicted # {}
  <2>1. /\ Remove(evicted) /\ RebuildSlotSets(pool \ evicted)
        /\ ResetFloorIfEmpty(pool \ evicted) /\ sent' = {"evicted"} \X evicted
    BY <1>4, Zenon DEF EvictUnminable
  <2>2. pool \ evicted \in SUBSET Tx /\ evicted \subseteq Tx
    BY Zenon DEF TypeOK
  <2> HIDE DEF evicted
  <2>3. ConflictFree' /\ pool' = pool \ evicted
        /\ spentInputs' \subseteq Slot /\ mintedOutputs' \subseteq Slot
    BY <2>1, RemoveKeeps, Zenon
  <2>4. /\ inSlots' \subseteq Slot /\ outSlots' \subseteq Slot
        /\ \A t \in pool' : InputsOf(t) \subseteq inSlots' /\ Minted[t] \subseteq outSlots'
    BY <2>1, <2>2, <2>3, RebuiltTyped, Zenon
  <2>5. recent' \in Seq(Nat) /\ (pool' = {} => recent' = <<>>)
    BY <2>1, <2>3 DEF ResetFloorIfEmpty, TypeOK
  <2>6. sent' \subseteq ({"admitted", "verified", "confirmed", "evicted"} \X Tx)
    BY <2>1, <2>2, Zenon
  <2>7. TypeOK'
    BY <1>1, <2>2, <2>3, <2>4, <2>5, <2>6, Zenon DEF TypeOK, chainVars
  <2>8. PoolFollowsView' /\ ReservationsCover' /\ WindowDrained'
    BY <1>1, <2>3, <2>4, <2>5, Zenon DEF PoolFollowsView, ReservationsCover, WindowDrained, Survives
  <2>9. Finite' /\ WithinLimits'
    BY <1>1, <2>3, LimitsKept, Zenon DEF Running
  <2> QED
    BY <1>2, <2>3, <2>7, <2>8, <2>9, Zenon DEF ChainParts
<1> QED
  BY <1>3, <1>4, Zenon

\* The pool that is read holds the view of the parent, if that is the tip.
LEMMA SelectStep ==
    ASSUME Inv, SelectForBlock
    PROVE  Inv'
<1> USE DEF Inv
<1> DEFINE picked == {t \in pool : /\ AnchorAccepted(t, template.parent)
                                   /\ PlainAt(t, Height[template.parent] + 1)}
<1>1. /\ template.step = "swept" /\ sent' = {}
      /\ template' = [template EXCEPT !.step = "built", !.picked = picked]
      /\ UNCHANGED <<chainVars, poolVars, task>>
  BY Zenon DEF SelectForBlock
<1>2. picked \subseteq pool
  BY Zenon
<1> HIDE DEF picked
<1>3. template'.step = "built" /\ template'.parent = template.parent /\ template'.picked = picked
  BY <1>1, Zenon DEF TypeOK
<1>4. TypeOK'
  BY <1>1, <1>2, Zenon DEF TypeOK, chainVars, poolVars
<1>5. PoolParts'
  BY <1>1, PoolPartsKept, Zenon DEF PoolParts
<1>6. Finite' /\ WithinLimits'
  BY <1>1, LimitsKept, Zenon DEF Running, poolVars
<1>7. ViewIsTip' /\ UpdateOnTip' /\ TemplateDated'
  BY <1>1, <1>3, Zenon DEF chainVars, poolVars, ViewIsTip, UpdateOnTip, TemplateDated
<1>8. TemplateApplies'
  <2> SUFFICES ASSUME template.parent = tip
               PROVE  /\ \A t \in picked : InputsLive(t, tip) /\ OutputsEmpty(t, tip)
                      /\ \A t, u \in picked : t # u => SlotsOf(t) \cap SlotsOf(u) = {}
    BY <1>1, <1>3, Zenon DEF TemplateApplies, chainVars, InputsLive, OutputsEmpty
  <2>1. view = tip
    BY <1>1, Zenon DEF TemplateDated, ViewIsTip
  <2> QED
    BY <1>2, <2>1, Zenon DEF PoolFollowsView, Survives, ConflictFree
<1> QED
  BY <1>4, <1>5, <1>6, <1>7, <1>8, Zenon DEF PoolParts

-----------------------------------------------------------------------------
(* The invariant. *)

\* The invariant holds at the start.
LEMMA InvInit == Init => Inv
<1> SUFFICES ASSUME Init PROVE Inv
  BY Zenon
<1> USE DEF Init
<1>1. TypeOK
  <2>1. tip \in Block /\ view \in Block
    BY TreeFacts, Zenon
  <2>2. update \in [stage : {"idle", "view", "readmit"}, at : Block,
                   confirmed : SUBSET Tx, reclaimed : SUBSET Tx]
    BY TreeFacts DEF Idle
  <2>3. template \in [step : {"none", "captured", "swept", "built"},
                     parent : Block, picked : SUBSET Tx]
    BY TreeFacts DEF NoTemplate
  <2>4. /\ task \in [Task -> [step : {"idle", "waiting", "running", "verified"},
                             tx : Tx \cup {NoTx}]]
        /\ \A k \in Task : task[k].step # "idle" => task[k].tx \in Tx
    BY Zenon DEF IdleTask
  <2>5. recent \in Seq(Nat)
    OBVIOUS
  <2> QED
    BY <2>1, <2>2, <2>3, <2>4, <2>5, Zenon DEF TypeOK
<1>2. Running = {} /\ Retained(pool) = {} /\ pool = {}
  BY Zenon DEF Running, IdleTask, Retained
<1>3. Finite /\ WithinLimits
  <2>1. IsFiniteSet({}) /\ Cardinality({}) = 0
    BY FS_EmptySet, Zenon
  <2>2. Capacity >= 0 /\ MaxBytes >= 0 /\ Workers >= 0
    BY PoolConstants DEF PoolConstants
  <2>3. Cardinality(pool) = 0 /\ Cardinality(Retained(pool)) = 0 /\ Cardinality(Running) = 0
    BY <1>2, <2>1, Zenon
  <2>4. WithinLimits
    BY <2>2, <2>3, Zenon DEF WithinLimits, TotalBytes
  <2>5. Finite
    BY <1>2, <2>1, Zenon DEF Finite
  <2> QED
    BY <2>4, <2>5, Zenon
<1>4. ConflictFree /\ PoolFollowsView /\ ReservationsCover /\ WindowDrained
  BY Zenon DEF ConflictFree, PoolFollowsView, ReservationsCover, WindowDrained
<1>5. ViewIsTip /\ UpdateOnTip /\ TemplateDated /\ TemplateApplies
  BY Zenon DEF ViewIsTip, UpdateOnTip, TemplateDated, TemplateApplies, Idle, NoTemplate
<1> QED
  BY <1>1, <1>3, <1>4, <1>5, Zenon DEF Inv

\* A step that changes nothing keeps it.
LEMMA InvStutter == ASSUME Inv, UNCHANGED vars PROVE Inv'
<1> USE DEF Inv
<1>1. TypeOK'
  BY Zenon DEF TypeOK, vars, chainVars, poolVars
<1>2. PoolParts' /\ ChainParts'
  BY PoolPartsKept, ChainPartsKept, Zenon DEF PoolParts, ChainParts, vars, poolVars
<1>3. Finite' /\ WithinLimits'
  BY LimitsKept, Zenon DEF Running, vars, poolVars
<1> QED
  BY <1>1, <1>2, <1>3, Zenon DEF PoolParts, ChainParts

\* Every step keeps it.
LEMMA InvStep == Inv /\ [Next]_vars => Inv'
<1> SUFFICES ASSUME Inv, [Next]_vars PROVE Inv'
  BY Zenon
<1>1. ASSUME NEW k \in Task, NEW t \in Tx, SubmitPrefilter(k, t) PROVE Inv'
  BY <1>1, PrefilterStep, Zenon
<1>2. ASSUME NEW k \in Task, Submitting(k) PROVE Inv'
  BY <1>2, AcquireStep, VerifyStep, AdmitStep, RefuseStep, Zenon DEF Submitting
<1>3. ASSUME NEW b \in Block, CommitSuffix(b) \/ CommitSnapshot(b) PROVE Inv'
  BY <1>3, CommitSuffixStep, CommitSnapshotStep, Zenon
<1>4. ASSUME NEW f \in Block, NEW b \in Block, CommitReorg(f, b) PROVE Inv'
  BY <1>4, CommitReorgStep, Zenon
<1>5. CASE Following
  BY <1>5, OnNewBlockStep, ReadmitStep, Zenon DEF Following
<1>6. CASE CaptureTemplate \/ EvictUnminable \/ SelectForBlock
  BY <1>6, CaptureStep, EvictStep, SelectStep, Zenon
<1>7. CASE UNCHANGED vars
  BY <1>7, InvStutter, Zenon
<1> QED
  BY <1>1, <1>2, <1>3, <1>4, <1>5, <1>6, <1>7, Zenon DEF Next

\* So it always holds.
LEMMA InvHolds == Spec => []Inv
BY InvInit, InvStep, PTL DEF Spec

-----------------------------------------------------------------------------
(* The results. *)

\* The pool is sound whatever submissions, commits and evictions interleave:
\* no two entries share a slot and the indexes name exactly their slots, every
\* entry could be mined on the view, which is the tip outside the gate, the
\* limits hold, and a drained pool asks for the base fee (AsyncMempool).
THEOREM PoolAlwaysSound == Spec => []PoolSound
<1>1. Inv => PoolSound
  BY Zenon DEF Inv, PoolSound, IdlePoolHasBaseFloor, WindowDrained, Floor
<1> QED
  BY <1>1, InvHolds, PTL

\* A built template whose parent is still the tip applies on it, although the
\* pool is read after the operation gate was released (build_template).
THEOREM TemplateAlwaysApplies == Spec => []TemplateApplies
<1>1. Inv => TemplateApplies
  BY Zenon DEF Inv
<1> QED
  BY <1>1, InvHolds, PTL

\* No step takes a transaction out of the pool without reporting it, except
\* readmit_after_reorg, which takes out exactly the reclaimed ones.
THEOREM DeparturesAlwaysAnnounced == Spec => DeparturesAnnounced
<1> DEFINE Announced == \A t \in pool \ pool' :
                            \/ \E kind \in {"confirmed", "evicted"} : <<kind, t>> \in sent'
                            \/ update.stage = "readmit" /\ t \in update.reclaimed
<1>1. Next => Announced
  <2> SUFFICES ASSUME Next, NEW t \in pool, t \notin pool'
               PROVE  \/ \E kind \in {"confirmed", "evicted"} : <<kind, t>> \in sent'
                      \/ update.stage = "readmit" /\ t \in update.reclaimed
    BY Zenon
  <2>1. OnNewBlock \/ ReadmitAfterReorg \/ EvictUnminable
    BY Zenon DEF Next, Submitting, Following, SubmitPrefilter, AcquirePermit, VerifyAuthorization,
           SubmitAdmit, SubmitRefuse, CommitSuffix, CommitSnapshot, CommitReorg,
           CaptureTemplate, SelectForBlock, poolVars
  <2>2. CASE OnNewBlock
    <3>1. <<"confirmed", t>> \in sent' \/ <<"evicted", t>> \in sent'
      BY <2>2, Zenon DEF OnNewBlock, Remove
    <3> QED
      BY <3>1, Zenon
  <2>3. CASE ReadmitAfterReorg
    BY <2>3, Zenon DEF ReadmitAfterReorg, Remove
  <2>4. CASE EvictUnminable
    <3>1. <<"evicted", t>> \in sent'
      BY <2>4, Zenon DEF EvictUnminable, Remove, poolVars
    <3> QED
      BY <3>1, Zenon
  <2> QED
    BY <2>1, <2>2, <2>3, <2>4, Zenon
<1>2. [Next]_vars => [Announced]_vars
  BY <1>1, Zenon
<1> QED
  BY <1>2, PTL DEF Spec, DeparturesAnnounced
=============================================================================
