------------------------- MODULE BlockMinerProofs -------------------------
(***************************************************************************)
(* The miner joins its workers and searches with authority, whatever the   *)
(* number of tips and of events.                                           *)
(***************************************************************************)
EXTENDS BlockMiner, TLAPS

\* The places behind the gate where the watches were seen ready, and those
\* where a change of them waits to be seen.
Admitted ==
    ~lapsed =>
        /\ pc \in {"gateTip", "gateChange", "begin"} => proofReady
        /\ pc \in {"recheck", "begin"} => nonceReady
        /\ pc \in {"reset", "check", "pow"} =>
               (proofReady \/ proofEdge) /\ (nonceReady \/ nonceEdge)

\* The watches and the flags are booleans.
Flags ==
    {changes, proofReady, proofEdge, nonceReady, nonceEdge, pool, cancel, lapsed} \subseteq BOOLEAN

\* Every variable keeps its type.
LEMMA TypeCorrect == Spec => []TypeOK
<1>1. Init => TypeOK
  <2> SUFFICES ASSUME Init PROVE TypeOK
    OBVIOUS
  <2>1. Flags
    BY Zenon DEF Init, Flags
  <2> QED
    BY <2>1 DEF Init, TypeOK, Flags, Places
<1>2. TypeOK /\ [Next]_vars => TypeOK'
  <2> SUFFICES ASSUME TypeOK, [Next]_vars PROVE TypeOK'
    OBVIOUS
  <2>1. CASE SwitchAddress
    BY <2>1 DEF TypeOK, Places, SwitchAddress, Event, signals, chain, network, mempool,
       workers
  <2>2. CASE FlipProof
    BY <2>2 DEF TypeOK, Places, FlipProof, Event, signals, chain, network, mempool, workers
  <2>3. CASE FlipNonce
    BY <2>3 DEF TypeOK, Places, FlipNonce, Event, signals, chain, network, mempool, workers
  <2>4. CASE Admit
    BY <2>4 DEF TypeOK, Places, Admit, Event, signals, chain, network, mempool, workers
  <2>5. CASE SetStopped
    BY <2>5 DEF TypeOK, Places, SetStopped, signals, chain, network, mempool, workers
  <2>6. CASE SetCancel
    BY <2>6 DEF TypeOK, Places, SetCancel, signals, chain, network, mempool, workers
  <2>7. CASE Prepare
    BY <2>7 DEF TypeOK, Places, Prepare, Event, signals, chain, network, mempool, workers
  <2>8. CASE FindNonce
    BY <2>8 DEF TypeOK, Places, FindNonce, signals, chain, network, mempool, workers
  <2>9. CASE GiveUp
    BY <2>9 DEF TypeOK, Places, GiveUp, signals, chain, network, mempool, workers
  <2>10. CASE Preempted
    BY <2>10 DEF TypeOK, Places, Preempted, Event, signals, chain, network, mempool, workers
  <2>11. CASE Heartbeat
    BY <2>11 DEF TypeOK, Places, Heartbeat, Interrupt, Go, signals, chain, network,
       mempool, workers
  <2>12. CASE Top
    BY <2>12 DEF TypeOK, Places, Top, Go, Quiet, signals, chain, network, mempool, workers
  <2>13. CASE Wait
    <3>1. Flags'
      BY <2>13, Zenon DEF TypeOK, Flags, Wait, Quiet, signals, network, mempool
    <3> QED
      BY <2>13, <3>1, Zenon DEF TypeOK, Flags, Places, Wait, Go, Quiet, signals, chain,
         network, mempool, workers
  <2>14. CASE Drain
    <3>1. Flags'
      BY <2>14, Zenon DEF TypeOK, Flags, Drain, signals, network, mempool
    <3> QED
      BY <2>14, <3>1 DEF TypeOK, Flags, Places, Drain, Go, signals, chain, network,
         mempool, workers
  <2>15. CASE Capture
    BY <2>15 DEF TypeOK, Places, Capture, Go, signals, chain, network, mempool, workers
  <2>16. CASE Build
    BY <2>16 DEF TypeOK, Places, Build, Go, Event, signals, chain, network, mempool, workers
  <2>17. CASE Prepared
    BY <2>17 DEF TypeOK, Places, Prepared, Go, signals, chain, network, mempool, workers
  <2>18. CASE PrepareChange
    <3>1. Flags'
      BY <2>18, Zenon DEF TypeOK, Flags, PrepareChange, signals, network, mempool
    <3> QED
      BY <2>18, <3>1 DEF TypeOK, Flags, Places, PrepareChange, Go, signals, chain, network,
         mempool, workers
  <2>19. CASE PrepareProof
    <3>1. Flags'
      BY <2>19, Zenon DEF TypeOK, Flags, PrepareProof, signals, network, mempool
    <3> QED
      BY <2>19, <3>1 DEF TypeOK, Flags, Places, PrepareProof, Go, signals, chain, network,
         mempool, workers
  <2>20. CASE PrepareStop
    BY <2>20 DEF TypeOK, Places, PrepareStop, Go, Quiet, signals, chain, network, mempool,
       workers
  <2>21. CASE JoinPrepare
    BY <2>21 DEF TypeOK, Places, JoinPrepare, Go, signals, chain, network, mempool, workers
  <2>22. CASE CheckPrepared
    BY <2>22 DEF TypeOK, Places, CheckPrepared, Go, Quiet, signals, chain, network,
       mempool, workers
  <2>23. CASE Gate
    <3>1. Flags'
      BY <2>23, Zenon DEF TypeOK, Flags, Gate, signals, network, mempool
    <3> QED
      BY <2>23, <3>1 DEF TypeOK, Flags, Places, Gate, Go, signals, chain, network, mempool,
         workers
  <2>24. CASE GateTip
    BY <2>24 DEF TypeOK, Places, GateTip, Go, Quiet, signals, chain, network, mempool,
       workers
  <2>25. CASE GateChange
    <3>1. Flags'
      BY <2>25, Zenon DEF TypeOK, Flags, GateChange, signals, network, mempool
    <3> QED
      BY <2>25, <3>1 DEF TypeOK, Flags, Places, GateChange, Go, signals, chain, network,
         mempool, workers
  <2>26. CASE AwaitStop
    BY <2>26 DEF TypeOK, Places, AwaitStop, Go, Quiet, signals, chain, network, mempool,
       workers
  <2>27. CASE AwaitNonce
    <3>1. Flags'
      BY <2>27, Zenon DEF TypeOK, Flags, AwaitNonce, signals, network, mempool
    <3> QED
      BY <2>27, <3>1 DEF TypeOK, Flags, Places, AwaitNonce, Go, signals, chain, network,
         mempool, workers
  <2>28. CASE AwaitProof
    <3>1. Flags'
      BY <2>28, Zenon DEF TypeOK, Flags, AwaitProof, signals, network, mempool
    <3> QED
      BY <2>28, <3>1 DEF TypeOK, Flags, Places, AwaitProof, Go, signals, chain, network,
         mempool, workers
  <2>29. CASE AwaitChange
    <3>1. Flags'
      BY <2>29, Zenon DEF TypeOK, Flags, AwaitChange, signals, network, mempool
    <3> QED
      BY <2>29, <3>1 DEF TypeOK, Flags, Places, AwaitChange, Go, signals, chain, network,
         mempool, workers
  <2>30. CASE Recheck
    BY <2>30 DEF TypeOK, Places, Recheck, Go, Quiet, signals, chain, network, mempool,
       workers
  <2>31. CASE Begin
    <3>1. Flags'
      BY <2>31, Zenon DEF TypeOK, Flags, Begin, signals, network, mempool
    <3> QED
      BY <2>31, <3>1 DEF TypeOK, Flags, Places, Begin, Go, signals, chain, network,
         mempool, workers
  <2>32. CASE Reset
    <3>1. Flags'
      BY <2>32, Zenon DEF TypeOK, Flags, Reset, signals, network, mempool
    <3> QED
      BY <2>32, <3>1 DEF TypeOK, Flags, Places, Reset, Go, signals, chain, network,
         mempool, workers
  <2>33. CASE Start
    <3>1. Flags'
      BY <2>33, Zenon DEF TypeOK, Flags, Start, signals, network, mempool
    <3> QED
      BY <2>33, <3>1 DEF TypeOK, Flags, Places, Start, Go, signals, chain, network,
         mempool, workers
  <2>34. CASE PowEnds
    BY <2>34 DEF TypeOK, Places, PowEnds, Go, signals, chain, network, mempool, workers
  <2>35. CASE PowRefresh
    BY <2>35 DEF TypeOK, Places, PowRefresh, Go, Interrupt, signals, chain, network,
       mempool, workers
  <2>36. CASE PowChange
    <3>1. Flags'
      BY <2>36, Zenon DEF TypeOK, Flags, PowChange, Interrupt, signals, network, mempool
    <3> QED
      BY <2>36, <3>1 DEF TypeOK, Flags, Places, PowChange, Go, Interrupt, signals, chain,
         network, mempool, workers
  <2>37. CASE PowNonce
    <3>1. Flags'
      BY <2>37, Zenon DEF TypeOK, Flags, PowNonce, Interrupt, signals, network, mempool
    <3> QED
      BY <2>37, <3>1 DEF TypeOK, Flags, Places, PowNonce, Go, Interrupt, signals, chain,
         network, mempool, workers
  <2>38. CASE PowProof
    <3>1. Flags'
      BY <2>38, Zenon DEF TypeOK, Flags, PowProof, Interrupt, signals, network, mempool
    <3> QED
      BY <2>38, <3>1 DEF TypeOK, Flags, Places, PowProof, Go, Interrupt, signals, chain,
         network, mempool, workers
  <2>39. CASE JoinPow
    BY <2>39 DEF TypeOK, Places, JoinPow, Go, signals, chain, network, mempool, workers
  <2>40. CASE Seal
    BY <2>40 DEF TypeOK, Places, Seal, Go, Event, signals, chain, network, mempool, workers
  <2>41. CASE ApplyFoundBlock
    <3>1. Flags'
      BY <2>41, Zenon DEF TypeOK, Flags, ApplyFoundBlock, PoolShrinks, network, mempool
    <3>2. tip' \in Nat /\ payout' \in {0, 1} /\ owed' \subseteq {"local", "suffix"} /\ admits' \in Nat
      <4>1. CASE Stale
        <5>1. UNCHANGED <<tip, payout, owed, admits>>
          BY <2>41, <4>1, Zenon DEF ApplyFoundBlock, chain, mempool
        <5> QED
          BY <5>1 DEF TypeOK
      <4>2. CASE ~Stale
        <5>1. tip' = tip + 1 /\ owed' = owed \union {"local"} /\ UNCHANGED <<payout, admits>>
          BY <2>41, <4>2, Zenon DEF ApplyFoundBlock, PoolShrinks
        <5> QED
          BY <5>1 DEF TypeOK
      <4> QED
        BY <4>1, <4>2
    <3> QED
      BY <2>41, <3>1, <3>2 DEF TypeOK, Flags, Places, ApplyFoundBlock, Go, network, workers
  <2>42. CASE \E kind \in {"local", "suffix"} : CommitOther(kind)
    <3>1. Flags'
      BY <2>42, Zenon DEF TypeOK, Flags, CommitOther, PoolShrinks, network, mempool
    <3> QED
      BY <2>42, <3>1 DEF TypeOK, Flags, Places, CommitOther, PoolShrinks, chain, network,
         mempool, workers
  <2>43. CASE \E kind \in {"local", "suffix"} : Announce(kind)
    BY <2>43 DEF TypeOK, Places, Announce, signals, chain, network, mempool, workers
  <2>44. CASE UNCHANGED vars
    BY <2>44 DEF TypeOK, Places, vars, signals, chain, network, mempool, workers
  <2>q. QED
    BY <2>1, <2>2, <2>3, <2>4, <2>5, <2>6, <2>7, <2>8, <2>9, <2>10, <2>11, <2>12, <2>13,
       <2>14, <2>15, <2>16, <2>17, <2>18, <2>19, <2>20, <2>21, <2>22, <2>23, <2>24, <2>25, <2>26, <2>27, <2>28, <2>29, <2>30, <2>31, <2>32, <2>33, <2>34, <2>35, <2>36, <2>37, <2>38, <2>39, <2>40, <2>41, <2>42, <2>43, <2>44 DEF Next, NodeStep, Run
<1>3. QED
  BY <1>1, <1>2, PTL DEF Spec

\* No step leaves a worker behind: every way out of the preparation and of the
\* search awaits its handle.
LEMMA WorkersAlwaysJoined == Spec => []WorkersJoined
<1>1. Init => WorkersJoined
  BY DEF Init, WorkersJoined
<1>2. WorkersJoined /\ [Next]_vars => WorkersJoined'
  <2> SUFFICES ASSUME WorkersJoined, [Next]_vars PROVE WorkersJoined'
    OBVIOUS
  <2>1. CASE SwitchAddress
    BY <2>1 DEF WorkersJoined, SwitchAddress, Event, signals, chain, network, mempool,
       workers
  <2>2. CASE FlipProof
    BY <2>2 DEF WorkersJoined, FlipProof, Event, signals, chain, network, mempool, workers
  <2>3. CASE FlipNonce
    BY <2>3 DEF WorkersJoined, FlipNonce, Event, signals, chain, network, mempool, workers
  <2>4. CASE Admit
    BY <2>4 DEF WorkersJoined, Admit, Event, signals, chain, network, mempool, workers
  <2>5. CASE SetStopped
    BY <2>5 DEF WorkersJoined, SetStopped, signals, chain, network, mempool, workers
  <2>6. CASE SetCancel
    BY <2>6 DEF WorkersJoined, SetCancel, signals, chain, network, mempool, workers
  <2>7. CASE Prepare
    BY <2>7 DEF WorkersJoined, Prepare, Event, signals, chain, network, mempool, workers
  <2>8. CASE FindNonce
    BY <2>8 DEF WorkersJoined, FindNonce, signals, chain, network, mempool, workers
  <2>9. CASE GiveUp
    BY <2>9 DEF WorkersJoined, GiveUp, signals, chain, network, mempool, workers
  <2>10. CASE Preempted
    BY <2>10 DEF WorkersJoined, Preempted, Event, signals, chain, network, mempool, workers
  <2>11. CASE Heartbeat
    BY <2>11 DEF WorkersJoined, Heartbeat, Interrupt, Go, signals, chain, network, mempool,
       workers
  <2>12. CASE Top
    BY <2>12 DEF WorkersJoined, Top, Go, Quiet, signals, chain, network, mempool, workers
  <2>13. CASE Wait
    BY <2>13 DEF WorkersJoined, Wait, Go, Quiet, signals, chain, network, mempool, workers
  <2>14. CASE Drain
    BY <2>14 DEF WorkersJoined, Drain, Go, signals, chain, network, mempool, workers
  <2>15. CASE Capture
    BY <2>15 DEF WorkersJoined, Capture, Go, signals, chain, network, mempool, workers
  <2>16. CASE Build
    BY <2>16 DEF WorkersJoined, Build, Go, Event, signals, chain, network, mempool, workers
  <2>17. CASE Prepared
    BY <2>17 DEF WorkersJoined, Prepared, Go, signals, chain, network, mempool, workers
  <2>18. CASE PrepareChange
    BY <2>18 DEF WorkersJoined, PrepareChange, Go, signals, chain, network, mempool, workers
  <2>19. CASE PrepareProof
    BY <2>19 DEF WorkersJoined, PrepareProof, Go, signals, chain, network, mempool, workers
  <2>20. CASE PrepareStop
    BY <2>20 DEF WorkersJoined, PrepareStop, Go, Quiet, signals, chain, network, mempool,
       workers
  <2>21. CASE JoinPrepare
    BY <2>21 DEF WorkersJoined, JoinPrepare, Go, signals, chain, network, mempool, workers
  <2>22. CASE CheckPrepared
    BY <2>22 DEF WorkersJoined, CheckPrepared, Go, Quiet, signals, chain, network, mempool,
       workers
  <2>23. CASE Gate
    BY <2>23 DEF WorkersJoined, Gate, Go, signals, chain, network, mempool, workers
  <2>24. CASE GateTip
    BY <2>24 DEF WorkersJoined, GateTip, Go, Quiet, signals, chain, network, mempool,
       workers
  <2>25. CASE GateChange
    BY <2>25 DEF WorkersJoined, GateChange, Go, signals, chain, network, mempool, workers
  <2>26. CASE AwaitStop
    BY <2>26 DEF WorkersJoined, AwaitStop, Go, Quiet, signals, chain, network, mempool,
       workers
  <2>27. CASE AwaitNonce
    BY <2>27 DEF WorkersJoined, AwaitNonce, Go, signals, chain, network, mempool, workers
  <2>28. CASE AwaitProof
    BY <2>28 DEF WorkersJoined, AwaitProof, Go, signals, chain, network, mempool, workers
  <2>29. CASE AwaitChange
    BY <2>29 DEF WorkersJoined, AwaitChange, Go, signals, chain, network, mempool, workers
  <2>30. CASE Recheck
    BY <2>30 DEF WorkersJoined, Recheck, Go, Quiet, signals, chain, network, mempool,
       workers
  <2>31. CASE Begin
    BY <2>31 DEF WorkersJoined, Begin, Go, signals, chain, network, mempool, workers
  <2>32. CASE Reset
    BY <2>32 DEF WorkersJoined, Reset, Go, signals, chain, network, mempool, workers
  <2>33. CASE Start
    BY <2>33 DEF WorkersJoined, Start, Go, signals, chain, network, mempool, workers
  <2>34. CASE PowEnds
    BY <2>34 DEF WorkersJoined, PowEnds, Go, signals, chain, network, mempool, workers
  <2>35. CASE PowRefresh
    BY <2>35 DEF WorkersJoined, PowRefresh, Go, Interrupt, signals, chain, network,
       mempool, workers
  <2>36. CASE PowChange
    BY <2>36 DEF WorkersJoined, PowChange, Go, Interrupt, signals, chain, network, mempool,
       workers
  <2>37. CASE PowNonce
    BY <2>37 DEF WorkersJoined, PowNonce, Go, Interrupt, signals, chain, network, mempool,
       workers
  <2>38. CASE PowProof
    BY <2>38 DEF WorkersJoined, PowProof, Go, Interrupt, signals, chain, network, mempool,
       workers
  <2>39. CASE JoinPow
    BY <2>39 DEF WorkersJoined, JoinPow, Go, signals, chain, network, mempool, workers
  <2>40. CASE Seal
    BY <2>40 DEF WorkersJoined, Seal, Go, Event, signals, chain, network, mempool, workers
  <2>41. CASE ApplyFoundBlock
    BY <2>41 DEF WorkersJoined, ApplyFoundBlock, Go, PoolShrinks, signals, chain, network,
       mempool, workers
  <2>42. CASE \E kind \in {"local", "suffix"} : CommitOther(kind)
    BY <2>42 DEF WorkersJoined, CommitOther, PoolShrinks, signals, chain, network, mempool,
       workers
  <2>43. CASE \E kind \in {"local", "suffix"} : Announce(kind)
    BY <2>43 DEF WorkersJoined, Announce, signals, chain, network, mempool, workers
  <2>44. CASE UNCHANGED vars
    BY <2>44 DEF WorkersJoined, vars, signals, chain, network, mempool, workers
  <2>q. QED
    BY <2>1, <2>2, <2>3, <2>4, <2>5, <2>6, <2>7, <2>8, <2>9, <2>10, <2>11, <2>12, <2>13,
       <2>14, <2>15, <2>16, <2>17, <2>18, <2>19, <2>20, <2>21, <2>22, <2>23, <2>24, <2>25, <2>26, <2>27, <2>28, <2>29, <2>30, <2>31, <2>32, <2>33, <2>34, <2>35, <2>36, <2>37, <2>38, <2>39, <2>40, <2>41, <2>42, <2>43, <2>44 DEF Next, NodeStep, Run
<1>3. QED
  BY <1>1, <1>2, PTL DEF Spec

\* What the gate saw holds until the watches are marked seen, or was lost in
\* between; from then on every loss leaves an edge for the search to see.
LEMMA SearchAlwaysAuthorized == Spec => []SearchAuthorized
<1>1. Init => Admitted
  BY DEF Init, Admitted
<1>2. Admitted /\ [Next]_vars => Admitted'
  <2> SUFFICES ASSUME Admitted, [Next]_vars PROVE Admitted'
    OBVIOUS
  <2>1. CASE SwitchAddress
    BY <2>1 DEF Admitted, SwitchAddress, Event, signals, chain, network, mempool, workers
  <2>2. CASE FlipProof
    BY <2>2, Zenon DEF Admitted, FlipProof, Event, signals, chain, network, mempool, workers
  <2>3. CASE FlipNonce
    BY <2>3, Zenon DEF Admitted, FlipNonce, Event, signals, chain, network, mempool, workers
  <2>4. CASE Admit
    BY <2>4 DEF Admitted, Admit, Event, signals, chain, network, mempool, workers
  <2>5. CASE SetStopped
    BY <2>5 DEF Admitted, SetStopped, signals, chain, network, mempool, workers
  <2>6. CASE SetCancel
    BY <2>6 DEF Admitted, SetCancel, signals, chain, network, mempool, workers
  <2>7. CASE Prepare
    BY <2>7 DEF Admitted, Prepare, Event, signals, chain, network, mempool, workers
  <2>8. CASE FindNonce
    BY <2>8 DEF Admitted, FindNonce, signals, chain, network, mempool, workers
  <2>9. CASE GiveUp
    BY <2>9 DEF Admitted, GiveUp, signals, chain, network, mempool, workers
  <2>10. CASE Preempted
    BY <2>10 DEF Admitted, Preempted, Event, signals, chain, network, mempool, workers
  <2>11. CASE Heartbeat
    BY <2>11 DEF Admitted, Heartbeat, Interrupt, Go, signals, chain, network, mempool,
       workers
  <2>12. CASE Top
    BY <2>12 DEF Admitted, Top, Go, Quiet, signals, chain, network, mempool, workers
  <2>13. CASE Wait
    BY <2>13 DEF Admitted, Wait, Go, Quiet, signals, chain, network, mempool, workers
  <2>14. CASE Drain
    BY <2>14 DEF Admitted, Drain, Go, signals, chain, network, mempool, workers
  <2>15. CASE Capture
    BY <2>15 DEF Admitted, Capture, Go, signals, chain, network, mempool, workers
  <2>16. CASE Build
    BY <2>16 DEF Admitted, Build, Go, Event, signals, chain, network, mempool, workers
  <2>17. CASE Prepared
    BY <2>17 DEF Admitted, Prepared, Go, signals, chain, network, mempool, workers
  <2>18. CASE PrepareChange
    BY <2>18 DEF Admitted, PrepareChange, Go, signals, chain, network, mempool, workers
  <2>19. CASE PrepareProof
    BY <2>19 DEF Admitted, PrepareProof, Go, signals, chain, network, mempool, workers
  <2>20. CASE PrepareStop
    BY <2>20 DEF Admitted, PrepareStop, Go, Quiet, signals, chain, network, mempool, workers
  <2>21. CASE JoinPrepare
    BY <2>21 DEF Admitted, JoinPrepare, Go, signals, chain, network, mempool, workers
  <2>22. CASE CheckPrepared
    BY <2>22 DEF Admitted, CheckPrepared, Go, Quiet, signals, chain, network, mempool,
       workers
  <2>23. CASE Gate
    BY <2>23 DEF Admitted, Gate, Go, signals, chain, network, mempool, workers
  <2>24. CASE GateTip
    BY <2>24 DEF Admitted, GateTip, Go, Quiet, signals, chain, network, mempool, workers
  <2>25. CASE GateChange
    BY <2>25 DEF Admitted, GateChange, Go, signals, chain, network, mempool, workers
  <2>26. CASE AwaitStop
    BY <2>26 DEF Admitted, AwaitStop, Go, Quiet, signals, chain, network, mempool, workers
  <2>27. CASE AwaitNonce
    BY <2>27 DEF Admitted, AwaitNonce, Go, signals, chain, network, mempool, workers
  <2>28. CASE AwaitProof
    BY <2>28 DEF Admitted, AwaitProof, Go, signals, chain, network, mempool, workers
  <2>29. CASE AwaitChange
    BY <2>29 DEF Admitted, AwaitChange, Go, signals, chain, network, mempool, workers
  <2>30. CASE Recheck
    BY <2>30 DEF Admitted, Recheck, Go, Quiet, signals, chain, network, mempool, workers
  <2>31. CASE Begin
    BY <2>31 DEF Admitted, Begin, Go, signals, chain, network, mempool, workers
  <2>32. CASE Reset
    BY <2>32 DEF Admitted, Reset, Go, signals, chain, network, mempool, workers
  <2>33. CASE Start
    BY <2>33 DEF Admitted, Start, Go, signals, chain, network, mempool, workers
  <2>34. CASE PowEnds
    BY <2>34 DEF Admitted, PowEnds, Go, signals, chain, network, mempool, workers
  <2>35. CASE PowRefresh
    BY <2>35 DEF Admitted, PowRefresh, Go, Interrupt, signals, chain, network, mempool,
       workers
  <2>36. CASE PowChange
    BY <2>36 DEF Admitted, PowChange, Go, Interrupt, signals, chain, network, mempool,
       workers
  <2>37. CASE PowNonce
    BY <2>37 DEF Admitted, PowNonce, Go, Interrupt, signals, chain, network, mempool,
       workers
  <2>38. CASE PowProof
    BY <2>38 DEF Admitted, PowProof, Go, Interrupt, signals, chain, network, mempool,
       workers
  <2>39. CASE JoinPow
    BY <2>39 DEF Admitted, JoinPow, Go, signals, chain, network, mempool, workers
  <2>40. CASE Seal
    BY <2>40 DEF Admitted, Seal, Go, Event, signals, chain, network, mempool, workers
  <2>41. CASE ApplyFoundBlock
    BY <2>41 DEF Admitted, ApplyFoundBlock, Go, PoolShrinks, signals, chain, network,
       mempool, workers
  <2>42. CASE \E kind \in {"local", "suffix"} : CommitOther(kind)
    BY <2>42 DEF Admitted, CommitOther, PoolShrinks, signals, chain, network, mempool,
       workers
  <2>43. CASE \E kind \in {"local", "suffix"} : Announce(kind)
    BY <2>43 DEF Admitted, Announce, signals, chain, network, mempool, workers
  <2>44. CASE UNCHANGED vars
    BY <2>44 DEF Admitted, vars, signals, chain, network, mempool, workers
  <2>q. QED
    BY <2>1, <2>2, <2>3, <2>4, <2>5, <2>6, <2>7, <2>8, <2>9, <2>10, <2>11, <2>12, <2>13,
       <2>14, <2>15, <2>16, <2>17, <2>18, <2>19, <2>20, <2>21, <2>22, <2>23, <2>24, <2>25, <2>26, <2>27, <2>28, <2>29, <2>30, <2>31, <2>32, <2>33, <2>34, <2>35, <2>36, <2>37, <2>38, <2>39, <2>40, <2>41, <2>42, <2>43, <2>44 DEF Next, NodeStep, Run
<1>3. Admitted => SearchAuthorized
  BY DEF Admitted, SearchAuthorized, Searching
<1>4. QED
  BY <1>1, <1>2, <1>3, PTL DEF Spec

\* For any number of tips and events, no worker outlives its branch and a nonce
\* is searched only with authority, or with its loss still to be seen.
THEOREM SearchAlwaysSound == Spec => []SearchSound
<1>1. TypeOK /\ WorkersJoined /\ SearchAuthorized => SearchSound
  BY DEF SearchSound
<1> QED
  BY <1>1, TypeCorrect, WorkersAlwaysJoined, SearchAlwaysAuthorized, PTL
=============================================================================
