-------------------------- MODULE EvacuationProofs --------------------------
(* Proofs about Evacuation, for any workers, jobs and number of lost passes. *)
EXTENDS Evacuation, TLAPS

\* Every step of the pass, of Slurm, of the kubelet and of the watch keeps the
\* type of every variable.
LEMMA TypeStep ==
    ASSUME TypeOK, [Next]_vars
    PROVE  TypeOK'
<1> USE EvacuationAssumption
      DEF TypeOK, RecoveryState, Phases, EvacuationPhases, Pass, Points, Idle, SlurmNodes,
          Registered, slurm, kube, app, hist, At, EndPass, SetPhase, Visited, Drained
<1>1. CASE DiscoverWorkers
  BY <1>1, Zenon DEF DiscoverWorkers
<1>2. CASE FetchNodes
  BY <1>2, Zenon DEF FetchNodes
<1>3. CASE FetchJobs
  BY <1>3, Zenon DEF FetchJobs
<1>4. CASE EnterDraining
  BY <1>4 DEF EnterDraining
<1>5. CASE BeginSignals
  BY <1>5, Zenon DEF BeginSignals
<1>6. CASE SignalsComplete
  BY <1>6 DEF SignalsComplete
<1>7. CASE BeginRequeues
  BY <1>7, Zenon DEF BeginRequeues
<1>8. CASE RequeuesComplete
  <2>1. CASE SetPhase("Requeued")
    BY <1>8, <2>1 DEF RequeuesComplete
  <2>2. CASE EndPass /\ UNCHANGED st
    BY <1>8, <2>2 DEF RequeuesComplete
  <2>3. QED
    BY <1>8, <2>1, <2>2 DEF RequeuesComplete
<1>9. CASE AwaitEvacuation
  BY <1>9 DEF AwaitEvacuation
<1>10. CASE BeginCleanup
  BY <1>10 DEF BeginCleanup
<1>11. CASE NodesDeleted
  BY <1>11, Zenon DEF NodesDeleted
<1>12. CASE CleanupComplete
  <2>1. CASE SetPhase("RebootRequested")
    BY <1>12, <2>1 DEF CleanupComplete
  <2>2. CASE EndPass /\ UNCHANGED st
    BY <1>12, <2>2 DEF CleanupComplete
  <2>3. QED
    BY <1>12, <2>1, <2>2 DEF CleanupComplete
<1>13. CASE Refused
  BY <1>13 DEF Refused
<1>14. CASE AbandonPass
  BY <1>14, SMTT(60) DEF AbandonPass
<1>15. ASSUME NEW j \in Jobs, PassOverSignal(j) PROVE TypeOK'
  BY <1>15, SMTT(60) DEF PassOverSignal
<1>16. ASSUME NEW j \in Jobs, RequestSignal(j) PROVE TypeOK'
  BY <1>16, SMTT(60) DEF RequestSignal
<1>17. ASSUME NEW j \in Jobs, SignalJob(j) PROVE TypeOK'
  BY <1>17, SMTT(60) DEF SignalJob
<1>18. ASSUME NEW j \in Jobs, RecordSignal(j) PROVE TypeOK'
  BY <1>18, Zenon DEF RecordSignal
<1>19. ASSUME NEW j \in Jobs, PassOverEvacuated(j) PROVE TypeOK'
  BY <1>19, Zenon DEF PassOverEvacuated
<1>20. ASSUME NEW j \in Jobs, StopAtUnsignalled(j) PROVE TypeOK'
  BY <1>20 DEF StopAtUnsignalled
<1>21. ASSUME NEW j \in Jobs, ObserveCheckpoint(j) PROVE TypeOK'
  BY <1>21, Zenon DEF ObserveCheckpoint
<1>22. ASSUME NEW j \in Jobs, WaitForJob(j) PROVE TypeOK'
  BY <1>22, Zenon DEF WaitForJob
<1>23. ASSUME NEW j \in Jobs, RequestRequeue(j) PROVE TypeOK'
  BY <1>23, Zenon DEF RequestRequeue
<1>24. ASSUME NEW j \in Jobs, RequeueJob(j) PROVE TypeOK'
  BY <1>24, SMTT(60) DEF RequeueJob
<1>25. ASSUME NEW j \in Jobs, RecordRequeue(j) PROVE TypeOK'
  BY <1>25, Zenon DEF RecordRequeue
<1>26. ASSUME NEW j \in Jobs, FinishJob(j) PROVE TypeOK'
  BY <1>26 DEF FinishJob
<1>27. ASSUME NEW j \in Jobs, ForeignRequeue(j) PROVE TypeOK'
  BY <1>27 DEF ForeignRequeue
<1>28. ASSUME NEW j \in Jobs, ReleaseNodes(j) PROVE TypeOK'
  BY <1>28 DEF ReleaseNodes
<1>29. ASSUME NEW j \in Jobs, CommitCheckpoint(j) PROVE TypeOK'
  BY <1>29 DEF CommitCheckpoint
<1>30. ASSUME NEW j \in Jobs, GraceExpires(j) PROVE TypeOK'
  BY <1>30 DEF GraceExpires
<1>31. ASSUME NEW j \in Jobs, NEW nodes \in SUBSET SlurmNodes, StartJob(j, nodes)
      PROVE  TypeOK'
  BY <1>31 DEF StartJob
<1>32. ASSUME NEW w \in Workers, DrainWorker(w) PROVE TypeOK'
  BY <1>32 DEF DrainWorker
<1>33. ASSUME NEW w \in Workers, DeleteNode(w) PROVE TypeOK'
  BY <1>33 DEF DeleteNode
<1>34. ASSUME NEW w \in Workers, DeletePod(w) PROVE TypeOK'
  BY <1>34, Zenon DEF DeletePod
<1>35. ASSUME NEW w \in Workers, DeleteClaim(w) PROVE TypeOK'
  BY <1>35, Zenon DEF DeleteClaim
<1>36. ASSUME NEW w \in Workers, Bind(w) PROVE TypeOK'
  BY <1>36 DEF Bind
<1>37. ASSUME NEW w \in Workers, ObservePod(w) PROVE TypeOK'
  BY <1>37 DEF ObservePod
<1>38. ASSUME NEW w \in Workers, PodGone(w) PROVE TypeOK'
  BY <1>38 DEF PodGone
<1>39. ASSUME NEW w \in Workers, RegisterNode(w) PROVE TypeOK'
  BY <1>39 DEF RegisterNode
<1>40. CASE UNCHANGED vars
  BY <1>40 DEF vars
<1>41. QED
  BY <1>1, <1>2, <1>3, <1>4, <1>5, <1>6, <1>7, <1>8, <1>9, <1>10, <1>11, <1>12,
     <1>13, <1>14, <1>15, <1>16, <1>17, <1>18, <1>19, <1>20, <1>21, <1>22, <1>23, <1>24,
     <1>25, <1>26, <1>27, <1>28, <1>29, <1>30, <1>31, <1>32, <1>33, <1>34, <1>35, <1>36,
     <1>37, <1>38, <1>39, <1>40, Zenon
  DEF Next, Operator, PhaseStep, SignalStep, RequeueStep, WorkerStep, Environment, PodStep, JobStep

\* TypeOK holds throughout: the pass never writes a state it could not load.
THEOREM TypeCorrect == Spec => []TypeOK
<1>1. Init => TypeOK
  BY EvacuationAssumption, SMTT(60)
  DEF Init, TypeOK, RecoveryState, Phases, EvacuationPhases, Pass, Points, Idle, SlurmNodes, Registered
<1>2. TypeOK /\ [Next]_vars => TypeOK'
  BY TypeStep
<1>3. QED
  BY <1>1, <1>2, PTL DEF Spec

-----------------------------------------------------------------------------
(* The reboot barrier *)

\* The node half of the snapshot: it misses no registered recorded worker.
LEMMA FetchNodesEffect ==
    ASSUME TypeOK, FetchNodes
    PROVE  /\ op.pc = "nodes" /\ op'.pc = "jobs"
           /\ op'.undrained \subseteq op'.nodes
           /\ \A w \in st.workers : w \in Registered => w \in op'.nodes
<1>1. op \in Pass
  BY DEF TypeOK
<1>2. op.pc = "nodes" /\ op'.pc = "jobs"
  BY <1>1 DEF FetchNodes, Pass, At
<1>3. op'.nodes = IF st.workers = {} THEN {} ELSE Registered
  BY <1>1 DEF FetchNodes, Pass
<1>4. op'.undrained = IF st.workers = {} THEN {} ELSE {w \in Workers : snode[w] = "Up"}
  BY <1>1 DEF FetchNodes, Pass
<1>5. op'.undrained \subseteq op'.nodes
  BY <1>3, <1>4 DEF Registered
<1>6. QED
  BY <1>2, <1>3, <1>5

\* The job half changes neither the recorded workers nor the node half.
LEMMA FetchJobsEffect ==
    ASSUME TypeOK, FetchJobs
    PROVE  /\ st'.workers = st.workers /\ st'.phase = st.phase
           /\ op.pc = "jobs" /\ op'.pc = "drain"
           /\ op'.nodes = op.nodes /\ op'.undrained = op.undrained
<1>1. op \in Pass /\ st \in RecoveryState
  BY DEF TypeOK
<1>2. st'.workers = st.workers /\ st'.phase = st.phase
  BY <1>1 DEF FetchJobs, RecoveryState
<1>3. op.pc = "jobs" /\ op'.pc = "drain"
  BY <1>1 DEF FetchJobs, Pass, At
<1>4. op'.nodes = op.nodes /\ op'.undrained = op.undrained
  BY <1>1 DEF FetchJobs, Pass
<1>5. QED
  BY <1>2, <1>3, <1>4

\* Every step keeps the strengthened barrier.
LEMMA BarrierStep ==
    ASSUME BarrierInv, [Next]_vars
    PROVE  BarrierInv'
<1>0. TypeOK /\ TypeOK'
  BY TypeStep DEF BarrierInv
<1> USE <1>0
      DEF BarrierInv, RebootBarrier, TypeOK, RecoveryState, Phases, EvacuationPhases, Pass, Points,
          Idle, SlurmNodes, Registered, Busy, slurm, kube, app, hist, At, EndPass, SetPhase, Visited, Drained
<1>1. CASE DiscoverWorkers
  BY <1>1, ZenonT(60) DEF DiscoverWorkers
<1>2. CASE FetchNodes
  <2>1. UNCHANGED <<st, slurm, kube>>
    BY <1>2, Zenon DEF FetchNodes
  <2>2. QED
    BY <1>2, <2>1, FetchNodesEffect
<1>3. CASE FetchJobs
  <2>1. UNCHANGED <<slurm, kube>>
    BY <1>3, Zenon DEF FetchJobs
  <2>2. QED
    BY <1>3, <2>1, FetchJobsEffect
<1>4. CASE EnterDraining
  BY <1>4, SMTT(60) DEF EnterDraining
<1>5. CASE BeginSignals
  BY <1>5 DEF BeginSignals
<1>6. CASE SignalsComplete
  BY <1>6, SMTT(60) DEF SignalsComplete
<1>7. CASE BeginRequeues
  BY <1>7 DEF BeginRequeues
<1>8. CASE RequeuesComplete
  <2>1. CASE SetPhase("Requeued")
    BY <1>8, <2>1, Zenon DEF RequeuesComplete
  <2>2. CASE EndPass /\ UNCHANGED st
    BY <1>8, <2>2 DEF RequeuesComplete
  <2>3. QED
    BY <1>8, <2>1, <2>2 DEF RequeuesComplete
<1>9. CASE AwaitEvacuation
  BY <1>9 DEF AwaitEvacuation
<1>10. CASE BeginCleanup
  BY <1>10 DEF BeginCleanup
<1>11. CASE NodesDeleted
  BY <1>11, SMTT(60) DEF NodesDeleted
<1>12. CASE CleanupComplete
  <2>1. CASE SetPhase("RebootRequested")
    BY <1>12, <2>1, SMTT(60) DEF CleanupComplete
  <2>2. CASE EndPass /\ UNCHANGED st
    BY <1>12, <2>2 DEF CleanupComplete
  <2>3. QED
    BY <1>12, <2>1, <2>2 DEF CleanupComplete
<1>13. CASE Refused
  BY <1>13 DEF Refused
<1>14. CASE AbandonPass
  BY <1>14 DEF AbandonPass
<1>15. ASSUME NEW j \in Jobs, PassOverSignal(j) PROVE BarrierInv'
  BY <1>15, ZenonT(60) DEF PassOverSignal
<1>16. ASSUME NEW j \in Jobs, RequestSignal(j) PROVE BarrierInv'
  BY <1>16, ZenonT(60) DEF RequestSignal
<1>17. ASSUME NEW j \in Jobs, SignalJob(j) PROVE BarrierInv'
  BY <1>17 DEF SignalJob
<1>18. ASSUME NEW j \in Jobs, RecordSignal(j) PROVE BarrierInv'
  BY <1>18, ZenonT(60) DEF RecordSignal
<1>19. ASSUME NEW j \in Jobs, PassOverEvacuated(j) PROVE BarrierInv'
  BY <1>19, ZenonT(60) DEF PassOverEvacuated
<1>20. ASSUME NEW j \in Jobs, StopAtUnsignalled(j) PROVE BarrierInv'
  BY <1>20 DEF StopAtUnsignalled
<1>21. ASSUME NEW j \in Jobs, ObserveCheckpoint(j) PROVE BarrierInv'
  BY <1>21, ZenonT(60) DEF ObserveCheckpoint
<1>22. ASSUME NEW j \in Jobs, WaitForJob(j) PROVE BarrierInv'
  BY <1>22 DEF WaitForJob
<1>23. ASSUME NEW j \in Jobs, RequestRequeue(j) PROVE BarrierInv'
  BY <1>23, ZenonT(60) DEF RequestRequeue
<1>24. ASSUME NEW j \in Jobs, RequeueJob(j) PROVE BarrierInv'
  BY <1>24 DEF RequeueJob
<1>25. ASSUME NEW j \in Jobs, RecordRequeue(j) PROVE BarrierInv'
  BY <1>25, SMTT(60) DEF RecordRequeue
<1>26. ASSUME NEW j \in Jobs, FinishJob(j) PROVE BarrierInv'
  BY <1>26, SMTT(60) DEF FinishJob
<1>27. ASSUME NEW j \in Jobs, ForeignRequeue(j) PROVE BarrierInv'
  BY <1>27, SMTT(60) DEF ForeignRequeue
<1>28. ASSUME NEW j \in Jobs, ReleaseNodes(j) PROVE BarrierInv'
  BY <1>28, SMTT(60) DEF ReleaseNodes
<1>29. ASSUME NEW j \in Jobs, CommitCheckpoint(j) PROVE BarrierInv'
  BY <1>29, SMTT(60) DEF CommitCheckpoint
<1>30. ASSUME NEW j \in Jobs, GraceExpires(j) PROVE BarrierInv'
  BY <1>30, SMTT(60) DEF GraceExpires
<1>31. ASSUME NEW j \in Jobs, NEW nodes \in SUBSET SlurmNodes, StartJob(j, nodes)
      PROVE  BarrierInv'
  <2>1. \A i \in Jobs : jnodes'[i] \cap Workers \subseteq Registered
    BY <1>31, EvacuationAssumption, SMTT(60) DEF StartJob
  <2>2. \A w \in Workers \ Registered : ~Busy(w)'
    BY <2>1
  <2>3. UNCHANGED <<st, op, snode, kube>>
    BY <1>31 DEF StartJob
  <2>4. QED
    BY <2>1, <2>2, <2>3, SMTT(60)
<1>32. ASSUME NEW w \in Workers, DrainWorker(w) PROVE BarrierInv'
  <2>1. w \in op.nodes /\ op.pc = "drain"
    BY <1>32 DEF DrainWorker
  <2>2. Registered' \subseteq Registered \cup {w} /\ Registered \subseteq Registered'
    BY <1>32, SMTT(60) DEF DrainWorker
  <2>3. op'.pc = "drain" /\ op'.nodes = op.nodes /\ op'.undrained \subseteq op.undrained
    BY <1>32 DEF DrainWorker
  <2>4. UNCHANGED <<st, jnodes, kube>>
    BY <1>32 DEF DrainWorker
  <2>5. st.phase # "RebootRequested"
    BY <2>1
  <2>6. QED
    BY <2>1, <2>2, <2>3, <2>4, <2>5, SMTT(60)
<1>33. ASSUME NEW w \in Workers, DeleteNode(w) PROVE BarrierInv'
  <2>1. op.pc = "delete" /\ op'.pc = "delete" /\ op'.nodes = op.nodes \ {w}
    BY <1>33 DEF DeleteNode
  <2>2. Registered' = Registered \ {w}
    BY <1>33 DEF DeleteNode
  <2>3. UNCHANGED <<st, jnodes, kube>> /\ ~Busy(w)
    BY <1>33 DEF DeleteNode
  <2>4. \A j \in Jobs : jnodes'[j] \cap Workers \subseteq Registered'
    BY <2>2, <2>3, SMTT(60)
  <2>5. QED
    BY <2>1, <2>2, <2>3, <2>4
<1>34. ASSUME NEW w \in Workers, DeletePod(w) PROVE BarrierInv'
  BY <1>34, SMTT(60) DEF DeletePod
<1>35. ASSUME NEW w \in Workers, DeleteClaim(w) PROVE BarrierInv'
  BY <1>35, SMTT(60) DEF DeleteClaim
<1>36. ASSUME NEW w \in Workers, Bind(w) PROVE BarrierInv'
  BY <1>36, SMTT(60) DEF Bind
<1>37. ASSUME NEW w \in Workers, ObservePod(w) PROVE BarrierInv'
  BY <1>37, SMTT(60) DEF ObservePod
<1>38. ASSUME NEW w \in Workers, PodGone(w) PROVE BarrierInv'
  BY <1>38, SMTT(60) DEF PodGone
<1>39. ASSUME NEW w \in Workers, RegisterNode(w) PROVE BarrierInv'
  BY <1>39, SMTT(60) DEF RegisterNode
<1>40. CASE UNCHANGED vars
  BY <1>40, SMTT(60) DEF vars
<1>41. QED
  BY <1>1, <1>2, <1>3, <1>4, <1>5, <1>6, <1>7, <1>8, <1>9, <1>10, <1>11, <1>12,
     <1>13, <1>14, <1>15, <1>16, <1>17, <1>18, <1>19, <1>20, <1>21, <1>22, <1>23, <1>24,
     <1>25, <1>26, <1>27, <1>28, <1>29, <1>30, <1>31, <1>32, <1>33, <1>34, <1>35, <1>36,
     <1>37, <1>38, <1>39, <1>40, Zenon
  DEF Next, Operator, PhaseStep, SignalStep, RequeueStep, WorkerStep, Environment, PodStep, JobStep

\* In every behaviour, once the reboot is requested no recorded worker has a Pod,
\* a claim, a Slurm node or a job.
THEOREM BarrierHolds == Spec => []RebootBarrier
<1>1. Init => BarrierInv
  BY EvacuationAssumption, SMTT(60)
  DEF Init, BarrierInv, RebootBarrier, TypeOK, RecoveryState, Phases, EvacuationPhases, Pass, Points, Idle, SlurmNodes, Registered
<1>2. BarrierInv /\ [Next]_vars => BarrierInv'
  BY BarrierStep
<1>3. BarrierInv => RebootBarrier
  BY DEF BarrierInv
<1>4. QED
  BY <1>1, <1>2, <1>3, PTL DEF Spec

-----------------------------------------------------------------------------
(* Signals and requeues *)

\* A pass visits one job at a time.
LEMMA OneVisited ==
    ASSUME TypeOK, NEW i \in Jobs, NEW j \in Jobs, Visiting(i), Visiting(j)
    PROVE  i = j
  BY EvacuationAssumption, SMTT(60) DEF Visiting

\* Every step keeps the bookkeeping of calls and saves.
LEMMA CallStep ==
    ASSUME CallInv, [Next]_vars
    PROVE  CallInv'
<1>0. TypeOK /\ TypeOK'
  BY TypeStep DEF CallInv
<1> USE <1>0, EvacuationAssumption
      DEF CallInv, TypeOK, RecoveryState, Pass, Idle, Visiting, Signalled, RequeueAllowed,
          slurm, kube, app, hist, At, EndPass, SetPhase, Visited, Drained
<1>1. CASE DiscoverWorkers
  BY <1>1, Zenon DEF DiscoverWorkers
<1>2. CASE FetchNodes
  BY <1>2, Zenon DEF FetchNodes
<1>3. CASE FetchJobs
  BY <1>3, ZenonT(60) DEF FetchJobs
<1>4. CASE EnterDraining
  BY <1>4 DEF EnterDraining
<1>5. CASE BeginSignals
  BY <1>5 DEF BeginSignals
<1>6. CASE SignalsComplete
  BY <1>6 DEF SignalsComplete
<1>7. CASE BeginRequeues
  BY <1>7 DEF BeginRequeues
<1>8. CASE RequeuesComplete
  <2>1. CASE SetPhase("Requeued")
    BY <1>8, <2>1 DEF RequeuesComplete
  <2>2. CASE EndPass /\ UNCHANGED st
    BY <1>8, <2>2 DEF RequeuesComplete
  <2>3. QED
    BY <1>8, <2>1, <2>2 DEF RequeuesComplete
<1>9. CASE AwaitEvacuation
  BY <1>9 DEF AwaitEvacuation
<1>10. CASE BeginCleanup
  BY <1>10 DEF BeginCleanup
<1>11. CASE NodesDeleted
  BY <1>11 DEF NodesDeleted
<1>12. CASE CleanupComplete
  <2>1. CASE SetPhase("RebootRequested")
    BY <1>12, <2>1 DEF CleanupComplete
  <2>2. CASE EndPass /\ UNCHANGED st
    BY <1>12, <2>2 DEF CleanupComplete
  <2>3. QED
    BY <1>12, <2>1, <2>2 DEF CleanupComplete
<1>13. CASE Refused
  BY <1>13 DEF Refused
<1>14. CASE AbandonPass
  <2>1. abandoned' = abandoned + 1 /\ op'.pc = "idle"
    BY <1>14 DEF AbandonPass
  <2>2. UNCHANGED <<st, app, signals, requeues>>
    BY <1>14 DEF AbandonPass
  <2>3. QED
    BY <2>1, <2>2, SMTT(60)
<1>15. ASSUME NEW j \in Jobs, PassOverSignal(j) PROVE CallInv'
  BY <1>15, Zenon DEF PassOverSignal
<1>16. ASSUME NEW j \in Jobs, RequestSignal(j) PROVE CallInv'
  <2>1. /\ st'.signalSent = st.signalSent /\ st'.checkpointSeen = st.checkpointSeen
        /\ st'.requeueSent = st.requeueSent
    BY <1>16 DEF RequestSignal
  <2>2. st'.signalRequested = st.signalRequested \cup {j}
    BY <1>16 DEF RequestSignal
  <2>3. op.pc = "signal" /\ op'.pc = "signalling" /\ op'.jobs = op.jobs /\ Visiting(j)
    BY <1>16 DEF RequestSignal
  <2>4. UNCHANGED <<app, hist>>
    BY <1>16 DEF RequestSignal
  <2>5. j \notin st.signalSent
    BY <1>16 DEF RequestSignal
  <2>6. QED
    BY <2>1, <2>2, <2>3, <2>4, <2>5, OneVisited, SMTT(60)
<1>17. ASSUME NEW j \in Jobs, SignalJob(j) PROVE CallInv'
  BY <1>17, SMTT(60) DEF SignalJob
<1>18. ASSUME NEW j \in Jobs, RecordSignal(j) PROVE CallInv'
  <2>1. /\ st'.signalRequested = st.signalRequested /\ st'.checkpointSeen = st.checkpointSeen
        /\ st'.requeueSent = st.requeueSent
    BY <1>18 DEF RecordSignal
  <2>2. st'.signalSent = st.signalSent \cup {j}
    BY <1>18 DEF RecordSignal
  <2>3. op.pc = "signalled" /\ op'.pc = "signal" /\ op'.jobs = op.jobs \ {j} /\ Visiting(j)
    BY <1>18 DEF RecordSignal
  <2>4. UNCHANGED <<app, hist>>
    BY <1>18 DEF RecordSignal
  <2>5. QED
    BY <2>1, <2>2, <2>3, <2>4, OneVisited
<1>19. ASSUME NEW j \in Jobs, PassOverEvacuated(j) PROVE CallInv'
  BY <1>19, Zenon DEF PassOverEvacuated
<1>20. ASSUME NEW j \in Jobs, StopAtUnsignalled(j) PROVE CallInv'
  BY <1>20 DEF StopAtUnsignalled
<1>21. ASSUME NEW j \in Jobs, ObserveCheckpoint(j) PROVE CallInv'
  <2>1. /\ st'.signalRequested = st.signalRequested /\ st'.signalSent = st.signalSent
        /\ st'.requeueSent = st.requeueSent
    BY <1>21 DEF ObserveCheckpoint
  <2>2. st'.checkpointSeen = st.checkpointSeen \cup {j}
    BY <1>21 DEF ObserveCheckpoint
  <2>3. op.pc = "requeue" /\ op'.pc = "requeue" /\ op'.jobs = op.jobs /\ Visiting(j)
    BY <1>21 DEF ObserveCheckpoint
  <2>4. UNCHANGED <<app, hist>>
    BY <1>21 DEF ObserveCheckpoint
  <2>5. j \in commits
    BY <1>21 DEF ObserveCheckpoint
  <2>6. QED
    BY <2>1, <2>2, <2>3, <2>4, <2>5, OneVisited, SMTT(60)
<1>22. ASSUME NEW j \in Jobs, WaitForJob(j) PROVE CallInv'
  BY <1>22 DEF WaitForJob
<1>23. ASSUME NEW j \in Jobs, RequestRequeue(j) PROVE CallInv'
  <2>1. /\ st'.signalRequested = st.signalRequested /\ st'.signalSent = st.signalSent
        /\ st'.checkpointSeen = st.checkpointSeen /\ st'.requeueSent = st.requeueSent
    BY <1>23 DEF RequestRequeue
  <2>2. op.pc = "requeue" /\ op'.pc = "requeuing" /\ op'.jobs = op.jobs /\ Visiting(j)
    BY <1>23 DEF RequestRequeue
  <2>3. UNCHANGED <<app, hist>>
    BY <1>23 DEF RequestRequeue
  <2>4. Signalled(j) /\ RequeueAllowed(j) /\ j \notin st.requeueSent
    BY <1>23 DEF RequestRequeue
  <2>5. QED
    BY <2>1, <2>2, <2>3, <2>4, OneVisited, SMTT(60)
<1>24. ASSUME NEW j \in Jobs, RequeueJob(j) PROVE CallInv'
  BY <1>24, SMTT(60) DEF RequeueJob
<1>25. ASSUME NEW j \in Jobs, RecordRequeue(j) PROVE CallInv'
  <2>1. /\ st'.signalRequested = st.signalRequested /\ st'.signalSent = st.signalSent
        /\ st'.checkpointSeen = st.checkpointSeen
    BY <1>25 DEF RecordRequeue
  <2>2. st'.requeueSent = st.requeueSent \cup {j}
    BY <1>25 DEF RecordRequeue
  <2>3. op.pc = "requeued" /\ op'.pc = "requeue" /\ op'.jobs = op.jobs \ {j} /\ Visiting(j)
    BY <1>25 DEF RecordRequeue
  <2>4. UNCHANGED <<app, hist>>
    BY <1>25 DEF RecordRequeue
  <2>5. QED
    BY <2>1, <2>2, <2>3, <2>4, OneVisited
<1>26. ASSUME NEW j \in Jobs, FinishJob(j) PROVE CallInv'
  BY <1>26 DEF FinishJob
<1>27. ASSUME NEW j \in Jobs, ForeignRequeue(j) PROVE CallInv'
  BY <1>27 DEF ForeignRequeue
<1>28. ASSUME NEW j \in Jobs, ReleaseNodes(j) PROVE CallInv'
  BY <1>28 DEF ReleaseNodes
<1>29. ASSUME NEW j \in Jobs, CommitCheckpoint(j) PROVE CallInv'
  BY <1>29 DEF CommitCheckpoint
<1>30. ASSUME NEW j \in Jobs, GraceExpires(j) PROVE CallInv'
  BY <1>30 DEF GraceExpires
<1>31. ASSUME NEW j \in Jobs, NEW nodes \in SUBSET SlurmNodes, StartJob(j, nodes)
      PROVE  CallInv'
  BY <1>31 DEF StartJob
<1>32. ASSUME NEW w \in Workers, DrainWorker(w) PROVE CallInv'
  BY <1>32 DEF DrainWorker
<1>33. ASSUME NEW w \in Workers, DeleteNode(w) PROVE CallInv'
  BY <1>33 DEF DeleteNode
<1>34. ASSUME NEW w \in Workers, DeletePod(w) PROVE CallInv'
  BY <1>34 DEF DeletePod
<1>35. ASSUME NEW w \in Workers, DeleteClaim(w) PROVE CallInv'
  BY <1>35 DEF DeleteClaim
<1>36. ASSUME NEW w \in Workers, Bind(w) PROVE CallInv'
  BY <1>36 DEF Bind
<1>37. ASSUME NEW w \in Workers, ObservePod(w) PROVE CallInv'
  BY <1>37 DEF ObservePod
<1>38. ASSUME NEW w \in Workers, PodGone(w) PROVE CallInv'
  BY <1>38 DEF PodGone
<1>39. ASSUME NEW w \in Workers, RegisterNode(w) PROVE CallInv'
  BY <1>39 DEF RegisterNode
<1>40. CASE UNCHANGED vars
  BY <1>40 DEF vars
<1>41. QED
  BY <1>1, <1>2, <1>3, <1>4, <1>5, <1>6, <1>7, <1>8, <1>9, <1>10, <1>11, <1>12,
     <1>13, <1>14, <1>15, <1>16, <1>17, <1>18, <1>19, <1>20, <1>21, <1>22, <1>23, <1>24,
     <1>25, <1>26, <1>27, <1>28, <1>29, <1>30, <1>31, <1>32, <1>33, <1>34, <1>35, <1>36,
     <1>37, <1>38, <1>39, <1>40, Zenon
  DEF Next, Operator, PhaseStep, SignalStep, RequeueStep, WorkerStep, Environment, PodStep, JobStep

\* The bookkeeping is an invariant.
LEMMA CallInvariant == Spec => []CallInv
<1>1. Init => CallInv
  BY EvacuationAssumption, SMTT(60)
  DEF Init, CallInv, TypeOK, RecoveryState, Phases, EvacuationPhases, Pass, Points, Idle, SlurmNodes, Registered
<1>2. CallInv /\ [Next]_vars => CallInv'
  BY CallStep
<1>3. QED
  BY <1>1, <1>2, PTL DEF Spec

\* Only SignalJob delivers a signal and only RequeueJob requeues.
LEMMA OnlyTheseCall ==
    ASSUME [Next]_vars
    PROVE  /\ UNCHANGED signals \/ \E j \in Jobs : SignalJob(j)
           /\ UNCHANGED requeues \/ \E j \in Jobs : RequeueJob(j)
  BY Zenon DEF Next, Operator, PhaseStep, SignalStep, RequeueStep, WorkerStep, Environment,
      PodStep, JobStep, vars, slurm, kube, app, hist, DiscoverWorkers, FetchNodes,
      FetchJobs, EnterDraining, BeginSignals, SignalsComplete, BeginRequeues,
      RequeuesComplete, AwaitEvacuation, BeginCleanup, NodesDeleted,
      CleanupComplete, Refused, AbandonPass, PassOverSignal, RequestSignal,
      SignalJob, RecordSignal, PassOverEvacuated, StopAtUnsignalled,
      ObserveCheckpoint, WaitForJob, RequestRequeue, RequeueJob, RecordRequeue,
      FinishJob, ForeignRequeue, ReleaseNodes, CommitCheckpoint, GraceExpires,
      StartJob, DrainWorker, DeleteNode, DeletePod, DeleteClaim, Bind, ObservePod,
      PodGone, RegisterNode

\* A job is signalled and requeued at most once more often than passes were cut
\* short, whichever calls, saves and crashes follow one another.
THEOREM CallsBounded == Spec => []OneCallPerLostSave
<1>1. CallInv => OneCallPerLostSave
  BY EvacuationAssumption, SMTT(60) DEF CallInv, OneCallPerLostSave, TypeOK
<1>2. QED
  BY CallInvariant, <1>1, PTL

\* No job is requeued without a delivered USR1 and either a commit or the end of
\* its grace period.
THEOREM NoticeBeforeRequeue == Spec => RequeueAfterNotice
<1> DEFINE A == \A j \in Jobs : requeues'[j] # requeues[j] =>
                    signals[j] > 0 /\ (j \in commits \/ j \in grace)
<1>1. CallInv /\ [Next]_vars => [A]_vars
  <2> SUFFICES ASSUME CallInv, [Next]_vars PROVE A
    OBVIOUS
  <2>1. CASE UNCHANGED requeues
    BY <2>1
  <2>2. ASSUME NEW j \in Jobs, RequeueJob(j) PROVE A
    <3>1. \A i \in Jobs : i # j => requeues'[i] = requeues[i]
      BY <2>2 DEF RequeueJob, CallInv, TypeOK
    <3>2. signals[j] > 0 /\ (j \in commits \/ j \in grace)
      BY <2>2 DEF RequeueJob, CallInv, At, Signalled, RequeueAllowed
    <3>3. QED
      BY <3>1, <3>2
  <2>3. QED
    BY <2>1, <2>2, OnlyTheseCall
<1>2. QED
  BY CallInvariant, <1>1, PTL DEF Spec, RequeueAfterNotice

\* The steps that save the state add to what it records, or move the phase on.
LEMMA RecordsGrow ==
    ASSUME TypeOK, [Next]_vars
    PROVE  /\ st.jobs \subseteq st'.jobs /\ st.workers \subseteq st'.workers
           /\ st.signalSent \subseteq st'.signalSent
           /\ st.requeueSent \subseteq st'.requeueSent
<1> USE DEF TypeOK, RecoveryState
<1>1. CASE DiscoverWorkers \/ FetchJobs
  BY <1>1 DEF DiscoverWorkers, FetchJobs
<1>2. CASE \E phase \in Phases : SetPhase(phase)
  BY <1>2 DEF SetPhase
<1>3. CASE \E j \in Jobs : PassOverSignal(j) \/ PassOverEvacuated(j)
  BY <1>3 DEF PassOverSignal, PassOverEvacuated
<1>4. CASE \E j \in Jobs : RequestSignal(j) \/ RecordSignal(j)
  BY <1>4 DEF RequestSignal, RecordSignal
<1>5. CASE \E j \in Jobs : RequestRequeue(j) \/ RecordRequeue(j)
  BY <1>5 DEF RequestRequeue, RecordRequeue
<1>6. CASE \E j \in Jobs : ObserveCheckpoint(j)
  BY <1>6 DEF ObserveCheckpoint
<1>7. CASE UNCHANGED st
  BY <1>7
<1>8. EnterDraining \/ SignalsComplete => \E phase \in Phases : SetPhase(phase)
  BY DEF EnterDraining, SignalsComplete, Phases, EvacuationPhases
<1>9. RequeuesComplete \/ CleanupComplete =>
         UNCHANGED st \/ \E phase \in Phases : SetPhase(phase)
  BY DEF RequeuesComplete, CleanupComplete, Phases, EvacuationPhases
<1>10. QED
  BY <1>1, <1>2, <1>3, <1>4, <1>5, <1>6, <1>7, <1>8, <1>9, Zenon
  DEF Next, Operator, PhaseStep, SignalStep, RequeueStep, WorkerStep, Environment,
      PodStep, JobStep, vars, FetchNodes, BeginSignals, BeginRequeues, AwaitEvacuation,
      BeginCleanup, NodesDeleted, Refused, AbandonPass, SignalJob, StopAtUnsignalled,
      WaitForJob, RequeueJob, FinishJob, ForeignRequeue, ReleaseNodes, CommitCheckpoint,
      GraceExpires, StartJob, DrainWorker, DeleteNode, DeletePod, DeleteClaim, Bind,
      ObservePod, PodGone, RegisterNode

\* What the ConfigMap records is never forgotten, and a job whose signal or requeue
\* it records is not signalled or requeued again, by whichever pass comes later.
THEOREM RecordIsFinal == Spec => RecordedIsFinal
<1> DEFINE A == /\ \A j \in st.signalSent : signals'[j] = signals[j]
                /\ \A j \in st.requeueSent : requeues'[j] = requeues[j]
                /\ st.jobs \subseteq st'.jobs /\ st.workers \subseteq st'.workers
                /\ st.signalSent \subseteq st'.signalSent
                /\ st.requeueSent \subseteq st'.requeueSent
<1>1. CallInv /\ [Next]_vars => [A]_vars
  <2> SUFFICES ASSUME CallInv, [Next]_vars PROVE A
    OBVIOUS
  <2>0. TypeOK /\ st.signalSent \subseteq Jobs /\ st.requeueSent \subseteq Jobs
    BY DEF CallInv, TypeOK, RecoveryState
  <2>1. \A j \in st.signalSent : signals'[j] = signals[j]
    <3>1. ASSUME NEW i \in Jobs, SignalJob(i), NEW j \in st.signalSent
          PROVE  signals'[j] = signals[j]
      <4>1. i \notin st.signalSent
        BY <3>1 DEF SignalJob, CallInv, At
      <4>2. QED
        BY <2>0, <3>1, <4>1 DEF SignalJob, TypeOK
    <3>2. QED
      BY <3>1, OnlyTheseCall
  <2>2. \A j \in st.requeueSent : requeues'[j] = requeues[j]
    <3>1. ASSUME NEW i \in Jobs, RequeueJob(i), NEW j \in st.requeueSent
          PROVE  requeues'[j] = requeues[j]
      <4>1. i \notin st.requeueSent
        BY <3>1 DEF RequeueJob, CallInv, At
      <4>2. QED
        BY <2>0, <3>1, <4>1 DEF RequeueJob, TypeOK
    <3>2. QED
      BY <3>1, OnlyTheseCall
  <2>3. QED
    BY <2>0, <2>1, <2>2, RecordsGrow, Zenon
<1>2. QED
  BY CallInvariant, <1>1, PTL DEF Spec, RecordedIsFinal
=============================================================================
