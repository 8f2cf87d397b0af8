----------------------------- MODULE Evacuation -----------------------------
(***************************************************************************)
(* The evacuation half of the hardware-recovery reconciler: from the       *)
(* isolated Node to the reboot request (recovery_evacuation.go), with the  *)
(* three systems it drives: Slurm, the worker Pods and the informer cache  *)
(* through which the operator sees those Pods.                             *)
(*                                                                         *)
(* One reconcile pass is a chain of steps, cut wherever the code makes a   *)
(* call that another party can observe or that can fail: a save of the     *)
(* incident's ConfigMap, a Slurm REST call, a Pod or claim call.  A pass   *)
(* can be abandoned between any two of them, and the next one starts again *)
(* from what was saved.                                                    *)
(***************************************************************************)
EXTENDS Naturals, FiniteSets

CONSTANTS
    Workers,       \* worker Pods that the scheduler placed on the faulty Node
    Jobs,          \* Slurm root job IDs (a heterogeneous job is its root)
    Outside,       \* stands for every Slurm node on other, healthy hosts
    Preemptible,   \* the jobs that someone other than the operator may requeue
    MaxAbandoned   \* bound: how many passes are cut short

ASSUME EvacuationAssumption ==
    /\ Jobs \subseteq Nat
    /\ Outside \notin Workers
    /\ Preemptible \subseteq Jobs
    /\ MaxAbandoned \in Nat

VARIABLES
    st,         \* the ConfigMap hardware-recovery-<uid>: what survives a restart
    op,         \* the running pass: program point, worklists, Slurm snapshot
    pod,        \* API server: the life of each worker Pod
    seen,       \* informer cache: Pods the operator believes are on the Node
    claim,      \* API server: workers whose ResourceClaim exists
    snode,      \* slurmctld: the dynamic node of each worker
    jstate,     \* slurmctld: state of each job
    jnodes,     \* slurmctld: nodes each job still holds
    commits,    \* MinIO: jobs with a .complete marker since their signal request
    grace,      \* jobs whose 120-second grace period is over
    signals,    \* history: USR1 deliveries per job
    requeues,   \* history: operator requeues per job
    abandoned   \* history: passes cut short so far

slurm == <<snode, jstate, jnodes>>
kube  == <<pod, seen, claim>>
app   == <<commits, grace>>
hist  == <<signals, requeues, abandoned>>
vars  == <<st, op, slurm, kube, app, hist>>

-----------------------------------------------------------------------------
(* State *)

EvacuationPhases == {"Isolated", "Draining", "Checkpointing", "Requeued"}
Phases           == EvacuationPhases \cup {"RebootRequested"}
SlurmNodes       == Workers \cup {Outside}

\* recoveryState: one flag set per field of recoveryJob.
RecoveryState == [phase : Phases, workers : SUBSET Workers, jobs : SUBSET Jobs,
                  signalRequested : SUBSET Jobs, signalSent : SUBSET Jobs,
                  checkpointSeen : SUBSET Jobs, requeueRequested : SUBSET Jobs,
                  requeueSent : SUBSET Jobs, evacuated : SUBSET Jobs]

Points == {"idle", "nodes", "jobs", "drain", "signal", "signalling", "signalled",
           "requeue", "requeuing", "requeued", "delete", "pods"}

\* The locals of a pass: the jobs and Pods still to visit, the registered and
\* the undrained nodes of the snapshot, its active jobs and those of them that
\* hold a recorded worker, addedJobs, and the "complete" result so far.
Pass == [pc : Points, jobs : SUBSET Jobs, pods : SUBSET Workers,
         nodes : SUBSET Workers, undrained : SUBSET Workers,
         active : SUBSET Jobs, here : SUBSET Jobs,
         added : BOOLEAN, complete : BOOLEAN]

Idle == [pc |-> "idle", jobs |-> {}, pods |-> {}, nodes |-> {}, undrained |-> {},
         active |-> {}, here |-> {}, added |-> FALSE, complete |-> FALSE]

Registered == {w \in Workers : snode[w] \in {"Up", "Drain"}}

\* The incident was just saved and the Node tainted (newRecoveryState,
\* ensureIsolation).  "Binding" is a Pod the scheduler had already assigned to
\* the Node when the taint arrived.
Init ==
    /\ st = [phase |-> "Isolated", workers |-> {}, jobs |-> {},
             signalRequested |-> {}, signalSent |-> {}, checkpointSeen |-> {},
             requeueRequested |-> {}, requeueSent |-> {}, evacuated |-> {}]
    /\ op = Idle
    /\ pod \in [Workers -> {"Binding", "Bound"}]
    /\ seen \in SUBSET {w \in Workers : pod[w] = "Bound"}
    /\ claim = Workers
    /\ snode \in [Workers -> {"Absent", "Up"}]
    /\ \A w \in Workers : snode[w] = "Up" => pod[w] = "Bound"
    /\ jstate \in [Jobs -> {"Pending", "Running"}]
    /\ jnodes \in [Jobs -> SUBSET SlurmNodes]
    /\ \A j \in Jobs : /\ jnodes[j] \subseteq Registered \cup {Outside}
                       /\ jstate[j] = "Pending" <=> jnodes[j] = {}
    /\ commits = {} /\ grace = {}
    /\ signals = [j \in Jobs |-> 0] /\ requeues = [j \in Jobs |-> 0]
    /\ abandoned = 0

-----------------------------------------------------------------------------
(* A pass: discovery, snapshot, drain *)

At(point) == op.pc = point
EndPass   == op' = Idle

\* discoverWorkers and the save that follows when it found something.
DiscoverWorkers ==
    /\ At("idle") /\ st.phase \in EvacuationPhases
    /\ st' = [st EXCEPT !.workers = @ \cup seen]
    /\ op' = [op EXCEPT !.pc = "nodes"]
    /\ UNCHANGED <<slurm, kube, app, hist>>

\* slurmSnapshots, first call.  Without a recorded worker there is no recorded
\* cluster either, and the snapshot is empty.
FetchNodes ==
    /\ At("nodes")
    /\ op' = [op EXCEPT
                !.pc = "jobs",
                !.nodes = IF st.workers = {} THEN {} ELSE Registered,
                !.undrained = IF st.workers = {} THEN {}
                              ELSE {w \in Workers : snode[w] = "Up"}]
    /\ UNCHANGED <<st, slurm, kube, app, hist>>

Active(j) == jstate[j] = "Running"
OnRecordedWorker(j) == jnodes[j] \cap st.workers # {}

\* slurmSnapshots, second call, then addAffectedJobs and its save.  A queued
\* job whose processes are still being cleaned up lists its nodes and counts.
FetchJobs ==
    LET affected == {j \in Jobs : jstate[j] # "Done" /\ OnRecordedWorker(j)} IN
    /\ At("jobs")
    /\ st' = [st EXCEPT !.jobs = @ \cup affected]
    /\ op' = [op EXCEPT
                !.pc = "drain",
                !.active = IF st.workers = {} THEN {} ELSE {j \in Jobs : Active(j)},
                !.here = {j \in Jobs : Active(j) /\ OnRecordedWorker(j)},
                !.added = ~(affected \subseteq st.jobs)]
    /\ UNCHANGED <<slurm, kube, app, hist>>

\* drainRecoveryWorkers, one DrainNode call.
DrainWorker(w) ==
    /\ At("drain") /\ w \in st.workers \cap op.undrained
    /\ snode' = [snode EXCEPT ![w] = "Drain"]
    /\ op' = [op EXCEPT !.undrained = @ \ {w}]
    /\ UNCHANGED <<st, jstate, jnodes, kube, app, hist>>

Drained == At("drain") /\ st.workers \cap op.undrained = {}

\* setPhase: save, then ensureIsolation; the reconcile returns.
SetPhase(phase) == st' = [st EXCEPT !.phase = phase] /\ EndPass

\* New jobs send a later phase back to Draining; Isolated always goes there.
EnterDraining ==
    /\ Drained
    /\ st.phase = "Isolated" \/ (op.added /\ st.phase # "Draining")
    /\ SetPhase("Draining")
    /\ UNCHANGED <<slurm, kube, app, hist>>

-----------------------------------------------------------------------------
(* Draining: signal every affected job *)

\* jobEvacuated, on the snapshot of this pass.
JobEvacuated(j) == j \notin op.here /\ (j \in st.requeueSent \/ j \notin op.active)

BeginSignals ==
    /\ Drained /\ st.phase = "Draining"
    /\ op' = [op EXCEPT !.pc = "signal", !.jobs = st.jobs]
    /\ UNCHANGED <<st, slurm, kube, app, hist>>

\* Jobs are visited in ID order.
Visiting(j) == j \in op.jobs /\ \A k \in op.jobs : j <= k

Visited(j) == [op EXCEPT !.jobs = @ \ {j}]

\* signalJobs: the job has left (recorded and saved) or was signalled before.
PassOverSignal(j) ==
    /\ At("signal") /\ Visiting(j)
    /\ JobEvacuated(j) \/ j \in st.signalSent
    /\ st' = [st EXCEPT !.evacuated = IF JobEvacuated(j) THEN @ \cup {j} ELSE @]
    /\ op' = Visited(j)
    /\ UNCHANGED <<slurm, kube, app, hist>>

\* Variant with a fault: a job is signalled again although SignalSent is set.
RequestSignalAgain(j) ==
    /\ At("signal") /\ Visiting(j)
    /\ ~JobEvacuated(j)
    /\ st' = [st EXCEPT !.signalRequested = @ \cup {j}]
    /\ op' = [op EXCEPT !.pc = "signalling"]
    /\ UNCHANGED <<slurm, kube, app, hist>>

\* signalJobs: save SignalRequestedAt before the call.
RequestSignal(j) ==
    /\ At("signal") /\ Visiting(j)
    /\ ~JobEvacuated(j) /\ j \notin st.signalSent
    /\ st' = [st EXCEPT !.signalRequested = @ \cup {j}]
    /\ op' = [op EXCEPT !.pc = "signalling"]
    /\ UNCHANGED <<slurm, kube, app, hist>>

\* Client.SignalJob: Slurm delivers USR1 to a running job.
SignalJob(j) ==
    /\ At("signalling") /\ Visiting(j) /\ Active(j)
    /\ signals' = [signals EXCEPT ![j] = @ + 1]
    /\ op' = [op EXCEPT !.pc = "signalled"]
    /\ UNCHANGED <<st, slurm, kube, app, requeues, abandoned>>

RecordSignal(j) ==
    /\ At("signalled") /\ Visiting(j)
    /\ st' = [st EXCEPT !.signalSent = @ \cup {j}]
    /\ op' = [Visited(j) EXCEPT !.pc = "signal"]
    /\ UNCHANGED <<slurm, kube, app, hist>>

\* Variant with a fault: the saved phase is none the reconciler dispatches on.
SignalsCompleteUnknownPhase ==
    /\ At("signal") /\ op.jobs = {}
    /\ SetPhase("Checkpointed")
    /\ UNCHANGED <<slurm, kube, app, hist>>

SignalsComplete ==
    /\ At("signal") /\ op.jobs = {}
    /\ SetPhase(IF st.jobs = {} THEN "Requeued" ELSE "Checkpointing")
    /\ UNCHANGED <<slurm, kube, app, hist>>

-----------------------------------------------------------------------------
(* Checkpointing: wait for a commit or the grace period, then requeue *)

BeginRequeues ==
    /\ Drained /\ st.phase = "Checkpointing" /\ ~op.added
    /\ op' = [op EXCEPT !.pc = "requeue", !.jobs = st.jobs, !.complete = TRUE]
    /\ UNCHANGED <<st, slurm, kube, app, hist>>

Signalled(j) == j \in st.signalRequested /\ j \in st.signalSent

\* Variants with a fault: no deadline test at all; no grace period.
RequeueAllowedAtOnce(j)   == TRUE
RequeueAllowedOnCommit(j) == j \in st.checkpointSeen

RequeueAllowed(j) == j \in st.checkpointSeen \/ j \in grace

PassOverEvacuated(j) ==
    /\ At("requeue") /\ Visiting(j) /\ JobEvacuated(j)
    /\ st' = [st EXCEPT !.evacuated = @ \cup {j}]
    /\ op' = Visited(j)
    /\ UNCHANGED <<slurm, kube, app, hist>>

\* An unsignalled job ends the pass: "return false, nil".
StopAtUnsignalled(j) ==
    /\ At("requeue") /\ Visiting(j) /\ ~JobEvacuated(j) /\ ~Signalled(j)
    /\ EndPass
    /\ UNCHANGED <<st, slurm, kube, app, hist>>

\* checkpointCommittedSince found a marker; the save precedes the deadline test.
ObserveCheckpoint(j) ==
    /\ At("requeue") /\ Visiting(j) /\ ~JobEvacuated(j) /\ Signalled(j)
    /\ j \in commits \ st.checkpointSeen
    /\ st' = [st EXCEPT !.checkpointSeen = @ \cup {j}]
    /\ op' = [op EXCEPT !.complete = FALSE]
    /\ UNCHANGED <<slurm, kube, app, hist>>

\* Still within the grace period (the lookup found nothing or failed), or
\* already requeued: go on to the next job.
WaitForJob(j) ==
    /\ At("requeue") /\ Visiting(j) /\ ~JobEvacuated(j) /\ Signalled(j)
    /\ ~RequeueAllowed(j) \/ j \in st.requeueSent
    /\ op' = [Visited(j) EXCEPT !.complete = FALSE]
    /\ UNCHANGED <<st, slurm, kube, app, hist>>

RequestRequeue(j) ==
    /\ At("requeue") /\ Visiting(j) /\ ~JobEvacuated(j) /\ Signalled(j)
    /\ RequeueAllowed(j) /\ j \notin st.requeueSent
    /\ st' = [st EXCEPT !.requeueRequested = @ \cup {j}]
    /\ op' = [op EXCEPT !.pc = "requeuing", !.complete = FALSE]
    /\ UNCHANGED <<slurm, kube, app, hist>>

\* Client.RequeueJob.  Slurm requeues a running or finished job; the job holds
\* its nodes until its processes are cleaned up (ReleaseNodes).
RequeueJob(j) ==
    /\ At("requeuing") /\ Visiting(j) /\ jstate[j] \in {"Running", "Done"}
    /\ jstate' = [jstate EXCEPT ![j] = "Pending"]
    /\ requeues' = [requeues EXCEPT ![j] = @ + 1]
    /\ op' = [op EXCEPT !.pc = "requeued"]
    /\ UNCHANGED <<st, snode, jnodes, kube, app, signals, abandoned>>

\* Variant with a fault: the save that records the requeue is missing.
RecordRequeueUnsaved(j) ==
    /\ At("requeued") /\ Visiting(j)
    /\ op' = [Visited(j) EXCEPT !.pc = "requeue"]
    /\ UNCHANGED <<st, slurm, kube, app, hist>>

RecordRequeue(j) ==
    /\ At("requeued") /\ Visiting(j)
    /\ st' = [st EXCEPT !.requeueSent = @ \cup {j}]
    /\ op' = [Visited(j) EXCEPT !.pc = "requeue"]
    /\ UNCHANGED <<slurm, kube, app, hist>>

RequeuesComplete ==
    /\ At("requeue") /\ op.jobs = {}
    /\ \/ op.complete /\ SetPhase("Requeued")
       \/ ~op.complete /\ EndPass /\ UNCHANGED st
    /\ UNCHANGED <<slurm, kube, app, hist>>

-----------------------------------------------------------------------------
(* Requeued: delete Slurm nodes, Pods and claims, then ask for the reboot *)

\* cleanupEvacuatedWorkers returns at once while a job is not evacuated.
AwaitEvacuation ==
    /\ Drained /\ st.phase = "Requeued" /\ ~op.added
    /\ \E j \in st.jobs : ~JobEvacuated(j)
    /\ EndPass
    /\ UNCHANGED <<st, slurm, kube, app, hist>>

BeginCleanup ==
    /\ Drained /\ st.phase = "Requeued" /\ ~op.added
    /\ \A j \in st.jobs : JobEvacuated(j)
    /\ op' = [op EXCEPT !.pc = "delete"]
    /\ UNCHANGED <<st, slurm, kube, app, hist>>

Busy(w) == \E j \in Jobs : w \in jnodes[j]

\* Client.DeleteNode: slurmctld deletes a dynamic node no job holds.
DeleteNode(w) ==
    /\ At("delete") /\ w \in st.workers \cap op.nodes /\ ~Busy(w)
    /\ snode' = [snode EXCEPT ![w] = "Deleted"]
    /\ op' = [op EXCEPT !.nodes = @ \ {w}]
    /\ UNCHANGED <<st, jstate, jnodes, kube, app, hist>>

NodesDeleted ==
    /\ At("delete") /\ st.workers \cap op.nodes = {}
    /\ op' = [op EXCEPT !.pc = "pods", !.pods = st.workers, !.complete = TRUE]
    /\ UNCHANGED <<st, slurm, kube, app, hist>>

\* The loop over the workers.  While the Pod is in the cache, drop its finalizer
\* and delete it; once it has left, delete the claim.  The cleanup is complete
\* only when a pass finds neither.
DeletePod(w) ==
    /\ At("pods") /\ w \in op.pods \cap seen
    /\ pod' = [pod EXCEPT ![w] = IF @ = "Bound" THEN "Terminating" ELSE @]
    /\ op' = [op EXCEPT !.pods = @ \ {w}, !.complete = FALSE]
    /\ UNCHANGED <<st, slurm, seen, claim, app, hist>>

\* Variant with a fault: the pass that deletes a claim counts as complete.
DeleteClaimCompletes(w) ==
    /\ At("pods") /\ w \in op.pods \ seen
    /\ claim' = claim \ {w}
    /\ op' = [op EXCEPT !.pods = @ \ {w}]
    /\ UNCHANGED <<st, slurm, pod, seen, app, hist>>

DeleteClaim(w) ==
    /\ At("pods") /\ w \in op.pods \ seen
    /\ claim' = claim \ {w}
    /\ op' = [op EXCEPT !.pods = @ \ {w},
                        !.complete = IF w \in claim THEN FALSE ELSE @]
    /\ UNCHANGED <<st, slurm, pod, seen, app, hist>>

CleanupComplete ==
    /\ At("pods") /\ op.pods = {}
    /\ \/ op.complete /\ SetPhase("RebootRequested")
       \/ ~op.complete /\ EndPass /\ UNCHANGED st
    /\ UNCHANGED <<slurm, kube, app, hist>>

-----------------------------------------------------------------------------
(* How a pass ends early *)

\* Slurm answers a call with an error: nothing to signal, a job that is queued
\* already, a node some job still holds.  The reconcile returns the error.
Refused ==
    /\ \/ At("signalling") /\ \E j \in op.jobs : Visiting(j) /\ ~Active(j)
       \/ At("requeuing") /\ \E j \in op.jobs : Visiting(j) /\ jstate[j] = "Pending"
       \/ At("delete") /\ \E w \in st.workers \cap op.nodes : Busy(w)
    /\ EndPass
    /\ UNCHANGED <<st, slurm, kube, app, hist>>

\* The operator crashes or loses its lease, a Kubernetes or REST call fails, or
\* a save conflicts: CreateOrUpdate reads the ConfigMap through the cache, which
\* may lag behind the save made a moment before in the same pass.
AbandonPass ==
    /\ ~At("idle") /\ abandoned < MaxAbandoned
    /\ EndPass
    /\ abandoned' = abandoned + 1
    /\ UNCHANGED <<st, slurm, kube, app, signals, requeues>>

-----------------------------------------------------------------------------
(* The systems around the operator *)

\* kube-scheduler: the binding decided before the taint reaches the API server.
Bind(w) ==
    /\ pod[w] = "Binding"
    /\ pod' = [pod EXCEPT ![w] = "Bound"]
    /\ UNCHANGED <<st, op, slurm, seen, claim, app, hist>>

\* The watch delivers the Pod's arrival on the Node, or its removal.
ObservePod(w) ==
    /\ \/ pod[w] \in {"Bound", "Terminating"} /\ w \notin seen /\ seen' = seen \cup {w}
       \/ pod[w] = "Gone" /\ w \in seen /\ seen' = seen \ {w}
    /\ UNCHANGED <<st, op, slurm, pod, claim, app, hist>>

\* The kubelet finishes the deletion.
PodGone(w) ==
    /\ pod[w] = "Terminating"
    /\ pod' = [pod EXCEPT ![w] = "Gone"]
    /\ UNCHANGED <<st, op, slurm, seen, claim, app, hist>>

\* slurmd in the Pod registers its dynamic node, once.
RegisterNode(w) ==
    /\ pod[w] \in {"Bound", "Terminating"} /\ snode[w] = "Absent"
    /\ snode' = [snode EXCEPT ![w] = "Up"]
    /\ UNCHANGED <<st, op, jstate, jnodes, kube, app, hist>>

\* slurmctld starts a queued job on nodes that are not draining.
StartJob(j, nodes) ==
    /\ jstate[j] = "Pending" /\ jnodes[j] = {}
    /\ nodes # {} /\ nodes \subseteq {w \in Workers : snode[w] = "Up"} \cup {Outside}
    /\ jstate' = [jstate EXCEPT ![j] = "Running"]
    /\ jnodes' = [jnodes EXCEPT ![j] = nodes]
    /\ UNCHANGED <<st, op, snode, kube, app, hist>>

FinishJob(j) ==
    /\ Active(j)
    /\ jstate' = [jstate EXCEPT ![j] = "Done"]
    /\ jnodes' = [jnodes EXCEPT ![j] = {}]
    /\ UNCHANGED <<st, op, snode, kube, app, hist>>

\* A user, a preemption or a node failure requeues the job.
ForeignRequeue(j) ==
    /\ j \in Preemptible /\ Active(j)
    /\ jstate' = [jstate EXCEPT ![j] = "Pending"]
    /\ UNCHANGED <<st, op, snode, jnodes, kube, app, hist>>

\* The requeued job's processes are gone; it gives up its nodes.
ReleaseNodes(j) ==
    /\ jstate[j] = "Pending" /\ jnodes[j] # {}
    /\ jnodes' = [jnodes EXCEPT ![j] = {}]
    /\ UNCHANGED <<st, op, snode, jstate, kube, app, hist>>

\* The application commits a checkpoint no older than the signal request.
CommitCheckpoint(j) ==
    /\ Active(j) /\ j \in st.signalRequested \ commits
    /\ commits' = commits \cup {j}
    /\ UNCHANGED <<st, op, slurm, kube, grace, hist>>

\* checkpointGrace runs out.
GraceExpires(j) ==
    /\ j \in st.signalRequested \ grace
    /\ grace' = grace \cup {j}
    /\ UNCHANGED <<st, op, slurm, kube, commits, hist>>

-----------------------------------------------------------------------------
(* Specification *)

SignalStep(j)  == PassOverSignal(j) \/ RequestSignal(j) \/ SignalJob(j) \/ RecordSignal(j)
RequeueStep(j) == \/ PassOverEvacuated(j) \/ StopAtUnsignalled(j) \/ ObserveCheckpoint(j)
                  \/ WaitForJob(j) \/ RequestRequeue(j) \/ RequeueJob(j) \/ RecordRequeue(j)
WorkerStep(w)  == DrainWorker(w) \/ DeleteNode(w) \/ DeletePod(w) \/ DeleteClaim(w)
PhaseStep      == \/ DiscoverWorkers \/ FetchNodes \/ FetchJobs \/ EnterDraining
                  \/ BeginSignals \/ SignalsComplete \/ BeginRequeues \/ RequeuesComplete
                  \/ AwaitEvacuation \/ BeginCleanup \/ NodesDeleted \/ CleanupComplete

Operator == \/ PhaseStep \/ Refused
            \/ \E j \in Jobs : SignalStep(j) \/ RequeueStep(j)
            \/ \E w \in Workers : WorkerStep(w)

PodStep(w) == Bind(w) \/ ObservePod(w) \/ PodGone(w) \/ RegisterNode(w)
JobStep(j) == \/ \E nodes \in SUBSET SlurmNodes : StartJob(j, nodes)
              \/ FinishJob(j) \/ ForeignRequeue(j) \/ ReleaseNodes(j)
              \/ CommitCheckpoint(j) \/ GraceExpires(j)

Environment == (\E w \in Workers : PodStep(w)) \/ (\E j \in Jobs : JobStep(j))

Next == Operator \/ AbandonPass \/ Environment

Spec == Init /\ [][Next]_vars

\* The work queue runs the Node again after every return (recoveryRequeue), so a
\* pass always continues; time passes, kubelet and watch make progress and
\* slurmctld cleans up.  Nothing forces a job to start, commit or finish.
Fairness ==
    /\ WF_vars(Operator)
    /\ \A w \in Workers : /\ WF_vars(ObservePod(w))
                          /\ WF_vars(PodGone(w))
    /\ \A j \in Jobs : /\ WF_vars(ReleaseNodes(j))
                       /\ WF_vars(GraceExpires(j))

FairSpec == Spec /\ Fairness

-----------------------------------------------------------------------------
(* Properties *)

TypeOK ==
    /\ st \in RecoveryState
    /\ op \in Pass
    /\ pod \in [Workers -> {"Binding", "Bound", "Terminating", "Gone"}]
    /\ seen \in SUBSET Workers /\ claim \in SUBSET Workers
    /\ snode \in [Workers -> {"Absent", "Up", "Drain", "Deleted"}]
    /\ jstate \in [Jobs -> {"Pending", "Running", "Done"}]
    /\ jnodes \in [Jobs -> SUBSET SlurmNodes]
    /\ commits \in SUBSET Jobs /\ grace \in SUBSET Jobs
    /\ signals \in [Jobs -> Nat] /\ requeues \in [Jobs -> Nat]
    /\ abandoned \in 0..MaxAbandoned

\* The reboot barrier.  Once the phase is RebootRequested, every worker the
\* incident recorded has lost its Pod, its claim and its Slurm node, and no job,
\* running or still cleaning up, holds it; whatever Slurm, the kubelet and the
\* watch did between the snapshot of the last pass and its save.
RebootBarrier ==
    st.phase = "RebootRequested" =>
        \A w \in st.workers : /\ pod[w] = "Gone" /\ w \notin claim
                              /\ w \notin Registered /\ ~Busy(w)

\* A job is signalled, and requeued, at most once more than passes were cut
\* short: a call is repeated only when the save that records it was lost
\* (SignalSent and RequeueSent are saved after the call they record).
OneCallPerLostSave ==
    \A j \in Jobs : signals[j] <= 1 + abandoned /\ requeues[j] <= 1 + abandoned

\* The operator requeues a job only after USR1 was delivered to it, and only
\* when a checkpoint was committed since the request or the grace period ended.
RequeueAfterNotice ==
    [][\A j \in Jobs : requeues'[j] # requeues[j] =>
            signals[j] > 0 /\ (j \in commits \/ j \in grace)]_vars

\* What the ConfigMap records as done is never done again, by any later pass:
\* no signal after SignalSent, no requeue after RequeueSent, and the flags, the
\* affected jobs and the recorded workers are never forgotten.
RecordedIsFinal ==
    [][/\ \A j \in st.signalSent : signals'[j] = signals[j]
       /\ \A j \in st.requeueSent : requeues'[j] = requeues[j]
       /\ st.jobs \subseteq st'.jobs /\ st.workers \subseteq st'.workers
       /\ st.signalSent \subseteq st'.signalSent
       /\ st.requeueSent \subseteq st'.requeueSent]_vars

\* Every incident gets to its reboot request, however long its jobs run.
EvacuationCompletes == <>(st.phase = "RebootRequested")

-----------------------------------------------------------------------------
(* Inductive invariants *)

\* Why the barrier holds.  A recorded worker that left the cache is gone; a claim
\* disappears only after its Pod, so a worker without a claim cannot register
\* any more; jobs hold registered nodes only.  Hence a registered worker that
\* the snapshot of the running pass misses still has its claim, unless the pass
\* has just deleted it and will not complete.
BarrierInv ==
    /\ TypeOK
    /\ \A w \in Workers : /\ w \in seen => pod[w] # "Binding"
                          /\ w \in st.workers => /\ pod[w] # "Binding"
                                                 /\ w \notin seen => pod[w] = "Gone"
                          /\ w \notin claim => pod[w] = "Gone"
    /\ \A j \in Jobs : jnodes[j] \cap Workers \subseteq Registered
    /\ op.pc \notin {"idle", "nodes"} =>
           \A w \in st.workers : w \in Registered \ op.nodes =>
               w \in claim \/ (op.pc = "pods" /\ op.complete = FALSE)
    /\ op.pc \in {"jobs", "drain"} => op.undrained \subseteq op.nodes
    /\ op.pc = "pods" =>
           /\ st.workers \cap op.nodes = {} /\ op.pods \subseteq st.workers
           /\ op.complete = TRUE => (st.workers \ op.pods) \cap claim = {}
    /\ st.phase = "RebootRequested" => op.pc = "idle"
    /\ RebootBarrier

\* Why calls repeat only after a lost save, and why a requeue follows notice.
\* Between a call and the save that records it the pass stands at "signalled" or
\* "requeued"; it got there because the job was not recorded yet.
CallInv ==
    /\ TypeOK
    /\ st.checkpointSeen \subseteq commits
    /\ \A j \in Jobs :
        /\ op.pc = "signalling" /\ Visiting(j) => j \notin st.signalSent
        /\ op.pc = "signalled" /\ Visiting(j) => signals[j] > 0
        /\ op.pc = "requeuing" /\ Visiting(j) =>
               j \notin st.requeueSent /\ Signalled(j) /\ RequeueAllowed(j)
        /\ j \in st.signalSent => signals[j] > 0
        /\ signals[j] <= abandoned + 1
        /\ requeues[j] <= abandoned + 1
        /\ j \in st.signalSent \/ (op.pc = "signalled" /\ Visiting(j))
               \/ signals[j] <= abandoned
        /\ j \in st.requeueSent \/ (op.pc = "requeued" /\ Visiting(j))
               \/ requeues[j] <= abandoned

=============================================================================
