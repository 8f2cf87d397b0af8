------------------------------- MODULE Workers -------------------------------
(***************************************************************************)
(* The elastic workers of a HeterogeneousCluster (workers.go): one pass of *)
(* reconcileWorkers turns the pending Slurm jobs into worker Pods and takes *)
(* idle, failed and orphaned workers down again, and the deletion of the   *)
(* cluster takes all of them down.  Around it run the kubelet, slurmd,     *)
(* slurmctld and its users, and the faults an operator has to live with.   *)
(*                                                                         *)
(* A pass works on what it read first: the pending jobs, the cached Pods   *)
(* and the Slurm nodes.  Everything after that is one step per Pod or node; *)
(* a step makes its API calls in order and may stop after any of them,     *)
(* which ends the pass.                                                    *)
(***************************************************************************)
EXTENDS Integers, FiniteSets, Sequences

CONSTANTS
    Workers,      \* numbers: Pod names that can be in use at one time
    Queue,        \* the jobs (numbers) in the order Demands sorts them
    Group,        \* [job -> GroupID]: the components of a heterogeneous job
    Pool,         \* [job -> worker pool of its partition]
    Shape,        \* [job -> [cpus, mem, gres]], what shapeFor computes
    MaxWorkers,   \* [pool -> Scaling.MaxWorkers]
    MinReady,     \* [pool -> Scaling.MinReady]
    Lag,          \* may the informer cache lag behind the API server?
    Faults,       \* kinds of fault that can happen
    MaxFaults     \* bound: faults in a behaviour

Jobs  == {Queue[i] : i \in DOMAIN Queue}
Pools == DOMAIN MaxWorkers

ASSUME WorkersAssumption ==
    /\ Workers \subseteq Nat \ {0} /\ IsFiniteSet(Workers)
    /\ Queue \in Seq(Nat)
    /\ Group \in [Jobs -> Nat] /\ Pool \in [Jobs -> Pools]
    /\ MaxWorkers \in [Pools -> Nat] /\ MinReady \in [Pools -> Nat]
    /\ \A j \in Jobs : Shape[j].cpus \in Nat \ {0} /\ Shape[j].mem \in Nat \ {0}
    /\ Lag \in BOOLEAN /\ MaxFaults \in Nat

VARIABLES
    cluster,   \* the HeterogeneousCluster: live, deleting (finalizer held), gone
    pod,       \* API server: the worker Pods
    claims,    \* API server: workers whose ResourceClaim exists
    joined,    \* workers whose slurmd has registered since it started
    node,      \* slurmctld: the dynamic node of each worker
    job,       \* slurmctld: state of each job
    at,        \* slurmctld: the worker a running job is on, 0 for none
    aged,      \* workers whose idle-since annotation is idleTimeout old
    pass,      \* the running pass
    faults     \* faults so far

slurm == <<node, job, at>>
kube  == <<pod, claims, joined>>
vars  == <<cluster, kube, slurm, aged, pass, faults>>

-----------------------------------------------------------------------------
(* State *)

\* A worker Pod: unready or ready by its probe, which asks Slurm for the node;
\* failed once its containers have ended (RestartPolicyNever).  fin is the
\* worker finalizer; drain, idle and rec are the draining, idle-since and
\* recovery annotations.
Pods  == [pool : Pools, shape : {Shape[j] : j \in Jobs},
          up : {"unready", "ready", "failed"},
          fin : BOOLEAN, drain : BOOLEAN, idle : BOOLEAN, rec : BOOLEAN,
          deleting : BOOLEAN]
NoPod == [pool |-> "none"]

Nodes  == [state : {"absent", "up", "down"}, drain : BOOLEAN]
Absent == [state |-> "absent", drain |-> FALSE]

Reports == [state : {"absent", "up", "down"}, drain : BOOLEAN, busy : BOOLEAN]

NoList    == [w \in Workers |-> NoPod]
NoReports == [w \in Workers |-> [state |-> "absent", drain |-> FALSE, busy |-> FALSE]]

\* The locals of a pass: the three readings, the Pods or nodes still to visit,
\* counts, the Pods that demand was assigned to, the jobs of the planned group
\* that need a new worker, readyByPool, and the Pods whose local resourceVersion
\* is out of date because the pass itself updated them.
None == [p \in Pools |-> 0]

Idle(list) == [pc |-> "idle", jobs |-> {}, list |-> list, nodes |-> NoReports,
               todo |-> {}, counts |-> None, assigned |-> {}, creates |-> {},
               ready |-> None, touched |-> {}]

Passes == [pc : {"idle", "read", "inspect", "orphans", "create", "scale", "delete"},
           jobs : SUBSET Jobs, list : [Workers -> Pods \cup {NoPod}],
           nodes : [Workers -> Reports], todo : SUBSET Workers, counts : [Pools -> Nat],
           assigned : SUBSET Workers, creates : SUBSET Jobs, ready : [Pools -> Int],
           touched : SUBSET Workers]

Init ==
    /\ cluster = "live"
    /\ pod = NoList /\ claims = {} /\ joined = {}
    /\ node = [w \in Workers |-> Absent]
    /\ job = [j \in Jobs |-> "held"] /\ at = [j \in Jobs |-> 0]
    /\ aged = {}
    /\ pass = Idle(NoList)
    /\ faults = 0

At(point) == pass.pc = point

\* The end of a pass, by success or by error.  What stays is the cache.
Stop == pass' = Idle(IF Lag THEN pass.list ELSE NoList)

Fault(kind) == /\ kind \in Faults /\ faults < MaxFaults
               /\ faults' = faults + 1

\* A step makes k of its calls.  Every call up to the limit would succeed, so
\* stopping short of it takes a fault.
Calls(k, limit) == IF k = limit THEN UNCHANGED faults ELSE Fault("call")

-----------------------------------------------------------------------------
(* Reading *)

Listed(w)     == pass.list[w] # NoPod
PodReady(p)   == p.up = "ready"
Registered(w) == pass.nodes[w].state # "absent"

\* slurmctld's report of a node, with the allocation nodeIdle looks at.
Report(w)  == [state |-> node[w].state, drain |-> node[w].drain,
               busy |-> \E j \in Jobs : at[j] = w]
\* Variant with a fault: a node that is up counts as idle.
NodeIdleByState(n) == n.state = "up"

NodeIdle(n) == n.state = "up" /\ ~n.busy

\* PendingJobs, before anything about the workers is read.
ReadJobs ==
    /\ At("idle") /\ cluster = "live"
    /\ pass' = [pass EXCEPT !.pc = "read", !.jobs = {j \in Jobs : job[j] = "pending"}]
    /\ UNCHANGED <<cluster, kube, slurm, aged, faults>>

\* A cached list: each entry is the Pod as it is now or as it was last seen.
Cached == IF Lag THEN {l \in [Workers -> {pod[w] : w \in Workers} \cup
                                         {pass.list[w] : w \in Workers}] :
                         \A w \in Workers : l[w] \in {pod[w], pass.list[w]}}
          ELSE {pod}

Present(list) == {w \in Workers : list[w] # NoPod}

\* List the Pods, then fetch the nodes.  The deletion of the cluster starts the
\* same way but visits the Pods for one purpose only, and when the list is
\* empty it drops the cluster's finalizer.
ReadWorkers ==
    \E list \in Cached :
        /\ At("read")
        /\ pass' = [pass EXCEPT !.pc = "inspect", !.list = list,
                            !.nodes = [w \in Workers |-> Report(w)],
                            !.todo = Present(list)]
        /\ UNCHANGED <<cluster, kube, slurm, aged, faults>>

CleanupClusterWorkers ==
    \E list \in Cached :
        /\ At("idle") /\ cluster = "deleting"
        /\ IF Present(list) = {}
           THEN /\ cluster' = "gone"
                /\ pass' = Idle(NoList)
           ELSE /\ pass' = [pass EXCEPT !.pc = "delete", !.list = list,
                                    !.nodes = [w \in Workers |-> Report(w)],
                                    !.todo = Present(list)]
                /\ UNCHANGED cluster
        /\ UNCHANGED <<kube, slurm, aged, faults>>

-----------------------------------------------------------------------------
(* cleanupWorker *)

\* An Update is accepted when the local copy has the current resourceVersion.
Fresh(w) == pass.list[w] = pod[w] /\ w \notin pass.touched

\* Drain the node, then annotate the Pod.  "done" is the pass after the step.
Drain(w, done) ==
    LET limit == IF node[w].state = "absent" THEN 0 ELSE IF Fresh(w) THEN 2 ELSE 1 IN
    /\ Registered(w) /\ ~pass.list[w].drain
    /\ \E k \in 0 .. limit :
         /\ Calls(k, limit)
         /\ node' = IF k >= 1 THEN [node EXCEPT ![w].drain = TRUE] ELSE node
         /\ pod' = IF k = 2 THEN [pod EXCEPT ![w].drain = TRUE] ELSE pod
         /\ IF k = 2
            THEN pass' = [done EXCEPT !.list[w].drain = TRUE, !.touched = @ \cup {w}]
            ELSE Stop
    /\ UNCHANGED aged

\* Wait: the drained node still has work, or Slurm does not report it drained.
Wait(w, done) ==
    /\ Registered(w) /\ pass.list[w].drain
    /\ ~(NodeIdle(pass.nodes[w]) /\ pass.nodes[w].drain)
    /\ pass' = done
    /\ UNCHANGED <<node, pod, aged, faults>>

\* Delete the node, drop the finalizer, delete the Pod.
TakeDown(w, done) ==
    LET p     == pass.list[w]
        limit == IF p.fin /\ pod[w] # NoPod /\ ~Fresh(w) THEN 1 ELSE 3 IN
    /\ Registered(w) => p.drain /\ NodeIdle(pass.nodes[w]) /\ pass.nodes[w].drain
    /\ \E k \in 0 .. limit :
         /\ Calls(k, limit)
         /\ node' = IF k >= 1 /\ Registered(w) THEN [node EXCEPT ![w] = Absent] ELSE node
         /\ pod' = IF k <= 1 \/ pod[w] = NoPod THEN pod
                   ELSE [pod EXCEPT ![w].fin = @ /\ ~p.fin, ![w].deleting = @ \/ k = 3]
         /\ IF k = 3 THEN pass' = [done EXCEPT !.list[w].fin = FALSE] ELSE Stop
    /\ UNCHANGED aged

CleanupWorker(w, done) ==
    /\ Drain(w, done) \/ Wait(w, done) \/ TakeDown(w, done)
    /\ UNCHANGED <<cluster, claims, joined, job, at>>

-----------------------------------------------------------------------------
(* reconcileWorkers: every listed Pod, then every orphaned node *)

Visited(w) == [pass EXCEPT !.todo = @ \ {w}]

\* "restore worker Pod finalizer": the visit of the Pod goes on after it.
RestoreFinalizer(w) ==
    LET limit == IF Fresh(w) THEN 1 ELSE 0 IN
    /\ At("inspect") /\ w \in pass.todo
    /\ ~pass.list[w].rec /\ ~pass.list[w].deleting /\ ~pass.list[w].fin
    /\ \E k \in 0 .. limit :
         /\ Calls(k, limit)
         /\ pod' = IF k = 1 THEN [pod EXCEPT ![w].fin = TRUE] ELSE pod
         /\ IF k = 1 THEN pass' = [pass EXCEPT !.list[w].fin = TRUE, !.touched = @ \cup {w}]
                     ELSE Stop
    /\ UNCHANGED <<cluster, claims, joined, slurm, aged>>

HasClaim(w) == pod[w] # NoPod /\ w \in claims

\* A Pod that is being deleted, drains, has failed, or is registered without a
\* claim is cleaned up.
InspectCleanup(w) ==
    LET p == pass.list[w] IN
    /\ At("inspect") /\ w \in pass.todo /\ ~p.rec
    /\ p.deleting \/ p.fin
    /\ p.deleting \/ p.drain \/ p.up = "failed" \/ (Registered(w) /\ ~HasClaim(w))
    /\ CleanupWorker(w, Visited(w))

\* ensureWorkerClaim: the claim is created if the pass died before it could be.
InspectKeep(w) ==
    LET p     == pass.list[w]
        limit == IF pod[w] = NoPod \/ w \in claims THEN 0 ELSE 1 IN
    /\ At("inspect") /\ w \in pass.todo /\ ~p.rec /\ ~p.deleting /\ p.fin
    /\ ~p.drain /\ p.up # "failed" /\ (Registered(w) => HasClaim(w))
    /\ \E k \in 0 .. limit :
         /\ Calls(k, limit)
         /\ claims' = IF k = 1 THEN claims \cup {w} ELSE claims
         /\ IF k = limit THEN pass' = Visited(w) ELSE Stop
    /\ UNCHANGED <<cluster, pod, joined, slurm, aged>>

\* A Pod under hardware recovery belongs to the recovery reconciler.
InspectSkip(w) ==
    /\ At("inspect") /\ w \in pass.todo /\ pass.list[w].rec
    /\ pass' = Visited(w)
    /\ UNCHANGED <<cluster, kube, slurm, aged, faults>>

Orphaned == {w \in Workers : Registered(w) /\ ~Listed(w)}

\* A node without a listed Pod is drained and, once idle, deleted.
CleanOrphan(w) ==
    LET remove == pass.nodes[w].drain /\ NodeIdle(pass.nodes[w])
        limit  == IF node[w].state = "absent" /\ ~remove THEN 0 ELSE 1 IN
    /\ At("orphans") /\ w \in pass.todo
    /\ \E k \in 0 .. limit :
         /\ Calls(k, limit)
         /\ node' = IF k = 0 THEN node
                    ELSE IF remove THEN [node EXCEPT ![w] = Absent]
                    ELSE [node EXCEPT ![w].drain = TRUE]
         /\ IF k = 1 THEN pass' = Visited(w) ELSE Stop
    /\ UNCHANGED <<cluster, kube, job, at, aged>>

-----------------------------------------------------------------------------
(* reconcileWorkers: demand against capacity *)

\* Variant with a fault: Pods count when they are ready.
CountedReady == {w \in Workers : Listed(w) /\ PodReady(pass.list[w])}

\* The Pods that count against maxWorkers, and those of them that demand may be
\* assigned to.
Counted == {w \in Workers : /\ Listed(w)
                            /\ ~pass.list[w].deleting /\ ~pass.list[w].rec
                            /\ pass.list[w].up # "failed"}

Candidates == {w \in Counted : \/ ~PodReady(pass.list[w]) \/ ~Registered(w)
                               \/ NodeIdle(pass.nodes[w])}

ShapeFits(shape, wanted) == /\ shape.cpus >= wanted.cpus
                            /\ shape.mem >= wanted.mem
                            /\ shape.gres = wanted.gres

LessWaste(v, w) ==
    LET a == pass.list[v].shape
        b == pass.list[w].shape IN
    IF a.cpus # b.cpus THEN a.cpus < b.cpus
    ELSE IF a.mem # b.mem THEN a.mem < b.mem ELSE v < w

\* Variant with a fault: any worker of the pool will do.
BestCandidateOfPool(used, j) ==
    LET fitting == {w \in Candidates \ used : pass.list[w].pool = Pool[j]} IN
    IF fitting = {} THEN 0 ELSE CHOOSE w \in fitting : TRUE

\* bestCandidate; 0 when no worker fits.
BestCandidate(used, j) ==
    LET fitting == {w \in Candidates \ used : /\ pass.list[w].pool = Pool[j]
                                              /\ ShapeFits(pass.list[w].shape, Shape[j])} IN
    IF fitting = {} THEN 0
    ELSE CHOOSE w \in fitting : \A v \in fitting \ {w} : LessWaste(w, v)

\* The order in which Demands serves the jobs.
Sooner(i, j) == \E m, n \in DOMAIN Queue : m < n /\ Queue[m] = i /\ Queue[n] = j

Place(placed, j) ==
    LET best == BestCandidate(placed.used, j) IN
    IF best = 0 THEN placed
    ELSE [used |-> placed.used \cup {best}, served |-> placed.served \cup {j}]

\* The candidates a group of jobs takes, in the order of its jobs.
PlaceGroup(group) ==
    LET placed[n \in 0 .. Len(Queue)] ==
          IF n = 0 THEN [used |-> pass.assigned, served |-> {}]
          ELSE IF Queue[n] \in group THEN Place(placed[n - 1], Queue[n])
          ELSE placed[n - 1]
    IN  placed[Len(Queue)]

InPool(jobs, p) == {j \in jobs : Pool[j] = p}

Fits(creates) ==
    \A p \in Pools : InPool(creates, p) # {} =>
        pass.counts[p] + Cardinality(InPool(creates, p)) <= MaxWorkers[p]

\* The next job group: it gets everything it needs, or nothing.
PlanGroup ==
    \E j \in pass.jobs :
        LET group   == {i \in pass.jobs : Group[i] = Group[j]}
            placed  == PlaceGroup(group)
            creates == group \ placed.served IN
        /\ At("create") /\ pass.creates = {}
        /\ \A i \in pass.jobs \ {j} : Sooner(j, i)
        /\ pass' = IF Fits(creates)
                   THEN [pass EXCEPT !.jobs = @ \ group, !.creates = creates,
                                     !.assigned = @ \cup (Candidates \cap placed.used)]
                   ELSE [pass EXCEPT !.jobs = @ \ group]
        /\ UNCHANGED <<cluster, kube, slurm, aged, faults>>

\* The loops of a pass follow each other when nothing is left to visit.
Proceed ==
    /\ pass.todo = {}
    /\ \/ /\ At("inspect")
          /\ pass' = [pass EXCEPT !.pc = "orphans", !.todo = Orphaned]
       \/ /\ At("orphans")
          /\ pass' = [pass EXCEPT !.pc = "create", !.counts =
                         [p \in Pools |-> Cardinality({w \in Counted : pass.list[w].pool = p})]]
       \/ /\ At("create") /\ pass.jobs = {} /\ pass.creates = {}
          /\ pass' = [pass EXCEPT !.pc = "scale", !.todo = Present(pass.list), !.counts = None]
       \/ /\ At("scale") \/ At("delete")
          /\ Stop
    /\ UNCHANGED <<cluster, kube, slurm, aged, faults>>

\* Names are random; one that nothing refers to is as good as a new one.
FreeNames == {w \in Workers : /\ pod[w] = NoPod /\ pass.list[w] = NoPod
                              /\ node[w] = Absent /\ ~Registered(w)}

NewPod(j) == [pool |-> Pool[j], shape |-> Shape[j], up |-> "unready", fin |-> TRUE,
              drain |-> FALSE, idle |-> FALSE, rec |-> FALSE, deleting |-> FALSE]

\* createWorker: the Pod, then its claim.  Without a name the API server
\* refuses the Pod, as it does when a quota is used up.
CreateWorker ==
    \E j \in pass.creates :
        LET limit == IF FreeNames = {} THEN 0 ELSE 2 IN
        /\ At("create") /\ \A i \in pass.creates \ {j} : Sooner(j, i)
        /\ \E k \in 0 .. limit :
             /\ Calls(k, limit)
             /\ \/ k = 0 /\ Stop /\ UNCHANGED <<pod, claims>>
                \/ \E w \in FreeNames :
                     /\ k > 0 /\ \A v \in FreeNames : w <= v
                     /\ pod' = [pod EXCEPT ![w] = NewPod(j)]
                     /\ IF k = 1 THEN UNCHANGED claims /\ Stop
                        ELSE /\ claims' = claims \cup {w}
                             /\ pass' = [pass EXCEPT !.creates = @ \ {j},
                                                     !.counts[Pool[j]] = @ + 1]
        /\ UNCHANGED <<cluster, joined, slurm, aged>>

-----------------------------------------------------------------------------
(* reconcileWorkers: idle workers *)

\* The count of ready workers of the pool includes the one being visited.
ReadyHere(w) == pass.ready[pass.list[w].pool] + IF PodReady(pass.list[w]) THEN 1 ELSE 0

Counting(w) == [Visited(w) EXCEPT !.ready[pass.list[w].pool] = ReadyHere(w)]

IdleCapacity(w) == /\ w \notin pass.assigned
                   /\ \/ ~PodReady(pass.list[w])
                      \/ Registered(w) /\ NodeIdle(pass.nodes[w])

Scalable(w) == /\ At("scale") /\ w \in pass.todo
               /\ ~pass.list[w].deleting /\ ~pass.list[w].drain /\ ~pass.list[w].rec

ScaleSkip(w) ==
    /\ At("scale") /\ w \in pass.todo
    /\ \/ ~Scalable(w) /\ pass' = Visited(w)
       \/ /\ Scalable(w) /\ pass' = Counting(w)
          /\ \/ ~IdleCapacity(w) /\ ~pass.list[w].idle
             \/ /\ IdleCapacity(w) /\ PodReady(pass.list[w])
                /\ \/ ReadyHere(w) <= MinReady[pass.list[w].pool]
                   \/ pass.list[w].idle /\ w \notin aged
    /\ UNCHANGED <<cluster, kube, slurm, aged, faults>>

\* setWorkerAnnotation for idle-since: cleared when the worker is wanted or
\* busy, set when it is first seen idle.
ScaleMark(w) ==
    LET limit == IF Fresh(w) THEN 1 ELSE 0
        mark  == IdleCapacity(w) IN
    /\ Scalable(w) /\ pass.list[w].idle # mark
    /\ mark => PodReady(pass.list[w]) /\ ReadyHere(w) > MinReady[pass.list[w].pool]
    /\ \E k \in 0 .. limit :
         /\ Calls(k, limit)
         /\ IF k = 1
            THEN /\ pod' = [pod EXCEPT ![w].idle = mark]
                 /\ aged' = IF mark THEN aged \ {w} ELSE aged
                 /\ pass' = [Counting(w) EXCEPT !.list[w].idle = mark,
                                              !.touched = @ \cup {w}]
            ELSE UNCHANGED <<pod, aged>> /\ Stop
    /\ UNCHANGED <<cluster, claims, joined, slurm>>

\* An unready worker nobody wants goes at once, a ready one after idleTimeout.
ScaleDown(w) ==
    LET p == pass.list[w] IN
    /\ Scalable(w) /\ IdleCapacity(w)
    /\ \/ ~PodReady(p) /\ CleanupWorker(w, Counting(w))
       \/ /\ PodReady(p) /\ p.idle /\ w \in aged /\ ReadyHere(w) > MinReady[p.pool]
          /\ CleanupWorker(w, [Counting(w) EXCEPT !.ready[p.pool] = @ - 1])

\* Variant with a fault: a worker that drains already is left alone.
DeletionDrains(w) ==
    /\ At("delete") /\ w \in pass.todo
    /\ \/ ~pass.list[w].drain /\ CleanupWorker(w, Visited(w))
       \/ /\ pass.list[w].drain /\ pass' = Visited(w)
          /\ UNCHANGED <<cluster, kube, slurm, aged, faults>>

\* cleanupClusterWorkers, one Pod.
DeletionCleanup(w) ==
    /\ At("delete") /\ w \in pass.todo
    /\ CleanupWorker(w, Visited(w))

\* The operator is restarted, or a read fails.
AbandonPass ==
    /\ ~At("idle") /\ Fault("call") /\ Stop
    /\ UNCHANGED <<cluster, kube, slurm, aged>>

-----------------------------------------------------------------------------
(* Around the operator: the kubelet and slurmd of a worker *)

Running(w) == pod[w] # NoPod /\ pod[w].up # "failed" /\ w \in joined

\* gres-init has read the allocated claim; slurmd registers the dynamic node.
Register(w) ==
    /\ pod[w] # NoPod /\ pod[w].up = "unready" /\ ~pod[w].deleting
    /\ w \in claims \ joined
    /\ joined' = joined \cup {w}
    /\ node' = [node EXCEPT ![w] = [state |-> "up", drain |-> FALSE]]
    /\ UNCHANGED <<cluster, pod, claims, job, at, aged, pass, faults>>

\* The readiness probe finds the node in Slurm.
BecomeReady(w) ==
    /\ Running(w) /\ pod[w].up = "unready" /\ node[w].state = "up"
    /\ pod' = [pod EXCEPT ![w].up = "ready"]
    /\ UNCHANGED <<cluster, claims, joined, slurm, aged, pass, faults>>

\* The probe fails for a while; a container ends; somebody deletes the Pod.
PodFault(w) ==
    /\ pod[w] # NoPod
    /\ \/ /\ Fault("probe") /\ pod[w].up = "ready"
          /\ pod' = [pod EXCEPT ![w].up = "unready"]
       \/ /\ Fault("fail") /\ pod[w].up # "failed"
          /\ pod' = [pod EXCEPT ![w].up = "failed"]
       \/ /\ Fault("delete") /\ ~pod[w].deleting
          /\ pod' = [pod EXCEPT ![w].deleting = TRUE]
    /\ UNCHANGED <<cluster, claims, joined, slurm, aged, pass>>

LoseClaim(w) ==
    /\ w \in claims /\ Fault("claim")
    /\ claims' = claims \ {w}
    /\ UNCHANGED <<cluster, pod, joined, slurm, aged, pass>>

\* A Pod that is being deleted: its containers end, and when no finalizer is
\* left it goes, with the claim it owns.
Terminate(w) ==
    /\ pod[w] # NoPod /\ pod[w].deleting
    /\ \/ /\ pod[w].up # "failed"
          /\ pod' = [pod EXCEPT ![w].up = "failed"]
          /\ UNCHANGED <<claims, joined, aged>>
       \/ /\ pod[w].up = "failed" /\ ~pod[w].fin
          /\ pod' = [pod EXCEPT ![w] = NoPod] /\ claims' = claims \ {w}
          /\ joined' = joined \ {w} /\ aged' = aged \ {w}
    /\ UNCHANGED <<cluster, slurm, pass, faults>>

\* idleTimeout passes.
Age(w) ==
    /\ pod[w] # NoPod /\ pod[w].idle /\ w \notin aged
    /\ aged' = aged \cup {w}
    /\ UNCHANGED <<cluster, kube, slurm, pass, faults>>

\* The recovery reconciler marks the Pods of a faulty Node and drains them, and
\* in the end removes them; Evacuation has the details.
TakeForRecovery(w) ==
    /\ pod[w] # NoPod /\ ~pod[w].rec /\ Fault("recover")
    /\ pod' = [pod EXCEPT ![w].rec = TRUE]
    /\ node' = [node EXCEPT ![w].drain = @ \/ node[w].state # "absent"]
    /\ UNCHANGED <<cluster, claims, joined, job, at, aged, pass>>

RecoveryRemoves(w) ==
    /\ pod[w] # NoPod /\ pod[w].rec /\ \A j \in Jobs : at[j] # w
    /\ pod' = [pod EXCEPT ![w] = NoPod] /\ node' = [node EXCEPT ![w] = Absent]
    /\ claims' = claims \ {w} /\ joined' = joined \ {w} /\ aged' = aged \ {w}
    /\ UNCHANGED <<cluster, job, at, pass, faults>>

-----------------------------------------------------------------------------
(* Around the operator: slurmctld and its users *)

Members(g) == {j \in Jobs : Group[j] = g}

Submit(g) ==
    /\ \A j \in Members(g) : job[j] = "held"
    /\ job' = [j \in Jobs |-> IF j \in Members(g) THEN "pending" ELSE job[j]]
    /\ UNCHANGED <<cluster, kube, node, at, aged, pass, faults>>

Cancel(g) ==
    /\ \A j \in Members(g) : job[j] = "pending"
    /\ Fault("cancel")
    /\ job' = [j \in Jobs |-> IF j \in Members(g) THEN "done" ELSE job[j]]
    /\ UNCHANGED <<cluster, kube, node, at, aged, pass>>

\* The nodes a component can be started on.
Startable(j) == {w \in Workers : /\ node[w] = [state |-> "up", drain |-> FALSE]
                                 /\ \A i \in Jobs : at[i] # w
                                 /\ pod[w] # NoPod /\ pod[w].pool = Pool[j]
                                 /\ ShapeFits(pod[w].shape, Shape[j])}

\* All components start together, each on a node of its own.
Start(g) ==
    /\ \A j \in Members(g) : job[j] = "pending"
    /\ \E place \in [Members(g) -> Workers] :
         /\ \A j \in Members(g) : place[j] \in Startable(j)
         /\ \A i, j \in Members(g) : place[i] = place[j] => i = j
         /\ job' = [j \in Jobs |-> IF j \in Members(g) THEN "running" ELSE job[j]]
         /\ at' = [j \in Jobs |-> IF j \in Members(g) THEN place[j] ELSE at[j]]
    /\ UNCHANGED <<cluster, kube, node, aged, pass, faults>>

Finish(g) ==
    /\ \A j \in Members(g) : job[j] = "running" /\ Running(at[j])
    /\ job' = [j \in Jobs |-> IF j \in Members(g) THEN "done" ELSE job[j]]
    /\ at' = [j \in Jobs |-> IF j \in Members(g) THEN 0 ELSE at[j]]
    /\ UNCHANGED <<cluster, kube, node, aged, pass, faults>>

\* slurmd is dead: slurmctld marks the node down and requeues its job.
NoticeDead(w) ==
    LET lost == {j \in Jobs : \E i \in Jobs : at[i] = w /\ Group[i] = Group[j]} IN
    /\ node[w].state = "up" /\ ~Running(w)
    /\ node' = [node EXCEPT ![w].state = "down"]
    /\ job' = [j \in Jobs |-> IF j \in lost THEN "pending" ELSE job[j]]
    /\ at' = [j \in Jobs |-> IF j \in lost THEN 0 ELSE at[j]]
    /\ UNCHANGED <<cluster, kube, aged, pass, faults>>

DeleteCluster ==
    /\ cluster = "live" /\ Fault("cluster")
    /\ cluster' = "deleting"
    /\ UNCHANGED <<kube, slurm, aged, pass>>

-----------------------------------------------------------------------------
Visit(w) == \/ RestoreFinalizer(w) \/ InspectCleanup(w) \/ InspectKeep(w)
            \/ InspectSkip(w) \/ CleanOrphan(w) \/ ScaleSkip(w) \/ ScaleMark(w)
            \/ ScaleDown(w) \/ DeletionCleanup(w)

Operate == \/ ReadJobs \/ ReadWorkers \/ CleanupClusterWorkers \/ Proceed
           \/ PlanGroup \/ CreateWorker \/ \E w \in Workers : Visit(w)

Tend(w) == \/ Register(w) \/ BecomeReady(w) \/ Terminate(w) \/ Age(w)
           \/ RecoveryRemoves(w) \/ NoticeDead(w)

GroupIDs == {Group[j] : j \in Jobs}

Next == \/ Operate \/ AbandonPass
        \/ \E w \in Workers : Tend(w) \/ PodFault(w) \/ LoseClaim(w)
                              \/ TakeForRecovery(w)
        \/ \E g \in GroupIDs : Submit(g) \/ Cancel(g) \/ Start(g) \/ Finish(g)
        \/ DeleteCluster

Spec == Init /\ [][Next]_vars

\* Nobody promises faults or submissions.  The operator is requeued after every
\* pass, the kubelet, slurmd and slurmctld act on each worker, time passes, and
\* slurmctld starts the jobs it can start and sees them end.
FairSpec == /\ Spec /\ WF_vars(Operate)
            /\ \A w \in Workers : WF_vars(Tend(w))
            /\ \A g \in GroupIDs : WF_vars(Start(g) \/ Finish(g))

-----------------------------------------------------------------------------
(* Properties *)

\* Type correctness.
TypeOK ==
    /\ cluster \in {"live", "deleting", "gone"}
    /\ pod \in [Workers -> Pods \cup {NoPod}] /\ claims \in SUBSET Workers
    /\ joined \in SUBSET Workers
    /\ node \in [Workers -> Nodes]
    /\ job \in [Jobs -> {"held", "pending", "running", "done"}]
    /\ at \in [Jobs -> Workers \cup {0}]
    /\ aged \in SUBSET Workers
    /\ pass \in Passes
    /\ faults \in 0 .. MaxFaults

\* The Pods that use a pool up.
Occupying(p) == {w \in Workers : /\ pod[w] # NoPod /\ pod[w].pool = p
                                 /\ ~pod[w].deleting /\ ~pod[w].rec
                                 /\ pod[w].up # "failed"}

\* "It creates at most the pool's remaining maxWorkers": the Pods that occupy a
\* pool never exceed its limit, whatever fails between the count and the last
\* createWorker of a pass.  Needs a cache that is up to date.
WithinMaxWorkers == \A p \in Pools : Cardinality(Occupying(p)) <= MaxWorkers[p]

\* cleanupWorker takes a registered worker down only when nothing runs on it,
\* though its idea of the node is as old as the pass: the drain it relies on
\* came at least one pass earlier.
NoBusyWorkerTakenDown ==
    [][\A w \in Workers :
         (pod[w] # NoPod /\ pod[w].fin /\ pod'[w] # NoPod /\ ~pod'[w].fin
            /\ Registered(w))
         => \A j \in Jobs : at[j] # w \/ ~Running(w)]_vars

\* A worker whose node Slurm drains although the Pod carries no mark of it: a
\* pass died between the two calls of cleanupWorker.  Nothing undrains it.
Stranded == \E w \in Workers : /\ pod[w] # NoPod /\ node[w].drain
                               /\ ~pod[w].drain /\ ~pod[w].rec

\* Every name of the instance belongs to a node that is down and has no Pod:
\* such a node is never idle, so CleanOrphan never deletes it.
OutOfNames == \A w \in Workers : pod[w] = NoPod /\ node[w].state = "down"

\* A pending job is started or cancelled, unless the cluster is deleted or a
\* worker is stranded.
DemandServed ==
    \A j \in Jobs :
        job[j] = "pending" ~>
            (job[j] # "pending" \/ cluster # "live" \/ Stranded \/ OutOfNames)

\* A deleted cluster goes and leaves no worker Pod behind, however many passes
\* fail on the way, unless Slurm reports a worker down: such a node is never
\* idle and its Pod keeps its finalizer.  Needs a cache that is up to date.
DeletionCompletes ==
    cluster = "deleting" ~>
        \/ cluster = "gone" /\ \A w \in Workers : pod[w] = NoPod
        \/ \E w \in Workers : node[w].state = "down"
=============================================================================
