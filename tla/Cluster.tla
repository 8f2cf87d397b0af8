------------------------------- MODULE Cluster -------------------------------
(***************************************************************************)
(* The reconciler of a HeterogeneousCluster                                *)
(* (slurm-operator/controllers/cluster_controller.go): it renders the      *)
(* Slurm control plane from the spec, object by object, lets login and     *)
(* workers follow only when the controllers run the current revision,      *)
(* reports conditions, and keeps the cluster until its workers are gone.   *)
(*                                                                         *)
(* Every call to the API server is a step.  Objects are read through the   *)
(* informer cache; the kinds in Lagging may be read stale.  The contents   *)
(* of an object are the generation of the spec they were rendered from.    *)
(* What reconcileWorkers does is module Workers.                           *)
(***************************************************************************)
EXTENDS Integers, Sequences

CONSTANTS
    Specs,      \* the user's specs in order: their profiles, as a sequence
    Lagging,    \* kinds the cache may lag behind in
    Faults,     \* kinds of fault that can happen
    MaxFaults   \* bound: faults in a behaviour

Workloads == {"slurmctld", "slurmdbd", "slurmrestd", "login"}
Passive   == {"config", "slurmctld-service", "slurmctld-pdb", "slurmdbd-service",
              "slurmrestd-service"}
Objects   == Workloads \cup Passive

ASSUME ClusterAssumption ==
    /\ Len(Specs) \in Nat \ {0} /\ Lagging \subseteq Objects \cup {"cluster"}
    /\ MaxFaults \in Nat

VARIABLES
    cluster,  \* the HeterogeneousCluster at the API server
    api,      \* the owned objects at the API server
    cache,    \* [cluster, objects] as last delivered to the operator
    workers,  \* whether the cluster has worker Pods
    op,       \* the pass: where it is, its copy of the cluster, the status to write
    faults

vars == <<cluster, api, cache, workers, op, faults>>

Absent  == [rev |-> 0, observed |-> 0, ready |-> FALSE]
Unknown == [obs |-> 0, control |-> FALSE, accounting |-> FALSE]
New     == [gen |-> 1, deleting |-> FALSE, finalizer |-> FALSE, gone |-> FALSE,
            status |-> Unknown]

Init ==
    /\ cluster = New
    /\ api = [o \in Objects |-> Absent]
    /\ cache = [cluster |-> New, objects |-> [o \in Objects |-> Absent]]
    /\ workers = FALSE
    /\ op = [pc |-> "idle", cl |-> New, status |-> Unknown]
    /\ faults = 0

Fault(kind) == /\ kind \in Faults /\ faults < MaxFaults
               /\ faults' = faults + 1

At(point)   == op.pc = point
Goes(point) == op' = [op EXCEPT !.pc = point]
Read(o)     == IF o \in Lagging THEN cache.objects[o] ELSE api[o]
Source      == IF "cluster" \in Lagging THEN cache.cluster ELSE cluster

-----------------------------------------------------------------------------
(* Status *)

\* Variant with a fault: the pass ends without a status.
NotReadyForGood == op' = [op EXCEPT !.pc = "failed"]

\* notReady: the conditions for a control plane that does not serve.
NotReady ==
    op' = [op EXCEPT !.pc = "status",
                     !.status = [obs |-> op.cl.gen, control |-> FALSE, accounting |-> FALSE]]

\* updateStatus: nothing to write, a write, or a conflict with what the API
\* server has by now.
UpdateStatus ==
    /\ At("status") /\ Goes("idle")
    /\ \/ /\ op.cl.status = op.status \/ cluster # op.cl
          /\ UNCHANGED cluster
       \/ /\ op.cl.status # op.status /\ cluster = op.cl
          /\ cluster' = [cluster EXCEPT !.status = op.status]
    /\ UNCHANGED <<api, cache, workers, faults>>

-----------------------------------------------------------------------------
(* Validation and deletion *)

\* Reconcile reads the cluster and looks whether it is being deleted.
Begin ==
    LET cl == Source IN
    /\ At("idle") /\ ~cl.gone
    /\ cl.deleting => cl.finalizer
    /\ op' = [op EXCEPT !.pc = IF cl.deleting THEN "cleanup" ELSE "validate", !.cl = cl]
    /\ UNCHANGED <<cluster, api, cache, workers, faults>>

\* No name of a profile twice in a pool, no GRES mapping twice in the cluster.
ValidateSpec(profiles) ==
    \A i, j \in 1..Len(profiles) : i # j =>
        /\ profiles[i].gres # profiles[j].gres
        /\ <<profiles[i].pool, profiles[i].name>> # <<profiles[j].pool, profiles[j].name>>

\* The claim does not exist, cannot be read, or is not ReadWriteMany.
ValidateStateClaim == Fault("claim")

\* The Secret does not exist, cannot be read, or holds less than 32 bytes.
JwtKey == Fault("jwt")

\* Variants with a fault: the spec is not validated; the finalizer is not added.
ValidateNothing ==
    /\ At("validate")
    /\ \/ op.cl.finalizer /\ Goes("config") /\ UNCHANGED cluster
       \/ /\ ~op.cl.finalizer /\ cluster = op.cl
          /\ cluster' = [cluster EXCEPT !.finalizer = TRUE]
          /\ op' = [op EXCEPT !.pc = "config", !.cl = cluster']
    /\ UNCHANGED <<api, cache, workers, faults>>
ValidateOnly ==
    /\ At("validate")
    /\ IF ValidateSpec(Specs[op.cl.gen]) THEN Goes("config") ELSE NotReady
    /\ UNCHANGED <<cluster, api, cache, workers, faults>>

\* The early returns, then the finalizer, which needs a fresh copy of the cluster.
Validate ==
    /\ At("validate")
    /\ \/ ~ValidateSpec(Specs[op.cl.gen]) /\ NotReady /\ UNCHANGED <<cluster, faults>>
       \/ (ValidateStateClaim \/ JwtKey) /\ NotReady /\ UNCHANGED cluster
       \/ /\ ValidateSpec(Specs[op.cl.gen]) /\ UNCHANGED faults
          /\ \/ op.cl.finalizer /\ Goes("config") /\ UNCHANGED cluster
             \/ /\ ~op.cl.finalizer /\ cluster = op.cl
                /\ cluster' = [cluster EXCEPT !.finalizer = TRUE]
                /\ op' = [op EXCEPT !.pc = "config", !.cl = cluster']
             \/ ~op.cl.finalizer /\ cluster # op.cl /\ Goes("idle") /\ UNCHANGED cluster
    /\ UNCHANGED <<api, cache, workers>>

\* The cluster is being deleted: clean up its workers, and let it go in a pass
\* that finds none.  The owned objects are garbage-collected with it.
Cleanup ==
    /\ At("cleanup") /\ Goes("idle")
    /\ \/ (JwtKey \/ Fault("rest")) /\ UNCHANGED <<cluster, api, workers>>
       \/ workers /\ workers' = FALSE /\ UNCHANGED <<cluster, api, faults>>
       \/ /\ ~workers /\ cluster = op.cl
          /\ cluster' = [cluster EXCEPT !.finalizer = FALSE, !.gone = TRUE]
          /\ api' = [o \in Objects |-> Absent]
          /\ UNCHANGED <<workers, faults>>
       \/ ~workers /\ cluster # op.cl /\ UNCHANGED <<cluster, api, workers, faults>>
    /\ UNCHANGED cache

-----------------------------------------------------------------------------
(* The control plane, in order *)

\* Variant with a fault: a conflict is not an error.
CreateOrUpdateAnyway(o, next) ==
    /\ At(o) /\ Goes(next)
    /\ api' = IF Read(o) = api[o] THEN [api EXCEPT ![o].rev = op.cl.gen] ELSE api
    /\ UNCHANGED <<cluster, cache, workers, faults>>

\* CreateOrUpdate of object o at point o, then on to the next point.
CreateOrUpdate(o, next) ==
    LET seen == Read(o) IN
    /\ At(o)
    /\ \/ /\ seen.rev = op.cl.gen
          /\ Goes(next) /\ UNCHANGED <<api, faults>>
       \/ /\ seen.rev # op.cl.gen /\ seen = api[o]
          /\ api' = [api EXCEPT ![o].rev = op.cl.gen]
          /\ Goes(next) /\ UNCHANGED faults
       \/ /\ seen.rev # op.cl.gen
          /\ \/ seen # api[o] /\ UNCHANGED faults
             \/ Fault("call")
          /\ NotReady /\ UNCHANGED api
    /\ UNCHANGED <<cluster, cache, workers>>

ReconcileDeployment(component, next) == CreateOrUpdate(component, next)
ReconcileService(service, next)      == CreateOrUpdate(service, next)

ReconcileConfig            == CreateOrUpdate("config", "slurmctld-service")
ReconcileControllerService == CreateOrUpdate("slurmctld-service", "slurmctld")
ReconcileControllers       == CreateOrUpdate("slurmctld", "slurmctld-pdb")
ReconcileControllerPDB     == CreateOrUpdate("slurmctld-pdb", "slurmdbd-service")
ReconcileDatabase          == ReconcileDeployment("slurmdbd", "slurmrestd-service")
ReconcileREST              == ReconcileDeployment("slurmrestd", "gate")
ReconcileLogin             == ReconcileDeployment("login", "ready")

ReconcileAll == \/ ReconcileConfig \/ ReconcileControllerService \/ ReconcileControllers
                \/ ReconcileControllerPDB \/ ReconcileService("slurmdbd-service", "slurmdbd")
                \/ ReconcileDatabase \/ ReconcileService("slurmrestd-service", "slurmrestd")
                \/ ReconcileREST

\* Variant with a fault: the observed generation is not compared.
ReadyOnly(o) == Read(o).rev # 0 /\ Read(o).ready

\* All replicas of what the cache shows are updated and ready.
RolledOut(o)     == Read(o).rev # 0 /\ Read(o).observed = Read(o).rev /\ Read(o).ready
ControllersReady == RolledOut("slurmctld")
\* Variant with a fault: the controllers speak for all workloads.
ControllersOnly == ControllersReady

WorkloadsReady   == ControllersReady /\ \A o \in Workloads \ {"slurmctld"} : RolledOut(o)

\* Login waits for the controllers.
Gate ==
    /\ At("gate")
    /\ IF ControllersReady THEN Goes("login") ELSE NotReady
    /\ UNCHANGED <<cluster, api, cache, workers, faults>>

\* Workers wait for everything.
Ready ==
    /\ At("ready")
    /\ IF WorkloadsReady THEN Goes("jobs") ELSE NotReady
    /\ UNCHANGED <<cluster, api, cache, workers, faults>>

\* PendingJobs and AccountingReady, then reconcileWorkers, which may create
\* workers before it fails; then the conditions.  Of these WorkersReady, which
\* says what reconcileWorkers returned, and CheckpointReady are left out.
ReconcileWorkers ==
    /\ At("jobs")
    /\ \/ Fault("rest") /\ NotReady /\ UNCHANGED workers
       \/ Fault("call") /\ Goes("idle") /\ workers' \in {workers, TRUE}
       \/ \E accounting \in BOOLEAN :
            /\ IF accounting THEN UNCHANGED faults ELSE Fault("accounting")
            /\ workers' \in {workers, TRUE}
            /\ op' = [op EXCEPT !.pc = "status",
                                !.status = [obs |-> op.cl.gen, control |-> TRUE,
                                            accounting |-> accounting]]
    /\ UNCHANGED <<cluster, api, cache>>

Pass == \/ Begin \/ Validate \/ Cleanup \/ ReconcileAll \/ Gate \/ ReconcileLogin
        \/ Ready \/ ReconcileWorkers \/ UpdateStatus

-----------------------------------------------------------------------------
(* Everybody else *)

\* The operator dies in a pass.
Abandon == /\ ~At("idle") /\ Fault("crash") /\ Goes("idle")
           /\ UNCHANGED <<cluster, api, cache, workers>>

\* The user changes the spec, or deletes the cluster.
Edit == /\ ~cluster.deleting /\ cluster.gen < Len(Specs)
        /\ cluster' = [cluster EXCEPT !.gen = @ + 1]
        /\ UNCHANGED <<api, cache, workers, op, faults>>

Delete == /\ ~cluster.deleting
          /\ cluster' = [cluster EXCEPT !.deleting = TRUE, !.gone = ~cluster.finalizer]
          /\ api' = IF cluster.finalizer THEN api ELSE [o \in Objects |-> Absent]
          /\ UNCHANGED <<cache, workers, op, faults>>

\* The controllers of Kubernetes see a new template, and have replaced the Pods.
Observe(o) == /\ o \in Workloads /\ api[o].observed # api[o].rev
              /\ api' = [api EXCEPT ![o].observed = api[o].rev, ![o].ready = FALSE]
              /\ UNCHANGED <<cluster, cache, workers, op, faults>>

Roll(o) == /\ o \in Workloads /\ api[o].rev # 0
           /\ api[o].observed = api[o].rev /\ ~api[o].ready
           /\ api' = [api EXCEPT ![o].ready = TRUE]
           /\ UNCHANGED <<cluster, cache, workers, op, faults>>

\* A Pod of a workload fails.
Break(o) == /\ o \in Workloads /\ api[o].ready /\ Fault("pod")
            /\ api' = [api EXCEPT ![o].ready = FALSE]
            /\ UNCHANGED <<cluster, cache, workers, op>>

\* A watch event reaches the cache.
Sync(o) ==
    /\ o \in Lagging
    /\ \/ /\ o = "cluster" /\ cache.cluster # cluster
          /\ cache' = [cache EXCEPT !.cluster = cluster]
       \/ /\ o # "cluster" /\ cache.objects[o] # api[o]
          /\ cache' = [cache EXCEPT !.objects[o] = api[o]]
    /\ UNCHANGED <<cluster, api, workers, op, faults>>

Rollout(o) == Observe(o) \/ Roll(o)

Next == \/ Pass \/ Abandon \/ Edit \/ Delete
        \/ \E o \in Workloads : Rollout(o) \/ Break(o)
        \/ \E o \in Lagging : Sync(o)

Spec == Init /\ [][Next]_vars

-----------------------------------------------------------------------------
(* Properties *)

Points   == Objects \cup {"idle", "validate", "cleanup", "gate", "ready", "jobs", "status"}
Statuses == [obs : 0..Len(Specs), control : BOOLEAN, accounting : BOOLEAN]
Clusters == [gen : 1..Len(Specs), deleting : BOOLEAN, finalizer : BOOLEAN, gone : BOOLEAN,
             status : Statuses]
Owned    == [rev : 0..Len(Specs), observed : 0..Len(Specs), ready : BOOLEAN]
Caches   == [cluster : Clusters, objects : [Objects -> Owned]]
Passes   == [pc : Points, cl : Clusters, status : Statuses]

\* Type correctness.
TypeOK ==
    /\ cluster \in Clusters /\ api \in [Objects -> Owned]
    /\ cache \in Caches /\ op \in Passes
    /\ workers \in BOOLEAN /\ faults \in 0..MaxFaults

\* Login is never given a revision that the controllers have not taken up: its
\* clients would talk to a slurmctld with another configuration.
LoginFollowsControllers == api["login"].rev <= api["slurmctld"].observed

\* ControlPlaneReady with an ObservedGeneration means that every workload has
\* taken up the spec of that generation, whatever was edited or failed since.
ReadyIsCurrent ==
    cluster.status.control /\ ~cluster.gone =>
        \A o \in Workloads : api[o].observed >= cluster.status.obs

\* An invalid spec is never rendered, not even in part.
OnlyValidRendered ==
    \A o \in Objects : api[o].rev # 0 => ValidateSpec(Specs[api[o].rev])

\* As long as there are workers there is the finalizer that waits for them.
FinalizerBeforeWorkers == workers => cluster.finalizer

\* The configuration is rendered first: whatever fails in between, and whether
\* or not the cache still shows the old one, no workload, Service or disruption
\* budget is of a later generation than the ConfigMap.
ConfigFirst == \A o \in Objects : api[o].rev <= api["config"].rev

-----------------------------------------------------------------------------
(* Inductive invariants *)

\* How far a pass is with the control plane; 0 before and after it.
Rank(point) ==
    CASE point = "config"             -> 1
      [] point = "slurmctld-service"  -> 2
      [] point = "slurmctld"          -> 3
      [] point = "slurmctld-pdb"      -> 4
      [] point = "slurmdbd-service"   -> 5
      [] point = "slurmdbd"           -> 6
      [] point = "slurmrestd-service" -> 7
      [] point = "slurmrestd"         -> 8
      [] point = "gate"               -> 9
      [] point = "login"              -> 10
      [] point = "ready"              -> 11
      [] point = "jobs"               -> 12
      [] OTHER                        -> 0

Working == Rank(op.pc) > 0

\* What the operator reads and works with is never ahead of the API server, and
\* a pass never works with an older spec than the passes before it.
CopiesInv ==
    /\ cache.cluster.gen <= cluster.gen /\ op.cl.gen <= Source.gen
    /\ cluster.gone => cluster.deleting
    /\ cache.cluster.deleting => cluster.deleting
    /\ op.cl.deleting => Source.deleting
    /\ "cluster" \notin Lagging => cache.cluster = New
    /\ \A o \in Objects : api[o].rev <= op.cl.gen

\* A pass renders only under the finalizer and for a valid spec; without the
\* finalizer there is nothing, and with it nothing goes away.
FinalizerInv ==
    /\ At("cleanup") => op.cl.deleting
    /\ At("validate") \/ Working => ~op.cl.deleting /\ (op.cl.finalizer => cluster.finalizer)
    /\ Working => op.cl.finalizer /\ ValidateSpec(Specs[op.cl.gen])
    /\ cache.cluster.finalizer /\ ~cache.cluster.deleting => cluster.finalizer
    /\ \A o \in Objects :
         /\ cluster.finalizer => cache.objects[o].rev <= api[o].rev
         /\ ~cluster.finalizer /\ ~cluster.deleting =>
              api[o].rev = 0 /\ cache.objects[o].rev = 0

\* What a pass has been through is of its own generation, the cache lagging or not.
RenderInv == \A o \in Objects : Rank(op.pc) > Rank(o) => api[o].rev = op.cl.gen

ClusterInv == /\ TypeOK /\ CopiesInv /\ FinalizerInv /\ RenderInv
              /\ OnlyValidRendered /\ FinalizerBeforeWorkers /\ ConfigFirst

\* What the pass has seen rolled out, if the cache is up to date on workloads.
RolloutInv ==
    /\ \A o \in Objects : api[o].observed <= api[o].rev
    /\ Rank(op.pc) > 9 => api["slurmctld"].observed = op.cl.gen
    /\ At("jobs") => \A o \in Workloads : api[o].observed = op.cl.gen
    /\ At("status") /\ op.status.control =>
         cluster.finalizer /\ \A o \in Workloads : api[o].observed >= op.status.obs

ReadinessInv == RolloutInv /\ LoginFollowsControllers /\ ReadyIsCurrent
=============================================================================
