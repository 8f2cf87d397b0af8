------------------------ MODULE RingAndClusterProofs ------------------------
(***************************************************************************)
(* Proofs about two modules that share nothing: of Cluster, the order in   *)
(* which a control plane is rendered, for every sequence of specs, every   *)
(* set of kinds the cache lags behind in and any number of faults; of      *)
(* Ring, that the ring is correct for every number and size of slots and   *)
(* every length of the stream.                                             *)
(***************************************************************************)
EXTENDS Cluster, Ring, TLAPS

-----------------------------------------------------------------------------
(* Points of a pass *)

\* The points of a pass are ranked, and its objects are ranked apart.
LEMMA Ranks ==
    /\ \A point \in Points : Rank(point) \in 0..12
    /\ \A o \in Objects : Rank(o) \in 1..10
    /\ \A o, p \in Objects : Rank(o) = Rank(p) => o = p
    /\ Rank("idle") = 0 /\ Rank("validate") = 0 /\ Rank("cleanup") = 0 /\ Rank("status") = 0
    /\ Rank("config") = 1 /\ Rank("gate") = 9 /\ Rank("ready") = 11 /\ Rank("jobs") = 12
    /\ Rank("login") = 10 /\ Rank("slurmctld") = 3
    /\ \A o \in Workloads : Rank(o) < 11 /\ o \in Objects
<1> USE DEF Rank, Points, Objects, Workloads, Passive
<1>1. \A point \in Points : Rank(point) \in 0..12
  OBVIOUS
<1>2. \A o \in Objects : Rank(o) \in 1..10
  OBVIOUS
<1>3. \A o, p \in Objects : Rank(o) = Rank(p) => o = p
  OBVIOUS
<1>4. /\ Rank("idle") = 0 /\ Rank("validate") = 0 /\ Rank("cleanup") = 0 /\ Rank("status") = 0
      /\ Rank("config") = 1 /\ Rank("gate") = 9 /\ Rank("ready") = 11 /\ Rank("jobs") = 12
      /\ Rank("login") = 10 /\ Rank("slurmctld") = 3
  OBVIOUS
<1>5. \A o \in Workloads : Rank(o) < 11 /\ o \in Objects
  OBVIOUS
<1> QED BY <1>1, <1>2, <1>3, <1>4, <1>5

\* Every call of CreateOrUpdate in Reconcile leads to the next point.
LEMMA Calls ==
    ASSUME ReconcileAll \/ ReconcileLogin
    PROVE  \E o \in Objects, next \in Points : /\ Rank(next) = Rank(o) + 1
                                               /\ next \notin {"login", "jobs"}
                                               /\ CreateOrUpdate(o, next)
BY DEF ReconcileAll, ReconcileConfig, ReconcileControllerService, ReconcileControllers,
       ReconcileControllerPDB, ReconcileService, ReconcileDatabase, ReconcileREST,
       ReconcileLogin, ReconcileDeployment, Rank, Points, Objects, Workloads, Passive

\* The parts of the type invariant that speak of records.
LEMMA Fields ==
    TypeOK => /\ cluster.gen \in 1..Len(Specs) /\ cluster.deleting \in BOOLEAN
              /\ cluster.finalizer \in BOOLEAN /\ cluster.gone \in BOOLEAN
              /\ cluster.status \in Statuses
              /\ cache.cluster \in Clusters /\ cache.objects \in [Objects -> Owned]
              /\ op.pc \in Points /\ op.cl \in Clusters /\ op.status \in Statuses
              /\ op.cl.gen \in 1..Len(Specs) /\ cache.cluster.gen \in 1..Len(Specs)
              /\ \A o \in Objects : /\ api[o].rev \in 0..Len(Specs)
                                    /\ api[o].observed \in 0..Len(Specs)
                                    /\ cache.objects[o].rev \in 0..Len(Specs)
              /\ Source \in Clusters
BY DEF TypeOK, Clusters, Owned, Caches, Passes, Source

-----------------------------------------------------------------------------
(* Types *)

\* The initial state is well typed.
LEMMA TypeInit == Init => TypeOK
<1>1. Unknown \in Statuses /\ Absent \in Owned
  BY ClusterAssumption DEF Unknown, Statuses, Absent, Owned
<1>2. New \in Clusters
  BY <1>1, ClusterAssumption DEF New, Clusters
<1>3. [cluster |-> New, objects |-> [o \in Objects |-> Absent]] \in Caches
  BY <1>1, <1>2 DEF Caches
<1>4. [pc |-> "idle", cl |-> New, status |-> Unknown] \in Passes
  BY <1>1, <1>2 DEF Passes, Points
<1>5. 0 \in 0..MaxFaults
  BY ClusterAssumption
<1>6. [o \in Objects |-> Absent] \in [Objects -> Owned]
  BY <1>1
<1> QED BY <1>2, <1>3, <1>4, <1>5, <1>6, Zenon DEF Init, TypeOK

\* Faults are counted.
LEMMA FaultType == ASSUME TypeOK, NEW kind, Fault(kind) PROVE faults' \in 0..MaxFaults
BY ClusterAssumption DEF Fault, TypeOK

\* A pass that goes on, or ends with the conditions of notReady, is well typed.
LEMMA TypePass ==
    ASSUME TypeOK
    PROVE  /\ \A point \in Points : Goes(point) => op' \in Passes
           /\ NotReady => op' \in Passes
<1> USE DEF TypeOK, Passes
<1>1. \A point \in Points : Goes(point) => op' \in Passes
  BY DEF Goes
<1>2. op.cl.gen \in 0..Len(Specs)
  BY ClusterAssumption DEF Clusters
<1>3. [obs |-> op.cl.gen, control |-> FALSE, accounting |-> FALSE] \in Statuses
  BY <1>2 DEF Statuses
<1>4. "status" \in Points
  BY DEF Points
<1>5. NotReady => op' \in Passes
  BY <1>3, <1>4, ZenonT(60) DEF NotReady
<1> QED BY <1>1, <1>5

\* The steps of a pass keep the types.
LEMMA TypeOfPass == ASSUME TypeOK, Pass PROVE TypeOK'
<1>0. {"idle", "validate", "cleanup", "config", "gate", "ready", "jobs", "status", "login"} \subseteq Points
  BY DEF Points, Objects, Workloads, Passive
<1>1. CASE Begin
  <2>1. op' \in Passes
    BY <1>0, <1>1, Fields, ZenonT(60) DEF Begin, TypeOK, Passes
  <2> QED BY <1>1, <2>1 DEF Begin, TypeOK
<1>2. CASE Validate
  <2>1. [cluster EXCEPT !.finalizer = TRUE] \in Clusters
    BY ZenonT(60) DEF TypeOK, Clusters
  <2>a. cluster' = [cluster EXCEPT !.finalizer = TRUE] \/ cluster' = cluster
    BY <1>2, Zenon DEF Validate
  <2>b. \/ NotReady \/ Goes("config") \/ Goes("idle")
        \/ op' = [op EXCEPT !.pc = "config", !.cl = cluster']
    BY <1>2, Zenon DEF Validate
  <2>c. cluster' \in Clusters
    BY <2>1, <2>a, ZenonT(60) DEF TypeOK
  <2>d. op' = [op EXCEPT !.pc = "config", !.cl = cluster'] => op' \in Passes
    BY <1>0, <2>c, ZenonT(60) DEF TypeOK, Passes
  <2>2. op' \in Passes /\ cluster' \in Clusters
    BY <1>0, <2>b, <2>c, <2>d, TypePass
  <2>3. faults' \in 0..MaxFaults
    <3>1. faults' = faults \/ Fault("claim") \/ Fault("jwt")
      BY <1>2, Zenon DEF Validate, ValidateStateClaim, JwtKey
    <3> QED BY <3>1, FaultType DEF TypeOK
  <2> QED BY <1>2, <2>2, <2>3 DEF Validate, TypeOK
<1>3. CASE Cleanup
  <2>1. op' \in Passes
    BY <1>0, <1>3, TypePass DEF Cleanup
  <2>2. cluster' \in Clusters
    BY <1>3, ZenonT(60) DEF Cleanup, TypeOK, Clusters
  <2>3. api' \in [Objects -> Owned]
    <3>1. api' = api \/ api' = [o \in Objects |-> Absent]
      BY <1>3, Zenon DEF Cleanup
    <3>2. Absent \in Owned
      BY ClusterAssumption DEF Absent, Owned
    <3> QED BY <3>1, <3>2 DEF TypeOK
  <2>4. faults' \in 0..MaxFaults /\ workers' \in BOOLEAN
    <3>1. faults' = faults \/ \E kind \in {"jwt", "rest"} : Fault(kind)
      BY <1>3, Zenon DEF Cleanup, JwtKey
    <3>2. workers' \in {workers, FALSE}
      BY <1>3, Zenon DEF Cleanup
    <3> QED BY <3>1, <3>2, FaultType, ZenonT(60) DEF TypeOK
  <2> QED BY <1>3, <2>1, <2>2, <2>3, <2>4 DEF Cleanup, TypeOK
<1>4. CASE ReconcileAll \/ ReconcileLogin
  <2>1. PICK o \in Objects, next \in Points : CreateOrUpdate(o, next)
    BY <1>4, Calls
  <2>2. op' \in Passes
    BY <2>1, TypePass DEF CreateOrUpdate
  <2>3. op.cl.gen \in 0..Len(Specs)
    BY Fields, ClusterAssumption
  <2>4. api' \in [Objects -> Owned]
    BY <2>1, <2>3, SMTT(60) DEF CreateOrUpdate, TypeOK, Owned
  <2>5. faults' \in 0..MaxFaults
    BY <2>1, ClusterAssumption DEF CreateOrUpdate, Fault, TypeOK
  <2> QED BY <2>1, <2>2, <2>4, <2>5 DEF CreateOrUpdate, TypeOK
<1>5. CASE Gate \/ Ready
  <2>1. op' \in Passes
    BY <1>0, <1>5, TypePass, SMTT(60) DEF Gate, Ready
  <2> QED BY <1>5, <2>1 DEF Gate, Ready, TypeOK
<1>6. CASE ReconcileWorkers
  <2>1. op.cl.gen \in 0..Len(Specs)
    BY Fields, ClusterAssumption
  <2>2. \A accounting \in BOOLEAN :
          [obs |-> op.cl.gen, control |-> TRUE, accounting |-> accounting] \in Statuses
    BY <2>1, SMTT(60) DEF Statuses
  <2>3. op' \in Passes
    <3>1. CASE NotReady \/ Goes("idle")
      BY <1>0, <3>1, TypePass
    <3>2. CASE \E accounting \in BOOLEAN :
                 op' = [op EXCEPT !.pc = "status",
                                  !.status = [obs |-> op.cl.gen, control |-> TRUE,
                                              accounting |-> accounting]]
      BY <1>0, <2>2, <3>2, ZenonT(60) DEF TypeOK, Passes
    <3> QED BY <1>6, <3>1, <3>2, ZenonT(60) DEF ReconcileWorkers
  <2>4. faults' \in 0..MaxFaults /\ workers' \in BOOLEAN
    <3>1. faults' = faults \/ \E kind \in {"rest", "call", "accounting"} : Fault(kind)
      BY <1>6, Zenon DEF ReconcileWorkers
    <3>2. workers' \in {workers, TRUE}
      BY <1>6, Zenon DEF ReconcileWorkers
    <3> QED BY <3>1, <3>2, FaultType, ZenonT(60) DEF TypeOK
  <2> QED BY <1>6, <2>3, <2>4, ZenonT(60) DEF ReconcileWorkers, TypeOK
<1>7. CASE UpdateStatus
  <2>1. op' \in Passes
    BY <1>0, <1>7, TypePass DEF UpdateStatus
  <2>2. cluster' \in Clusters
    BY <1>7, Fields DEF UpdateStatus, TypeOK, Clusters
  <2> QED BY <1>7, <2>1, <2>2 DEF UpdateStatus, TypeOK
<1> QED BY <1>1, <1>2, <1>3, <1>4, <1>5, <1>6, <1>7 DEF Pass

\* And so do the user, Kubernetes, the cache and faults.
LEMMA TypeOfOthers ==
    ASSUME TypeOK, Next, ~Pass PROVE TypeOK'
<1>1. CASE Abandon
  <2>1. op' \in Passes
    BY <1>1, TypePass DEF Abandon, Points
  <2> QED BY <1>1, <2>1, ClusterAssumption DEF Abandon, Fault, TypeOK
<1>2. CASE Edit
  <2>1. cluster' \in Clusters
    BY <1>2, ClusterAssumption DEF Edit, TypeOK, Clusters
  <2> QED BY <1>2, <2>1 DEF Edit, TypeOK
<1>3. CASE Delete
  <2>1. cluster' \in Clusters
    BY <1>3, ZenonT(60) DEF Delete, TypeOK, Clusters
  <2>2. api' \in [Objects -> Owned]
    BY <1>3, ClusterAssumption DEF Delete, TypeOK, Owned, Absent
  <2> QED BY <1>3, <2>1, <2>2 DEF Delete, TypeOK
<1>4. ASSUME NEW o \in Workloads, Rollout(o) \/ Break(o) PROVE TypeOK'
  <2>0. o \in Objects
    BY DEF Objects
  <2>1. api' \in [Objects -> Owned]
    <3>1. api[o] \in Owned
      BY <2>0 DEF TypeOK
    <3>2. PICK new \in Owned : api' = [api EXCEPT ![o] = new]
      <4>1. \A v \in 0..Len(Specs), b \in BOOLEAN :
              /\ [api[o] EXCEPT !.observed = v, !.ready = b] \in Owned
              /\ [api[o] EXCEPT !.ready = b] \in Owned
        BY <3>1, ZenonT(60) DEF Owned
      <4>2. \/ api' = [api EXCEPT ![o] = [@ EXCEPT !.observed = api[o].rev, !.ready = FALSE]]
            \/ \E b \in BOOLEAN : api' = [api EXCEPT ![o] = [@ EXCEPT !.ready = b]]
        BY <1>4, <2>0, ZenonT(60) DEF Rollout, Observe, Roll, Break, TypeOK
      <4> QED BY <2>0, <4>1, <4>2, Fields, ZenonT(60)
    <3> QED BY <2>0, <3>2 DEF TypeOK
  <2>2. faults' \in 0..MaxFaults
    BY <1>4, ClusterAssumption DEF Rollout, Observe, Roll, Break, Fault, TypeOK
  <2> QED BY <1>4, <2>1, <2>2 DEF Rollout, Observe, Roll, Break, TypeOK
<1>5. ASSUME NEW o \in Lagging, Sync(o) PROVE TypeOK'
  <2>1. o = "cluster" \/ o \in Objects
    BY ClusterAssumption
  <2>2. cache' \in Caches
    BY <1>5, <2>1 DEF Sync, TypeOK, Caches
  <2> QED BY <1>5, <2>2 DEF Sync, TypeOK
<1> QED BY <1>1, <1>2, <1>3, <1>4, <1>5 DEF Next

-----------------------------------------------------------------------------
(* Rendering *)

\* The invariants on what is rendered, without the types.
Rendering == /\ CopiesInv /\ FinalizerInv /\ RenderInv
             /\ OnlyValidRendered /\ FinalizerBeforeWorkers /\ ConfigFirst

\* A pass that ends disturbs nothing; it may have created workers.
LEMMA Ends ==
    ASSUME Rendering, UNCHANGED <<cluster, api, cache>>,
           op'.pc \in {"idle", "status"}, op'.cl = op.cl, workers' => workers \/ Working
    PROVE  Rendering'
<1>1. Rank(op'.pc) = 0 /\ op'.pc \notin {"validate", "cleanup"}
  BY Ranks
<1>2. CopiesInv'
  BY DEF Rendering, CopiesInv, Source
<1>3. FinalizerInv'
  BY <1>1 DEF Rendering, FinalizerInv, At, Working
<1>4. RenderInv'
  BY <1>1, Ranks DEF RenderInv
<1>5. OnlyValidRendered' /\ ConfigFirst'
  BY DEF Rendering, OnlyValidRendered, ConfigFirst
<1>6. FinalizerBeforeWorkers'
  BY DEF Rendering, FinalizerInv, FinalizerBeforeWorkers
<1> QED BY <1>2, <1>3, <1>4, <1>5, <1>6 DEF Rendering

\* What the two ways to end a pass do to its record.
LEMMA EndOfPass ==
    ASSUME TypeOK
    PROVE  /\ NotReady => op'.pc = "status" /\ op'.cl = op.cl /\ ~op'.status.control
           /\ \A point : Goes(point) => op'.pc = point /\ op'.cl = op.cl /\ op'.status = op.status
<1>1. op \in Passes
  BY DEF TypeOK
<1>2. NotReady => op'.pc = "status" /\ op'.cl = op.cl /\ ~op'.status.control
  BY <1>1 DEF Passes, NotReady
<1>3. \A point : Goes(point) => op'.pc = point /\ op'.cl = op.cl /\ op'.status = op.status
  BY <1>1 DEF Passes, Goes
<1> QED BY <1>2, <1>3

\* A pass starts with what it reads.
LEMMA BeginStep == ASSUME TypeOK, Rendering, Begin PROVE Rendering'
<1>1. /\ op'.cl = Source /\ op'.pc = (IF Source.deleting THEN "cleanup" ELSE "validate")
      /\ UNCHANGED <<cluster, api, cache, workers>>
  BY DEF Begin, TypeOK, Passes
<1>2. Rank(op'.pc) = 0
  BY <1>1, Ranks
<1>3. op.cl.gen \in Nat /\ Source.gen \in Nat /\ \A o \in Objects : api[o].rev \in Nat
  BY Fields, ClusterAssumption DEF Clusters
<1>4. CopiesInv'
  BY <1>1, <1>3 DEF Rendering, CopiesInv, Source
<1>5. FinalizerInv'
  BY <1>1, <1>2 DEF Rendering, FinalizerInv, At, Working, Source
<1>6. RenderInv'
  BY <1>2, Ranks DEF RenderInv
<1> QED BY <1>1, <1>4, <1>5, <1>6
        DEF Rendering, OnlyValidRendered, FinalizerBeforeWorkers, ConfigFirst

\* A pass goes on to a point up to which all is rendered.
LEMMA GoesOn ==
    ASSUME TypeOK, Rendering, UNCHANGED <<cluster, api, cache, workers>>, op'.cl = op.cl,
           NEW next \in Points, op'.pc = next, Rank(next) > 0,
           \A o \in Objects : Rank(next) > Rank(o) => api[o].rev = op.cl.gen,
           Working \/ (At("validate") /\ op.cl.finalizer /\ ValidateSpec(Specs[op.cl.gen]))
    PROVE  Rendering'
<1>1. next \notin {"validate", "cleanup"}
  BY Ranks
<1>2. CopiesInv'
  BY DEF Rendering, CopiesInv, Source
<1>3. FinalizerInv'
  BY <1>1 DEF Rendering, FinalizerInv, At, Working
<1>4. RenderInv'
  BY DEF RenderInv
<1> QED BY <1>2, <1>3, <1>4
        DEF Rendering, OnlyValidRendered, FinalizerBeforeWorkers, ConfigFirst

\* Rendering starts after validation, under the finalizer.
LEMMA ValidateStep == ASSUME TypeOK, TypeOK', Rendering, Validate PROVE Rendering'
<1>0. At("validate") /\ UNCHANGED <<api, cache, workers>>
  BY DEF Validate
<1>a. /\ "config" \in Points /\ Rank("config") > 0
      /\ \A o \in Objects : ~(Rank("config") > Rank(o))
  BY Ranks DEF Points, Objects, Passive
<1>1. CASE (NotReady \/ Goes("idle")) /\ UNCHANGED cluster
  BY <1>0, <1>1, EndOfPass, Ends
<1>2. CASE /\ ValidateSpec(Specs[op.cl.gen]) /\ op.cl.finalizer
           /\ Goes("config") /\ UNCHANGED cluster
  <2>1. op'.pc = "config" /\ op'.cl = op.cl
    BY <1>2, EndOfPass
  <2> QED BY <1>0, <1>a, <1>2, <2>1, GoesOn
<1>3. CASE /\ ValidateSpec(Specs[op.cl.gen]) /\ ~op.cl.finalizer /\ cluster = op.cl
           /\ cluster' = [cluster EXCEPT !.finalizer = TRUE]
           /\ op' = [op EXCEPT !.pc = "config", !.cl = cluster']
  <2>1. /\ op'.pc = "config" /\ op'.cl = cluster' /\ cluster'.finalizer
        /\ cluster'.gen = op.cl.gen /\ ~cluster.finalizer /\ cluster.gen = op.cl.gen
        /\ cluster'.deleting = op.cl.deleting /\ cluster'.deleting = cluster.deleting
        /\ cluster'.gone = cluster.gone
    BY <1>3 DEF TypeOK, Passes, Clusters
  <2>2. ~op.cl.deleting
    BY <1>0 DEF Rendering, FinalizerInv
  <2>3. CopiesInv'
    <3>1. cache.cluster.gen <= cluster'.gen /\ op'.cl.gen <= Source'.gen
      <4>1. CASE "cluster" \in Lagging
        BY <1>0, <2>1, <4>1 DEF Rendering, CopiesInv, Source
      <4>2. CASE "cluster" \notin Lagging
        BY <1>0, <2>1, <4>2, Fields, ClusterAssumption, Zenon DEF Rendering, CopiesInv, Source
      <4> QED BY <4>1, <4>2
    <3> QED BY <1>0, <2>1, <2>2, <3>1 DEF Rendering, CopiesInv, Source
  <2>4. \A o \in Objects : cache.objects[o].rev = 0
    BY <2>1, <2>2 DEF Rendering, FinalizerInv
  <2>5. FinalizerInv'
    <3>1. \A o \in Objects : 0 <= api[o].rev
      BY Fields
    <3> QED BY <1>0, <1>3, <1>a, <2>1, <2>2, <2>4, <3>1, ZenonT(60) DEF FinalizerInv, At, Working
  <2>6. RenderInv'
    BY <1>a, <2>1 DEF RenderInv
  <2> QED BY <1>0, <2>1, <2>3, <2>5, <2>6
          DEF Rendering, OnlyValidRendered, FinalizerBeforeWorkers, ConfigFirst
<1> QED BY <1>1, <1>2, <1>3 DEF Validate

\* CreateOrUpdate brings its object to the generation of the pass, in order.
LEMMA CreateStep ==
    ASSUME TypeOK, Rendering, NEW o \in Objects, NEW next \in Points,
           Rank(next) = Rank(o) + 1, CreateOrUpdate(o, next)
    PROVE  Rendering'
<1>0. op.pc = o /\ UNCHANGED <<cluster, cache, workers>> /\ Rank(o) > 0 /\ Working
  BY Ranks DEF CreateOrUpdate, At, Working
<1>1. CASE NotReady /\ UNCHANGED api
  BY <1>0, <1>1, EndOfPass, Ends
<1>a. \A p \in Objects : Rank(next) > Rank(p) => p = o \/ Rank(o) > Rank(p)
  BY Ranks
<1>b. cluster.finalizer /\ api[o].rev <= op.cl.gen /\ cache.objects[o].rev <= api[o].rev
  BY <1>0, Zenon DEF Rendering, FinalizerInv, CopiesInv
<1>2. CASE Read(o).rev = op.cl.gen /\ Goes(next) /\ UNCHANGED api
  <2>1. api[o].rev = op.cl.gen
    BY <1>b, <1>2, Fields, ClusterAssumption DEF Read
  <2>2. \A p \in Objects : Rank(next) > Rank(p) => api[p].rev = op.cl.gen
    BY <1>0, <1>a, <2>1 DEF Rendering, RenderInv
  <2> QED BY <1>0, <1>2, <2>2, EndOfPass, GoesOn, Ranks
<1>3. CASE api' = [api EXCEPT ![o].rev = op.cl.gen] /\ Goes(next)
  <2>1. op'.pc = next /\ op'.cl = op.cl /\ next \notin {"validate", "cleanup"} /\ Rank(next) > 0
    BY <1>0, <1>3, EndOfPass, Ranks
  <2>2. \A p \in Objects : api'[p].rev = IF p = o THEN op.cl.gen ELSE api[p].rev
    BY <1>3 DEF TypeOK, Owned
  <2>3. op.cl.gen \in Nat /\ \A p \in Objects : api[p].rev \in Nat /\ cache.objects[p].rev \in Nat
    BY Fields, ClusterAssumption
  <2>4. CopiesInv'
    BY <1>0, <2>1, <2>2, <2>3 DEF Rendering, CopiesInv, Source
  <2>5. FinalizerInv'
    BY <1>0, <1>b, <2>1, <2>2, <2>3 DEF Rendering, FinalizerInv, At, Working
  <2>6. RenderInv'
    BY <1>0, <1>a, <2>1, <2>2, SMTT(60) DEF Rendering, RenderInv
  <2>7. OnlyValidRendered'
    BY <1>0, <2>2 DEF Rendering, FinalizerInv, OnlyValidRendered
  <2>8. ConfigFirst'
    <3>1. "config" \in Objects /\ Rank("config") = 1 /\ (o # "config" => Rank(o) > 1)
      BY Ranks DEF Objects, Passive
    <3>2. o # "config" => api["config"].rev = op.cl.gen
      BY <1>0, <3>1 DEF Rendering, RenderInv
    <3> QED BY <2>2, <2>3, <3>1, <3>2 DEF Rendering, CopiesInv, ConfigFirst
  <2> QED BY <1>0, <2>4, <2>5, <2>6, <2>7, <2>8 DEF Rendering, FinalizerBeforeWorkers
<1> QED BY <1>1, <1>2, <1>3 DEF CreateOrUpdate

\* Gate and Ready, after REST and after login.
LEMMA GateStep == ASSUME TypeOK, Rendering, Gate \/ Ready PROVE Rendering'
<1>0. UNCHANGED <<cluster, api, cache, workers>> /\ (At("gate") \/ At("ready")) /\ Working
  BY Ranks DEF Gate, Ready, At, Working
<1>1. CASE NotReady
  BY <1>0, <1>1, EndOfPass, Ends
<1>2. CASE (At("gate") /\ Goes("login")) \/ (At("ready") /\ Goes("jobs"))
  <2>1. PICK next \in {"login", "jobs"} : Goes(next) /\ Rank(next) = Rank(op.pc) + 1
    BY <1>2, Ranks DEF At
  <2>2. \A o \in Objects : Rank(next) > Rank(o) => api[o].rev = op.cl.gen
    <3>1. \A o \in Objects : Rank(o) # Rank(op.pc)
      BY <1>0, Ranks DEF At, Rank, Objects, Workloads, Passive
    <3>0. op.pc \in Points
      BY Fields
    <3>2. Rank(op.pc) \in Int /\ \A o \in Objects : Rank(o) \in Int
      BY <3>0, Ranks
    <3>3. \A o \in Objects : Rank(next) > Rank(o) => Rank(op.pc) > Rank(o)
      BY <2>1, <3>1, <3>2
    <3> QED BY <3>3 DEF Rendering, RenderInv
  <2>3. next \in Points /\ Rank(next) > 0
    BY Ranks DEF Points, Objects, Workloads
  <2> QED BY <1>0, <2>1, <2>2, <2>3, EndOfPass, GoesOn
<1> QED BY <1>1, <1>2 DEF Gate, Ready

\* reconcileWorkers creates workers only under the finalizer.
LEMMA WorkersStep == ASSUME TypeOK, Rendering, ReconcileWorkers PROVE Rendering'
<1>0. op.pc = "jobs"
  BY Zenon DEF ReconcileWorkers, At
<1>1. Working
  BY <1>0, Ranks DEF Working
<1>2. UNCHANGED <<cluster, api, cache>>
  BY Zenon DEF ReconcileWorkers
<1>3. op'.pc \in {"idle", "status"} /\ op'.cl = op.cl
  <2>1. CASE NotReady \/ Goes("idle")
    BY <2>1, EndOfPass
  <2>2. CASE \E accounting \in BOOLEAN :
               op' = [op EXCEPT !.pc = "status",
                                !.status = [obs |-> op.cl.gen, control |-> TRUE,
                                            accounting |-> accounting]]
    BY <2>2 DEF TypeOK, Passes
  <2> QED BY <2>1, <2>2, ZenonT(60) DEF ReconcileWorkers
<1> QED BY <1>1, <1>2, <1>3, Ends

\* A status is no part of what is rendered.
LEMMA StatusStep == ASSUME TypeOK, Rendering, UpdateStatus PROVE Rendering'
<1>0. op'.pc = "idle" /\ op'.cl = op.cl /\ UNCHANGED <<api, cache, workers>>
  BY EndOfPass DEF UpdateStatus
<1>1. CASE UNCHANGED cluster
  BY <1>0, <1>1, Ends
<1>2. CASE cluster' = [cluster EXCEPT !.status = op.status]
  <2>1. /\ cluster'.gen = cluster.gen /\ cluster'.deleting = cluster.deleting
        /\ cluster'.finalizer = cluster.finalizer /\ cluster'.gone = cluster.gone
    BY <1>2 DEF TypeOK, Clusters
  <2>2. Rank(op'.pc) = 0 /\ op'.pc \notin {"validate", "cleanup"}
    BY <1>0, Ranks, Zenon
  <2>3. CopiesInv'
    BY <1>0, <2>1, Zenon DEF Rendering, CopiesInv, Source
  <2>4. FinalizerInv'
    BY <1>0, <2>1, <2>2 DEF Rendering, FinalizerInv, At, Working
  <2>5. RenderInv'
    BY <2>2, Ranks DEF RenderInv
  <2> QED BY <1>0, <2>1, <2>3, <2>4, <2>5
          DEF Rendering, OnlyValidRendered, FinalizerBeforeWorkers, ConfigFirst
<1> QED BY <1>1, <1>2 DEF UpdateStatus

\* Deletion: when the cluster goes nobody renders it again.
LEMMA CleanupStep == ASSUME TypeOK, Rendering, Cleanup PROVE Rendering'
<1>0. op'.pc = "idle" /\ op'.cl = op.cl /\ UNCHANGED cache /\ At("cleanup")
  BY EndOfPass DEF Cleanup
<1>1. CASE UNCHANGED <<cluster, api>> /\ (workers' => workers)
  BY <1>0, <1>1, Ends
<1>2. CASE /\ ~workers /\ cluster = op.cl
           /\ cluster' = [cluster EXCEPT !.finalizer = FALSE, !.gone = TRUE]
           /\ api' = [o \in Objects |-> Absent] /\ UNCHANGED workers
  <2>1. /\ cluster'.gen = cluster.gen /\ cluster'.deleting = cluster.deleting
        /\ ~cluster'.finalizer
    BY <1>2 DEF TypeOK, Clusters
  <2>2. Rank(op'.pc) = 0 /\ op'.pc \notin {"validate", "cleanup"}
    BY <1>0, Ranks
  <2>3. op.cl.deleting /\ cluster.deleting /\ Source.deleting
    BY <1>0, <1>2 DEF Rendering, FinalizerInv, CopiesInv
  <2>4. \A o \in Objects : api'[o].rev = 0
    BY <1>2 DEF Absent
  <2>5. CopiesInv'
    <3>1. 0 <= op.cl.gen
      BY Fields, ClusterAssumption
    <3> QED BY <1>0, <2>1, <2>3, <2>4, <3>1, ZenonT(60) DEF Rendering, CopiesInv, Source
  <2>6. ~(cache.cluster.finalizer /\ ~cache.cluster.deleting)
    BY <2>3 DEF Rendering, CopiesInv, Source, New
  <2>7. FinalizerInv'
    BY <1>0, <2>1, <2>2, <2>3, <2>6 DEF FinalizerInv, At, Working
  <2>8. RenderInv'
    BY <2>2, Ranks DEF RenderInv
  <2>9. OnlyValidRendered' /\ ConfigFirst'
    BY <2>4 DEF OnlyValidRendered, ConfigFirst, Objects, Passive
  <2> QED BY <1>2, <2>5, <2>7, <2>8, <2>9 DEF Rendering, FinalizerBeforeWorkers
<1> QED BY <1>1, <1>2 DEF Cleanup

\* The user.
LEMMA UserStep == ASSUME TypeOK, Rendering, Edit \/ Delete PROVE Rendering'
<1>0. op' = op /\ UNCHANGED <<cache, workers>>
  BY DEF Edit, Delete
<1>1. CASE UNCHANGED api
  <2>1. /\ cluster'.finalizer = cluster.finalizer /\ cluster.gen <= cluster'.gen
        /\ cluster.deleting => cluster'.deleting
        /\ cluster'.deleting \/ cluster'.gone = cluster.gone
    <3>1. cluster \in Clusters /\ cluster.gen \in Int
      BY Fields DEF TypeOK
    <3>2. CASE Edit
      BY <3>1, <3>2 DEF Edit, Clusters
    <3>3. CASE Delete
      BY <3>1, <3>3 DEF Delete, Clusters
    <3> QED BY <3>2, <3>3
  <2>2. /\ cluster.gen \in Int /\ cluster'.gen \in Int /\ cache.cluster.gen \in Int
        /\ op.cl.gen \in Int
    <3>1. cluster.gen \in Int /\ cache.cluster.gen \in Int /\ op.cl.gen \in Int
      BY Fields
    <3>2. cluster'.gen \in {cluster.gen, cluster.gen + 1}
      BY ZenonT(60) DEF Edit, Delete, TypeOK, Clusters
    <3> QED BY <3>1, <3>2
  <2>3. CopiesInv'
    BY <1>0, <1>1, <2>1, <2>2 DEF Rendering, CopiesInv, Source
  <2>4. FinalizerInv'
    BY <1>0, <1>1, <2>1 DEF Rendering, FinalizerInv, At, Working
  <2> QED BY <1>0, <1>1, <2>1, <2>3, <2>4
          DEF Rendering, RenderInv, OnlyValidRendered, FinalizerBeforeWorkers, ConfigFirst
<1>2. CASE /\ ~cluster.finalizer /\ api' = [o \in Objects |-> Absent]
           /\ cluster' = [cluster EXCEPT !.deleting = TRUE, !.gone = ~cluster.finalizer]
  <2>1. cluster'.gen = cluster.gen /\ cluster'.deleting /\ ~cluster'.finalizer
    BY <1>2 DEF TypeOK, Clusters
  <2>2. ~Working /\ ~((At("validate") \/ Working) /\ op.cl.finalizer)
    BY <1>2 DEF Rendering, FinalizerInv
  <2>3. \A o \in Objects : api'[o].rev = 0
    BY <1>2 DEF Absent
  <2>4. CopiesInv'
    <3>1. 0 <= op.cl.gen
      BY Fields, ClusterAssumption
    <3> QED BY <1>0, <2>1, <2>3, <3>1 DEF Rendering, CopiesInv, Source
  <2>5. FinalizerInv'
    BY <1>0, <1>2, <2>1, <2>2 DEF Rendering, FinalizerInv, At, Working
  <2>6. RenderInv'
    <3>0. op.pc \in Points
      BY Fields
    <3>1. Rank(op.pc) \in Int /\ \A o \in Objects : Rank(o) \in Int /\ Rank(o) > 0
      BY <3>0, Ranks
    <3>2. \A o \in Objects : ~(Rank(op'.pc) > Rank(o))
      BY <1>0, <2>2, <3>1 DEF Working
    <3> QED BY <3>2 DEF RenderInv
  <2>7. OnlyValidRendered' /\ ConfigFirst'
    BY <2>3 DEF OnlyValidRendered, ConfigFirst, Objects, Passive
  <2> QED BY <1>0, <1>2, <2>4, <2>5, <2>6, <2>7 DEF Rendering, FinalizerBeforeWorkers
<1> QED BY <1>1, <1>2 DEF Edit, Delete

\* Rollouts, Pods that fail and watch events change no revision.
LEMMA EnvironmentStep ==
    ASSUME TypeOK, Rendering,
           (\E o \in Workloads : Rollout(o) \/ Break(o)) \/ \E o \in Lagging : Sync(o)
    PROVE  Rendering'
<1>1. CASE \E o \in Workloads : Rollout(o) \/ Break(o)
  <2>1. UNCHANGED <<cluster, cache, workers, op>>
    BY <1>1, Zenon DEF Rollout, Observe, Roll, Break
  <2>2. \A o \in Objects : api'[o].rev = api[o].rev
    <3>1. PICK p \in Workloads : Rollout(p) \/ Break(p)
      BY <1>1
    <3>2. p \in Objects /\ api \in [Objects -> Owned]
      BY DEF Objects, TypeOK
    <3>3. CASE api' = [api EXCEPT ![p].observed = api[p].rev, ![p].ready = FALSE]
      BY <3>2, <3>3 DEF Owned
    <3>4. CASE api' = [api EXCEPT ![p].ready = TRUE] \/ api' = [api EXCEPT ![p].ready = FALSE]
      BY <3>2, <3>4, SMTT(60) DEF Owned
    <3> QED BY <3>1, <3>3, <3>4 DEF Rollout, Observe, Roll, Break
  <2>3. CopiesInv'
    BY <2>1, <2>2 DEF Rendering, CopiesInv, Source
  <2>4. FinalizerInv'
    BY <2>1, <2>2 DEF Rendering, FinalizerInv, At, Working
  <2>5. "config" \in Objects
    BY DEF Objects, Passive
  <2> QED BY <2>1, <2>2, <2>3, <2>4, <2>5, Zenon
          DEF Rendering, RenderInv, OnlyValidRendered, FinalizerBeforeWorkers, ConfigFirst
<1>2. CASE \E o \in Lagging : Sync(o)
  <2>1. UNCHANGED <<cluster, api, workers, op>>
    BY <1>2 DEF Sync
  <2>2. \/ "cluster" \in Lagging /\ cache'.cluster = cluster /\ cache'.objects = cache.objects
        \/ /\ cache'.cluster = cache.cluster
           /\ \A o \in Objects : cache'.objects[o] \in {cache.objects[o], api[o]}
    BY <1>2, ClusterAssumption DEF Sync, TypeOK, Caches
  <2>3. /\ cluster.gen \in Int /\ cache.cluster.gen \in Int /\ op.cl.gen \in Int
        /\ \A o \in Objects : api[o].rev \in Int
    BY Fields, SMTT(60)
  <2>4. CopiesInv'
    BY <2>1, <2>2, <2>3 DEF Rendering, CopiesInv, Source
  <2>6. FinalizerInv'
    BY <2>1, <2>2, <2>3 DEF Rendering, FinalizerInv, At, Working
  <2> QED BY <2>1, <2>4, <2>6
          DEF Rendering, RenderInv, OnlyValidRendered, FinalizerBeforeWorkers, ConfigFirst
<1> QED BY <1>1, <1>2

-----------------------------------------------------------------------------
(* The theorems on rendering *)

\* A cluster that has just been created.
LEMMA InvInit == Init => ClusterInv
<1> SUFFICES ASSUME Init PROVE ClusterInv
  OBVIOUS
<1>1. TypeOK
  BY TypeInit, Zenon
<1>2. CopiesInv
  BY <1>1, SMTT(60) DEF Init, CopiesInv, Source, New, Absent
<1>3. FinalizerInv /\ RenderInv
  BY Ranks, SMTT(60) DEF Init, FinalizerInv, RenderInv, At, Working, New, Absent
<1>4. OnlyValidRendered /\ FinalizerBeforeWorkers /\ ConfigFirst
  BY DEF Init, OnlyValidRendered, FinalizerBeforeWorkers, ConfigFirst, Absent, Objects, Passive
<1> QED BY <1>1, <1>2, <1>3, <1>4 DEF ClusterInv

\* ClusterInv is inductive.
LEMMA InvStep == ClusterInv /\ [Next]_vars => ClusterInv'
<1> SUFFICES ASSUME ClusterInv, [Next]_vars PROVE ClusterInv'
  OBVIOUS
<1>0. TypeOK /\ Rendering
  BY DEF ClusterInv, Rendering
<1>1. CASE Next
  <2>1. TypeOK'
    BY <1>0, <1>1, TypeOfPass, TypeOfOthers
  <2>2. Rendering'
    <3>1. CASE Pass
      <4>1. CASE ReconcileAll \/ ReconcileLogin
        BY <1>0, <4>1, Calls, CreateStep
      <4> QED BY <1>0, <2>1, <3>1, <4>1, BeginStep, ValidateStep, CleanupStep, GateStep,
                 WorkersStep, StatusStep DEF Pass
    <3>2. CASE Abandon
      BY <1>0, <3>2, EndOfPass, Ends DEF Abandon
    <3>3. CASE Edit \/ Delete
      BY <1>0, <3>3, UserStep
    <3> QED BY <1>0, <1>1, <3>1, <3>2, <3>3, EnvironmentStep DEF Next
  <2> QED BY <2>1, <2>2 DEF ClusterInv, Rendering
<1>2. CASE UNCHANGED vars
  <2> USE <1>2 DEF vars
  <2>1. TypeOK' /\ CopiesInv'
    BY <1>0, SMTT(60) DEF TypeOK, Rendering, CopiesInv, Source
  <2>2. FinalizerInv' /\ RenderInv'
    BY <1>0 DEF Rendering, FinalizerInv, RenderInv, At, Working
  <2>3. OnlyValidRendered' /\ FinalizerBeforeWorkers' /\ ConfigFirst'
    BY <1>0 DEF Rendering, OnlyValidRendered, FinalizerBeforeWorkers, ConfigFirst
  <2> QED BY <2>1, <2>2, <2>3, SMTT(60) DEF ClusterInv
<1> QED BY <1>1, <1>2

\* The inductive invariant holds throughout.
THEOREM ClusterSafety == Spec => []ClusterInv
BY InvInit, InvStep, PTL DEF Spec

\* Type correctness of the model of cluster_controller.go.
THEOREM ClusterTypes == Spec => []TypeOK
<1>1. ClusterInv => TypeOK
  BY DEF ClusterInv
<1> QED BY <1>1, ClusterSafety, PTL

\* Reconcile never renders a spec that validateSpec refuses, not even in part.
THEOREM ValidOnly == Spec => []OnlyValidRendered
<1>1. ClusterInv => OnlyValidRendered
  BY DEF ClusterInv
<1> QED BY <1>1, ClusterSafety, PTL

\* Workers exist only under the finalizer that waits for them, also when the pass
\* that creates them works with a cluster the cache is late with.
THEOREM FinalizerFirst == Spec => []FinalizerBeforeWorkers
<1>1. ClusterInv => FinalizerBeforeWorkers
  BY DEF ClusterInv
<1> QED BY <1>1, ClusterSafety, PTL

\* Nothing is of a later generation than the configuration, whatever the cache
\* lags behind in.
THEOREM ConfigurationFirst == Spec => []ConfigFirst
<1>1. ClusterInv => ConfigFirst
  BY SMTT(60) DEF ClusterInv
<1> QED BY <1>1, ClusterSafety, PTL

-----------------------------------------------------------------------------
(* Readiness, when the cache is up to date on the workloads *)

\* Nothing that was ready is touched by a pass before the gate or at its end.
LEMMA Untouched ==
    ASSUME ReadinessInv, UNCHANGED api, ~(Rank(op'.pc) > 9), op'.pc # "jobs",
           op'.pc = "status" => ~op'.status.control,
           cluster'.status = cluster.status, cluster.gone => cluster'.gone
    PROVE  ReadinessInv'
BY DEF ReadinessInv, RolloutInv, LoginFollowsControllers, ReadyIsCurrent, At

\* The points of a pass outside the loop over the objects come before the gate.
LEMMA BeforeGate ==
    \A point \in {"idle", "validate", "cleanup", "config", "status"} : ~(Rank(point) > 9)
BY Ranks

\* So a pass may end anywhere, by an error, a crash or the conditions of notReady.
LEMMA EndReady ==
    ASSUME TypeOK, ReadinessInv, NotReady \/ Goes("idle"), api' = api, cluster' = cluster
    PROVE  ReadinessInv'
<1>1. \/ op'.pc = "idle"
      \/ op'.pc = "status" /\ ~op'.status.control
  BY EndOfPass, Zenon
<1>2. op'.pc \in {"idle", "validate", "cleanup", "config", "status"} /\ op'.pc # "jobs"
      /\ (op'.pc = "status" => ~op'.status.control)
  BY <1>1, Zenon
<1>3. ~(Rank(op'.pc) > 9)
  BY <1>2, BeforeGate, Zenon
<1> QED BY <1>2, <1>3, Untouched, Zenon

\* CreateOrUpdate changes what is wanted, not what is observed.
LEMMA CreateReady ==
    ASSUME ClusterInv, ReadinessInv, NEW o \in Objects, NEW next \in Points,
           Rank(next) = Rank(o) + 1, next \notin {"login", "jobs"}, CreateOrUpdate(o, next)
    PROVE  ReadinessInv'
<1>0. TypeOK /\ op.pc = o /\ UNCHANGED <<cluster, cache, workers>>
  BY Zenon DEF ClusterInv, CreateOrUpdate, At
<1>1. CASE NotReady /\ UNCHANGED api
  BY <1>0, <1>1, EndReady, Zenon
<1>2. CASE Goes(next) /\ (api' = api \/ api' = [api EXCEPT ![o].rev = op.cl.gen])
  <2>1. op'.pc = next /\ op'.cl = op.cl
    BY <1>0, <1>2, EndOfPass
  <2>2. \A p \in Objects : /\ api'[p].observed = api[p].observed
                           /\ api'[p].rev = api[p].rev \/ (p = o /\ api'[p].rev = op.cl.gen)
    BY <1>0, <1>2, SMTT(60) DEF TypeOK, Owned
  <2>3. /\ op.cl.gen \in Int
        /\ \A p \in Objects : /\ api[p].rev \in Int /\ api[p].observed \in Int
                              /\ api[p].rev <= op.cl.gen
    BY <1>0, Fields DEF ClusterInv, CopiesInv
  <2>4. Rank(next) > 9 => o = "login"
    BY Ranks DEF Rank, Objects, Workloads, Passive
  <2>5. Rank("login") > 9 /\ {"login", "slurmctld"} \subseteq Objects /\ Workloads \subseteq Objects
    BY Ranks DEF Objects, Workloads
  <2>6. next # "status"
    BY Ranks, SMTT(60)
  <2>7. RolloutInv'
    BY <1>0, <2>1, <2>2, <2>3, <2>4, <2>5, <2>6, SMTT(60) DEF ReadinessInv, RolloutInv, At
  <2>8. LoginFollowsControllers'
    BY <1>0, <2>2, <2>3, <2>5, SMTT(60) DEF ReadinessInv, RolloutInv, LoginFollowsControllers
  <2>9. ReadyIsCurrent'
    BY <1>0, <2>2, <2>5 DEF ReadinessInv, ReadyIsCurrent
  <2> QED BY <2>7, <2>8, <2>9 DEF ReadinessInv
<1> QED BY <1>1, <1>2 DEF CreateOrUpdate

\* Gate and Ready see what is rolled out.
LEMMA GateReady ==
    ASSUME Lagging \cap Workloads = {}, ClusterInv, ReadinessInv, Gate \/ Ready
    PROVE  ReadinessInv'
<1>0. TypeOK /\ UNCHANGED <<cluster, api>> /\ op.cl.gen \in Int
  <2>1. TypeOK /\ UNCHANGED <<cluster, api>>
    BY Zenon DEF ClusterInv, Gate, Ready
  <2>2. op.cl.gen \in 1..Len(Specs)
    BY <2>1, Fields, Zenon
  <2> QED BY <2>1, <2>2
<1>1. CASE NotReady
  BY <1>0, <1>1, EndReady, Zenon
<1>a. \A o \in Workloads : Read(o) = api[o] /\ o \in Objects
  BY DEF Read, Objects
<1>b. "slurmctld" \in Workloads
  BY Zenon DEF Workloads
<1>2. CASE At("gate") /\ ControllersReady /\ Goes("login")
  <2>1. op'.pc = "login" /\ op'.cl = op.cl
    BY <1>0, <1>2, EndOfPass, Zenon
  <2>2. api["slurmctld"].rev = op.cl.gen
    BY <1>2, <1>a, <1>b, Ranks DEF ClusterInv, RenderInv, At
  <2>3. api["slurmctld"].observed = op.cl.gen
    BY <1>2, <1>a, <1>b, <2>2, Zenon DEF ControllersReady, RolledOut
  <2> QED BY <1>0, <2>1, <2>3, Zenon
          DEF ReadinessInv, RolloutInv, LoginFollowsControllers, ReadyIsCurrent, At
<1>3. CASE At("ready") /\ WorkloadsReady /\ Goes("jobs")
  <2>1. op'.pc = "jobs" /\ op'.cl = op.cl
    BY <1>0, <1>3, EndOfPass, Zenon
  <2>2. \A o \in Workloads : api[o].rev = op.cl.gen
    BY <1>3, <1>a, Ranks DEF ClusterInv, RenderInv, At
  <2>3. \A o \in Workloads : api[o].observed = op.cl.gen
    BY <1>3, <1>a, <2>2 DEF WorkloadsReady, ControllersReady, RolledOut
  <2> QED BY <1>0, <1>b, <2>1, <2>3, Zenon
          DEF ReadinessInv, RolloutInv, LoginFollowsControllers, ReadyIsCurrent, At
<1> QED BY <1>1, <1>2, <1>3, Zenon DEF Gate, Ready

\* The conditions say what the pass has seen.
LEMMA ConditionsReady ==
    ASSUME ClusterInv, ReadinessInv, ReconcileWorkers \/ UpdateStatus PROVE ReadinessInv'
<1>0. TypeOK /\ UNCHANGED api
  BY Zenon DEF ClusterInv, ReconcileWorkers, UpdateStatus
<1>a. op.cl.gen \in Int
  BY <1>0, Fields
<1>1. CASE (NotReady \/ Goes("idle")) /\ UNCHANGED cluster
  BY <1>0, <1>1, EndReady, Zenon
<1>2. CASE /\ At("jobs") /\ UNCHANGED cluster
           /\ \E accounting \in BOOLEAN :
                op' = [op EXCEPT !.pc = "status",
                                 !.status = [obs |-> op.cl.gen, control |-> TRUE,
                                             accounting |-> accounting]]
  <2>1. op'.pc = "status" /\ op'.status.obs = op.cl.gen
    BY <1>0, <1>2 DEF TypeOK, Passes
  <2>2. cluster.finalizer
    BY <1>2, Ranks DEF ClusterInv, FinalizerInv, At, Working
  <2>3. ~(Rank("status") > 9)
    BY Ranks
  <2> QED BY <1>0, <1>2, <1>a, <2>1, <2>2, <2>3
          DEF ReadinessInv, RolloutInv, LoginFollowsControllers, ReadyIsCurrent, At
<1>3. CASE /\ At("status") /\ Goes("idle")
           /\ cluster' = [cluster EXCEPT !.status = op.status]
  <2>1. op'.pc = "idle" /\ cluster'.status = op.status
    BY <1>0, <1>3, EndOfPass DEF TypeOK, Clusters
  <2>2. ~(Rank("idle") > 9)
    BY Ranks
  <2> QED BY <1>0, <1>3, <2>1, <2>2
          DEF ReadinessInv, RolloutInv, LoginFollowsControllers, ReadyIsCurrent, At
<1> QED BY <1>1, <1>2, <1>3, Zenon DEF ReconcileWorkers, UpdateStatus

\* Steps that take objects away, or only change the cluster.
LEMMA DeletionReady ==
    ASSUME ClusterInv, ReadinessInv, Cleanup \/ Edit \/ Delete PROVE ReadinessInv'
<1>0. TypeOK /\ Workloads \subseteq Objects /\ {"login", "slurmctld"} \subseteq Objects
  BY DEF ClusterInv, Objects, Workloads
<1>1. CASE Cleanup /\ UNCHANGED <<cluster, api>>
  BY <1>0, <1>1, EndReady, Zenon DEF Cleanup
<1>2. CASE /\ Goes("idle") /\ api' = [o \in Objects |-> Absent]
           /\ cluster' = [cluster EXCEPT !.finalizer = FALSE, !.gone = TRUE]
  <2>1. op'.pc = "idle" /\ cluster'.gone
    BY <1>0, <1>2, EndOfPass DEF TypeOK, Clusters
  <2>2. \A o \in Objects : api'[o].observed = 0 /\ api'[o].rev = 0
    BY <1>2 DEF Absent
  <2>3. ~(Rank("idle") > 9)
    BY Ranks
  <2> QED BY <1>0, <2>1, <2>2, <2>3
          DEF ReadinessInv, RolloutInv, LoginFollowsControllers, ReadyIsCurrent, At
<1>3. CASE (Edit \/ Delete) /\ UNCHANGED api
  <2>1. /\ cluster'.status = cluster.status /\ cluster'.finalizer = cluster.finalizer
        /\ cluster'.gone = cluster.gone \/ ~cluster.deleting
    BY <1>0, <1>3, ZenonT(60) DEF Edit, Delete, TypeOK, Clusters
  <2>2. UNCHANGED op
    BY <1>3 DEF Edit, Delete
  <2>3. cluster.gone => cluster'.gone
    BY <2>1, ZenonT(60) DEF ClusterInv, CopiesInv
  <2> QED BY <1>3, <2>1, <2>2, <2>3
          DEF ReadinessInv, RolloutInv, LoginFollowsControllers, ReadyIsCurrent, At
<1>4. CASE /\ Delete /\ ~cluster.finalizer /\ api' = [o \in Objects |-> Absent]
           /\ cluster' = [cluster EXCEPT !.deleting = TRUE, !.gone = ~cluster.finalizer]
  <2>1. cluster'.gone /\ ~cluster'.finalizer /\ op' = op
    BY <1>0, <1>4, ZenonT(60) DEF TypeOK, Clusters, Delete
  <2>2. \A o \in Objects : api'[o].observed = 0 /\ api'[o].rev = 0
    BY <1>4 DEF Absent
  <2>3. ~Working
    BY <1>4 DEF ClusterInv, FinalizerInv
  <2>4. ~(Rank(op.pc) > 9) /\ op.pc # "jobs"
    <3>1. op.pc \in Points
      BY <1>0, Fields
    <3>2. Rank(op.pc) \in Int /\ Rank("jobs") > 0
      BY <3>1, Ranks
    <3> QED BY <2>3, <3>2 DEF Working
  <2>5. ~(At("status") /\ op.status.control)
    BY <1>4 DEF ReadinessInv, RolloutInv
  <2> QED BY <1>0, <2>1, <2>2, <2>4, <2>5
          DEF ReadinessInv, RolloutInv, LoginFollowsControllers, ReadyIsCurrent, At
<1> QED BY <1>1, <1>2, <1>3, <1>4, Zenon DEF Cleanup, Edit, Delete

\* What is observed only moves towards what is wanted.
LEMMA RolloutReady ==
    ASSUME ClusterInv, ReadinessInv, NEW p \in Workloads, Rollout(p) \/ Break(p)
    PROVE  ReadinessInv'
<1>0. TypeOK /\ Workloads \subseteq Objects /\ {"login", "slurmctld"} \subseteq Objects
      /\ {"login", "slurmctld"} \subseteq Workloads
  BY DEF ClusterInv, Objects, Workloads
<1>1. UNCHANGED <<cluster, op>>
  BY DEF Rollout, Observe, Roll, Break
<1>2. \A o \in Objects : /\ api'[o].rev = api[o].rev
                         /\ api'[o].observed = api[o].observed \/ api'[o].observed = api[o].rev
  <2>1. p \in Objects /\ api \in [Objects -> Owned]
    BY <1>0 DEF TypeOK
  <2>2. CASE api' = [api EXCEPT ![p].observed = api[p].rev, ![p].ready = FALSE]
    BY <2>1, <2>2 DEF Owned
  <2>3. CASE api' = [api EXCEPT ![p].ready = TRUE]
    BY <2>1, <2>3 DEF Owned
  <2>4. CASE api' = [api EXCEPT ![p].ready = FALSE]
    BY <2>1, <2>4, Zenon DEF Owned
  <2> QED BY <2>2, <2>3, <2>4 DEF Rollout, Observe, Roll, Break
<1>3. \A o \in Objects : api[o].rev \in Int /\ api[o].observed \in Int
                         /\ api[o].observed <= api[o].rev
  BY <1>0, Fields DEF ReadinessInv, RolloutInv
<1>4. Rank(op.pc) > 9 => api["slurmctld"].rev = op.cl.gen
  <2>1. op.pc \in Points
    BY <1>0, Fields
  <2>2. Rank(op.pc) \in Int /\ Rank("slurmctld") = 3
    BY <2>1, Ranks
  <2>3. Rank(op.pc) > 9 => Rank(op.pc) > Rank("slurmctld")
    BY <2>2
  <2> QED BY <1>0, <2>3, SMTT(60) DEF ClusterInv, RenderInv
<1>5. op.pc = "jobs" => \A o \in Workloads : api[o].rev = op.cl.gen
  BY <1>0, Ranks DEF ClusterInv, RenderInv
<1>6. op.status.obs \in Int /\ cluster.status.obs \in Int
  BY <1>0, Fields, SMTT(60) DEF Statuses
<1>7. RolloutInv'
  BY <1>0, <1>1, <1>2, <1>3, <1>4, <1>5, <1>6 DEF ReadinessInv, RolloutInv, At
<1>8. LoginFollowsControllers'
  BY <1>0, <1>2, <1>3 DEF ReadinessInv, LoginFollowsControllers
<1>9. ReadyIsCurrent'
  BY <1>0, <1>1, <1>2, <1>3, <1>6 DEF ReadinessInv, ReadyIsCurrent
<1> QED BY <1>7, <1>8, <1>9 DEF ReadinessInv

\* ReadinessInv is inductive.
LEMMA ReadyStep ==
    ASSUME Lagging \cap Workloads = {}
    PROVE  ClusterInv /\ ReadinessInv /\ [Next]_vars => ReadinessInv'
<1> SUFFICES ASSUME ClusterInv, ReadinessInv, [Next]_vars PROVE ReadinessInv'
  OBVIOUS
<1>0. TypeOK
  BY DEF ClusterInv
<1>1. CASE Begin
  <2>1. op'.pc \in {"cleanup", "validate"} /\ UNCHANGED <<api, cluster>>
    BY <1>0, <1>1 DEF Begin, TypeOK, Passes
  <2>2. op'.pc # "jobs" /\ op'.pc # "status" /\ ~(Rank(op'.pc) > 9)
    BY <2>1, BeforeGate, Zenon
  <2> QED BY <2>1, <2>2, Untouched, Zenon
<1>2. CASE Validate
  <2>1. \/ NotReady \/ Goes("config") \/ Goes("idle")
        \/ op' = [op EXCEPT !.pc = "config", !.cl = cluster']
    BY <1>2, Zenon DEF Validate
  <2>2. op'.pc \in {"config", "idle", "status"} /\ (op'.pc = "status" => ~op'.status.control)
    <3>1. op' = [op EXCEPT !.pc = "config", !.cl = cluster'] => op'.pc = "config"
      BY <1>0 DEF TypeOK, Passes
    <3> QED BY <1>0, <2>1, <3>1, EndOfPass
  <2>3. cluster' = [cluster EXCEPT !.finalizer = TRUE] \/ cluster' = cluster
    BY <1>2, Zenon DEF Validate
  <2>4. cluster'.status = cluster.status /\ cluster'.gone = cluster.gone
    BY <1>0, <2>3 DEF TypeOK, Clusters
  <2>5. op'.pc # "jobs" /\ ~(Rank(op'.pc) > 9)
    BY <2>2, BeforeGate, Zenon
  <2>6. api' = api
    BY <1>2, Zenon DEF Validate
  <2> QED BY <2>2, <2>4, <2>5, <2>6, Untouched, Zenon
<1>3. CASE ReconcileAll \/ ReconcileLogin
  <2>1. PICK o \in Objects, next \in Points : /\ Rank(next) = Rank(o) + 1
                                            /\ next \notin {"login", "jobs"}
                                            /\ CreateOrUpdate(o, next)
    BY <1>3, Calls, Zenon
  <2> QED BY <2>1, CreateReady, Zenon
<1>4. CASE Abandon
  BY <1>0, <1>4, EndReady, Zenon DEF Abandon
<1>5. CASE \E o \in Lagging : Sync(o)
  BY <1>5, SMTT(60) DEF Sync, ReadinessInv, RolloutInv, LoginFollowsControllers, ReadyIsCurrent, At
<1>6. CASE UNCHANGED vars
  BY <1>6, SMTT(60) DEF vars, ReadinessInv, RolloutInv, LoginFollowsControllers, ReadyIsCurrent, At
<1> QED BY <1>1, <1>2, <1>3, <1>4, <1>5, <1>6, GateReady, ConditionsReady, DeletionReady,
           RolloutReady DEF Next, Pass

\* Readiness starts with nothing ready.
LEMMA ReadyInit == Init => ReadinessInv
<1>1. ~(Rank("idle") > 9) /\ Workloads \subseteq Objects /\ {"login", "slurmctld"} \subseteq Objects
  BY Ranks DEF Objects, Workloads
<1> QED BY <1>1 DEF Init, ReadinessInv, RolloutInv, LoginFollowsControllers, ReadyIsCurrent, At,
                    Absent, New, Unknown

\* If the cache is up to date on the workloads, login never runs ahead of what
\* the controllers have taken up.
THEOREM LoginLast ==
    ASSUME Lagging \cap Workloads = {} PROVE Spec => []LoginFollowsControllers
<1>1. ReadinessInv => LoginFollowsControllers
  BY DEF ReadinessInv
<1> QED BY <1>1, ReadyInit, ReadyStep, ClusterSafety, PTL DEF Spec

\* And ControlPlaneReady is true of the generation it names.
THEOREM ReadyTrue ==
    ASSUME Lagging \cap Workloads = {} PROVE Spec => []ReadyIsCurrent
<1>1. ReadinessInv => ReadyIsCurrent
  BY DEF ReadinessInv
<1> QED BY <1>1, ReadyInit, ReadyStep, ClusterSafety, PTL DEF Spec

-----------------------------------------------------------------------------
(* Arithmetic of frames and slots *)

\* Frames follow one another without gaps.
LEMMA BaseFacts ==
    /\ Base(0) = 0
    /\ \A i \in Nat : Base(i) \in Nat /\ Base(i + 1) = Base(i) + SlotSize
BY RingAssumption DEF Base

\* n frames after the frame i starts frame i + n.
LEMMA BaseSum == \A i, j \in Nat : Base(i + j) = Base(i) + Base(j)
BY RingAssumption DEF Base

\* Later frames start later.
LEMMA BaseMono == \A i, j \in Nat : i <= j => Base(i) <= Base(j)
<1> SUFFICES ASSUME NEW i \in Nat, NEW j \in Nat, i <= j PROVE Base(i) <= Base(j)
  OBVIOUS
<1>1. PICK k \in Nat : j = i + k
  BY j - i \in Nat
<1>2. Base(j) = Base(i) + Base(k) /\ Base(k) \in Nat /\ Base(i) \in Nat
  BY <1>1, BaseSum, BaseFacts, Zenon
<1> QED BY <1>2

\* A counter value designates one of the slots.
LEMMA SlotRange == \A i \in Nat : Slot(i) \in 0..(Slots - 1)
BY RingAssumption DEF Slot

\* Quotient and remainder of a counter by the number of slots.
LEMMA Division ==
    \A i \in Nat : /\ i \div Slots \in Nat
                   /\ i = Slots * (i \div Slots) + Slot(i)
BY RingAssumption DEF Slot

\* Fewer than Slots frames apart, two frames use different slots.
LEMMA SlotsDiffer == \A i, j \in Nat : j < i /\ i - j < Slots => Slot(i) # Slot(j)
<1> SUFFICES ASSUME NEW i \in Nat, NEW j \in Nat, j < i, i - j < Slots, Slot(i) = Slot(j)
             PROVE  FALSE
  OBVIOUS
<1> DEFINE q == i \div Slots
           p == j \div Slots
           r == Slot(i)
<1>1. /\ q \in Nat /\ p \in Nat /\ r \in Nat
      /\ i = Slots * q + r /\ j = Slots * p + r
  BY Division, SlotRange, RingAssumption
<1> HIDE DEF q, p, r
<1>2. CASE q <= p
  <2>1. PICK k \in Nat : p = q + k
    BY <1>1, <1>2, p - q \in Nat
  <2>2. Slots * p = Slots * q + Slots * k /\ Slots * k \in Nat /\ Slots * q \in Nat
    BY <1>1, <2>1, RingAssumption
  <2> QED BY <1>1, <2>2
<1>3. CASE q >= p + 1
  <2>1. PICK k \in Nat : q = (p + 1) + k
    BY <1>1, <1>3, q - (p + 1) \in Nat
  <2>2. Slots * q = Slots * p + Slots + Slots * k /\ Slots * k \in Nat /\ Slots * p \in Nat
    BY <1>1, <2>1, RingAssumption
  <2> QED BY <1>1, <2>2, RingAssumption
<1> QED BY <1>1, <1>2, <1>3
\* What a frame is, with Base kept opaque.
LEMMA FrameFacts ==
    \A p \in Nat : p < Total =>
        /\ Frame(p) \in Nat /\ 0 < Frame(p) /\ Frame(p) <= SlotSize /\ p + Frame(p) <= Total
        /\ p + Frame(p) = Total \/ Frame(p) = SlotSize
BY RingAssumption DEF Frame

-----------------------------------------------------------------------------
(* The inductive invariant of the ring *)

\* Initially nothing is published and both ends stand before frame 0.
LEMMA RingInvInit == RingInit => RingInv
<1> SUFFICES ASSUME RingInit PROVE RingInv
  OBVIOUS
<1>1. RingTypeOK
  BY RingAssumption DEF RingInit, RingTypeOK, Opened, End, Value
<1>2. InFrame(prod, head) /\ InFrame(cons, tail)
  BY BaseFacts, RingAssumption DEF RingInit, Opened, InFrame
<1>3. Counters /\ PublishedHeld /\ OpenFrameHeld /\ Positions /\ Faithful
  BY RingAssumption
     DEF RingInit, Opened, Counters, PublishedHeld, OpenFrameHeld, Positions, Faithful
<1> QED BY <1>1, <1>2, <1>3 DEF RingInv

\* Every step of either end, and every failure of one, preserves RingInv.
LEMMA RingInvStep == RingInv /\ [RingNext]_ringVars => RingInv'
<1> SUFFICES ASSUME RingInv, [RingNext]_ringVars PROVE RingInv'
  OBVIOUS
<1> USE RingAssumption
<1>0. /\ RingTypeOK /\ Counters /\ InFrame(prod, head) /\ InFrame(cons, tail)
      /\ PublishedHeld /\ OpenFrameHeld /\ Positions /\ Faithful
  BY DEF RingInv
<1>t. /\ head \in Nat /\ tail \in Nat /\ last \in Value
      /\ mem \in [0..(Slots - 1) -> [0..(SlotSize - 1) -> Value]]
      /\ prod \in End /\ cons \in End
  BY <1>0 DEF RingTypeOK
<1>b. /\ Base(head) \in Nat /\ Base(head + 1) = Base(head) + SlotSize
      /\ Base(tail) \in Nat /\ Base(tail + 1) = Base(tail) + SlotSize
  BY <1>t, BaseFacts, Zenon
<1>s. Slot(head) \in 0..(Slots - 1) /\ Slot(tail) \in 0..(Slots - 1)
  BY <1>t, SlotRange
<1>1. CASE ClaimSlot
  <2>1. /\ prod.pc = "claim" /\ ~Corrupt /\ head - tail # Slots
        /\ prod.position = Base(head) /\ Base(head) < Total
        /\ Frame(Base(head)) \in Nat /\ 0 < Frame(Base(head))
    BY <1>0, <1>1, <1>b, FrameFacts DEF ClaimSlot, InFrame
  <2>2. /\ prod' = [pc |-> "copy", position |-> Base(head),
                    frameBytes |-> Frame(Base(head)), framePos |-> 0]
        /\ UNCHANGED <<head, tail, mem, cons, last>>
    BY <1>1, <1>t, <2>1, Zenon DEF ClaimSlot, NewFrame, End
  <2>3. RingTypeOK'
    BY <1>t, <1>b, <2>1, <2>2, Zenon DEF RingTypeOK, End
  <2>4. Counters'
    BY <1>0, <1>t, <2>1, <2>2 DEF Counters
  <2>5. InFrame(prod, head)' /\ InFrame(cons, tail)'
    <3>1. InFrame(cons, tail)'
      BY <1>0, <2>2, Zenon DEF InFrame
    <3>2. /\ prod'.pc = "copy" /\ prod'.position = Base(head) /\ prod'.framePos = 0
          /\ prod'.frameBytes = Frame(Base(head)) /\ head' = head
      BY <2>2, Zenon
    <3>3. InFrame(prod, head)'
      BY <1>b, <2>1, <3>2 DEF InFrame
    <3> QED BY <3>1, <3>3, Zenon
  <2>6. PublishedHeld' /\ OpenFrameHeld' /\ Positions' /\ Faithful'
    BY <1>0, <1>t, <1>b, <2>1, <2>2 DEF PublishedHeld, OpenFrameHeld, Positions, Faithful
  <2> QED BY <2>3, <2>4, <2>5, <2>6 DEF RingInv
<1>2. CASE WriteByte
  <2>a. /\ prod.pc = "copy" /\ Base(head) < Total /\ prod.frameBytes = Frame(Base(head))
        /\ prod.position = Base(head) + prod.framePos /\ prod.framePos < prod.frameBytes
        /\ head < tail + Slots
    BY <1>0, <1>2, Zenon DEF WriteByte, InFrame, Counters
  <2>b. /\ Frame(Base(head)) \in Nat /\ Frame(Base(head)) <= SlotSize
        /\ Base(head) + Frame(Base(head)) <= Total
    BY <1>b, <2>a, FrameFacts
  <2>c. prod.framePos \in Nat /\ prod.position \in Nat
    BY <1>t, Zenon DEF End
  <2>1. prod.framePos \in 0..(SlotSize - 1) /\ prod.position + 1 \in Value
    BY <1>b, <2>a, <2>b, <2>c DEF Value
  <2>2. /\ prod' = [pc |-> IF prod.framePos + 1 = prod.frameBytes THEN "publish" ELSE "copy",
                    position |-> prod.position + 1,
                    frameBytes |-> prod.frameBytes, framePos |-> prod.framePos + 1]
        /\ UNCHANGED <<head, tail, cons, last>>
    BY <1>2, <1>t, <2>a, <2>b, <2>c, <2>1, Zenon DEF WriteByte, Copied, End
  <2>d. /\ \/ prod'.pc = "publish" /\ prod.framePos + 1 = prod.frameBytes
           \/ prod'.pc = "copy" /\ prod.framePos + 1 < prod.frameBytes
        /\ prod'.position = prod.position + 1 /\ prod'.framePos = prod.framePos + 1
        /\ prod'.frameBytes = prod.frameBytes
    BY <2>a, <2>b, <2>c, <2>2
  <2>3. mem' = [mem EXCEPT ![Slot(head)] = [@ EXCEPT ![prod.framePos] = prod.position + 1]]
    BY <1>2 DEF WriteByte
  <2>4. mem' \in [0..(Slots - 1) -> [0..(SlotSize - 1) -> Value]]
    BY <1>t, <1>s, <2>a, <2>b, <2>c, <2>1, <2>3, Zenon
  <2>5. RingTypeOK'
    <3>1. prod' \in End
      <4>1. prod.position + 1 \in Nat /\ prod.framePos + 1 \in Nat /\ prod.frameBytes \in Nat
        BY <2>a, <2>b, <2>c
      <4> QED BY <2>2, <4>1 DEF End
    <3> QED BY <1>t, <2>2, <2>4, <3>1, Zenon DEF RingTypeOK
  <2>6. Counters'
    BY <1>0, <1>t, <2>a, <2>b, <2>c, <2>1, <2>2 DEF Counters
  <2>7. InFrame(prod, head)' /\ InFrame(cons, tail)'
    <3>1. InFrame(prod, head)'
      BY <1>0, <1>b, <2>a, <2>b, <2>c, <2>d, <2>2 DEF InFrame
    <3>2. InFrame(cons, tail)'
      BY <1>0, <2>2, Zenon DEF InFrame
    <3> QED BY <3>1, <3>2
  <2>8. PublishedHeld'
    <3> SUFFICES ASSUME NEW i \in tail..(head - 1)
                 PROVE  /\ Base(i) < Total /\ Base(i) + Frame(Base(i)) <= prod'.position
                        /\ \A b \in 0..(Frame(Base(i)) - 1) :
                               mem'[Slot(i)][b] = Base(i) + b + 1
      BY <2>2, Zenon DEF PublishedHeld
    <3>1. i \in Nat /\ i < head /\ head - i < Slots
      BY <1>t, <2>a, <2>b, <2>c, <2>1
    <3>2. Slot(i) # Slot(head) /\ Slot(i) \in 0..(Slots - 1)
      BY <1>t, <3>1, SlotsDiffer, SlotRange, Zenon
    <3>3. mem'[Slot(i)] = mem[Slot(i)]
      BY <1>t, <2>3, <3>2
    <3>4. /\ Base(i) < Total /\ Base(i) + Frame(Base(i)) <= prod.position
          /\ \A b \in 0..(Frame(Base(i)) - 1) : mem[Slot(i)][b] = Base(i) + b + 1
      BY <1>0, Zenon DEF PublishedHeld
    <3>5. Base(i) \in Nat /\ Frame(Base(i)) \in Nat
      BY <3>1, <3>4, BaseFacts, FrameFacts, Zenon
    <3> QED BY <2>a, <2>b, <2>c, <2>1, <2>2, <3>3, <3>4, <3>5
  <2>9. OpenFrameHeld'
    <3> SUFFICES ASSUME NEW b \in 0..prod.framePos
                 PROVE  mem'[Slot(head)][b] = Base(head) + b + 1
      BY <2>a, <2>b, <2>c, <2>1, <2>2 DEF OpenFrameHeld
    <3>1. b \in 0..(SlotSize - 1) /\ b \in Nat
      BY <2>a, <2>b, <2>c, <2>1
    <3>r. mem[Slot(head)] \in [0..(SlotSize - 1) -> Value]
      BY <1>t, <1>s
    <3>m. mem'[Slot(head)] = [mem[Slot(head)] EXCEPT ![prod.framePos] = prod.position + 1]
      BY <1>t, <1>s, <2>3, Zenon
    <3>2. mem'[Slot(head)][b] = IF b = prod.framePos THEN prod.position + 1
                                ELSE mem[Slot(head)][b]
      BY <2>1, <3>r, <3>m, <3>1, Zenon
    <3>3. b # prod.framePos => mem[Slot(head)][b] = Base(head) + b + 1
      BY <1>0, <2>a, <2>b, <2>c, <2>1 DEF OpenFrameHeld
    <3> QED BY <1>b, <2>a, <2>b, <2>c, <2>1, <3>1, <3>2, <3>3, Zenon
  <2>10. Positions' /\ Faithful'
    BY <1>0, <1>t, <2>a, <2>b, <2>c, <2>1, <2>2, SMTT(60) DEF Positions, Faithful, End, Value
  <2> QED BY <2>5, <2>6, <2>7, <2>8, <2>9, <2>10, Zenon DEF RingInv
<1>3. CASE StoreHead
  <2>a. /\ prod.pc = "publish" /\ Base(head) < Total /\ prod.framePos = Frame(Base(head))
        /\ prod.position = Base(head) + prod.framePos /\ head < tail + Slots
    BY <1>0, <1>3, Zenon DEF StoreHead, InFrame, Counters
  <2>b. /\ Frame(Base(head)) \in Nat /\ 0 < Frame(Base(head)) /\ Frame(Base(head)) <= SlotSize
        /\ Base(head) + Frame(Base(head)) <= Total
        /\ Base(head) + Frame(Base(head)) = Total \/ Frame(Base(head)) = SlotSize
    BY <1>b, <2>a, FrameFacts
  <2>1. /\ prod' = [prod EXCEPT !.pc = IF prod.position = Total THEN "done" ELSE "claim"]
        /\ head' = head + 1 /\ UNCHANGED <<tail, mem, cons, last>>
    BY <1>3 DEF StoreHead, Published
  <2>2. /\ \/ prod'.pc = "done" /\ prod.position = Total
           \/ prod'.pc = "claim" /\ prod.position # Total
        /\ prod'.position = prod.position /\ prod' \in End
    BY <1>t, <2>1, Zenon DEF End
  <2>3. RingTypeOK'
    BY <1>t, <2>1, <2>2 DEF RingTypeOK
  <2>4. Counters'
    BY <1>0, <1>t, <2>a, <2>1, <2>2 DEF Counters
  <2>5. InFrame(prod', head + 1)
    BY <1>b, <2>a, <2>b, <2>2 DEF InFrame
  <2>6. InFrame(prod, head)' /\ InFrame(cons, tail)'
    BY <1>0, <2>1, <2>5 DEF InFrame
  <2>7. PublishedHeld'
    <3> SUFFICES ASSUME NEW i \in tail..head
                 PROVE  /\ Base(i) < Total /\ Base(i) + Frame(Base(i)) <= prod.position
                        /\ \A b \in 0..(Frame(Base(i)) - 1) :
                               mem[Slot(i)][b] = Base(i) + b + 1
      BY <1>t, <2>1, <2>2 DEF PublishedHeld
    <3>1. CASE i = head
      BY <1>0, <1>b, <2>a, <2>b, <3>1 DEF OpenFrameHeld
    <3>2. CASE i # head
      BY <1>0, <1>t, <3>2 DEF PublishedHeld
    <3> QED BY <3>1, <3>2
  <2>8. OpenFrameHeld'
    BY <2>2 DEF OpenFrameHeld
  <2>9. Positions' /\ Faithful'
    BY <1>0, <2>1, <2>2, Zenon DEF Positions, Faithful
  <2> QED BY <2>3, <2>4, <2>6, <2>7, <2>8, <2>9 DEF RingInv
<1>4. CASE ClaimFrame
  <2>1. /\ cons.pc = "claim" /\ head # tail
        /\ cons.position = Base(tail) /\ Base(tail) < Total
        /\ Frame(Base(tail)) \in Nat /\ 0 < Frame(Base(tail))
    BY <1>0, <1>4, <1>b, FrameFacts DEF ClaimFrame, InFrame
  <2>2. /\ cons' = [pc |-> "copy", position |-> Base(tail),
                    frameBytes |-> Frame(Base(tail)), framePos |-> 0]
        /\ UNCHANGED <<head, tail, mem, prod, last>>
    BY <1>4, <1>t, <2>1, Zenon DEF ClaimFrame, NewFrame, End
  <2>3. RingTypeOK'
    BY <1>t, <1>b, <2>1, <2>2, Zenon DEF RingTypeOK, End
  <2>4. Counters'
    BY <1>0, <1>t, <2>1, <2>2 DEF Counters
  <2>5. InFrame(prod, head)' /\ InFrame(cons, tail)'
    <3>1. InFrame(prod, head)'
      BY <1>0, <2>2, Zenon DEF InFrame
    <3>2. /\ cons'.pc = "copy" /\ cons'.position = Base(tail) /\ cons'.framePos = 0
          /\ cons'.frameBytes = Frame(Base(tail)) /\ tail' = tail
      BY <2>2, Zenon
    <3>3. InFrame(cons, tail)'
      BY <1>b, <2>1, <3>2 DEF InFrame
    <3> QED BY <3>1, <3>3, Zenon
  <2>6. PublishedHeld' /\ OpenFrameHeld' /\ Positions' /\ Faithful'
    BY <1>0, <2>1, <2>2, Zenon DEF PublishedHeld, OpenFrameHeld, Positions, Faithful
  <2> QED BY <2>3, <2>4, <2>5, <2>6 DEF RingInv
<1>5. CASE ReadByte
  <2>a. /\ cons.pc = "copy" /\ Base(tail) < Total /\ cons.frameBytes = Frame(Base(tail))
        /\ cons.position = Base(tail) + cons.framePos /\ cons.framePos < cons.frameBytes
        /\ tail < head
    BY <1>0, <1>5, Zenon DEF ReadByte, InFrame, Counters
  <2>b. Frame(Base(tail)) \in Nat /\ Frame(Base(tail)) <= SlotSize
    BY <1>b, <2>a, FrameFacts
  <2>c. cons.framePos \in Nat /\ cons.position \in Nat /\ prod.position \in Nat
    BY <1>t, Zenon DEF End
  <2>d. /\ Base(tail) + Frame(Base(tail)) <= prod.position
        /\ \A b \in 0..(Frame(Base(tail)) - 1) : mem[Slot(tail)][b] = Base(tail) + b + 1
    BY <1>0, <1>t, <2>a DEF PublishedHeld
  <2>1. /\ cons' = [pc |-> IF cons.framePos + 1 = cons.frameBytes THEN "publish" ELSE "copy",
                    position |-> cons.position + 1,
                    frameBytes |-> cons.frameBytes, framePos |-> cons.framePos + 1]
        /\ last' = mem[Slot(tail)][cons.framePos]
        /\ UNCHANGED <<head, tail, mem, prod>>
    BY <1>5, <1>t, <2>a, Zenon DEF ReadByte, Copied, End
  <2>2. /\ \/ cons'.pc = "publish" /\ cons.framePos + 1 = cons.frameBytes
           \/ cons'.pc = "copy" /\ cons.framePos + 1 < cons.frameBytes
        /\ cons'.position = cons.position + 1 /\ cons'.framePos = cons.framePos + 1
        /\ cons'.frameBytes = cons.frameBytes
    BY <2>a, <2>b, <2>c, <2>1
  <2>3. last' = cons.position + 1 /\ cons.position + 1 <= prod.position
    <3>1. cons.framePos \in 0..(Frame(Base(tail)) - 1)
      BY <2>a, <2>b, <2>c
    <3>2. /\ last' = Base(tail) + cons.framePos + 1
          /\ Base(tail) + Frame(Base(tail)) <= prod.position
      BY <2>d, <2>1, <3>1, Zenon
    <3> QED BY <1>b, <2>a, <2>b, <2>c, <3>2
  <2>4. RingTypeOK'
    <3>1. cons' \in End
      <4>1. cons.position + 1 \in Nat /\ cons.framePos + 1 \in Nat /\ cons.frameBytes \in Nat
        BY <2>a, <2>b, <2>c
      <4> QED BY <2>1, <4>1 DEF End
    <3>2. last' \in Value
      BY <1>0, <2>c, <2>3 DEF Value, Positions
    <3> QED BY <1>t, <2>1, <3>1, <3>2, Zenon DEF RingTypeOK
  <2>5. Counters'
    BY <1>0, <2>a, <2>1, Zenon DEF Counters
  <2>6. InFrame(prod, head)' /\ InFrame(cons, tail)'
    <3>1. InFrame(prod, head)'
      BY <1>0, <2>1, Zenon DEF InFrame
    <3>2. InFrame(cons, tail)'
      <4>1. tail' = tail
        BY <2>1
      <4> QED BY <1>b, <2>a, <2>b, <2>c, <2>2, <4>1 DEF InFrame
    <3> QED BY <3>1, <3>2
  <2>7. PublishedHeld' /\ OpenFrameHeld' /\ Positions' /\ Faithful'
    <3>1. PublishedHeld' /\ OpenFrameHeld'
      BY <1>0, <2>1, Zenon DEF PublishedHeld, OpenFrameHeld
    <3>2. Positions' /\ Faithful'
      BY <1>0, <2>1, <2>2, <2>3, Zenon DEF Positions, Faithful
    <3> QED BY <3>1, <3>2
  <2> QED BY <2>4, <2>5, <2>6, <2>7 DEF RingInv
<1>6. CASE StoreTail
  <2>a. /\ cons.pc = "publish" /\ Base(tail) < Total /\ cons.framePos = Frame(Base(tail))
        /\ cons.position = Base(tail) + cons.framePos /\ tail < head
    BY <1>0, <1>6, Zenon DEF StoreTail, InFrame, Counters
  <2>b. /\ Frame(Base(tail)) \in Nat /\ 0 < Frame(Base(tail)) /\ Frame(Base(tail)) <= SlotSize
        /\ Base(tail) + Frame(Base(tail)) <= Total
        /\ Base(tail) + Frame(Base(tail)) = Total \/ Frame(Base(tail)) = SlotSize
    BY <1>b, <2>a, FrameFacts
  <2>1. /\ cons' = [cons EXCEPT !.pc = IF cons.position = Total THEN "done" ELSE "claim"]
        /\ tail' = tail + 1 /\ UNCHANGED <<head, mem, prod, last>>
    BY <1>6 DEF StoreTail, Published
  <2>2. /\ \/ cons'.pc = "done" /\ cons.position = Total
           \/ cons'.pc = "claim" /\ cons.position # Total
        /\ cons'.position = cons.position /\ cons' \in End
    BY <1>t, <2>1, Zenon DEF End
  <2>3. RingTypeOK'
    BY <1>t, <2>1, <2>2 DEF RingTypeOK
  <2>4. Counters'
    BY <1>0, <1>t, <2>a, <2>1, <2>2 DEF Counters
  <2>5. InFrame(cons', tail + 1)
    BY <1>b, <2>a, <2>b, <2>2 DEF InFrame
  <2>6. InFrame(prod, head)' /\ InFrame(cons, tail)'
    BY <1>0, <2>1, <2>5 DEF InFrame
  <2>7. PublishedHeld'
    BY <1>0, <1>t, <2>1 DEF PublishedHeld
  <2>8. OpenFrameHeld' /\ Positions' /\ Faithful'
    BY <1>0, <2>1, <2>2 DEF OpenFrameHeld, Positions, Faithful
  <2> QED BY <2>3, <2>4, <2>6, <2>7, <2>8, Zenon DEF RingInv
<1>7. CASE AbandonRing
  <2>1. /\ \/ prod' = prod
           \/ prod'.pc = "failed" /\ prod'.position = prod.position /\ prod' \in End
        /\ \/ cons' = cons
           \/ cons'.pc = "failed" /\ cons'.position = cons.position /\ cons' \in End
        /\ UNCHANGED <<head, tail, mem, last>>
    BY <1>7, <1>t, Zenon DEF AbandonRing, End
  <2>2. RingTypeOK' /\ Counters' /\ Positions' /\ Faithful'
    BY <1>0, <1>t, <2>1 DEF RingTypeOK, Counters, Positions, Faithful
  <2>3. InFrame(prod, head)'
    BY <1>0, <2>1 DEF InFrame
  <2>4. InFrame(cons, tail)'
    BY <1>0, <2>1, Zenon DEF InFrame
  <2>5. PublishedHeld' /\ OpenFrameHeld'
    BY <1>0, <2>1, Zenon DEF PublishedHeld, OpenFrameHeld
  <2> QED BY <2>2, <2>3, <2>4, <2>5 DEF RingInv
<1>8. CASE UNCHANGED ringVars
  <2>1. RingTypeOK'
    BY <1>0, <1>8, Zenon DEF ringVars, RingTypeOK
  <2>2. Counters' /\ Positions' /\ Faithful'
    BY <1>0, <1>8, Zenon DEF ringVars, Counters, Positions, Faithful
  <2>3. InFrame(prod, head)' /\ InFrame(cons, tail)'
    BY <1>0, <1>8, Zenon DEF ringVars, InFrame
  <2>4. PublishedHeld' /\ OpenFrameHeld'
    BY <1>0, <1>8, Zenon DEF ringVars, PublishedHeld, OpenFrameHeld
  <2> QED BY <2>1, <2>2, <2>3, <2>4, Zenon DEF RingInv
<1> QED BY <1>1, <1>2, <1>3, <1>4, <1>5, <1>6, <1>7, <1>8 DEF RingNext, Producer, Consumer

\* RingInv holds in every reachable state of the ring.
LEMMA RingInvariant == RingSpec => []RingInv
BY RingInvInit, RingInvStep, PTL DEF RingSpec

-----------------------------------------------------------------------------
(* The theorems on the ring *)

\* For every number and size of slots and every length of the stream, the
\* variables keep their types: no byte beyond the declared length is ever copied.
THEOREM TypeCorrect == RingSpec => []RingTypeOK
<1>1. RingInv => RingTypeOK
  BY DEF RingInv
<1> QED BY <1>1, RingInvariant, PTL

\* Every byte Read copies out is the byte Write copied in at that position.
THEOREM FaithfulHolds == RingSpec => []Faithful
<1>1. RingInv => Faithful
  BY DEF RingInv
<1> QED BY <1>1, RingInvariant, PTL

\* The corruption checks of Read and Write never fire.
THEOREM CountersHold == RingSpec => []CountersSound
<1>1. RingInv => CountersSound
  <2> SUFFICES ASSUME RingInv PROVE CountersSound
    OBVIOUS
  <2>1. head \in Nat /\ tail \in Nat /\ tail <= head /\ head <= tail + Slots
    BY DEF RingInv, RingTypeOK, Counters
  <2> QED BY <2>1, RingAssumption DEF CountersSound, Corrupt
<1> QED BY <1>1, RingInvariant, PTL

\* A reader at the end of the stream has all that was written, and all was.
THEOREM CompleteHolds == RingSpec => []CompleteAtEOF
<1>1. RingInv => CompleteAtEOF
  <2> SUFFICES ASSUME RingInv, cons.pc = "done"
               PROVE  prod.position = Total /\ cons.position = Total
    BY DEF CompleteAtEOF
  <2>1. prod.position \in Nat /\ cons.position \in Nat
    BY Zenon DEF RingInv, RingTypeOK, End
  <2>2. cons.position = Total
    BY Zenon DEF RingInv, InFrame
  <2> QED BY <2>1, <2>2, RingAssumption DEF RingInv, Positions
<1> QED BY <1>1, RingInvariant, PTL

\* The room a writer that holds a slot has: less than the capacity is in use.
LEMMA RoomInSlot ==
    ASSUME RingInv, prod.pc = "copy"
    PROVE  prod.position < Total /\ prod.position - last < Slots * SlotSize
<1> USE RingAssumption
<1>1. /\ head \in Nat /\ tail \in Nat /\ head < tail + Slots /\ Base(head) < Total
      /\ prod.position = Base(head) + prod.framePos /\ prod.framePos < Frame(Base(head))
      /\ prod.framePos \in Nat /\ prod.position \in Nat /\ last \in Nat
      /\ last = Total \/ Base(tail) <= last
      /\ last <= prod.position
  BY DEF RingInv, RingTypeOK, Counters, InFrame, End, Value, Positions, Faithful
<1>2. Base(head) \in Nat /\ Base(tail) \in Nat /\ Base(head + 1) = Base(head) + SlotSize
  BY <1>1, BaseFacts, Zenon
<1>3. /\ Frame(Base(head)) \in Nat /\ Frame(Base(head)) <= SlotSize
      /\ Base(head) + Frame(Base(head)) <= Total
  BY <1>1, <1>2, FrameFacts, Zenon
<1>4. prod.position < Total /\ prod.position < Base(head + 1)
  BY <1>1, <1>2, <1>3
<1>5. Base(head + 1) <= Base(tail) + Slots * SlotSize
  <2>1. head + 1 <= tail + Slots /\ head + 1 \in Nat /\ tail + Slots \in Nat
    BY <1>1
  <2>2. Base(head + 1) <= Base(tail + Slots)
    BY <2>1, BaseMono
  <2>3. Base(tail + Slots) = Base(tail) + Slots * SlotSize
    BY <1>1, BaseSum DEF Base
  <2> QED BY <2>2, <2>3
<1>6. Slots * SlotSize \in Nat /\ Base(tail) <= last
  BY <1>1, <1>4
<1> QED BY <1>1, <1>2, <1>4, <1>5, <1>6

\* Every step of the ring is a step of the pipe or leaves it alone.
LEMMA StreamStep == RingInv /\ RingInv' /\ [RingNext]_ringVars => [Pipe!Next]_Pipe!vars
<1> SUFFICES ASSUME RingInv, RingInv', [RingNext]_ringVars PROVE [Pipe!Next]_Pipe!vars
  OBVIOUS
<1>t. prod \in End /\ cons \in End
  BY DEF RingInv, RingTypeOK
<1>1. CASE WriteByte
  <2>1. prod.pc = "copy" /\ prod'.position = prod.position + 1 /\ last' = last
    BY <1>t, <1>1 DEF WriteByte, Copied, End
  <2>2. prod.position < Total /\ prod.position - last < Slots * SlotSize
    BY <2>1, RoomInSlot
  <2> QED BY <2>1, <2>2 DEF Pipe!Next, Pipe!Accept
<1>2. CASE ReadByte
  <2>1. cons'.position = cons.position + 1 /\ prod' = prod
    BY <1>t, <1>2 DEF ReadByte, Copied, End
  <2>2. last = cons.position /\ last' = cons'.position /\ cons'.position <= prod'.position
    BY DEF RingInv, Faithful, Positions
  <2>3. cons.position \in Nat /\ prod.position \in Nat
    BY <1>t DEF End
  <2>4. last < prod.position /\ last' = last + 1
    BY <2>1, <2>2, <2>3
  <2> QED BY <2>1, <2>4 DEF Pipe!Next, Pipe!Deliver
<1>3. CASE ~WriteByte /\ ~ReadByte
  <2>1. prod'.position = prod.position /\ last' = last
    BY <1>t, <1>3, Zenon DEF RingNext, Producer, Consumer, ClaimSlot, StoreHead, ClaimFrame, StoreTail,
                      AbandonRing, NewFrame, Published, End, ringVars
  <2> QED BY <2>1 DEF Pipe!vars
<1> QED BY <1>1, <1>2, <1>3

\* The ring implements a bounded pipe of Slots * SlotSize bytes: what Read
\* returns is what Write was given, in order, nothing lost and nothing twice.
THEOREM RingIsPipe == RingSpec => ImplementsStream
<1>1. RingInit => Pipe!Init
  BY DEF RingInit, Opened, Pipe!Init
<1> QED BY <1>1, StreamStep, RingInvariant, PTL DEF RingSpec, ImplementsStream, Pipe!Spec

=============================================================================
