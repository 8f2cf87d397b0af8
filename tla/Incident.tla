------------------------------ MODULE Incident ------------------------------
(***************************************************************************)
(* The life of a hardware incident on one Node, from the raw fault to the  *)
(* return to service: the recovery reconciler (recovery.go,                *)
(* recovery_verifier.go), the watchdog daemon that reboots the host and    *)
(* the parties that write the same Node object: Node Problem Detector, the *)
(* kubelet, the DRA plugin and an administrator.                           *)
(*                                                                         *)
(* The phases Isolated .. Requeued are one phase here; module Evacuation   *)
(* models what happens inside it.  The operator reads the Node through its *)
(* informer cache and writes it with JSON merge patches, in which a list   *)
(* (the conditions) that changed replaces the whole list.                  *)
(***************************************************************************)
EXTENDS Naturals

CONSTANTS
    Cells,         \* NUMA cells of the Node, each with its own verifier
    Lag,           \* whether the informer cache may lag behind the API server
    Interference,  \* which of "untaint", "lose" somebody else may do
    MaxIncidents,  \* bound: incident and request UUIDs ever issued
    MaxBoots,      \* bound: boots of the host
    MaxAbandoned   \* bound: passes cut short

ASSUME IncidentAssumption ==
    /\ Cells # {} /\ Lag \in BOOLEAN /\ Interference \subseteq {"untaint", "lose"}
    /\ MaxIncidents \in Nat /\ MaxBoots \in Nat \ {0} /\ MaxAbandoned \in Nat

VARIABLES
    st,         \* the incident's ConfigMap
    node,       \* API server: the Node object
    cache,      \* informer: the operator's copy of it
    op,         \* the running pass
    wd,         \* the watchdog: program point and the request it serves
    host,       \* the boot the machine is really in
    job,        \* API server: the verifier Job (and claim) of incident and cell
    seen,       \* informer: verifiers in the operator's cache
    elapsed,    \* deadlines of the current incident that have passed
    work,       \* whether a worker Pod runs on the Node
    uuids,      \* UUIDs issued so far
    abandoned,  \* history: passes cut short
    reboots,    \* history: reboots by the watchdog per request
    proved,     \* history: boot in which the verifier of a cell succeeded
    opened      \* history: incidents opened so far

api  == <<job, seen>>
hist == <<abandoned, reboots, proved>>
vars == <<st, node, cache, op, wd, host, api, elapsed, work, uuids, hist, opened>>

-----------------------------------------------------------------------------
(* State *)

Ids       == 0..MaxIncidents          \* 0: the annotation or field is empty
Boots     == 0..MaxBoots
Verifiers == (Ids \ {0}) \X Cells
Phases    == {"Healthy", "Isolated", "RebootRequested", "Rebooting", "Verifying",
              "ManualRepair"}         \* "Healthy": there is no ConfigMap
Hashes    == {"full", "short"}        \* "short": a device did not come back
Timers    == {"reboot", "stable", "inventory", "verify"}

\* recoveryState, without the fields of the evacuation.
RecoveryState == [inc : Ids, phase : Phases, preBoot : Boots, preHash : Hashes,
                  preInventory : BOOLEAN, newBoot : Boots, readySince : BOOLEAN,
                  started : BOOLEAN, passed : BOOLEAN, manual : Ids]

NoState == [inc |-> 0, phase |-> "Healthy", preBoot |-> 0, preHash |-> "full",
            preInventory |-> FALSE, newBoot |-> 0, readySince |-> FALSE,
            started |-> FALSE, passed |-> FALSE, manual |-> 0]

\* Annotations (recovery-incident, recovery-phase, recovery-request,
\* reboot-request, reboot-acknowledged, inventory), the degradation taint, and
\* the conditions HardwareDegraded (by its message), HardwareFaultDetected and
\* Ready.
NodeObject == [inc : Ids, phase : Phases, request : Ids, reboot : Ids, ack : Ids,
               invBoot : Boots, invHash : Hashes, taint : BOOLEAN,
               degraded : Ids \X Phases, raw : BOOLEAN, ready : BOOLEAN, boot : Boots]

NotDegraded == <<0, "Healthy">>

HealthyNode == [inc |-> 0, phase |-> "Healthy", request |-> 0, reboot |-> 0, ack |-> 0,
                invBoot |-> 1, invHash |-> "full", taint |-> FALSE,
                degraded |-> NotDegraded, raw |-> FALSE, ready |-> TRUE, boot |-> 1]

Points == {"idle", "reenter", "isolate", "condition", "evacuate", "reboot", "booted",
           "verifiers", "verify", "cleanup", "healthy", "undegrade", "delete"}

\* The locals of a pass: its Node object, rawStatus, whether it returns after
\* ensureIsolation, the cells still to visit and deleteVerifierResources's result.
Pass == [pc : Points, node : NodeObject, raw : BOOLEAN, last : BOOLEAN,
         todo : SUBSET Cells, clean : BOOLEAN]

Idle == [pc |-> "idle", node |-> HealthyNode, raw |-> FALSE, last |-> FALSE,
         todo |-> {}, clean |-> FALSE]

Init ==
    /\ st = NoState /\ node = HealthyNode /\ cache = HealthyNode /\ op = Idle
    /\ wd = [pc |-> "idle", id |-> 0] /\ host = 1
    /\ job = [v \in Verifiers |-> "none"] /\ seen = {}
    /\ elapsed = {} /\ work = TRUE /\ uuids = 0
    /\ abandoned = 0 /\ reboots = [i \in Ids |-> 0]
    /\ proved = [v \in Verifiers |-> 0] /\ opened = {}

At(point) == op.pc = point
EndPass   == op' = Idle
Go(point) == op' = [op EXCEPT !.pc = point]

\* r.Get on the Node: the cached copy.
Read == IF Lag THEN cache ELSE node

-----------------------------------------------------------------------------
(* Reconcile: open or resume an incident *)

\* newRecoveryState, from the Node as this pass sees it.
NewState(n, id) ==
    [NoState EXCEPT !.inc = id, !.phase = "Isolated", !.preBoot = n.boot,
                    !.preHash = n.invHash, !.preInventory = (n.invBoot = n.boot)]

\* What a pass still reads of its copy of the Node once it is under way: neither
\* the conditions (it has rawStatus) nor, newRecoveryState and reconcileReboot
\* apart, the boot and its inventory.
Kept(n) == [n EXCEPT !.raw = FALSE, !.degraded = NotDegraded, !.ready = TRUE,
                     !.boot = 1, !.invBoot = 1, !.invHash = "full"]

Begin(point) ==
    op' = [Idle EXCEPT !.pc = point, !.raw = Read.raw,
                       !.node = IF point = "reenter" THEN Read ELSE Kept(Read)]

Open(id, state) ==
    /\ st' = state
    /\ elapsed' = {}
    /\ opened' = opened \cup {id}

\* No ConfigMap and the raw fault is true.
OpenIncident ==
    /\ At("idle") /\ st = NoState /\ Read.raw
    /\ uuids < MaxIncidents /\ uuids' = uuids + 1
    /\ Open(uuids + 1, NewState(Read, uuids + 1))
    /\ Begin("isolate")
    /\ UNCHANGED <<node, cache, wd, host, api, work, hist>>

\* No ConfigMap, no raw fault, but the Node names an incident: "durable recovery
\* state is missing".
StateMissing ==
    /\ At("idle") /\ st = NoState /\ ~Read.raw /\ Read.inc # 0
    /\ uuids < MaxIncidents /\ uuids' = uuids + 1
    /\ Open(uuids + 1, [NewState(Read, uuids + 1) EXCEPT !.phase = "ManualRepair"])
    /\ Begin("reenter")
    /\ UNCHANGED <<node, cache, wd, host, api, work, hist>>

\* No ConfigMap and nothing wrong: setHealthy.
NothingWrong ==
    /\ At("idle") /\ st = NoState /\ ~Read.raw /\ Read.inc = 0
    /\ Begin("healthy")
    /\ UNCHANGED <<st, node, cache, wd, host, api, elapsed, work, uuids, hist, opened>>

\* Variant with a fault: a Node in ManualRepair is left alone.
ResumeActive ==
    /\ At("idle") /\ st.phase \notin {"Healthy", "ManualRepair"}
    /\ Begin("isolate")
    /\ UNCHANGED <<st, node, cache, wd, host, api, elapsed, work, uuids, hist, opened>>

\* Variant with a fault: a Node whose raw fault has cleared is healthy.
ResumeUnlessCleared ==
    /\ At("idle") /\ st # NoState
    /\ Begin(IF ~Read.raw THEN "healthy"
             ELSE IF st.phase = "ManualRepair" THEN "reenter" ELSE "isolate")
    /\ UNCHANGED <<st, node, cache, wd, host, api, elapsed, work, uuids, hist, opened>>

Resume ==
    /\ At("idle") /\ st # NoState
    /\ Begin(IF st.phase = "ManualRepair" THEN "reenter" ELSE "isolate")
    /\ UNCHANGED <<st, node, cache, wd, host, api, elapsed, work, uuids, hist, opened>>

\* Variant with a fault: any request ends ManualRepair, an old one too.
AnyRequest == ~op.raw /\ op.node.request # 0

\* ManualRepair ends on a recovery-request other than the one it started with.
NewRequest == ~op.raw /\ op.node.request \notin {0, st.manual}

Reenter ==
    /\ At("reenter")
    /\ \/ /\ NewRequest
          /\ Open(op.node.request, [NewState(op.node, op.node.request)
                                       EXCEPT !.manual = op.node.request])
       \/ ~NewRequest /\ UNCHANGED <<st, elapsed, opened>>
    /\ Go("isolate")
    /\ UNCHANGED <<node, cache, wd, host, api, work, uuids, hist>>

-----------------------------------------------------------------------------
(* ensureIsolation, setNodeCondition, setHealthy *)

\* A merge patch holds the keys that differ from the object the pass read.
Patched(new, read, current) == IF new = read THEN current ELSE new

\* Annotations and the degradation taint.
Isolate ==
    LET n  == op.node
        rq == IF st.phase \in {"RebootRequested", "Rebooting"} THEN st.inc ELSE n.reboot
        same == n.inc = st.inc /\ n.phase = st.phase /\ n.reboot = rq /\ n.taint
        after == [node EXCEPT !.inc = Patched(st.inc, n.inc, @),
                              !.phase = Patched(st.phase, n.phase, @),
                              !.reboot = Patched(rq, n.reboot, @),
                              !.taint = Patched(TRUE, n.taint, @)]
    IN
    /\ At("isolate")
    /\ node' = IF same THEN node ELSE after
    /\ op' = [op EXCEPT !.pc = "condition", !.node = Kept(IF same THEN n ELSE after)]
    /\ UNCHANGED <<st, cache, wd, host, api, elapsed, work, uuids, hist, opened>>

\* setNodeCondition reads the Node again and, unless the condition is as wanted,
\* replaces the whole list of conditions.
SetNodeCondition(wanted) ==
    node' = IF Read.degraded = wanted THEN node
            ELSE [node EXCEPT !.degraded = wanted, !.raw = Read.raw, !.ready = Read.ready]

Dispatch == CASE st.phase = "Isolated" -> "evacuate"
              [] st.phase \in {"RebootRequested", "Rebooting"} -> "reboot"
              [] OTHER -> "verify"

SetDegraded ==
    /\ At("condition")
    /\ SetNodeCondition(<<st.inc, st.phase>>)
    /\ op' = IF op.last \/ st.phase = "ManualRepair" THEN Idle
             ELSE [op EXCEPT !.pc = Dispatch, !.todo = Cells, !.clean = TRUE]
    /\ UNCHANGED <<st, cache, wd, host, api, elapsed, work, uuids, hist, opened>>

\* setHealthy, first patch: drop the taint and the five annotations.
ClearNode ==
    LET n == op.node IN
    /\ At("healthy")
    /\ node' = [node EXCEPT !.inc = Patched(0, n.inc, @),
                            !.phase = Patched("Healthy", n.phase, @),
                            !.request = Patched(0, n.request, @),
                            !.reboot = Patched(0, n.reboot, @),
                            !.ack = Patched(0, n.ack, @),
                            !.taint = Patched(FALSE, n.taint, @)]
    /\ Go("undegrade")
    /\ UNCHANGED <<st, cache, wd, host, api, elapsed, work, uuids, hist, opened>>

ClearDegraded ==
    /\ At("undegrade")
    /\ SetNodeCondition(NotDegraded)
    /\ IF st = NoState THEN EndPass ELSE Go("delete")
    /\ UNCHANGED <<st, cache, wd, host, api, elapsed, work, uuids, hist, opened>>

-----------------------------------------------------------------------------
(* Phases *)

\* setPhase: save, then ensureIsolation on the given object, then return.
SetPhase(n, state) ==
    /\ st' = state
    /\ op' = [Idle EXCEPT !.pc = "isolate", !.node = Kept(n), !.last = TRUE]

\* Variant with a fault: a phase that Reconcile does not know.
EnterUnknownPhase(n) ==
    SetPhase(n, [st EXCEPT !.phase = "Failed", !.manual = n.request])

EnterManualRepair(n) ==
    SetPhase(n, [st EXCEPT !.phase = "ManualRepair", !.manual = n.request])

\* cleanupEvacuatedWorkers completed (module Evacuation).
Evacuated ==
    /\ At("evacuate")
    /\ SetPhase(op.node, [st EXCEPT !.phase = "RebootRequested"])
    /\ work' = FALSE /\ elapsed' = elapsed \ {"reboot"}
    /\ UNCHANGED <<node, cache, wd, host, api, uuids, hist, opened>>

StillEvacuating ==
    /\ At("evacuate") /\ EndPass
    /\ UNCHANGED <<st, node, cache, wd, host, api, elapsed, work, uuids, hist, opened>>

\* reconcileReboot up to the boot ID, on a fresh read of the Node.
AwaitReboot ==
    LET n == Read IN
    /\ At("reboot")
    /\ \/ "reboot" \in elapsed /\ EnterManualRepair(n)
       \/ /\ "reboot" \notin elapsed /\ st.phase = "RebootRequested"
          /\ \/ n.ack # st.inc /\ EndPass /\ UNCHANGED st
             \/ n.ack = st.inc /\ SetPhase(n, [st EXCEPT !.phase = "Rebooting"])
       \/ /\ "reboot" \notin elapsed /\ st.phase = "Rebooting"
          /\ \/ n.boot = st.preBoot /\ EndPass /\ UNCHANGED st
             \/ /\ n.boot # st.preBoot /\ st.newBoot \in {0, n.boot}
                /\ st' = [st EXCEPT !.newBoot = n.boot,
                                    !.readySince = IF st.newBoot = 0 THEN FALSE ELSE @]
                /\ op' = [op EXCEPT !.pc = "booted", !.node = n]
             \/ n.boot # st.preBoot /\ st.newBoot \notin {0, n.boot} /\ EnterManualRepair(n)
    /\ UNCHANGED <<node, cache, wd, host, api, elapsed, work, uuids, hist, opened>>

\* The new boot must be Ready for the stabilization period.
AwaitReady ==
    /\ At("booted")
    /\ \/ ~op.node.ready /\ st' = [st EXCEPT !.readySince = FALSE] /\ UNCHANGED elapsed
       \/ /\ op.node.ready /\ ~st.readySince
          /\ st' = [st EXCEPT !.readySince = TRUE]
          /\ elapsed' = elapsed \ {"stable", "inventory"}
       \/ /\ op.node.ready /\ st.readySince /\ "stable" \notin elapsed
          /\ UNCHANGED <<st, elapsed>>
    /\ EndPass
    /\ UNCHANGED <<node, cache, wd, host, api, work, uuids, hist, opened>>

\* Then the DRA plugin must publish the same inventory for that boot.
CheckInventory ==
    LET n == op.node IN
    /\ At("booted") /\ n.ready /\ st.readySince /\ "stable" \in elapsed
    /\ \/ n.invBoot # st.newBoot /\ "inventory" \notin elapsed
          /\ EndPass /\ UNCHANGED <<st, elapsed>>
       \/ /\ \/ n.invBoot # st.newBoot /\ "inventory" \in elapsed
             \/ n.invBoot = st.newBoot /\ n.invHash # st.preHash
          /\ EnterManualRepair(n) /\ UNCHANGED elapsed
       \/ /\ n.invBoot = st.newBoot /\ n.invHash = st.preHash
          /\ st' = [st EXCEPT !.started = TRUE]
          /\ elapsed' = IF st.started THEN elapsed ELSE elapsed \ {"verify"}
          /\ Go("verifiers")
    /\ UNCHANGED <<node, cache, wd, host, api, work, uuids, hist, opened>>

-----------------------------------------------------------------------------
(* Verifiers *)

Verifier(c) == <<st.inc, c>>

\* ensureVerifierResources, one cell that is not in the cache; "already exists"
\* is not an error.
CreateVerifier(c) ==
    /\ At("verifiers") /\ st.preInventory /\ c \in op.todo /\ Verifier(c) \notin seen
    /\ job' = [job EXCEPT ![Verifier(c)] = IF @ = "none" THEN "running" ELSE @]
    /\ op' = [op EXCEPT !.todo = @ \ {c}]
    /\ UNCHANGED <<st, node, cache, wd, host, seen, elapsed, work, uuids, hist, opened>>

\* The inventory does not decode, or a verifier is in the cache: IsControlledBy
\* is false for every owner that SetOwnerReference recorded.  reconcileReboot
\* gives the incident up, reconcileVerification returns the error.
VerifiersRefused ==
    /\ At("verifiers")
    /\ ~st.preInventory \/ \E c \in op.todo : Verifier(c) \in seen
    /\ \/ st.phase = "Rebooting" /\ EnterManualRepair(op.node)
       \/ st.phase = "Verifying" /\ EndPass /\ UNCHANGED st
    /\ UNCHANGED <<node, cache, wd, host, api, elapsed, work, uuids, hist, opened>>

\* Variant with a fault: the phase is not saved.
VerifiersCreatedUnsaved ==
    /\ At("verifiers") /\ st.preInventory /\ op.todo = {} /\ EndPass
    /\ UNCHANGED <<st, node, cache, wd, host, api, elapsed, work, uuids, hist, opened>>

VerifiersCreated ==
    /\ At("verifiers") /\ st.preInventory /\ op.todo = {}
    /\ \/ st.phase = "Rebooting" /\ SetPhase(op.node, [st EXCEPT !.phase = "Verifying"])
       \/ st.phase = "Verifying" /\ EndPass /\ UNCHANGED st
    /\ UNCHANGED <<node, cache, wd, host, api, elapsed, work, uuids, hist, opened>>

\* Variant with a fault: a verifier that exists counts as a success.
Exists == \A c \in Cells : Verifier(c) \in seen

Succeeded == \A c \in Cells : Verifier(c) \in seen /\ job[Verifier(c)] = "passed"

\* reconcileVerification until every verifier has succeeded.
AwaitVerifiers ==
    /\ At("verify") /\ "verify" \notin elapsed /\ ~st.passed
    /\ \/ /\ \E c \in Cells : Verifier(c) \notin seen
          /\ Go("verifiers") /\ UNCHANGED st
       \/ /\ \E c \in Cells : Verifier(c) \in seen /\ job[Verifier(c)] = "failed"
          /\ EnterManualRepair(op.node)
       \/ /\ \A c \in Cells : Verifier(c) \in seen /\ job[Verifier(c)] # "failed"
          /\ st' = [st EXCEPT !.passed = Succeeded /\ ~op.raw]
          /\ EndPass
    /\ UNCHANGED <<node, cache, wd, host, api, elapsed, work, uuids, hist, opened>>

VerificationTimeout ==
    /\ At("verify") /\ "verify" \in elapsed
    /\ EnterManualRepair(op.node)
    /\ UNCHANGED <<node, cache, wd, host, api, elapsed, work, uuids, hist, opened>>

BeginCleanup ==
    /\ At("verify") /\ "verify" \notin elapsed /\ st.passed
    /\ IF op.raw THEN EndPass ELSE Go("cleanup")
    /\ UNCHANGED <<st, node, cache, wd, host, api, elapsed, work, uuids, hist, opened>>

\* deleteVerifierResources: clean only when nothing was left to delete.
DeleteVerifier(c) ==
    /\ At("cleanup") /\ c \in op.todo
    /\ job' = [job EXCEPT ![Verifier(c)] = "none"]
    /\ op' = [op EXCEPT !.todo = @ \ {c}, !.clean = @ /\ job[Verifier(c)] = "none"]
    /\ UNCHANGED <<st, node, cache, wd, host, seen, elapsed, work, uuids, hist, opened>>

CleanedUp ==
    /\ At("cleanup") /\ op.todo = {}
    /\ IF op.clean THEN Go("healthy") ELSE EndPass
    /\ UNCHANGED <<st, node, cache, wd, host, api, elapsed, work, uuids, hist, opened>>

\* The ConfigMap is deleted last.
DeleteState ==
    /\ At("delete")
    /\ st' = NoState /\ elapsed' = {}
    /\ EndPass
    /\ UNCHANGED <<node, cache, wd, host, api, work, uuids, hist, opened>>

\* The operator restarts, or a call of the pass fails.
AbandonPass ==
    /\ ~At("idle") /\ abandoned < MaxAbandoned
    /\ EndPass /\ abandoned' = abandoned + 1
    /\ UNCHANGED <<st, node, cache, wd, host, api, elapsed, work, uuids, reboots,
                   proved, opened>>

-----------------------------------------------------------------------------
(* The watchdog daemon: rebootOnce *)

\* Variant with a fault: the acknowledgement is not looked at.
CheckRequestAgain ==
    /\ wd.pc = "idle" /\ host = node.boot
    /\ node.reboot # 0 /\ node.reboot = node.inc
    /\ node.phase = "RebootRequested" /\ node.degraded # NotDegraded
    /\ wd' = [pc |-> "list", id |-> node.reboot]
    /\ UNCHANGED <<st, node, cache, op, host, api, elapsed, work, uuids, hist, opened>>

\* The request must be new, name the incident, and the Node must be quarantined.
CheckRequest ==
    /\ wd.pc = "idle" /\ host = node.boot
    /\ node.reboot \notin {0, node.ack} /\ node.reboot = node.inc
    /\ node.phase = "RebootRequested" /\ node.degraded # NotDegraded
    /\ wd' = [pc |-> "list", id |-> node.reboot]
    /\ UNCHANGED <<st, node, cache, op, host, api, elapsed, work, uuids, hist, opened>>

ListWorkers ==
    /\ wd.pc = "list"
    /\ wd' = IF work THEN [pc |-> "idle", id |-> 0] ELSE [wd EXCEPT !.pc = "acknowledge"]
    /\ UNCHANGED <<st, node, cache, op, host, api, elapsed, work, uuids, hist, opened>>

\* Get and Update under RetryOnConflict.  A request that changed meanwhile is not
\* acknowledged, and the closure returns nil all the same.
Acknowledge ==
    /\ wd.pc = "acknowledge"
    /\ node' = [node EXCEPT !.ack = IF node.reboot = wd.id THEN wd.id ELSE @]
    /\ wd' = [wd EXCEPT !.pc = "reboot"]
    /\ UNCHANGED <<st, cache, op, host, api, elapsed, work, uuids, hist, opened>>

RebootHost ==
    /\ wd.pc = "reboot" /\ host < MaxBoots
    /\ host' = host + 1
    /\ reboots' = [reboots EXCEPT ![wd.id] = @ + 1]
    /\ wd' = [pc |-> "idle", id |-> 0]
    /\ UNCHANGED <<st, node, cache, op, api, elapsed, work, uuids, abandoned, proved,
                   opened>>

\* A call fails, the reboot is refused, or the daemon restarts.
WatchdogFails ==
    /\ wd.pc # "idle" /\ wd' = [pc |-> "idle", id |-> 0]
    /\ UNCHANGED <<st, node, cache, op, host, api, elapsed, work, uuids, hist, opened>>

-----------------------------------------------------------------------------
(* Everybody else *)

\* The watch delivers the Node, or a verifier.
SyncNode ==
    /\ Lag /\ cache # node /\ cache' = node
    /\ UNCHANGED <<st, node, op, wd, host, api, elapsed, work, uuids, hist, opened>>

SyncVerifier(v) ==
    /\ seen' = IF job[v] = "none" THEN seen \ {v} ELSE seen \cup {v}
    /\ seen' # seen
    /\ UNCHANGED <<st, node, cache, op, wd, host, job, elapsed, work, uuids, hist, opened>>

\* Node Problem Detector reports.
ReportFault(raw) ==
    /\ node.raw # raw /\ node' = [node EXCEPT !.raw = raw]
    /\ UNCHANGED <<st, cache, op, wd, host, api, elapsed, work, uuids, hist, opened>>

\* The host crashes by itself.
HostCrash ==
    /\ host < MaxBoots /\ host' = host + 1 /\ wd' = [pc |-> "idle", id |-> 0]
    /\ UNCHANGED <<st, node, cache, op, api, elapsed, work, uuids, hist, opened>>

\* The kubelet (or, for a silent one, the node controller) reports.  Only the
\* phase Rebooting reads Ready, so a flapping kubelet is left out elsewhere.
ReportNode(ready) ==
    /\ ready => node.boot # host \/ ~node.ready
    /\ ~ready => node.ready /\ (node.boot # host \/ st.phase = "Rebooting")
    /\ node' = [node EXCEPT !.ready = ready, !.boot = IF ready THEN host ELSE @]
    /\ UNCHANGED <<st, cache, op, wd, host, api, elapsed, work, uuids, hist, opened>>

\* draplugin.PublishInventory, once per boot.
PublishInventory(hash) ==
    /\ node.invBoot # node.boot /\ node.boot = host
    /\ node' = [node EXCEPT !.invBoot = node.boot, !.invHash = hash]
    /\ UNCHANGED <<st, cache, op, wd, host, api, elapsed, work, uuids, hist, opened>>

\* The administrator asks for another attempt, or removes the taint by hand.
RequestRecovery ==
    /\ node.phase = "ManualRepair" /\ uuids < MaxIncidents
    /\ uuids' = uuids + 1
    /\ node' = [node EXCEPT !.request = uuids + 1]
    /\ UNCHANGED <<st, cache, op, wd, host, api, elapsed, work, hist, opened>>

RemoveTaint ==
    /\ "untaint" \in Interference /\ node.taint
    /\ node' = [node EXCEPT !.taint = FALSE]
    /\ UNCHANGED <<st, cache, op, wd, host, api, elapsed, work, uuids, hist, opened>>

\* Somebody deletes the ConfigMap.
LoseState ==
    /\ "lose" \in Interference /\ At("idle") /\ st # NoState
    /\ st' = NoState /\ elapsed' = {}
    /\ UNCHANGED <<node, cache, op, wd, host, api, work, uuids, hist, opened>>

\* A verifier Job ends.
VerifierEnds(v, result) ==
    /\ job[v] = "running" /\ job' = [job EXCEPT ![v] = result]
    /\ proved' = IF result = "passed" THEN [proved EXCEPT ![v] = host] ELSE proved
    /\ UNCHANGED <<st, node, cache, op, wd, host, seen, elapsed, work, uuids, abandoned,
                   reboots, opened>>

\* kube-scheduler places a worker on a Node without the taint.
ScheduleWorker ==
    /\ ~node.taint /\ ~work /\ work' = TRUE
    /\ UNCHANGED <<st, node, cache, op, wd, host, api, elapsed, uuids, hist, opened>>

\* Variant with a fault: the reboot deadline ends with the acknowledgement.
ArmedUntilAcknowledged(t) ==
    CASE t = "reboot"    -> st.phase = "RebootRequested"
      [] t = "stable"    -> st.phase = "Rebooting" /\ st.readySince
      [] t = "inventory" -> st.phase = "Rebooting" /\ st.readySince /\ "stable" \in elapsed
      [] t = "verify"    -> st.phase = "Verifying" /\ st.started

\* RebootTimeout, readyStabilization, and verifierTimeout from its two starts; a
\* deadline may pass only in a phase that reads it.
Armed(t) ==
    CASE t = "reboot"    -> st.phase \in {"RebootRequested", "Rebooting"}
      [] t = "stable"    -> st.phase = "Rebooting" /\ st.readySince
      [] t = "inventory" -> st.phase = "Rebooting" /\ st.readySince /\ "stable" \in elapsed
      [] t = "verify"    -> st.phase = "Verifying" /\ st.started

TimePasses(t) ==
    /\ Armed(t) /\ t \notin elapsed
    /\ elapsed' = elapsed \cup {t}
    /\ UNCHANGED <<st, node, cache, op, wd, host, api, work, uuids, hist, opened>>

-----------------------------------------------------------------------------
(* Specification *)

Operator ==
    \/ OpenIncident \/ StateMissing \/ NothingWrong \/ Resume \/ Reenter
    \/ Isolate \/ SetDegraded \/ ClearNode \/ ClearDegraded
    \/ Evacuated \/ StillEvacuating \/ AwaitReboot \/ AwaitReady \/ CheckInventory
    \/ VerifiersRefused \/ VerifiersCreated \/ AwaitVerifiers
    \/ VerificationTimeout \/ BeginCleanup \/ CleanedUp \/ DeleteState
    \/ \E c \in Cells : CreateVerifier(c) \/ DeleteVerifier(c)

Watchdog == CheckRequest \/ ListWorkers \/ Acknowledge \/ RebootHost \/ WatchdogFails

Environment ==
    \/ SyncNode \/ HostCrash \/ RequestRecovery \/ RemoveTaint
    \/ LoseState \/ ScheduleWorker
    \/ \E v \in Verifiers : \/ SyncVerifier(v)
                            \/ \E r \in {"passed", "failed"} : VerifierEnds(v, r)
    \/ \E b \in BOOLEAN : ReportFault(b) \/ ReportNode(b)
    \/ \E h \in Hashes : PublishInventory(h)
    \/ \E t \in Timers : TimePasses(t)

Next == Operator \/ AbandonPass \/ Watchdog \/ Environment

Spec == Init /\ [][Next]_vars

\* The work queue, the watch and the clock make progress.  Nothing obliges the
\* watchdog, a verifier, the kubelet or an administrator to act.
Fairness ==
    /\ WF_vars(Operator) /\ WF_vars(SyncNode)
    /\ \A t \in Timers : WF_vars(TimePasses(t))

FairSpec == Spec /\ Fairness

-----------------------------------------------------------------------------
(* Properties *)

TypeOK ==
    /\ st \in RecoveryState /\ node \in NodeObject /\ cache \in NodeObject
    /\ op \in Pass
    /\ wd \in [pc : {"idle", "list", "acknowledge", "reboot"}, id : Ids]
    /\ host \in Boots
    /\ job \in [Verifiers -> {"none", "running", "passed", "failed"}]
    /\ seen \in SUBSET Verifiers /\ elapsed \in SUBSET Timers
    /\ work \in BOOLEAN /\ uuids \in Ids /\ abandoned \in 0..MaxAbandoned
    /\ reboots \in [Ids -> Nat] /\ proved \in [Verifiers -> Boots]
    /\ opened \in SUBSET Ids

\* The watchdog reboots the host at most once for an incident, whatever restarts
\* and repeated isolations do to the request and its acknowledgement.
OneRebootPerIncident == \A i \in Ids : reboots[i] <= 1

\* The operator takes the degradation taint away only at the end of an incident
\* whose verification has passed; with an informer cache that is up to date, every
\* cell's verifier has then succeeded in a boot after the faulty one.
UntaintedOnlyVerified ==
    [][At("healthy") /\ node.taint /\ ~node'.taint =>
         /\ st.phase = "Verifying" /\ st.passed
         /\ Lag \/ \A c \in Cells : proved[Verifier(c)] > st.preBoot]_vars

\* An incident UUID is the idempotency key of one recovery: no request is taken up
\* twice, so an acknowledgement never answers a later incident.  The one exception
\* is a pass whose cached Node still shows a request that the Node has no more.
IncidentsNeverReopened ==
    [][st'.inc # 0 /\ (st'.inc # st.inc \/ (st'.phase = "Isolated" /\ st.phase # "Isolated"))
         => st'.inc \notin opened \/ (Lag /\ op.node.request # node.request)]_vars

\* ManualRepair stops automatic recovery: only a request of the administrator other
\* than the one it was entered with ends it, and, with an informer cache that is up
\* to date, only one made after the incident was opened.
ManualRepairIsFinal ==
    [][st.phase = "ManualRepair" /\ st'.phase # "ManualRepair" =>
         /\ st'.phase = "Isolated" /\ st'.inc = op.node.request /\ st'.inc # st.manual
         /\ Lag \/ st'.inc > st.inc]_vars

\* Past the evacuation, every incident ends: the Node returns to service or waits
\* for its administrator.  Each phase has a deadline and no error path resets it.
RecoveryEnds ==
    st.phase \in {"RebootRequested", "Rebooting", "Verifying"} ~>
        st.phase \in {"Healthy", "ManualRepair"}

\* A taint removed by hand during an incident comes back.
TaintComesBack ==
    (st.phase # "Healthy" /\ ~node.taint) ~> (st.phase = "Healthy" \/ node.taint)

\* "Incident UUID is the idempotency key for ... verifier resources": an incident
\* with a known inventory is given up at the creation of its verifiers only if a
\* pass was cut short between them and the save of the phase that follows.
VerifiersRefusedForCause ==
    [][At("verifiers") /\ st.preInventory /\ st'.phase = "ManualRepair" =>
         abandoned > 0]_vars
=============================================================================
