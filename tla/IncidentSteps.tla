---------------------------- MODULE IncidentSteps ----------------------------
(***************************************************************************)
(* What each step of module Incident does to the state, for any number of  *)
(* cells, incidents, boots and passes cut short: the types that it keeps   *)
(* and the fields that it changes.                                         *)
(***************************************************************************)
EXTENDS Incident, TLAPS

-----------------------------------------------------------------------------
(* What the steps do to the fields that the invariant reads *)

\* What the invariant reads of a copy of the Node, and of the Node itself.
CopyOf(m, n) ==
    m.request = n.request /\ m.phase = n.phase /\ m.reboot = n.reboot /\ m.taint = n.taint

SameMarks(m, n) == CopyOf(m, n) /\ m.ack = n.ack /\ m.boot = n.boot

\* What it reads of the ConfigMap besides the phase, and in which only
\* enterManualRepair changes the request.
SameIncident(t, s) ==
    /\ t.inc = s.inc /\ t.preBoot = s.preBoot /\ t.newBoot = s.newBoot
    /\ t.preInventory = s.preInventory /\ t.passed = s.passed

\* NoState, HealthyNode and Idle are states that the program can hold.
LEMMA Initials == NoState \in RecoveryState /\ HealthyNode \in NodeObject /\ Idle \in Pass
<1>1. 0 \in Ids /\ 0 \in Boots /\ 1 \in Boots
  BY IncidentAssumption DEF Ids, Boots
<1>2. NoState \in RecoveryState
  BY <1>1 DEF NoState, RecoveryState, Phases, Hashes
<1>3. HealthyNode \in NodeObject
  BY <1>1 DEF HealthyNode, NodeObject, NotDegraded, Phases, Hashes
<1>4. QED
  BY <1>2, <1>3 DEF Idle, Pass, Points

\* Kept leaves alone what a pass reads of its copy of the Node.
LEMMA KeptFields ==
    ASSUME NEW n \in NodeObject
    PROVE  Kept(n) \in NodeObject /\ CopyOf(Kept(n), n) /\ Kept(n).inc = n.inc
<1>1. 0 \in Ids /\ 1 \in Boots
  BY IncidentAssumption DEF Ids, Boots
<1>2. QED
  BY <1>1, Zenon DEF Kept, NodeObject, CopyOf, NotDegraded, Phases, Hashes

\* newRecoveryState, as it is, for a missing state, and for a request.
Opened(s, n, id, phase, manual) ==
    /\ s \in RecoveryState /\ s.inc = id /\ s.phase = phase /\ s.manual = manual
    /\ s.preBoot = n.boot /\ s.newBoot = 0 /\ ~s.passed

\* The three forms in which a pass opens an incident.
LEMMA NewStateFields ==
    ASSUME NEW n \in NodeObject, NEW id \in Ids
    PROVE  /\ Opened(NewState(n, id), n, id, "Isolated", 0)
           /\ Opened([NewState(n, id) EXCEPT !.phase = "ManualRepair"], n, id,
                     "ManualRepair", 0)
           /\ Opened([NewState(n, id) EXCEPT !.manual = id], n, id, "Isolated", id)
<1>1. 0 \in Ids /\ 0 \in Boots
  BY IncidentAssumption DEF Ids, Boots
<1> USE DEF Opened, NewState, NoState, NodeObject, RecoveryState, Phases
<1>2. Opened(NewState(n, id), n, id, "Isolated", 0)
  BY <1>1, Zenon
<1>3. Opened([NewState(n, id) EXCEPT !.phase = "ManualRepair"], n, id, "ManualRepair", 0)
  BY <1>1, Zenon
<1>4. Opened([NewState(n, id) EXCEPT !.manual = id], n, id, "Isolated", id)
  BY <1>1, Zenon
<1>5. QED
  BY <1>2, <1>3, <1>4

\* setPhase keeps the incident.
LEMMA PhaseFields ==
    ASSUME NEW s \in RecoveryState, NEW phase \in Phases, NEW t,
           t = [s EXCEPT !.phase = phase]
    PROVE  t \in RecoveryState /\ t.phase = phase /\ t.manual = s.manual /\ SameIncident(t, s)
BY DEF RecoveryState, SameIncident

\* The fields of a pass that a change of its program point or cells leaves alone.
LEMMA GoFields ==
    ASSUME NEW p \in Pass, NEW point \in Points
    PROVE  /\ [p EXCEPT !.pc = point] \in Pass
           /\ [p EXCEPT !.pc = point].pc = point
           /\ [p EXCEPT !.pc = point].node = p.node
           /\ [p EXCEPT !.pc = point].todo = p.todo
BY DEF Pass

\* The pass that setPhase leaves behind.
LEMMA PhasePass ==
    ASSUME NEW n \in NodeObject, NEW p,
           p = [Idle EXCEPT !.pc = "isolate", !.node = n, !.last = TRUE]
    PROVE  p \in Pass /\ p.pc = "isolate" /\ p.node = n
BY Initials, Zenon DEF Pass, Points

\* r.Get returns a Node.
LEMMA ReadTyped == TypeOK => Read \in NodeObject
BY DEF TypeOK, Read

\* A pass starts with a copy of the Node as it is read.
LEMMA BeginFields ==
    ASSUME TypeOK, NEW point \in Points, Begin(point)
    PROVE  /\ op' \in Pass /\ op'.pc = point /\ CopyOf(op'.node, Read)
           /\ point = "reenter" => op'.node = Read
<1>1. Read \in NodeObject
  BY ReadTyped
<1>2. Read.raw \in BOOLEAN
  BY <1>1 DEF NodeObject
<1> DEFINE n == IF point = "reenter" THEN Read ELSE Kept(Read)
<1>3. n \in NodeObject /\ CopyOf(n, Read) /\ (point = "reenter" => n = Read)
  BY <1>1, KeptFields DEF CopyOf
<1>4. PICK raw \in BOOLEAN : op' = [Idle EXCEPT !.pc = point, !.raw = raw, !.node = n]
  BY <1>2, Zenon DEF Begin
<1> HIDE DEF n
<1>5. op' \in Pass /\ op'.pc = point /\ op'.node = n
  BY <1>3, <1>4, Zenon DEF Idle, Pass
<1>6. QED
  BY <1>3, <1>5

\* setPhase saves the state and goes on to isolate the Node that it was given.
LEMMA SetPhaseFields ==
    ASSUME NEW n \in NodeObject, NEW s, SetPhase(n, s)
    PROVE  st' = s /\ op' \in Pass /\ op'.pc = "isolate" /\ CopyOf(op'.node, n)
<1>1. Kept(n) \in NodeObject /\ CopyOf(Kept(n), n)
  BY KeptFields
<1>2. st' = s /\ op' = [Idle EXCEPT !.pc = "isolate", !.node = Kept(n), !.last = TRUE]
  BY DEF SetPhase
<1>3. op' \in Pass /\ op'.pc = "isolate" /\ op'.node = Kept(n)
  BY <1>1, <1>2, PhasePass, Zenon
<1>4. QED
  BY <1>1, <1>2, <1>3

-----------------------------------------------------------------------------
(* The steps of a pass: what they do, and that they keep the types *)

\* An incident is opened for a fault.
LEMMA OpenIncidentStep ==
    ASSUME TypeOK, OpenIncident
    PROVE  /\ TypeOK' /\ st = NoState /\ At("idle")
           /\ Opened(st', Read, uuids + 1, "Isolated", 0)
           /\ op'.pc = "isolate" /\ CopyOf(op'.node, Read)
           /\ opened' = opened \cup {uuids + 1} /\ uuids' = uuids + 1
           /\ UNCHANGED <<node, cache, wd, host, job, seen, abandoned, reboots, proved>>
<1>1. /\ st = NoState /\ At("idle") /\ uuids' = uuids + 1
      /\ st' = NewState(Read, uuids + 1) /\ elapsed' = {} /\ opened' = opened \cup {uuids + 1}
      /\ Begin("isolate")
      /\ UNCHANGED <<node, cache, wd, host, job, seen, work, abandoned, reboots, proved>>
  BY DEF OpenIncident, Open, api, hist
<1>2. uuids + 1 \in Ids
  BY IncidentAssumption DEF OpenIncident, TypeOK, Ids
<1>3. Opened(st', Read, uuids + 1, "Isolated", 0)
  BY <1>1, <1>2, ReadTyped, NewStateFields, Zenon
<1>4. op' \in Pass /\ op'.pc = "isolate" /\ CopyOf(op'.node, Read)
  BY <1>1, BeginFields DEF Points
<1>5. TypeOK'
  BY <1>1, <1>2, <1>3, <1>4 DEF TypeOK, Opened
<1>6. QED
  BY <1>1, <1>3, <1>4, <1>5

\* An incident is opened because the Node names one that nobody remembers.
LEMMA StateMissingStep ==
    ASSUME TypeOK, StateMissing
    PROVE  /\ TypeOK' /\ st = NoState /\ At("idle")
           /\ Opened(st', Read, uuids + 1, "ManualRepair", 0)
           /\ op'.pc = "reenter" /\ op'.node = Read
           /\ opened' = opened \cup {uuids + 1} /\ uuids' = uuids + 1
           /\ UNCHANGED <<node, cache, wd, host, job, seen, abandoned, reboots, proved>>
<1>1. /\ st = NoState /\ At("idle") /\ uuids' = uuids + 1
      /\ st' = [NewState(Read, uuids + 1) EXCEPT !.phase = "ManualRepair"]
      /\ elapsed' = {} /\ opened' = opened \cup {uuids + 1}
      /\ Begin("reenter")
      /\ UNCHANGED <<node, cache, wd, host, job, seen, work, abandoned, reboots, proved>>
  BY DEF StateMissing, Open, api, hist
<1>2. uuids + 1 \in Ids
  BY IncidentAssumption DEF StateMissing, TypeOK, Ids
<1>3. Opened(st', Read, uuids + 1, "ManualRepair", 0)
  BY <1>1, <1>2, ReadTyped, NewStateFields, Zenon
<1>4. op' \in Pass /\ op'.pc = "reenter" /\ op'.node = Read
  BY <1>1, BeginFields DEF Points
<1>5. TypeOK'
  BY <1>1, <1>2, <1>3, <1>4 DEF TypeOK, Opened
<1>6. QED
  BY <1>1, <1>3, <1>4, <1>5

\* What a pass leaves alone while it reads and decides.
Untouched ==
    UNCHANGED <<cache, wd, host, seen, uuids, abandoned, reboots, proved>>

\* A pass on a healthy Node, or on an incident that is under way, starts.
LEMMA StartStep ==
    ASSUME TypeOK, NothingWrong \/ Resume
    PROVE  /\ TypeOK' /\ At("idle") /\ CopyOf(op'.node, Read)
           /\ \/ st = NoState /\ op'.pc = "healthy"
              \/ st # NoState /\ st.phase = "ManualRepair" /\ op'.pc = "reenter" /\ op'.node = Read
              \/ st # NoState /\ st.phase # "ManualRepair" /\ op'.pc = "isolate"
           /\ Untouched /\ UNCHANGED <<st, node, job, opened>>
<1>1. PICK point \in {"healthy", "reenter", "isolate"} :
        /\ At("idle") /\ Begin(point)
        /\ \/ st = NoState /\ point = "healthy"
           \/ st # NoState /\ st.phase = "ManualRepair" /\ point = "reenter"
           \/ st # NoState /\ st.phase # "ManualRepair" /\ point = "isolate"
        /\ Untouched /\ UNCHANGED <<st, node, job, opened, elapsed, work>>
  BY DEF NothingWrong, Resume, api, hist, Untouched
<1>2. op' \in Pass /\ op'.pc = point /\ CopyOf(op'.node, Read)
      /\ (point = "reenter" => op'.node = Read)
  BY <1>1, BeginFields DEF Points
<1>3. TypeOK'
  BY <1>1, <1>2 DEF TypeOK, Untouched
<1>4. QED
  BY <1>1, <1>2, <1>3

\* A pass in ManualRepair takes a request up, or not.
LEMMA ReenterStep ==
    ASSUME TypeOK, Reenter
    PROVE  /\ TypeOK' /\ At("reenter") /\ op'.pc = "isolate" /\ op'.node = op.node
           /\ Untouched /\ UNCHANGED <<node, job>>
           /\ \/ /\ op.node.request \notin {0, st.manual}
                 /\ Opened(st', op.node, op.node.request, "Isolated", op.node.request)
                 /\ opened' = opened \cup {op.node.request}
              \/ UNCHANGED <<st, opened>>
<1>1. op \in Pass /\ op.node \in NodeObject /\ op.node.request \in Ids
  BY DEF TypeOK, Pass, NodeObject
<1>2. /\ At("reenter") /\ op' = [op EXCEPT !.pc = "isolate"]
      /\ Untouched /\ UNCHANGED <<node, job, work>>
  BY DEF Reenter, Go, api, hist, Untouched
<1>3. op' \in Pass /\ op'.pc = "isolate" /\ op'.node = op.node
  BY <1>1, <1>2, GoFields, Zenon DEF Points
<1>4. CASE /\ NewRequest
           /\ Open(op.node.request, [NewState(op.node, op.node.request)
                                        EXCEPT !.manual = op.node.request])
  <2>1. Opened(st', op.node, op.node.request, "Isolated", op.node.request)
    BY <1>1, <1>4, NewStateFields, Zenon DEF Open
  <2>2. opened' = opened \cup {op.node.request} /\ elapsed' = {}
        /\ op.node.request \notin {0, st.manual}
    BY <1>4 DEF Open, NewRequest
  <2>3. TypeOK'
    BY <1>1, <1>2, <1>3, <2>1, <2>2 DEF TypeOK, Untouched, Opened
  <2>4. QED
    BY <1>2, <1>3, <2>1, <2>2, <2>3
<1>5. CASE UNCHANGED <<st, elapsed, opened>>
  <2>1. TypeOK'
    BY <1>2, <1>3, <1>5 DEF TypeOK, Untouched
  <2>2. QED
    BY <1>2, <1>3, <1>5, <2>1
<1>6. QED
  BY <1>4, <1>5 DEF Reenter

\* ensureIsolation's patch: the Node already says so, or it is told.
LEMMA IsolateStep ==
    ASSUME TypeOK, Isolate
    PROVE  /\ TypeOK' /\ At("isolate") /\ op'.pc = "condition"
           /\ Untouched /\ UNCHANGED <<st, job, opened>>
           /\ node'.request = node.request /\ node'.ack = node.ack /\ node'.boot = node.boot
           /\ \/ /\ node' = node /\ CopyOf(op'.node, op.node)
                 /\ op.node.phase = st.phase /\ op.node.taint
              \/ /\ CopyOf(op'.node, node')
                 /\ node'.phase = IF st.phase = op.node.phase THEN node.phase ELSE st.phase
                 /\ node'.reboot \in {node.reboot, st.inc}
                 /\ node'.reboot # node.reboot =>
                       st.phase \in {"RebootRequested", "Rebooting"}
<1> DEFINE n == op.node
           rq == IF st.phase \in {"RebootRequested", "Rebooting"} THEN st.inc ELSE n.reboot
           same == n.inc = st.inc /\ n.phase = st.phase /\ n.reboot = rq /\ n.taint
           after == [node EXCEPT !.inc = Patched(st.inc, n.inc, @),
                                 !.phase = Patched(st.phase, n.phase, @),
                                 !.reboot = Patched(rq, n.reboot, @),
                                 !.taint = Patched(TRUE, n.taint, @)]
<1>1. op \in Pass /\ n \in NodeObject /\ node \in NodeObject /\ st \in RecoveryState
  BY DEF TypeOK, Pass
<1>2. /\ n.inc \in Ids /\ n.phase \in Phases /\ n.reboot \in Ids /\ n.taint \in BOOLEAN
      /\ st.inc \in Ids /\ st.phase \in Phases
  BY <1>1 DEF NodeObject, RecoveryState
<1>3. /\ after \in NodeObject
      /\ after.request = node.request /\ after.ack = node.ack /\ after.boot = node.boot
      /\ after.phase = Patched(st.phase, n.phase, node.phase)
      /\ after.reboot = Patched(rq, n.reboot, node.reboot)
  <2>1. /\ Patched(st.inc, n.inc, node.inc) \in Ids
        /\ Patched(st.phase, n.phase, node.phase) \in Phases
        /\ Patched(rq, n.reboot, node.reboot) \in Ids
        /\ Patched(TRUE, n.taint, node.taint) \in BOOLEAN
    BY <1>1, <1>2, Zenon DEF Patched, NodeObject
  <2> HIDE DEF n, rq
  <2>2. QED
    BY <1>1, <2>1, Zenon DEF NodeObject
<1>4. /\ At("isolate") /\ node' = IF same THEN node ELSE after
      /\ op' = [op EXCEPT !.pc = "condition", !.node = Kept(IF same THEN n ELSE after)]
      /\ Untouched /\ UNCHANGED <<st, job, opened, elapsed, work>>
  BY DEF Isolate, api, hist, Untouched
<1> HIDE DEF after
<1>5. CASE same
  <2>1. op' = [op EXCEPT !.pc = "condition", !.node = Kept(n)] /\ node' = node
    BY <1>4, <1>5
  <2>2. op' \in Pass /\ op'.pc = "condition" /\ CopyOf(op'.node, n)
    <3>1. Kept(n) \in NodeObject /\ CopyOf(Kept(n), n)
      BY <1>1, KeptFields
    <3> HIDE DEF n
    <3>2. op' \in Pass /\ op'.pc = "condition" /\ op'.node = Kept(n)
      BY <1>1, <2>1, <3>1, Zenon DEF Points, Pass
    <3>3. QED
      BY <3>1, <3>2
  <2>3. TypeOK'
    BY <1>4, <2>1, <2>2 DEF TypeOK, Untouched
  <2>4. QED
    BY <1>4, <1>5, <2>1, <2>2, <2>3
<1>6. CASE ~same
  <2>1. op' = [op EXCEPT !.pc = "condition", !.node = Kept(after)] /\ node' = after
    BY <1>4, <1>6, Zenon
  <2>2. op' \in Pass /\ op'.pc = "condition" /\ CopyOf(op'.node, after)
    <3>1. Kept(after) \in NodeObject /\ CopyOf(Kept(after), after)
      BY <1>3, KeptFields
    <3>2. op' \in Pass /\ op'.pc = "condition" /\ op'.node = Kept(after)
      BY <1>1, <2>1, <3>1, Zenon DEF Points, Pass
    <3>3. QED
      BY <3>1, <3>2
  <2>3. TypeOK'
    BY <1>3, <1>4, <2>1, <2>2 DEF TypeOK, Untouched
  <2>4. QED
    BY <1>3, <1>4, <2>1, <2>2, <2>3 DEF Patched
<1>7. QED
  BY <1>5, <1>6

\* setNodeCondition replaces conditions and nothing else of the Node.
LEMMA ConditionFields ==
    ASSUME TypeOK, NEW wanted \in Ids \X Phases, SetNodeCondition(wanted)
    PROVE  node' \in NodeObject /\ SameMarks(node', node)
<1>1. node \in NodeObject /\ Read.raw \in BOOLEAN /\ Read.ready \in BOOLEAN
  BY ReadTyped DEF TypeOK, NodeObject
<1>2. CASE node' = node
  BY <1>1, <1>2 DEF SameMarks, CopyOf
<1>3. CASE node' = [node EXCEPT !.degraded = wanted, !.raw = Read.raw, !.ready = Read.ready]
  BY <1>1, <1>3, Zenon DEF SameMarks, CopyOf, NodeObject
<1>4. QED
  BY <1>2, <1>3 DEF SetNodeCondition

\* ensureIsolation's condition, and what Reconcile does next.
LEMMA SetDegradedStep ==
    ASSUME TypeOK, SetDegraded
    PROVE  /\ TypeOK' /\ At("condition") /\ SameMarks(node', node)
           /\ Untouched /\ UNCHANGED <<st, job, opened>>
           /\ \/ op' = Idle
              \/ /\ st.phase # "ManualRepair" /\ op'.node = op.node /\ op'.todo = Cells
                 /\ op'.pc = Dispatch
<1>1. op \in Pass /\ st \in RecoveryState
  BY DEF TypeOK
<1>2. <<st.inc, st.phase>> \in Ids \X Phases
  BY <1>1 DEF RecoveryState
<1>3. node' \in NodeObject /\ SameMarks(node', node)
  BY <1>2, ConditionFields DEF SetDegraded
<1>4. /\ At("condition") /\ Untouched /\ UNCHANGED <<st, job, opened, elapsed, work>>
      /\ \/ op' = Idle
         \/ /\ st.phase # "ManualRepair"
            /\ op' = [op EXCEPT !.pc = Dispatch, !.todo = Cells, !.clean = TRUE]
  BY DEF SetDegraded, api, hist, Untouched
<1>5. CASE op' = Idle
  BY <1>3, <1>4, <1>5, Initials DEF TypeOK, Untouched
<1>6. CASE /\ st.phase # "ManualRepair"
           /\ op' = [op EXCEPT !.pc = Dispatch, !.todo = Cells, !.clean = TRUE]
  <2>1. Dispatch \in Points
    BY DEF Dispatch, Points
  <2>2. /\ op' \in Pass /\ op'.node = op.node /\ op'.todo = Cells /\ op'.pc = Dispatch
    BY <1>1, <1>6, <2>1, Zenon DEF Pass
  <2>3. QED
    BY <1>3, <1>4, <1>6, <2>2 DEF TypeOK, Untouched
<1>7. QED
  BY <1>4, <1>5, <1>6

\* setHealthy's first patch drops from the Node what the pass has seen on it.
LEMMA ClearNodeStep ==
    ASSUME TypeOK, ClearNode
    PROVE  /\ TypeOK' /\ At("healthy") /\ op'.pc = "undegrade" /\ op'.node = op.node
           /\ Untouched /\ UNCHANGED <<st, job, opened>>
           /\ node'.boot = node.boot
           /\ node'.phase = IF op.node.phase = "Healthy" THEN node.phase ELSE "Healthy"
           /\ node'.request = IF op.node.request = 0 THEN node.request ELSE 0
           /\ node'.reboot = IF op.node.reboot = 0 THEN node.reboot ELSE 0
           /\ node'.ack \in {0, node.ack}
           /\ op.node.taint \/ ~node.taint => ~node'.taint
<1> DEFINE n == op.node
<1>1. op \in Pass /\ n \in NodeObject /\ node \in NodeObject
  BY DEF TypeOK, Pass
<1>2. 0 \in Ids
  BY IncidentAssumption DEF Ids
<1>3. /\ At("healthy") /\ op' = [op EXCEPT !.pc = "undegrade"]
      /\ node' = [node EXCEPT !.inc = Patched(0, n.inc, @),
                              !.phase = Patched("Healthy", n.phase, @),
                              !.request = Patched(0, n.request, @),
                              !.reboot = Patched(0, n.reboot, @),
                              !.ack = Patched(0, n.ack, @),
                              !.taint = Patched(FALSE, n.taint, @)]
      /\ Untouched /\ UNCHANGED <<st, job, opened, elapsed, work>>
  BY DEF ClearNode, Go, api, hist, Untouched
<1>4. op' \in Pass /\ op'.pc = "undegrade" /\ op'.node = op.node
  BY <1>1, <1>3, GoFields, Zenon DEF Points
<1>5. /\ Patched(0, n.inc, node.inc) \in Ids
      /\ Patched("Healthy", n.phase, node.phase) \in Phases
      /\ Patched(0, n.request, node.request) \in Ids
      /\ Patched(0, n.reboot, node.reboot) \in Ids
      /\ Patched(0, n.ack, node.ack) \in Ids
      /\ Patched(FALSE, n.taint, node.taint) \in BOOLEAN
  BY <1>1, <1>2, Zenon DEF Patched, NodeObject, Phases
<1>6. /\ node' \in NodeObject /\ node'.boot = node.boot
      /\ node'.phase = Patched("Healthy", n.phase, node.phase)
      /\ node'.request = Patched(0, n.request, node.request)
      /\ node'.reboot = Patched(0, n.reboot, node.reboot)
      /\ node'.ack = Patched(0, n.ack, node.ack)
      /\ node'.taint = Patched(FALSE, n.taint, node.taint)
  <2> HIDE DEF n
  <2>1. QED
    BY <1>1, <1>3, <1>5, Zenon DEF NodeObject
<1>7. op.node.taint \/ ~node.taint => ~node'.taint
  <2>1. n.taint \in BOOLEAN /\ node.taint \in BOOLEAN
    BY <1>1 DEF NodeObject
  <2>2. QED
    BY <1>6, <2>1 DEF Patched
<1>8. TypeOK'
  BY <1>3, <1>4, <1>6 DEF TypeOK, Untouched
<1>9. QED
  BY <1>3, <1>4, <1>6, <1>7, <1>8 DEF Patched

\* setHealthy's condition; a pass without an incident ends.
LEMMA ClearDegradedStep ==
    ASSUME TypeOK, ClearDegraded
    PROVE  /\ TypeOK' /\ At("undegrade") /\ SameMarks(node', node)
           /\ Untouched /\ UNCHANGED <<st, job, opened>>
           /\ op' = Idle \/ (st # NoState /\ op'.pc = "delete" /\ op'.node = op.node)
<1>1. op \in Pass
  BY DEF TypeOK
<1>2. NotDegraded \in Ids \X Phases
  BY IncidentAssumption DEF NotDegraded, Ids, Phases
<1>3. node' \in NodeObject /\ SameMarks(node', node)
  BY <1>2, ConditionFields DEF ClearDegraded
<1>4. /\ At("undegrade") /\ Untouched /\ UNCHANGED <<st, job, opened, elapsed, work>>
      /\ op' = Idle \/ (st # NoState /\ op' = [op EXCEPT !.pc = "delete"])
  BY DEF ClearDegraded, EndPass, Go, api, hist, Untouched
<1>5. CASE op' = Idle
  BY <1>3, <1>4, <1>5, Initials DEF TypeOK, Untouched
<1>6. CASE st # NoState /\ op' = [op EXCEPT !.pc = "delete"]
  <2>1. op' \in Pass /\ op'.pc = "delete" /\ op'.node = op.node
    BY <1>1, <1>6, GoFields, Zenon DEF Points
  <2>2. QED
    BY <1>3, <1>4, <1>6, <2>1 DEF TypeOK, Untouched
<1>7. QED
  BY <1>4, <1>5, <1>6

\* The pass goes on to isolate the Node in another phase of the same incident, or
\* gives the incident up.
MovesTo(phase, n) ==
    /\ st'.phase = phase /\ st'.manual = st.manual /\ SameIncident(st', st)
    /\ op'.pc = "isolate" /\ CopyOf(op'.node, n)

GivesUp(n) ==
    /\ st'.phase = "ManualRepair" /\ st'.manual = n.request /\ SameIncident(st', st)
    /\ op'.pc = "isolate" /\ CopyOf(op'.node, n)

\* What the invariant reads of the ConfigMap is as it was.
SameRecord == st'.phase = st.phase /\ st'.manual = st.manual /\ SameIncident(st', st)

\* setPhase.
LEMMA MovesBy ==
    ASSUME TypeOK, NEW phase \in Phases, NEW n \in NodeObject,
           SetPhase(n, [st EXCEPT !.phase = phase])
    PROVE  st' \in RecoveryState /\ op' \in Pass /\ MovesTo(phase, n)
<1>1. st \in RecoveryState
  BY DEF TypeOK
<1>2. op' \in Pass /\ op'.pc = "isolate" /\ CopyOf(op'.node, n)
  BY SetPhaseFields
<1>3. st' = [st EXCEPT !.phase = phase]
  BY DEF SetPhase
<1>4. st' \in RecoveryState /\ st'.phase = phase /\ st'.manual = st.manual
      /\ SameIncident(st', st)
  BY <1>1, <1>3, PhaseFields
<1>5. QED
  BY <1>2, <1>4 DEF MovesTo

\* enterManualRepair.
LEMMA GivesUpBy ==
    ASSUME TypeOK, NEW n \in NodeObject, EnterManualRepair(n)
    PROVE  st' \in RecoveryState /\ op' \in Pass /\ GivesUp(n)
<1>1. st \in RecoveryState /\ n.request \in Ids
  BY DEF TypeOK, NodeObject
<1>2. SetPhase(n, [st EXCEPT !.phase = "ManualRepair", !.manual = n.request])
  BY DEF EnterManualRepair
<1>3. op' \in Pass /\ op'.pc = "isolate" /\ CopyOf(op'.node, n)
  BY <1>2, SetPhaseFields
<1>4. st' = [st EXCEPT !.phase = "ManualRepair", !.manual = n.request]
  BY <1>2 DEF SetPhase
<1>5. st' \in RecoveryState /\ st'.phase = "ManualRepair" /\ st'.manual = n.request
      /\ SameIncident(st', st)
  BY <1>1, <1>4, Zenon DEF RecoveryState, SameIncident, Phases
<1>6. QED
  BY <1>3, <1>5 DEF GivesUp

\* The workers are gone.
LEMMA EvacuatedStep ==
    ASSUME TypeOK, Evacuated
    PROVE  /\ TypeOK' /\ At("evacuate") /\ MovesTo("RebootRequested", op.node)
           /\ Untouched /\ UNCHANGED <<node, job, opened>>
<1>1. op.node \in NodeObject
  BY DEF TypeOK, Pass
<1>2. st' \in RecoveryState /\ op' \in Pass /\ MovesTo("RebootRequested", op.node)
  BY <1>1, MovesBy DEF Evacuated, Phases
<1>3. QED
  BY <1>2, Zenon DEF Evacuated, TypeOK, api, hist, Untouched

\* reconcileReboot up to the boot ID.
LEMMA AwaitRebootStep ==
    ASSUME TypeOK, AwaitReboot
    PROVE  /\ TypeOK' /\ At("reboot")
           /\ Untouched /\ UNCHANGED <<node, job, opened>>
           /\ \/ GivesUp(Read)
              \/ op' = Idle /\ st' = st
              \/ MovesTo("Rebooting", Read)
              \/ /\ st.phase = "Rebooting" /\ Read.boot # st.preBoot
                 /\ st'.phase = "Rebooting" /\ st'.manual = st.manual /\ st'.inc = st.inc
                 /\ st'.preBoot = st.preBoot /\ st'.newBoot = Read.boot
                 /\ st'.passed = st.passed
                 /\ op'.pc = "booted" /\ op'.node = Read
<1>1. op \in Pass /\ st \in RecoveryState /\ Read \in NodeObject /\ Read.boot \in Boots
  BY ReadTyped DEF TypeOK, NodeObject
<1>2. /\ At("reboot") /\ Untouched /\ UNCHANGED <<node, job, opened, elapsed, work>>
      /\ \/ EnterManualRepair(Read)
         \/ op' = Idle /\ st' = st
         \/ SetPhase(Read, [st EXCEPT !.phase = "Rebooting"])
         \/ /\ st.phase = "Rebooting" /\ Read.boot # st.preBoot
            /\ st' = [st EXCEPT !.newBoot = Read.boot,
                                !.readySince = IF st.newBoot = 0 THEN FALSE ELSE @]
            /\ op' = [op EXCEPT !.pc = "booted", !.node = Read]
  BY Zenon DEF AwaitReboot, EndPass, api, hist, Untouched
<1>3. CASE EnterManualRepair(Read)
  <2>1. st' \in RecoveryState /\ op' \in Pass /\ GivesUp(Read)
    BY <1>1, <1>3, GivesUpBy
  <2>2. QED
    BY <1>2, <2>1 DEF TypeOK, Untouched
<1>4. CASE op' = Idle /\ st' = st
  BY <1>2, <1>4, Initials DEF TypeOK, Untouched
<1>5. CASE SetPhase(Read, [st EXCEPT !.phase = "Rebooting"])
  <2>1. st' \in RecoveryState /\ op' \in Pass /\ MovesTo("Rebooting", Read)
    BY <1>1, <1>5, MovesBy DEF Phases
  <2>2. QED
    BY <1>2, <2>1 DEF TypeOK, Untouched
<1>6. CASE /\ st.phase = "Rebooting" /\ Read.boot # st.preBoot
           /\ st' = [st EXCEPT !.newBoot = Read.boot,
                               !.readySince = IF st.newBoot = 0 THEN FALSE ELSE @]
           /\ op' = [op EXCEPT !.pc = "booted", !.node = Read]
  <2>1. op' \in Pass /\ op'.pc = "booted" /\ op'.node = Read
    BY <1>1, <1>6, Zenon DEF Pass, Points
  <2>2. /\ st' \in RecoveryState
        /\ st'.phase = "Rebooting" /\ st'.manual = st.manual /\ st'.inc = st.inc
        /\ st'.preBoot = st.preBoot /\ st'.newBoot = Read.boot /\ st'.passed = st.passed
    BY <1>1, <1>6, Zenon DEF RecoveryState
  <2>3. QED
    BY <1>2, <1>6, <2>1, <2>2 DEF TypeOK, Untouched
<1>7. QED
  BY <1>2, <1>3, <1>4, <1>5, <1>6

\* The stabilization period.
LEMMA AwaitReadyStep ==
    ASSUME TypeOK, AwaitReady
    PROVE  /\ TypeOK' /\ At("booted") /\ op' = Idle /\ SameRecord
           /\ Untouched /\ UNCHANGED <<node, job, opened>>
<1>1. st \in RecoveryState /\ elapsed \in SUBSET Timers
  BY DEF TypeOK
<1>2. /\ At("booted") /\ op' = Idle /\ Untouched /\ UNCHANGED <<node, job, opened, work>>
      /\ \E b \in BOOLEAN : st' = [st EXCEPT !.readySince = b] \/ st' = st
      /\ elapsed' \subseteq elapsed
  BY Zenon DEF AwaitReady, EndPass, api, hist, Untouched
<1>3. st' \in RecoveryState /\ SameRecord
  BY <1>1, <1>2 DEF RecoveryState, SameRecord, SameIncident
<1>4. QED
  BY <1>1, <1>2, <1>3, Initials DEF TypeOK, Untouched

\* The inventory of the new boot.
LEMMA CheckInventoryStep ==
    ASSUME TypeOK, CheckInventory
    PROVE  /\ TypeOK' /\ At("booted")
           /\ Untouched /\ UNCHANGED <<node, job, opened>>
           /\ \/ op' = Idle /\ st' = st
              \/ GivesUp(op.node)
              \/ SameRecord /\ op'.pc = "verifiers" /\ op'.node = op.node
<1>1. op \in Pass /\ op.node \in NodeObject /\ st \in RecoveryState
  BY DEF TypeOK, Pass
<1>2. /\ At("booted") /\ Untouched /\ UNCHANGED <<node, job, opened, work>>
      /\ elapsed' \subseteq elapsed
      /\ \/ op' = Idle /\ st' = st
         \/ EnterManualRepair(op.node)
         \/ st' = [st EXCEPT !.started = TRUE] /\ op' = [op EXCEPT !.pc = "verifiers"]
  BY DEF CheckInventory, EndPass, Go, api, hist, Untouched
<1>3. elapsed' \in SUBSET Timers
  BY <1>2 DEF TypeOK
<1>4. CASE op' = Idle /\ st' = st
  BY <1>2, <1>3, <1>4, Initials DEF TypeOK, Untouched
<1>5. CASE EnterManualRepair(op.node)
  <2>1. st' \in RecoveryState /\ op' \in Pass /\ GivesUp(op.node)
    BY <1>1, <1>5, GivesUpBy
  <2>2. QED
    BY <1>2, <1>3, <2>1 DEF TypeOK, Untouched
<1>6. CASE st' = [st EXCEPT !.started = TRUE] /\ op' = [op EXCEPT !.pc = "verifiers"]
  <2>1. op' \in Pass /\ op'.pc = "verifiers" /\ op'.node = op.node
    BY <1>1, <1>6, GoFields, Zenon DEF Points
  <2>2. st' \in RecoveryState /\ SameRecord
    BY <1>1, <1>6, Zenon DEF RecoveryState, SameRecord, SameIncident
  <2>3. QED
    BY <1>2, <1>3, <2>1, <2>2 DEF TypeOK, Untouched
<1>7. QED
  BY <1>2, <1>4, <1>5, <1>6

\* One verifier is created.
LEMMA CreateVerifierStep ==
    ASSUME TypeOK, NEW c \in Cells, CreateVerifier(c)
    PROVE  /\ TypeOK' /\ At("verifiers") /\ op'.pc = "verifiers" /\ op'.node = op.node
           /\ op'.todo = op.todo \ {c}
           /\ Untouched /\ UNCHANGED <<st, node, opened>>
           /\ \A v \in Verifiers : job'[v] # job[v] => v = Verifier(c) /\ job'[v] = "running"
<1>1. op \in Pass /\ job \in [Verifiers -> {"none", "running", "passed", "failed"}]
  BY DEF TypeOK
<1>2. /\ At("verifiers") /\ op' = [op EXCEPT !.todo = @ \ {c}]
      /\ job' = [job EXCEPT ![Verifier(c)] = IF @ = "none" THEN "running" ELSE @]
      /\ Untouched /\ UNCHANGED <<st, node, opened, elapsed, work>>
  BY DEF CreateVerifier, hist, Untouched
<1>3. op' \in Pass /\ op'.pc = op.pc /\ op'.node = op.node /\ op'.todo = op.todo \ {c}
  BY <1>1, <1>2 DEF Pass
<1>4. job' \in [Verifiers -> {"none", "running", "passed", "failed"}]
  BY <1>1, <1>2, Zenon
<1>5. \A v \in Verifiers : job'[v] # job[v] => v = Verifier(c) /\ job'[v] = "running"
  BY <1>1, <1>2
<1>6. QED
  BY <1>2, <1>3, <1>4, <1>5 DEF TypeOK, Untouched, At

\* ensureVerifierResources refuses.
LEMMA VerifiersRefusedStep ==
    ASSUME TypeOK, VerifiersRefused
    PROVE  /\ TypeOK' /\ At("verifiers")
           /\ Untouched /\ UNCHANGED <<node, job, opened>>
           /\ ~st.preInventory \/ \E c \in op.todo : Verifier(c) \in seen
           /\ \/ st.phase = "Rebooting" /\ GivesUp(op.node)
              \/ st.phase = "Verifying" /\ op' = Idle /\ st' = st
<1>1. op.node \in NodeObject
  BY DEF TypeOK, Pass
<1>2. /\ At("verifiers") /\ Untouched /\ UNCHANGED <<node, job, opened, elapsed, work>>
      /\ ~st.preInventory \/ \E c \in op.todo : Verifier(c) \in seen
      /\ \/ st.phase = "Rebooting" /\ EnterManualRepair(op.node)
         \/ st.phase = "Verifying" /\ op' = Idle /\ st' = st
  BY DEF VerifiersRefused, EndPass, api, hist, Untouched
<1>3. CASE st.phase = "Rebooting" /\ EnterManualRepair(op.node)
  <2>1. st' \in RecoveryState /\ op' \in Pass /\ GivesUp(op.node)
    BY <1>1, <1>3, GivesUpBy
  <2>2. QED
    BY <1>2, <1>3, <2>1 DEF TypeOK, Untouched
<1>4. CASE st.phase = "Verifying" /\ op' = Idle /\ st' = st
  BY <1>2, <1>4, Initials DEF TypeOK, Untouched
<1>5. QED
  BY <1>2, <1>3, <1>4

\* Every verifier has been created.
LEMMA VerifiersCreatedStep ==
    ASSUME TypeOK, VerifiersCreated
    PROVE  /\ TypeOK' /\ At("verifiers")
           /\ Untouched /\ UNCHANGED <<node, job, opened>>
           /\ \/ st.phase = "Rebooting" /\ MovesTo("Verifying", op.node)
              \/ st.phase = "Verifying" /\ op' = Idle /\ st' = st
<1>1. op.node \in NodeObject
  BY DEF TypeOK, Pass
<1>2. /\ At("verifiers") /\ Untouched /\ UNCHANGED <<node, job, opened, elapsed, work>>
      /\ \/ st.phase = "Rebooting" /\ SetPhase(op.node, [st EXCEPT !.phase = "Verifying"])
         \/ st.phase = "Verifying" /\ op' = Idle /\ st' = st
  BY DEF VerifiersCreated, EndPass, api, hist, Untouched
<1>3. CASE st.phase = "Rebooting" /\ SetPhase(op.node, [st EXCEPT !.phase = "Verifying"])
  <2>1. st' \in RecoveryState /\ op' \in Pass /\ MovesTo("Verifying", op.node)
    BY <1>1, <1>3, MovesBy DEF Phases
  <2>2. QED
    BY <1>2, <1>3, <2>1 DEF TypeOK, Untouched
<1>4. CASE st.phase = "Verifying" /\ op' = Idle /\ st' = st
  BY <1>2, <1>4, Initials DEF TypeOK, Untouched
<1>5. QED
  BY <1>2, <1>3, <1>4

\* reconcileVerification until it has passed.
LEMMA AwaitVerifiersStep ==
    ASSUME TypeOK, AwaitVerifiers
    PROVE  /\ TypeOK' /\ At("verify") /\ ~st.passed
           /\ Untouched /\ UNCHANGED <<node, job, opened>>
           /\ \/ op'.pc = "verifiers" /\ op'.node = op.node /\ st' = st
              \/ GivesUp(op.node)
              \/ /\ op' = Idle
                 /\ st'.phase = st.phase /\ st'.manual = st.manual /\ st'.inc = st.inc
                 /\ st'.preBoot = st.preBoot /\ st'.newBoot = st.newBoot
                 /\ st'.passed => Succeeded
<1>1. op \in Pass /\ op.node \in NodeObject /\ op.raw \in BOOLEAN /\ st \in RecoveryState
  BY DEF TypeOK, Pass
<1>2. /\ At("verify") /\ ~st.passed
      /\ Untouched /\ UNCHANGED <<node, job, opened, elapsed, work>>
      /\ \/ op' = [op EXCEPT !.pc = "verifiers"] /\ st' = st
         \/ EnterManualRepair(op.node)
         \/ st' = [st EXCEPT !.passed = Succeeded /\ ~op.raw] /\ op' = Idle
  BY DEF AwaitVerifiers, EndPass, Go, api, hist, Untouched
<1>3. CASE op' = [op EXCEPT !.pc = "verifiers"] /\ st' = st
  <2>1. op' \in Pass /\ op'.pc = "verifiers" /\ op'.node = op.node
    BY <1>1, <1>3, GoFields, Zenon DEF Points
  <2>2. QED
    BY <1>2, <1>3, <2>1 DEF TypeOK, Untouched
<1>4. CASE EnterManualRepair(op.node)
  <2>1. st' \in RecoveryState /\ op' \in Pass /\ GivesUp(op.node)
    BY <1>1, <1>4, GivesUpBy
  <2>2. QED
    BY <1>2, <2>1 DEF TypeOK, Untouched
<1>5. CASE st' = [st EXCEPT !.passed = Succeeded /\ ~op.raw] /\ op' = Idle
  <2>1. PICK b \in BOOLEAN : (b => Succeeded) /\ st' = [st EXCEPT !.passed = b]
    BY <1>5, Zenon DEF Succeeded
  <2>2. /\ st' \in RecoveryState
        /\ st'.phase = st.phase /\ st'.manual = st.manual /\ st'.inc = st.inc
        /\ st'.preBoot = st.preBoot /\ st'.newBoot = st.newBoot /\ st'.passed = b
    BY <1>1, <2>1 DEF RecoveryState
  <2>3. TypeOK'
    BY <1>2, <1>5, <2>2, Initials DEF TypeOK, Untouched
  <2>4. QED
    BY <1>2, <1>5, <2>1, <2>2, <2>3
<1>6. QED
  BY <1>2, <1>3, <1>4, <1>5

\* The verification takes too long.
LEMMA VerificationTimeoutStep ==
    ASSUME TypeOK, VerificationTimeout
    PROVE  /\ TypeOK' /\ At("verify") /\ GivesUp(op.node)
           /\ Untouched /\ UNCHANGED <<node, job, opened>>
<1>1. op.node \in NodeObject
  BY DEF TypeOK, Pass
<1>2. st' \in RecoveryState /\ op' \in Pass /\ GivesUp(op.node)
  BY <1>1, GivesUpBy DEF VerificationTimeout
<1>3. QED
  BY <1>2 DEF VerificationTimeout, TypeOK, api, hist, Untouched

\* One verifier is deleted.
LEMMA DeleteVerifierStep ==
    ASSUME TypeOK, NEW c \in Cells, DeleteVerifier(c)
    PROVE  /\ TypeOK' /\ At("cleanup") /\ op'.pc = "cleanup" /\ op'.node = op.node
           /\ Untouched /\ UNCHANGED <<st, node, opened>>
           /\ \A v \in Verifiers : job'[v] # job[v] => job'[v] = "none"
<1>1. op \in Pass /\ job \in [Verifiers -> {"none", "running", "passed", "failed"}]
  BY DEF TypeOK
<1>2. /\ At("cleanup")
      /\ op' = [op EXCEPT !.todo = @ \ {c}, !.clean = @ /\ job[Verifier(c)] = "none"]
      /\ job' = [job EXCEPT ![Verifier(c)] = "none"]
      /\ Untouched /\ UNCHANGED <<st, node, opened, elapsed, work>>
  BY DEF DeleteVerifier, hist, Untouched
<1>3. op' \in Pass /\ op'.pc = op.pc /\ op'.node = op.node
  <2>1. PICK b \in BOOLEAN : op' = [op EXCEPT !.todo = @ \ {c}, !.clean = b]
    BY <1>1, <1>2, Zenon DEF Pass
  <2>2. QED
    BY <1>1, <2>1, Zenon DEF Pass
<1>4. job' \in [Verifiers -> {"none", "running", "passed", "failed"}]
  BY <1>1, <1>2, Zenon
<1>5. \A v \in Verifiers : job'[v] # job[v] => job'[v] = "none"
  BY <1>1, <1>2
<1>6. QED
  BY <1>2, <1>3, <1>4, <1>5 DEF TypeOK, Untouched, At

\* The pass ends for now, or goes on to clean up or to clear the Node.
LEMMA PauseStep ==
    ASSUME TypeOK, StillEvacuating \/ BeginCleanup \/ CleanedUp
    PROVE  /\ TypeOK' /\ Untouched /\ UNCHANGED <<st, node, job, opened>>
           /\ \/ op.pc \in {"evacuate", "verify", "cleanup"} /\ op' = Idle
              \/ At("verify") /\ st.passed /\ op'.pc = "cleanup" /\ op'.node = op.node
              \/ At("cleanup") /\ op'.pc = "healthy" /\ op'.node = op.node
<1>1. op \in Pass
  BY DEF TypeOK
<1>2. /\ Untouched /\ UNCHANGED <<st, node, job, opened, elapsed, work>>
      /\ \/ op.pc \in {"evacuate", "verify", "cleanup"} /\ op' = Idle
         \/ At("verify") /\ st.passed /\ op' = [op EXCEPT !.pc = "cleanup"]
         \/ At("cleanup") /\ op' = [op EXCEPT !.pc = "healthy"]
  BY DEF StillEvacuating, BeginCleanup, CleanedUp, EndPass, Go, At, api, hist, Untouched
<1>3. CASE op.pc \in {"evacuate", "verify", "cleanup"} /\ op' = Idle
  BY <1>2, <1>3, Initials DEF TypeOK, Untouched
<1>4. CASE At("verify") /\ st.passed /\ op' = [op EXCEPT !.pc = "cleanup"]
  <2>1. op' \in Pass /\ op'.pc = "cleanup" /\ op'.node = op.node
    BY <1>1, <1>4, GoFields, Zenon DEF Points
  <2>2. QED
    BY <1>2, <1>4, <2>1 DEF TypeOK, Untouched
<1>5. CASE At("cleanup") /\ op' = [op EXCEPT !.pc = "healthy"]
  <2>1. op' \in Pass /\ op'.pc = "healthy" /\ op'.node = op.node
    BY <1>1, <1>5, GoFields, Zenon DEF Points
  <2>2. QED
    BY <1>2, <1>5, <2>1 DEF TypeOK, Untouched
<1>6. QED
  BY <1>2, <1>3, <1>4, <1>5

\* The ConfigMap is deleted.
LEMMA DeleteStateStep ==
    ASSUME TypeOK, DeleteState
    PROVE  /\ TypeOK' /\ At("delete") /\ st' = NoState /\ op' = Idle
           /\ Untouched /\ UNCHANGED <<node, job, opened>>
BY Initials DEF DeleteState, EndPass, TypeOK, api, hist, Untouched

\* A pass is cut short.
LEMMA AbandonStep ==
    ASSUME TypeOK, AbandonPass
    PROVE  /\ TypeOK' /\ op' = Idle /\ abandoned' = abandoned + 1
           /\ UNCHANGED <<st, node, cache, wd, host, job, seen, uuids, reboots, proved, opened>>
<1>1. abandoned + 1 \in 0..MaxAbandoned
  BY IncidentAssumption DEF AbandonPass, TypeOK
<1>2. QED
  BY <1>1, Initials DEF AbandonPass, EndPass, TypeOK, api

-----------------------------------------------------------------------------
(* The steps of everybody else *)

\* What only the operator writes.
OperatorsOwn == UNCHANGED <<st, op, opened, abandoned>>

\* The watchdog takes a request of the current boot that nobody acknowledged.
LEMMA CheckRequestStep ==
    ASSUME TypeOK, CheckRequest
    PROVE  /\ TypeOK' /\ OperatorsOwn
           /\ node.reboot \notin {0, node.ack} /\ wd'.pc = "list" /\ wd'.id = node.reboot
           /\ UNCHANGED <<node, cache, host, job, seen, uuids, reboots, proved>>
<1>1. node.reboot \in Ids
  BY DEF TypeOK, NodeObject
<1>2. QED
  BY <1>1 DEF CheckRequest, TypeOK, OperatorsOwn, api, hist

\* The watchdog acknowledges what is still requested.
LEMMA AcknowledgeStep ==
    ASSUME TypeOK, Acknowledge
    PROVE  /\ TypeOK' /\ OperatorsOwn
           /\ wd.pc = "acknowledge" /\ wd'.pc = "reboot" /\ wd'.id = wd.id
           /\ CopyOf(node', node) /\ node'.boot = node.boot
           /\ node'.ack = IF node.reboot = wd.id THEN wd.id ELSE node.ack
           /\ UNCHANGED <<cache, host, job, seen, uuids, reboots, proved>>
<1>1. /\ node \in NodeObject /\ wd.id \in Ids
      /\ wd \in [pc : {"idle", "list", "acknowledge", "reboot"}, id : Ids]
  BY DEF TypeOK
<1>2. /\ wd.pc = "acknowledge" /\ wd' = [wd EXCEPT !.pc = "reboot"]
      /\ node' = [node EXCEPT !.ack = IF node.reboot = wd.id THEN wd.id ELSE @]
      /\ OperatorsOwn
      /\ UNCHANGED <<cache, host, job, seen, uuids, reboots, proved, elapsed, work>>
  BY DEF Acknowledge, OperatorsOwn, api, hist
<1>3. node' \in NodeObject /\ CopyOf(node', node) /\ node'.boot = node.boot
      /\ node'.ack = IF node.reboot = wd.id THEN wd.id ELSE node.ack
  BY <1>1, <1>2 DEF NodeObject, CopyOf
<1>4. /\ wd' \in [pc : {"idle", "list", "acknowledge", "reboot"}, id : Ids]
      /\ wd'.pc = "reboot" /\ wd'.id = wd.id
  BY <1>1, <1>2
<1>5. QED
  BY <1>2, <1>3, <1>4 DEF TypeOK, OperatorsOwn

\* The watchdog reboots the host.
LEMMA RebootHostStep ==
    ASSUME TypeOK, RebootHost
    PROVE  /\ TypeOK' /\ OperatorsOwn
           /\ wd.pc = "reboot" /\ wd'.pc = "idle" /\ host' = host + 1
           /\ \A i \in Ids : reboots'[i] = IF i = wd.id THEN reboots[i] + 1 ELSE reboots[i]
           /\ UNCHANGED <<node, cache, job, seen, uuids, proved>>
<1>1. /\ wd \in [pc : {"idle", "list", "acknowledge", "reboot"}, id : Ids]
      /\ reboots \in [Ids -> Nat] /\ host \in Boots /\ 0 \in Ids
  BY IncidentAssumption DEF TypeOK, Ids
<1>2. host + 1 \in Boots
  <2>1. host < MaxBoots
    BY Zenon DEF RebootHost
  <2>2. QED
    BY <1>1, <2>1, IncidentAssumption DEF Boots
<1>3. /\ reboots' \in [Ids -> Nat]
      /\ \A i \in Ids : reboots'[i] = IF i = wd.id THEN reboots[i] + 1 ELSE reboots[i]
  BY <1>1 DEF RebootHost
<1>4. QED
  BY <1>1, <1>2, <1>3 DEF RebootHost, TypeOK, OperatorsOwn, api

\* The rest of the watchdog, and a crash of the host.
LEMMA WatchdogStep ==
    ASSUME TypeOK, ListWorkers \/ WatchdogFails \/ HostCrash
    PROVE  /\ TypeOK' /\ OperatorsOwn
           /\ \/ wd'.pc = "idle"
              \/ wd.pc = "list" /\ wd'.pc = "acknowledge" /\ wd'.id = wd.id
           /\ host' \in {host, host + 1}
           /\ UNCHANGED <<node, cache, job, seen, uuids, reboots, proved>>
<1>1. /\ wd \in [pc : {"idle", "list", "acknowledge", "reboot"}, id : Ids]
      /\ host \in Boots /\ 0 \in Ids
  BY IncidentAssumption DEF TypeOK, Ids
<1>2. CASE ListWorkers
  <2>1. \/ wd' = [pc |-> "idle", id |-> 0]
        \/ wd.pc = "list" /\ wd' = [wd EXCEPT !.pc = "acknowledge"]
    BY <1>2 DEF ListWorkers
  <2>2. QED
    BY <1>1, <1>2, <2>1 DEF ListWorkers, TypeOK, OperatorsOwn, api, hist
<1>3. CASE WatchdogFails
  BY <1>1, <1>3 DEF WatchdogFails, TypeOK, OperatorsOwn, api, hist
<1>4. CASE HostCrash
  <2>1. host + 1 \in Boots
    <3>1. host < MaxBoots
      BY <1>4, Zenon DEF HostCrash
    <3>2. QED
      BY <1>1, <3>1, IncidentAssumption DEF Boots
  <2>2. QED
    BY <1>1, <1>4, <2>1 DEF HostCrash, TypeOK, OperatorsOwn, api, hist
<1>5. QED
  BY <1>2, <1>3, <1>4

\* What others change of the Node: the kubelet the boot, an administrator the
\* request or the taint, the rest nothing that the invariant reads.
LEMMA NodeStep ==
    ASSUME TypeOK,
           \/ RequestRecovery \/ RemoveTaint
           \/ \E b \in BOOLEAN : ReportFault(b) \/ ReportNode(b)
           \/ \E h \in Hashes : PublishInventory(h)
    PROVE  /\ TypeOK' /\ OperatorsOwn
           /\ node'.phase = node.phase /\ node'.reboot = node.reboot /\ node'.ack = node.ack
           /\ node'.boot \in {node.boot, host}
           /\ node'.taint => node.taint
           /\ \/ node'.request = node.request /\ uuids' = uuids
              \/ /\ node.phase = "ManualRepair"
                 /\ node'.request = uuids + 1 /\ uuids' = uuids + 1
           /\ UNCHANGED <<cache, wd, host, job, seen, reboots, proved>>
<1>1. node \in NodeObject /\ host \in Boots /\ uuids \in Ids
  BY DEF TypeOK
<1>2. CASE RequestRecovery
  <2>1. uuids + 1 \in Ids
    BY <1>1, <1>2, IncidentAssumption DEF RequestRecovery, Ids
  <2>2. node' = [node EXCEPT !.request = uuids + 1]
    BY <1>2 DEF RequestRecovery
  <2>3. /\ node' \in NodeObject /\ node'.request = uuids + 1
        /\ node'.phase = node.phase /\ node'.reboot = node.reboot /\ node'.ack = node.ack
        /\ node'.boot = node.boot /\ node'.taint = node.taint
    BY <1>1, <2>1, <2>2 DEF NodeObject
  <2>4. QED
    BY <1>2, <2>1, <2>3 DEF RequestRecovery, TypeOK, OperatorsOwn, api, hist
<1>3. CASE RemoveTaint
  <2>1. node' = [node EXCEPT !.taint = FALSE]
    BY <1>3 DEF RemoveTaint
  <2>2. node' \in NodeObject /\ SameMarks(node', [node EXCEPT !.taint = FALSE]) /\ ~node'.taint
        /\ node'.phase = node.phase /\ node'.reboot = node.reboot /\ node'.ack = node.ack
        /\ node'.boot = node.boot /\ node'.request = node.request
    BY <1>1, <2>1, Zenon DEF NodeObject, SameMarks, CopyOf
  <2>3. QED
    BY <1>3, <2>2 DEF RemoveTaint, TypeOK, OperatorsOwn, api, hist
<1>4. ASSUME NEW b \in BOOLEAN, ReportFault(b) \/ ReportNode(b)
      PROVE  node' \in NodeObject /\ CopyOf(node', node) /\ node'.ack = node.ack
             /\ node'.boot \in {node.boot, host}
  <2>1. \/ node' = [node EXCEPT !.raw = b]
        \/ node' = [node EXCEPT !.ready = b, !.boot = IF b THEN host ELSE @]
    BY <1>4, Zenon DEF ReportFault, ReportNode
  <2>2. QED
    BY <1>1, <2>1, ZenonT(60) DEF NodeObject, CopyOf
<1>5. ASSUME NEW h \in Hashes, PublishInventory(h)
      PROVE  node' \in NodeObject /\ CopyOf(node', node) /\ node'.ack = node.ack
             /\ node'.boot \in {node.boot, host}
  BY <1>1, <1>5, Zenon DEF PublishInventory, NodeObject, CopyOf
<1>6. CASE \/ \E b \in BOOLEAN : ReportFault(b) \/ ReportNode(b)
           \/ \E h \in Hashes : PublishInventory(h)
  <2>1. /\ node' \in NodeObject /\ CopyOf(node', node) /\ node'.ack = node.ack
        /\ node'.boot \in {node.boot, host}
    BY <1>4, <1>5, <1>6
  <2>2. /\ OperatorsOwn
        /\ UNCHANGED <<cache, wd, host, job, seen, uuids, reboots, proved, elapsed, work>>
    BY <1>6, Zenon DEF ReportFault, ReportNode, PublishInventory, OperatorsOwn, api, hist
  <2>3. QED
    BY <2>1, <2>2 DEF TypeOK, OperatorsOwn, CopyOf
<1>7. QED
  BY <1>2, <1>3, <1>6

\* A verifier ends.
LEMMA VerifierEndsStep ==
    ASSUME TypeOK, NEW v \in Verifiers, NEW r \in {"passed", "failed"}, VerifierEnds(v, r)
    PROVE  /\ TypeOK' /\ OperatorsOwn
           /\ job[v] = "running" /\ job'[v] = r
           /\ \A w \in Verifiers : w # v => job'[w] = job[w] /\ proved'[w] = proved[w]
           /\ proved'[v] = IF r = "passed" THEN host ELSE proved[v]
           /\ UNCHANGED <<node, cache, wd, host, seen, uuids, reboots>>
<1>1. /\ job \in [Verifiers -> {"none", "running", "passed", "failed"}]
      /\ proved \in [Verifiers -> Boots] /\ host \in Boots
  BY DEF TypeOK
<1>2. /\ job' = [job EXCEPT ![v] = r] /\ job[v] = "running"
      /\ proved' = IF r = "passed" THEN [proved EXCEPT ![v] = host] ELSE proved
      /\ OperatorsOwn
      /\ UNCHANGED <<node, cache, wd, host, seen, uuids, reboots, elapsed, work>>
  BY DEF VerifierEnds, OperatorsOwn
<1>3. /\ job' \in [Verifiers -> {"none", "running", "passed", "failed"}]
      /\ proved' \in [Verifiers -> Boots]
  BY <1>1, <1>2
<1>4. QED
  BY <1>1, <1>2, <1>3 DEF TypeOK, OperatorsOwn

\* The watch, the clock and the scheduler.
LEMMA WatchStep ==
    ASSUME TypeOK,
           \/ SyncNode \/ ScheduleWorker \/ \E v \in Verifiers : SyncVerifier(v)
           \/ \E t \in Timers : TimePasses(t)
    PROVE  /\ TypeOK' /\ OperatorsOwn
           /\ cache' = cache \/ (Lag /\ cache' = node)
           /\ \A v \in Verifiers : v \in seen' => v \in seen \/ job[v] # "none"
           /\ UNCHANGED <<node, wd, host, job, uuids, reboots, proved>>
<1>1. CASE SyncNode
  BY <1>1 DEF SyncNode, TypeOK, OperatorsOwn, api, hist
<1>2. CASE ScheduleWorker
  BY <1>2 DEF ScheduleWorker, TypeOK, OperatorsOwn, api, hist
<1>3. ASSUME NEW v \in Verifiers, SyncVerifier(v)
      PROVE  /\ seen' \in SUBSET Verifiers /\ OperatorsOwn
             /\ \A w \in Verifiers : w \in seen' => w \in seen \/ job[w] # "none"
             /\ UNCHANGED <<node, cache, wd, host, job, uuids, reboots, proved, elapsed, work>>
  BY <1>3 DEF SyncVerifier, TypeOK, OperatorsOwn, hist
<1>4. CASE \E v \in Verifiers : SyncVerifier(v)
  BY <1>3, <1>4 DEF TypeOK, OperatorsOwn
<1>5. CASE \E t \in Timers : TimePasses(t)
  BY <1>5 DEF TimePasses, TypeOK, OperatorsOwn, api, hist
<1>6. QED
  BY <1>1, <1>2, <1>4, <1>5

-----------------------------------------------------------------------------
(* Types *)

\* The administrator's or the watchdog's steps that leave the operator's own
\* variables alone, and do not change the ConfigMap behind its back.
Others ==
    \/ Watchdog \/ HostCrash
    \/ RequestRecovery \/ RemoveTaint \/ SyncNode \/ ScheduleWorker
    \/ \E v \in Verifiers : \/ SyncVerifier(v)
                            \/ \E r \in {"passed", "failed"} : VerifierEnds(v, r)
    \/ \E b \in BOOLEAN : ReportFault(b) \/ ReportNode(b)
    \/ \E h \in Hashes : PublishInventory(h)
    \/ \E t \in Timers : TimePasses(t)

\* They keep the types, and what they change of the Node is the boot, the
\* acknowledgement, the taint that an administrator removes and the request that
\* one makes where the Node shows ManualRepair.
LEMMA OthersStep ==
    ASSUME TypeOK, Others
    PROVE  /\ TypeOK' /\ OperatorsOwn
           /\ cache' = cache \/ (Lag /\ cache' = node)
           /\ node'.phase = node.phase /\ node'.reboot = node.reboot
           /\ node'.taint => node.taint
           /\ node'.boot \in {node.boot, host} /\ host' \in {host, host + 1}
           /\ \/ node'.request = node.request /\ uuids' = uuids
              \/ /\ node.phase = "ManualRepair" /\ cache' = cache
                 /\ node'.request = uuids + 1 /\ uuids' = uuids + 1
<1>1. CASE Watchdog
  BY <1>1, CheckRequestStep, AcknowledgeStep, RebootHostStep, WatchdogStep
  DEF Watchdog, CopyOf
<1>2. CASE HostCrash
  BY <1>2, WatchdogStep
<1>3. CASE \E v \in Verifiers : \E r \in {"passed", "failed"} : VerifierEnds(v, r)
  BY <1>3, VerifierEndsStep
<1>4. CASE \/ RequestRecovery \/ RemoveTaint
           \/ \E b \in BOOLEAN : ReportFault(b) \/ ReportNode(b)
           \/ \E h \in Hashes : PublishInventory(h)
  BY <1>4, NodeStep
<1>5. CASE \/ SyncNode \/ ScheduleWorker \/ \E v \in Verifiers : SyncVerifier(v)
           \/ \E t \in Timers : TimePasses(t)
  BY <1>5, WatchStep
<1>6. QED
  BY <1>1, <1>2, <1>3, <1>4, <1>5, Zenon DEF Others

\* Nothing else happens, unless somebody deletes the ConfigMap.
LEMMA NextCases == Next <=> Operator \/ AbandonPass \/ Others \/ LoseState
BY Zenon DEF Next, Environment, Others

\* The operator's steps keep the types.
LEMMA OperatorTypes ==
    ASSUME TypeOK, Operator
    PROVE  TypeOK'
<1>1. CASE OpenIncident \/ StateMissing
  BY <1>1, OpenIncidentStep, StateMissingStep
<1>2. CASE NothingWrong \/ Resume
  BY <1>2, StartStep
<1>3. CASE Reenter \/ Isolate \/ SetDegraded
  BY <1>3, ReenterStep, IsolateStep, SetDegradedStep
<1>4. CASE ClearNode \/ ClearDegraded
  BY <1>4, ClearNodeStep, ClearDegradedStep
<1>5. CASE Evacuated \/ AwaitReboot \/ AwaitReady \/ CheckInventory
  BY <1>5, EvacuatedStep, AwaitRebootStep, AwaitReadyStep, CheckInventoryStep
<1>6. CASE VerifiersRefused \/ VerifiersCreated \/ AwaitVerifiers \/ VerificationTimeout
  BY <1>6, VerifiersRefusedStep, VerifiersCreatedStep, AwaitVerifiersStep,
     VerificationTimeoutStep
<1>7. CASE StillEvacuating \/ BeginCleanup \/ CleanedUp
  BY <1>7, PauseStep
<1>8. CASE DeleteState
  BY <1>8, DeleteStateStep
<1>9. CASE \E c \in Cells : CreateVerifier(c) \/ DeleteVerifier(c)
  BY <1>9, CreateVerifierStep, DeleteVerifierStep
<1>10. QED
  BY <1>1, <1>2, <1>3, <1>4, <1>5, <1>6, <1>7, <1>8, <1>9 DEF Operator

\* TypeOK holds throughout, whoever interferes: no pass, watchdog or administrator
\* leaves a record that recovery.go could not have written.
THEOREM TypeCorrect == Spec => []TypeOK
<1>1. Init => TypeOK
  <2> SUFFICES ASSUME Init PROVE TypeOK
    OBVIOUS
  <2>1. 0 \in Ids /\ 0 \in Boots /\ 1 \in Boots /\ 0 \in 0..MaxAbandoned
    BY IncidentAssumption DEF Ids, Boots
  <2>2. QED
    BY <2>1, Initials DEF Init, TypeOK
<1>2. TypeOK /\ [Next]_vars => TypeOK'
  <2> SUFFICES ASSUME TypeOK, [Next]_vars PROVE TypeOK'
    OBVIOUS
  <2>1. CASE LoseState
    BY <2>1, Initials DEF LoseState, TypeOK, api, hist
  <2>2. CASE UNCHANGED vars
    BY <2>2 DEF vars, api, hist, TypeOK
  <2>3. QED
    BY <2>1, <2>2, NextCases, OperatorTypes, AbandonStep, OthersStep
<1>3. QED
  BY <1>1, <1>2, PTL DEF Spec

-----------------------------------------------------------------------------
(* The steps of the operator *)

\* NoState and Idle by their fields.
LEMMA EmptyFields ==
    /\ NoState.phase = "Healthy" /\ NoState.inc = 0 /\ NoState.manual = 0
    /\ NoState.preBoot = 0 /\ NoState.newBoot = 0 /\ NoState.passed = FALSE
    /\ Idle.pc = "idle" /\ Idle.node.request = 0
    /\ HealthyNode.request = 0 /\ HealthyNode.phase = "Healthy" /\ HealthyNode.reboot = 0
    /\ HealthyNode.ack = 0 /\ HealthyNode.boot = 1 /\ HealthyNode.taint = FALSE
BY Zenon DEF NoState, Idle, HealthyNode

\* The steps in which the operator works on the phase that it has dispatched.
PhaseAction ==
    \/ Evacuated \/ StillEvacuating \/ AwaitReboot \/ AwaitReady \/ CheckInventory
    \/ VerifiersRefused \/ VerifiersCreated \/ AwaitVerifiers \/ VerificationTimeout
    \/ BeginCleanup \/ CleanedUp
    \/ \E c \in Cells : CreateVerifier(c) \/ DeleteVerifier(c)

\* A pass starts, re-enters, isolates, works on the phase or clears the Node.
LEMMA OperatorCases ==
    Operator <=> \/ OpenIncident \/ StateMissing \/ NothingWrong \/ Resume \/ Reenter
                 \/ Isolate \/ SetDegraded \/ PhaseAction
                 \/ ClearNode \/ ClearDegraded \/ DeleteState
BY Zenon DEF Operator, PhaseAction

\* A pass at the verifiers creates one, refuses to, or has created all of them.
LEMMA AtVerifiers ==
    ASSUME TypeOK, Operator, At("verifiers")
    PROVE  VerifiersRefused \/ VerifiersCreated \/ \E c \in Cells : CreateVerifier(c)
<1>1. ASSUME NEW c \in Cells, DeleteVerifier(c) PROVE FALSE
  BY <1>1, DeleteVerifierStep DEF At
<1>2. QED
  BY <1>1, OpenIncidentStep, StateMissingStep, StartStep, ReenterStep,
     IsolateStep, SetDegradedStep, ClearNodeStep, ClearDegradedStep, EvacuatedStep,
     AwaitRebootStep, AwaitReadyStep, CheckInventoryStep, AwaitVerifiersStep,
     VerificationTimeoutStep, PauseStep, DeleteStateStep, Zenon DEF Operator, At

\* Only creating and deleting verifiers changes them.
LEMMA JobsKept ==
    ASSUME TypeOK, Operator
    PROVE  UNCHANGED job \/ \E c \in Cells : CreateVerifier(c) \/ DeleteVerifier(c)
BY OpenIncidentStep, StateMissingStep, StartStep, ReenterStep,
   IsolateStep, SetDegradedStep, ClearNodeStep, ClearDegradedStep,
   EvacuatedStep, AwaitRebootStep, AwaitReadyStep, CheckInventoryStep, VerifiersRefusedStep,
   VerifiersCreatedStep, AwaitVerifiersStep, VerificationTimeoutStep, PauseStep,
   DeleteStateStep, Zenon DEF Operator
=============================================================================
