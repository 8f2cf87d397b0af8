--------------------------- MODULE IncidentProofs ---------------------------
(***************************************************************************)
(* What module Incident says of the life of an incident, for any number of *)
(* cells, incidents, boots and passes cut short.  The theorems are about   *)
(* ConfigMaps that nobody else deletes; some need an informer cache that   *)
(* is up to date (Lag is FALSE) as well, and say so.                       *)
(***************************************************************************)
EXTENDS IncidentSteps

Reopening == {"Isolated", "RebootRequested", "Rebooting"}

\* Program points of a pass at which the Node is marked with the phase, and those
\* after it has been cleared.
Marked  == {"condition", "evacuate", "reboot", "booted", "verifiers", "verify",
            "cleanup", "healthy"}
Cleared == {"undegrade", "delete"}

-----------------------------------------------------------------------------
(* The inductive invariant *)

\* Which phase a pass may be at which of its points in, and what an empty
\* ConfigMap is.
ControlInv ==
    /\ st.phase = "Healthy" => st = NoState
    /\ st.phase # "Healthy" => st.inc \in opened
    /\ st.passed => st.phase \in {"Verifying", "ManualRepair"}
    /\ At("reenter") => st.phase = "ManualRepair"
    /\ op.pc \in {"isolate", "condition"} => st.phase # "Healthy"
    /\ At("evacuate") => st.phase = "Isolated"
    /\ At("reboot") => st.phase \in {"RebootRequested", "Rebooting"}
    /\ At("booted") => st.phase = "Rebooting"
    /\ At("verifiers") => st.phase \in {"Rebooting", "Verifying"}
    /\ At("verify") => st.phase = "Verifying"
    /\ op.pc \in {"cleanup", "delete"} => st.phase = "Verifying" /\ st.passed
    /\ op.pc \in {"healthy", "undegrade"} =>
          st.phase = "Healthy" \/ (st.phase = "Verifying" /\ st.passed)

\* Without an incident there is no taint: a pass that clears the Node sees the
\* taint if there is one.
TaintInv ==
    /\ st.phase = "Healthy" => ~node.taint
    /\ op.pc \in {"condition", "verify", "cleanup", "healthy"} /\ st.phase # "Healthy" =>
          op.node.taint \/ ~node.taint
    /\ op.pc \in Cleared => ~node.taint

\* Incidents and requests have been issued.
IssuedInv ==
    /\ \A i \in opened : 0 < i /\ i <= uuids
    /\ st.inc <= uuids /\ node.request <= uuids
    /\ cache.request <= uuids /\ op.node.request <= uuids

\* A request that has been taken up and is still on the Node is the one that the
\* incident remembers, and every copy of the Node shows it.
RequestInv ==
    /\ node.request \in opened =>
          /\ st.manual = node.request /\ Read.request = node.request
          /\ ~At("idle") => op.node.request = node.request
    /\ At("reenter") /\ op.node.request = node.request /\ node.request # 0 =>
          Read.request = node.request
    /\ op.pc \in Cleared => node.request \notin opened
    /\ ~Lag /\ At("reenter") /\ op.node.request \in opened => st.manual = op.node.request

\* Boots are only ever seen in their order.
BootInv ==
    /\ node.boot <= host /\ cache.boot <= node.boot /\ st.preBoot <= Read.boot
    /\ st.newBoot # 0 => st.preBoot < st.newBoot /\ st.newBoot <= Read.boot
    /\ At("reenter") => op.node.boot <= Read.boot
    /\ op.pc \in {"booted", "verifiers"} \/ st.phase = "Verifying" => st.newBoot # 0

\* With a cache that is up to date: the copy that a pass works on, and what the
\* Node shows of the incident.
IsolationInv ==
    /\ st.phase = "Healthy" => node.phase = "Healthy" /\ node.request = 0
    /\ node.phase = "ManualRepair" => st.phase \in {"ManualRepair", "Isolated"}
    /\ op.pc \notin Cleared \cup {"idle"} =>
          /\ op.node.phase = node.phase /\ op.node.reboot = node.reboot
          /\ node.phase # "ManualRepair" /\ op.node.request = 0 => node.request = 0
    /\ op.pc \in Marked /\ st.phase # "Healthy" => node.phase = st.phase
    /\ op.pc \in Cleared => node.phase = "Healthy" /\ node.request = 0
    /\ node.request \notin opened \cup {0} => node.request > st.inc
    /\ At("reenter") => op.node.request <= node.request
    /\ At("reenter") /\ op.node.request \notin opened \cup {0} => op.node.request > st.inc

\* With a cache that is up to date: what the watchdog has served it cannot be asked
\* to serve again.
Touched(i) == node.ack = i \/ (wd.pc # "idle" /\ wd.id = i) \/ reboots[i] > 0

RebootInv ==
    /\ node.reboot \in opened \cup {0} /\ node.ack \in opened \cup {0}
    /\ wd.pc # "idle" => wd.id \in opened /\ reboots[wd.id] = 0
    /\ \A i \in Ids : reboots[i] > 0 => i \in opened /\ reboots[i] = 1
    /\ \A i \in opened : reboots[i] > 0 \/ (wd.pc = "reboot" /\ wd.id = i) =>
          node.ack = i \/ node.reboot # i
    /\ \A i \in opened : Touched(i) /\ st.inc = i /\ st.phase \in Reopening =>
          node.reboot = i

\* With a cache that is up to date: an incident has verifiers only in its new boot.
VerifierInv ==
    /\ \A v \in Verifiers : job[v] # "none" \/ v \in seen => v[1] \in opened
    /\ st.phase # "Healthy" => \A c \in Cells :
          /\ job[Verifier(c)] # "none" => st.newBoot # 0
          /\ job[Verifier(c)] = "passed" \/ st.passed => proved[Verifier(c)] > st.preBoot
    /\ abandoned = 0 /\ st.phase \in Reopening => \A c \in Cells :
          job[Verifier(c)] # "none" \/ Verifier(c) \in seen =>
              At("verifiers") /\ st.phase = "Rebooting" /\ c \notin op.todo

Inv      == TypeOK /\ ControlInv /\ TaintInv /\ BootInv /\ IssuedInv /\ RequestInv
FreshInv == Inv /\ IsolationInv /\ RebootInv /\ VerifierInv

-----------------------------------------------------------------------------
(* The phases that a pass is in *)

\* The pass ends, or goes on with its copy of the Node or a fresh one.
PassGoesOn ==
    /\ op.pc \in {"evacuate", "reboot", "booted", "verifiers", "verify", "cleanup"}
    /\ op'.pc \in {"idle", "isolate", "booted", "verifiers", "cleanup", "healthy"}
    /\ op' = Idle \/ CopyOf(op'.node, op.node) \/ CopyOf(op'.node, Read)
    /\ op'.pc \in {"cleanup", "healthy"} =>
          op.pc \in {"verify", "cleanup"} /\ CopyOf(op'.node, op.node)

\* The incident stays in its phase or moves on, which ensureIsolation is told;
\* a boot other than the one before is recorded once.
IncidentGoesOn ==
    /\ st.phase \in Reopening \cup {"Verifying"} /\ st'.phase # "Healthy"
    /\ st'.phase = st.phase \/ op'.pc = "isolate"
    /\ st'.phase = "Isolated" => st.phase = "Isolated"
    /\ st'.phase \in Reopening => st.phase \in Reopening
    /\ st'.inc = st.inc /\ st'.preBoot = st.preBoot
    /\ st'.manual = st.manual \/ (st'.manual = op'.node.request /\ op'.pc = "isolate")
    /\ st'.passed => st.passed \/ Succeeded
    /\ \/ st'.newBoot = Read.boot /\ Read.boot # st.preBoot
       \/ /\ st'.newBoot = st.newBoot
          /\ op'.pc \in {"booted", "verifiers"} \/ st'.phase = "Verifying" =>
                op.pc \in {"booted", "verifiers"} \/ st.phase = "Verifying"

\* reconcileReboot, reconcileVerification and the cleanup, in the phases in which
\* Reconcile dispatches them.
LEMMA PhaseStep ==
    ASSUME TypeOK, ControlInv, PhaseAction
    PROVE  /\ ControlInv' /\ PassGoesOn /\ IncidentGoesOn
           /\ Untouched /\ UNCHANGED <<node, opened>>
<1> USE EmptyFields DEF ControlInv, PassGoesOn, IncidentGoesOn, At, Reopening
<1>1. CASE Evacuated
  BY <1>1, EvacuatedStep DEF MovesTo, SameIncident
<1>2. CASE AwaitReboot
  BY <1>2, AwaitRebootStep DEF MovesTo, GivesUp, SameIncident, CopyOf
<1>3. CASE AwaitReady
  BY <1>3, AwaitReadyStep DEF SameRecord, SameIncident
<1>4. CASE CheckInventory
  BY <1>4, CheckInventoryStep DEF SameRecord, GivesUp, SameIncident, CopyOf
<1>5. CASE VerifiersRefused
  BY <1>5, VerifiersRefusedStep DEF GivesUp, SameIncident, CopyOf
<1>6. CASE VerifiersCreated
  BY <1>6, VerifiersCreatedStep DEF MovesTo, SameIncident
<1>7. CASE AwaitVerifiers
  BY <1>7, AwaitVerifiersStep DEF GivesUp, SameIncident, CopyOf
<1>8. CASE VerificationTimeout
  BY <1>8, VerificationTimeoutStep DEF GivesUp, SameIncident, CopyOf
<1>9. CASE StillEvacuating \/ BeginCleanup \/ CleanedUp
  BY <1>9, PauseStep DEF CopyOf
<1>10. CASE \E c \in Cells : CreateVerifier(c) \/ DeleteVerifier(c)
  BY <1>10, CreateVerifierStep, DeleteVerifierStep DEF CopyOf
<1>11. QED
  BY <1>1, <1>2, <1>3, <1>4, <1>5, <1>6, <1>7, <1>8, <1>9, <1>10, Zenon DEF PhaseAction

\* The operator keeps to the phases in which Reconcile dispatches it, and everybody
\* else leaves the phases and the pass alone.
LEMMA ControlStep ==
    ASSUME TypeOK, ControlInv, Operator \/ AbandonPass \/ Others
    PROVE  ControlInv'
<1> USE EmptyFields DEF ControlInv, At
<1>1. CASE OpenIncident
  BY <1>1, OpenIncidentStep DEF Opened
<1>2. CASE StateMissing
  BY <1>2, StateMissingStep DEF Opened
<1>3. CASE NothingWrong \/ Resume
  BY <1>3, StartStep
<1>4. CASE Reenter
  BY <1>4, ReenterStep DEF Opened
<1>5. CASE Isolate
  BY <1>5, IsolateStep
<1>6. CASE SetDegraded
  <2>1. CASE op' = Idle
    BY <1>6, <2>1, SetDegradedStep
  <2>2. CASE st.phase # "ManualRepair" /\ op'.pc = Dispatch
    <3>1. st.phase \in Phases
      BY DEF TypeOK, RecoveryState
    <3>2. \/ st.phase = "Isolated" /\ op'.pc = "evacuate"
          \/ st.phase \in {"RebootRequested", "Rebooting"} /\ op'.pc = "reboot"
          \/ st.phase = "Verifying" /\ op'.pc = "verify"
      BY <1>6, <2>2, <3>1, SetDegradedStep DEF Dispatch, Phases
    <3>3. QED
      BY <1>6, <3>2, SetDegradedStep
  <2>3. QED
    BY <1>6, <2>1, <2>2, SetDegradedStep
<1>7. CASE ClearNode \/ ClearDegraded
  BY <1>7, ClearNodeStep, ClearDegradedStep
<1>8. CASE DeleteState
  BY <1>8, DeleteStateStep
<1>9. CASE AbandonPass
  BY <1>9, AbandonStep
<1>10. CASE Others
  BY <1>10, OthersStep DEF OperatorsOwn
<1>11. QED
  BY <1>1, <1>2, <1>3, <1>4, <1>5, <1>6, <1>7, <1>8, <1>9, <1>10, OperatorCases, PhaseStep,
     Zenon

-----------------------------------------------------------------------------
(* The taint *)

\* Only ensureIsolation taints, and the pass that clears the Node knows of it.
LEMMA TaintStep ==
    ASSUME TypeOK, ControlInv, TaintInv, Operator \/ AbandonPass \/ Others
    PROVE  TaintInv'
<1> USE EmptyFields DEF TaintInv, At, Cleared
<1>1. CASE OpenIncident
  BY <1>1, OpenIncidentStep DEF Opened
<1>2. CASE StateMissing
  BY <1>2, StateMissingStep DEF Opened
<1>3. CASE NothingWrong \/ Resume
  BY <1>3, StartStep
<1>4. CASE Reenter
  BY <1>4, ReenterStep DEF Opened
<1>5. CASE Isolate
  BY <1>5, IsolateStep DEF CopyOf, ControlInv
<1>6. CASE SetDegraded
  BY <1>6, SetDegradedStep DEF SameMarks, CopyOf, Dispatch
<1>7. CASE PhaseAction
  BY <1>7, PhaseStep DEF PassGoesOn, IncidentGoesOn, CopyOf, Reopening
<1>8. CASE ClearNode
  BY <1>8, ClearNodeStep
<1>9. CASE ClearDegraded
  BY <1>9, ClearDegradedStep DEF SameMarks, CopyOf
<1>10. CASE DeleteState
  BY <1>10, DeleteStateStep
<1>11. CASE AbandonPass
  BY <1>11, AbandonStep
<1>12. CASE Others
  BY <1>12, OthersStep DEF OperatorsOwn
<1>13. QED
  BY <1>1, <1>2, <1>3, <1>4, <1>5, <1>6, <1>7, <1>8, <1>9, <1>10, <1>11, <1>12,
     OperatorCases, Zenon

-----------------------------------------------------------------------------
(* Boots *)

\* What a pass reads is not newer than the Node.
LEMMA BootStep ==
    ASSUME TypeOK, ControlInv, BootInv, Operator \/ AbandonPass \/ Others
    PROVE  BootInv'
<1>0. /\ node.boot \in Nat /\ cache.boot \in Nat /\ host \in Nat
      /\ st.preBoot \in Nat /\ st.newBoot \in Nat /\ op.node.boot \in Nat
  BY DEF TypeOK, NodeObject, RecoveryState, Pass, Boots
<1> USE <1>0, EmptyFields DEF BootInv, At, Read, Untouched
<1>1. CASE OpenIncident
  BY <1>1, OpenIncidentStep DEF Opened
<1>2. CASE StateMissing
  BY <1>2, StateMissingStep DEF Opened
<1>3. CASE NothingWrong \/ Resume
  BY <1>3, StartStep
<1>4. CASE Reenter
  BY <1>4, ReenterStep DEF Opened
<1>5. CASE Isolate
  BY <1>5, IsolateStep
<1>6. CASE SetDegraded
  BY <1>6, SetDegradedStep DEF SameMarks, Dispatch
<1>7. CASE PhaseAction
  BY <1>7, PhaseStep DEF PassGoesOn, IncidentGoesOn
<1>8. CASE ClearNode
  BY <1>8, ClearNodeStep
<1>9. CASE ClearDegraded
  BY <1>9, ClearDegradedStep DEF SameMarks
<1>10. CASE DeleteState
  BY <1>10, DeleteStateStep
<1>11. CASE AbandonPass
  BY <1>11, AbandonStep
<1>12. CASE Others
  BY <1>12, OthersStep DEF OperatorsOwn
<1>13. QED
  BY <1>1, <1>2, <1>3, <1>4, <1>5, <1>6, <1>7, <1>8, <1>9, <1>10, <1>11, <1>12,
     OperatorCases, Zenon

-----------------------------------------------------------------------------
(* Requests *)

\* Only UUIDs that have been issued are in use.
LEMMA IssuedStep ==
    ASSUME TypeOK, ControlInv, IssuedInv, Operator \/ AbandonPass \/ Others
    PROVE  IssuedInv'
<1>0. /\ node.request \in Nat /\ cache.request \in Nat /\ op.node.request \in Nat
      /\ st.inc \in Nat /\ uuids \in Nat /\ \A i \in opened : i \in Nat
  <2>1. opened \subseteq Ids
    BY DEF TypeOK
  <2>2. \A i \in opened : i \in Nat
    BY <2>1 DEF Ids
  <2>3. QED
    BY <2>2 DEF TypeOK, NodeObject, RecoveryState, Pass, Ids
<1>1. CASE /\ uuids' = uuids /\ opened' = opened /\ st'.inc \in {0, st.inc}
           /\ cache'.request \in {cache.request, node.request}
           /\ node'.request \in {0, node.request}
           /\ op'.node.request \in {0, op.node.request, node.request, cache.request}
  BY <1>0, <1>1 DEF IssuedInv
<1>2. CASE OpenIncident \/ StateMissing
  <2>1. /\ uuids' = uuids + 1 /\ opened' = opened \cup {uuids + 1} /\ st'.inc = uuids + 1
        /\ UNCHANGED <<cache, node>> /\ op'.node.request \in {node.request, cache.request}
    BY <1>2, OpenIncidentStep, StateMissingStep DEF Opened, CopyOf, Read
  <2>2. QED
    BY <1>0, <2>1 DEF IssuedInv
<1>3. CASE Reenter
  <2>1. /\ uuids' = uuids /\ UNCHANGED <<cache, node>> /\ op'.node.request = op.node.request
        /\ \/ UNCHANGED <<st, opened>>
           \/ /\ st'.inc = op.node.request /\ op.node.request # 0
              /\ opened' = opened \cup {op.node.request}
    BY <1>3, ReenterStep DEF Opened, Untouched
  <2>2. QED
    BY <1>0, <2>1 DEF IssuedInv
<1>4. CASE NothingWrong \/ Resume
  BY <1>1, <1>4, StartStep DEF CopyOf, Untouched, Read
<1>5. CASE Isolate \/ SetDegraded
  BY <1>1, <1>5, IsolateStep, SetDegradedStep, EmptyFields DEF CopyOf, SameMarks, Untouched
<1>6. CASE ClearNode \/ ClearDegraded
  BY <1>1, <1>6, ClearNodeStep, ClearDegradedStep, EmptyFields
  DEF CopyOf, SameMarks, Untouched
<1>7. CASE PhaseAction
  BY <1>1, <1>7, PhaseStep, EmptyFields DEF PassGoesOn, IncidentGoesOn, CopyOf, Untouched, Read
<1>8. CASE DeleteState
  BY <1>1, <1>8, DeleteStateStep, EmptyFields DEF Untouched
<1>9. CASE AbandonPass
  BY <1>1, <1>9, AbandonStep, EmptyFields
<1>10. CASE Others
  <2>1. UNCHANGED <<st, op, opened>>
    BY <1>10, OthersStep DEF OperatorsOwn
  <2>2. CASE node'.request = node.request /\ uuids' = uuids
    BY <1>1, <1>10, <2>1, <2>2, OthersStep
  <2>3. CASE node'.request = uuids + 1 /\ uuids' = uuids + 1 /\ cache' = cache
    BY <1>0, <2>1, <2>3 DEF IssuedInv
  <2>4. QED
    BY <1>10, <2>2, <2>3, OthersStep
<1>11. QED
  BY <1>2, <1>3, <1>4, <1>5, <1>6, <1>7, <1>8, <1>9, <1>10, OperatorCases, Zenon

\* A request that is taken up stays the one remembered for as long as the Node has
\* it, since every later copy of the Node shows it.
LEMMA RequestStep ==
    ASSUME TypeOK, ControlInv, IssuedInv, RequestInv, Operator \/ AbandonPass \/ Others
    PROVE  RequestInv'
<1>0. /\ node.request \in Nat /\ cache.request \in Nat /\ op.node.request \in Nat
      /\ st.inc \in Nat /\ st.manual \in Nat /\ uuids \in Nat
  BY DEF TypeOK, NodeObject, RecoveryState, Pass, Ids
<1> USE <1>0, EmptyFields DEF RequestInv, At, Read, Untouched, Cleared
<1>1. CASE OpenIncident
  BY <1>1, OpenIncidentStep DEF Opened, CopyOf, IssuedInv
<1>2. CASE StateMissing
  BY <1>2, StateMissingStep DEF Opened, IssuedInv
<1>3. CASE NothingWrong \/ Resume
  BY <1>3, StartStep DEF CopyOf, ControlInv
<1>4. CASE Reenter
  BY <1>4, ReenterStep DEF Opened, IssuedInv
<1>5. CASE Isolate
  BY <1>5, IsolateStep DEF CopyOf
<1>6. CASE SetDegraded
  BY <1>6, SetDegradedStep DEF SameMarks, CopyOf, Dispatch
<1>7. CASE PhaseAction
  BY <1>7, PhaseStep DEF PassGoesOn, IncidentGoesOn, CopyOf
<1>8. CASE ClearNode
  <2>1. node'.request \notin opened
    BY <1>8, ClearNodeStep DEF IssuedInv
  <2>2. QED
    BY <1>8, <2>1, ClearNodeStep
<1>9. CASE ClearDegraded
  BY <1>9, ClearDegradedStep DEF SameMarks, CopyOf
<1>10. CASE DeleteState
  BY <1>10, DeleteStateStep
<1>11. CASE AbandonPass
  BY <1>11, AbandonStep
<1>12. CASE Others
  BY <1>12, OthersStep DEF OperatorsOwn, IssuedInv
<1>13. QED
  BY <1>1, <1>2, <1>3, <1>4, <1>5, <1>6, <1>7, <1>8, <1>9, <1>10, <1>11, <1>12,
     OperatorCases, Zenon

-----------------------------------------------------------------------------
(* What holds throughout, with any cache *)

\* The initial state, in which the cluster is healthy.
LEMMA InvInit == Init => Inv
<1> SUFFICES ASSUME Init PROVE Inv
  OBVIOUS
<1>1. 0 \in Ids /\ 0 \in Boots /\ 1 \in Boots /\ 0 \in 0..MaxAbandoned
  BY IncidentAssumption DEF Ids, Boots
<1>2. TypeOK
  BY <1>1, Initials DEF Init, TypeOK
<1>3. ControlInv /\ TaintInv
  BY EmptyFields DEF Init, ControlInv, TaintInv, At, Cleared
<1>4. BootInv /\ IssuedInv
  BY EmptyFields DEF Init, BootInv, IssuedInv, At, Read
<1>5. RequestInv
  BY EmptyFields DEF Init, RequestInv, At, Read, Cleared
<1>6. QED
  BY <1>2, <1>3, <1>4, <1>5 DEF Inv

\* Unless somebody deletes the ConfigMap, every step keeps Inv.
LEMMA InvStep ==
    ASSUME "lose" \notin Interference
    PROVE  Inv /\ [Next]_vars => Inv'
<1> SUFFICES ASSUME Inv, [Next]_vars PROVE Inv'
  OBVIOUS
<1>1. CASE Operator \/ AbandonPass \/ Others
  <2>1. TypeOK'
    BY <1>1, OperatorTypes, AbandonStep, OthersStep DEF Inv
  <2>2. QED
    BY <1>1, <2>1, ControlStep, TaintStep, BootStep, IssuedStep, RequestStep DEF Inv
<1>2. CASE UNCHANGED vars
  <2>1. TypeOK'
    BY <1>2 DEF vars, api, hist, Inv, TypeOK
  <2>2. ControlInv' /\ TaintInv' /\ IssuedInv'
    BY <1>2 DEF vars, Inv, ControlInv, TaintInv, IssuedInv, At
  <2>3. BootInv' /\ RequestInv'
    BY <1>2 DEF vars, Inv, BootInv, RequestInv, At, Read
  <2>4. QED
    BY <2>1, <2>2, <2>3 DEF Inv
<1>3. QED
  BY <1>1, <1>2, NextCases DEF LoseState

\* Unless somebody deletes the ConfigMap, Inv is an invariant.
THEOREM Invariant ==
    ASSUME "lose" \notin Interference
    PROVE  Spec => []Inv
BY InvInit, InvStep, PTL DEF Spec

\* How a step of the operator opens an incident, with any cache: for a fault or a
\* missing state under a new UUID, in ManualRepair for a request that the pass sees.
LEMMA OperatorTurns ==
    ASSUME TypeOK, ControlInv, Operator
    PROVE  \/ st = NoState /\ st'.inc = uuids + 1
           \/ /\ At("reenter") /\ st.phase = "ManualRepair"
              /\ op.node.request \notin {0, st.manual}
              /\ st'.phase = "Isolated" /\ st'.inc = op.node.request
           \/ st'.inc = 0 /\ st.phase = "Verifying"
           \/ /\ st'.inc = st.inc
              /\ st'.phase = "Isolated" => st.phase = "Isolated"
              /\ st.phase = "ManualRepair" => st'.phase = "ManualRepair"
<1> USE EmptyFields DEF At
<1>1. CASE OpenIncident \/ StateMissing
  BY <1>1, OpenIncidentStep, StateMissingStep DEF Opened
<1>2. CASE Reenter
  BY <1>2, ReenterStep DEF Opened, ControlInv
<1>3. CASE DeleteState
  BY <1>3, DeleteStateStep DEF ControlInv
<1>4. CASE PhaseAction
  BY <1>4, PhaseStep DEF IncidentGoesOn, Reopening
<1>5. CASE \/ NothingWrong \/ Resume \/ Isolate \/ SetDegraded \/ ClearNode \/ ClearDegraded
  BY <1>5, StartStep, IsolateStep, SetDegradedStep, ClearNodeStep, ClearDegradedStep
<1>6. QED
  BY <1>1, <1>2, <1>3, <1>4, <1>5, OperatorCases, Zenon

\* Every other step leaves the ConfigMap alone.
LEMMA OnlyOperatorTurns ==
    ASSUME "lose" \notin Interference, TypeOK, [Next]_vars
    PROVE  Operator \/ st' = st
<1>1. CASE AbandonPass \/ Others
  BY <1>1, AbandonStep, OthersStep DEF OperatorsOwn
<1>2. CASE UNCHANGED vars
  BY <1>2 DEF vars
<1>3. QED
  BY <1>1, <1>2, NextCases DEF LoseState

\* A UUID opens one incident, since newRecoveryState draws a new one and ManualRepair
\* remembers the request that it was entered with; a request taken up twice can
\* only be one that has gone from the Node and not from the cache.
THEOREM NeverReopened ==
    ASSUME "lose" \notin Interference
    PROVE  Spec => IncidentsNeverReopened
<1>1. Inv /\ [Next]_vars =>
        [st'.inc # 0 /\ (st'.inc # st.inc \/ (st'.phase = "Isolated" /\ st.phase # "Isolated"))
           => st'.inc \notin opened \/ (Lag /\ op.node.request # node.request)]_vars
  <2> SUFFICES ASSUME Inv, [Next]_vars, st'.inc # 0, st' # st,
                      st'.inc # st.inc \/ (st'.phase = "Isolated" /\ st.phase # "Isolated")
               PROVE  st'.inc \notin opened \/ (Lag /\ op.node.request # node.request)
    BY DEF vars
  <2>1. TypeOK /\ ControlInv /\ IssuedInv /\ RequestInv /\ Lag \in BOOLEAN
    BY IncidentAssumption DEF Inv
  <2>2. Operator
    BY <2>1, OnlyOperatorTurns
  <2>3. CASE st = NoState /\ st'.inc = uuids + 1
    BY <2>1, <2>3 DEF IssuedInv, TypeOK, Ids
  <2>4. CASE /\ At("reenter") /\ op.node.request \notin {0, st.manual}
             /\ st'.inc = op.node.request
    BY <2>1, <2>4 DEF RequestInv, At
  <2>5. QED
    BY <2>1, <2>2, <2>3, <2>4, OperatorTurns
<1>2. QED
  BY <1>1, Invariant, PTL DEF Spec, IncidentsNeverReopened

-----------------------------------------------------------------------------
(* What the Node shows of the incident, with a cache that is up to date *)

\* Only the operator writes the phase and the request for a reboot, and an
\* administrator asks for a recovery only where the Node shows ManualRepair.
LEMMA IsolationStep ==
    ASSUME Lag = FALSE, TypeOK, ControlInv, IssuedInv, RequestInv, IsolationInv,
           Operator \/ AbandonPass \/ Others
    PROVE  IsolationInv'
<1>0. /\ node.request \in Nat /\ op.node.request \in Nat /\ st.inc \in Nat /\ uuids \in Nat
      /\ st.phase \in Phases
  BY DEF TypeOK, NodeObject, RecoveryState, Pass, Ids
<1>r. Read = node
  BY DEF Read
<1> USE <1>0, <1>r, EmptyFields DEF IsolationInv, At, Untouched, Cleared, Marked
<1>1. CASE OpenIncident
  <2>1. node.request = 0 /\ node.phase = "Healthy"
    BY <1>1, OpenIncidentStep
  <2>2. QED
    BY <1>1, <2>1, OpenIncidentStep DEF Opened, CopyOf
<1>2. CASE StateMissing
  <2>1. node.request = 0 /\ node.phase = "Healthy"
    BY <1>2, StateMissingStep
  <2>2. QED
    BY <1>2, <2>1, StateMissingStep DEF Opened
<1>3. CASE NothingWrong \/ Resume
  BY <1>3, StartStep DEF CopyOf, ControlInv
<1>4. CASE Reenter
  BY <1>4, ReenterStep DEF Opened, ControlInv
<1>5. CASE Isolate
  BY <1>5, IsolateStep DEF CopyOf, ControlInv
<1>6. CASE SetDegraded
  BY <1>6, SetDegradedStep DEF SameMarks, CopyOf, Dispatch
<1>7. CASE PhaseAction
  BY <1>7, PhaseStep, ZenonT(60) DEF PassGoesOn, IncidentGoesOn, CopyOf, Reopening
<1>8. CASE ClearNode
  BY <1>8, ClearNodeStep, Zenon DEF ControlInv
<1>9. CASE ClearDegraded
  BY <1>9, ClearDegradedStep DEF SameMarks, CopyOf
<1>10. CASE DeleteState
  BY <1>10, DeleteStateStep
<1>11. CASE AbandonPass
  BY <1>11, AbandonStep
<1>12. CASE Others
  <2>1. OperatorsOwn /\ node'.phase = node.phase /\ node'.reboot = node.reboot
    BY <1>12, OthersStep
  <2>2. UNCHANGED <<st, op, opened>>
    BY <2>1 DEF OperatorsOwn
  <2>3. CASE node'.request = node.request
    BY <2>1, <2>2, <2>3
  <2>4. CASE node.phase = "ManualRepair" /\ node'.request = uuids + 1
    <3>1. node'.request \notin opened /\ node'.request > st.inc /\ node'.request >= node.request
      BY <2>4 DEF IssuedInv
    <3>2. st.phase \in {"ManualRepair", "Isolated"} /\ op.pc \notin Cleared
      BY <2>4
    <3>3. QED
      BY <2>1, <2>2, <2>4, <3>1, <3>2 DEF IssuedInv
  <2>5. QED
    BY <1>12, <2>3, <2>4, OthersStep
<1>13. QED
  BY <1>1, <1>2, <1>3, <1>4, <1>5, <1>6, <1>7, <1>8, <1>9, <1>10, <1>11, <1>12,
     OperatorCases, Zenon

-----------------------------------------------------------------------------
(* How incidents follow each other *)

\* A step of the operator opens an incident of its own, or goes on with the one it
\* has, which never goes back to before its verification, or ends it.
Opens ==
    /\ st'.inc \notin opened /\ opened' = opened \cup {st'.inc} /\ st'.phase # "Healthy"
    /\ ~st'.passed
    /\ UNCHANGED <<node, cache, wd, host, job, seen, abandoned, reboots, proved>>

GoesOn ==
    /\ UNCHANGED opened /\ st'.inc = st.inc /\ st'.preBoot = st.preBoot
    /\ (st'.phase = "Healthy") <=> (st.phase = "Healthy")
    /\ st'.phase \in Reopening => st.phase \in Reopening
    /\ st.newBoot # 0 => st'.newBoot # 0
    /\ st'.passed => st.passed \/ Succeeded

Ends == UNCHANGED opened /\ st' = NoState

\* With a cache that is up to date, the incident opened is a new one.
LEMMA OperatorMoves ==
    ASSUME Lag = FALSE, TypeOK, ControlInv, IssuedInv, RequestInv, BootInv, Operator
    PROVE  /\ Opens \/ GoesOn \/ Ends
           /\ UNCHANGED <<wd, host, seen, abandoned, reboots, proved>>
<1>0. /\ op.node.request \in Nat /\ uuids \in Nat /\ st.newBoot \in Nat
      /\ st.passed \in BOOLEAN /\ Read = node /\ node.boot \in Nat /\ st.preBoot \in Nat
  BY DEF TypeOK, NodeObject, RecoveryState, Pass, Ids, Boots, Read
<1> USE EmptyFields DEF At, Untouched
<1>1. CASE OpenIncident
  <2>1. uuids + 1 \notin opened
    BY <1>0 DEF IssuedInv
  <2>2. QED
    BY <1>1, <2>1, OpenIncidentStep DEF Opened, Opens
<1>2. CASE StateMissing
  <2>1. uuids + 1 \notin opened
    BY <1>0 DEF IssuedInv
  <2>2. QED
    BY <1>2, <2>1, StateMissingStep DEF Opened, Opens
<1>3. CASE Reenter
  <2>1. CASE /\ op.node.request \notin {0, st.manual}
             /\ Opened(st', op.node, op.node.request, "Isolated", op.node.request)
             /\ opened' = opened \cup {op.node.request}
    <3>1. op.node.request \notin opened
      BY <1>3, <2>1, ReenterStep DEF RequestInv
    <3>2. QED
      BY <1>3, <2>1, <3>1, ReenterStep DEF Opened, Opens
  <2>2. CASE UNCHANGED <<st, opened>>
    BY <1>3, <2>2, ReenterStep DEF GoesOn
  <2>3. QED
    BY <1>3, <2>1, <2>2, ReenterStep
<1>4. CASE DeleteState
  BY <1>4, DeleteStateStep DEF Ends
<1>5. CASE NothingWrong \/ Resume
  BY <1>5, StartStep DEF GoesOn
<1>6. CASE Isolate \/ SetDegraded
  BY <1>6, IsolateStep, SetDegradedStep DEF GoesOn
<1>7. CASE ClearNode \/ ClearDegraded
  BY <1>7, ClearNodeStep, ClearDegradedStep DEF GoesOn
<1>8. CASE PhaseAction
  BY <1>0, <1>8, PhaseStep DEF IncidentGoesOn, GoesOn, Reopening, BootInv
<1>9. QED
  BY <1>1, <1>2, <1>3, <1>4, <1>5, <1>6, <1>7, <1>8, OperatorCases, Zenon

\* The request for a reboot is the operator's to set, for the incident it has, and
\* to clear, at the end of one.
LEMMA OperatorMarks ==
    ASSUME TypeOK, ControlInv, IsolationInv, Operator
    PROVE  \/ node'.reboot = node.reboot /\ node'.ack = node.ack
           \/ /\ node'.reboot = st.inc /\ node'.ack = node.ack
              /\ st.phase \in Reopening /\ UNCHANGED <<st, opened>>
           \/ /\ node'.reboot = 0 /\ node'.ack \in {0, node.ack}
              /\ st.phase \notin Reopening /\ UNCHANGED <<st, opened>>
<1>1. CASE Isolate
  BY <1>1, IsolateStep DEF Reopening
<1>2. CASE ClearNode
  <2>1. op.node.reboot = node.reboot
    BY <1>2, ClearNodeStep DEF IsolationInv, Cleared, At
  <2>2. QED
    BY <1>2, <2>1, ClearNodeStep DEF ControlInv, Reopening, At
<1>3. CASE SetDegraded \/ ClearDegraded
  BY <1>3, SetDegradedStep, ClearDegradedStep DEF SameMarks, CopyOf
<1>4. CASE UNCHANGED node
  BY <1>4
<1>5. QED
  BY <1>1, <1>2, <1>3, <1>4, OpenIncidentStep, StateMissingStep, StartStep, ReenterStep,
     PhaseStep, DeleteStateStep, OperatorCases, Zenon

-----------------------------------------------------------------------------
(* What the watchdog has served *)

\* The request is set again only while it is there, its acknowledgement with it;
\* once cleared, the incident never asks for a reboot again.
LEMMA RebootStep ==
    ASSUME Lag = FALSE, Inv, IsolationInv, RebootInv, IssuedInv',
           Operator \/ AbandonPass \/ Others
    PROVE  RebootInv'
<1>0. /\ TypeOK /\ ControlInv /\ IssuedInv /\ RequestInv /\ BootInv
      /\ opened \subseteq Ids /\ reboots \in [Ids -> Nat] /\ wd.id \in Ids
      /\ \A i \in opened : i # 0
  <2>1. TypeOK /\ ControlInv /\ IssuedInv /\ RequestInv /\ BootInv
    BY DEF Inv
  <2>2. opened \subseteq Ids /\ reboots \in [Ids -> Nat] /\ wd.id \in Ids
    BY <2>1 DEF TypeOK
  <2>3. \A i \in opened : i # 0
    BY <2>1, <2>2 DEF IssuedInv, Ids
  <2>4. QED
    BY <2>1, <2>2, <2>3
<1> USE DEF RebootInv, Touched
<1>1. CASE Operator
  <2>1. UNCHANGED <<wd, reboots>>
    BY <1>0, <1>1, OperatorMoves, Zenon
  <2>2. CASE Opens
    <3>1. st'.inc # 0
      BY <2>2 DEF Opens, IssuedInv
    <3>2. node' = node
      BY <2>2 DEF Opens
    <3>3. st'.inc \in Ids
      BY <1>0, <1>1, OperatorTypes DEF TypeOK, RecoveryState
    <3>4. ~Touched(st'.inc) /\ ~(reboots[st'.inc] > 0)
      BY <1>0, <2>2, <3>1, <3>3 DEF Opens
    <3>5. opened' = opened \cup {st'.inc}
      BY <2>2 DEF Opens
    <3>6. QED
      BY <1>0, <2>1, <3>2, <3>3, <3>4, <3>5
  <2>3. CASE GoesOn \/ Ends
    <3>1. /\ opened' = opened
          /\ st'.phase \in Reopening => st'.inc = st.inc /\ st.phase \in Reopening
      BY <2>3, EmptyFields DEF GoesOn, Ends, Reopening
    <3>2. CASE node'.reboot = node.reboot /\ node'.ack = node.ack
      BY <1>0, <2>1, <3>1, <3>2
    <3>3. CASE /\ node'.reboot = st.inc /\ node'.ack = node.ack
               /\ st.phase \in Reopening /\ UNCHANGED <<st, opened>>
      <4>1. st.inc \in opened
        BY <1>0, <3>3 DEF ControlInv, Reopening
      <4>2. QED
        BY <1>0, <2>1, <3>3, <4>1
    <3>4. CASE /\ node'.reboot = 0 /\ node'.ack \in {0, node.ack}
               /\ st.phase \notin Reopening /\ UNCHANGED <<st, opened>>
      BY <1>0, <2>1, <3>4
    <3>5. QED
      BY <1>0, <1>1, <3>2, <3>3, <3>4, OperatorMarks
  <2>4. QED
    BY <1>0, <1>1, <2>2, <2>3, OperatorMoves, Zenon
<1>2. CASE AbandonPass
  BY <1>0, <1>2, AbandonStep
<1>3. CASE CheckRequest
  BY <1>0, <1>3, CheckRequestStep DEF OperatorsOwn
<1>4. CASE Acknowledge
  BY <1>0, <1>4, AcknowledgeStep DEF OperatorsOwn, CopyOf
<1>5. CASE RebootHost
  BY <1>0, <1>5, RebootHostStep DEF OperatorsOwn
<1>6. CASE ListWorkers \/ WatchdogFails \/ HostCrash
  BY <1>0, <1>6, WatchdogStep DEF OperatorsOwn
<1>7. CASE \E v \in Verifiers : \E r \in {"passed", "failed"} : VerifierEnds(v, r)
  BY <1>0, <1>7, VerifierEndsStep DEF OperatorsOwn
<1>8. CASE \/ RequestRecovery \/ RemoveTaint
           \/ \E b \in BOOLEAN : ReportFault(b) \/ ReportNode(b)
           \/ \E h \in Hashes : PublishInventory(h)
  BY <1>0, <1>8, NodeStep DEF OperatorsOwn
<1>9. CASE \/ SyncNode \/ ScheduleWorker \/ \E v \in Verifiers : SyncVerifier(v)
           \/ \E t \in Timers : TimePasses(t)
  BY <1>0, <1>9, WatchStep DEF OperatorsOwn
<1>10. QED
  BY <1>1, <1>2, <1>3, <1>4, <1>5, <1>6, <1>7, <1>8, <1>9, Zenon DEF Others, Watchdog

-----------------------------------------------------------------------------
(* The verifiers of the incident *)

\* Verifiers are created for the incident, once it has a new boot.
LEMMA OperatorJobs ==
    ASSUME TypeOK, ControlInv, BootInv, Operator
    PROVE  \A v \in Verifiers : job'[v] \in {"none", job[v]} \/
              (job'[v] = "running" /\ At("verifiers") /\ v[1] = st.inc /\ st'.inc = st.inc
                 /\ st.phase # "Healthy" /\ st.newBoot # 0)
<1>1. ASSUME NEW c \in Cells, CreateVerifier(c)
      PROVE  \A v \in Verifiers : job'[v] # job[v] =>
                job'[v] = "running" /\ At("verifiers") /\ v[1] = st.inc /\ st'.inc = st.inc
                  /\ st.phase # "Healthy" /\ st.newBoot # 0
  BY <1>1, CreateVerifierStep DEF Verifier, ControlInv, BootInv, At
<1>2. ASSUME NEW c \in Cells, DeleteVerifier(c)
      PROVE  \A v \in Verifiers : job'[v] # job[v] => job'[v] = "none"
  BY <1>2, DeleteVerifierStep
<1>3. QED
  BY <1>1, <1>2, JobsKept

\* Before the verification, a pass that is at the verifiers creates those of its
\* cells, gives the incident up, or begins the verification.
LEMMA OperatorVerifiers ==
    ASSUME TypeOK, ControlInv, Operator, At("verifiers"), st'.phase \in Reopening,
           GoesOn
    PROVE  At("verifiers")' /\ st'.phase = "Rebooting" /\ op'.todo \subseteq op.todo
           /\ \E c \in Cells : /\ c \notin op'.todo
                               /\ \A v \in Verifiers : job'[v] # job[v] => v = Verifier(c)
<1>1. st.phase = "Rebooting"
  BY DEF GoesOn, ControlInv, Reopening, At
<1>2. CASE \E c \in Cells : CreateVerifier(c)
  BY <1>1, <1>2, CreateVerifierStep DEF At
<1>3. CASE VerifiersRefused \/ VerifiersCreated
  BY <1>1, <1>3, VerifiersRefusedStep, VerifiersCreatedStep DEF GivesUp, MovesTo, Reopening
<1>4. QED
  BY <1>2, <1>3, AtVerifiers, Zenon

\* An incident's verifiers run, and succeed, in the new boot that it has recorded.
LEMMA VerifierStep ==
    ASSUME Lag = FALSE, Inv, VerifierInv,
           Operator \/ AbandonPass \/ Others
    PROVE  VerifierInv'
<1>0. /\ TypeOK /\ ControlInv /\ IssuedInv /\ RequestInv /\ BootInv /\ Read = node
      /\ job \in [Verifiers -> {"none", "running", "passed", "failed"}]
      /\ proved \in [Verifiers -> Boots] /\ seen \subseteq Verifiers /\ opened \subseteq Ids
      /\ host \in Nat /\ node.boot \in Nat /\ st.preBoot \in Nat /\ st.newBoot \in Nat
      /\ abandoned \in Nat /\ st.inc \in Ids /\ \A i \in opened : i # 0
      /\ \A b \in Boots : b \in Nat
  <2>1. TypeOK /\ ControlInv /\ IssuedInv /\ RequestInv /\ BootInv /\ Read = node
    BY DEF Inv, Read
  <2>2. opened \subseteq Ids /\ \A i \in opened : i # 0
    <3>1. opened \subseteq Ids
      BY <2>1, Zenon DEF TypeOK
    <3>2. QED
      BY <2>1, <3>1 DEF IssuedInv, Ids
  <2>3. /\ job \in [Verifiers -> {"none", "running", "passed", "failed"}]
        /\ proved \in [Verifiers -> Boots] /\ seen \subseteq Verifiers
        /\ host \in Boots /\ abandoned \in 0..MaxAbandoned
    BY <2>1, Zenon DEF TypeOK
  <2>4. node.boot \in Boots /\ st.preBoot \in Boots /\ st.newBoot \in Boots /\ st.inc \in Ids
    BY <2>1, Zenon DEF TypeOK, NodeObject, RecoveryState
  <2>5. (\A b \in Boots : b \in Nat) /\ \A a \in 0..MaxAbandoned : a \in Nat
    BY DEF Boots
  <2>6. QED
    BY <2>1, <2>2, <2>3, <2>4, <2>5, Zenon
<1>1. st.phase # "Healthy" => \A c \in Cells : Verifier(c) \in Verifiers
  BY <1>0 DEF ControlInv, Verifiers, Verifier
<1>2. ASSUME OperatorsOwn,
             \A v \in Verifiers : job'[v] # "none" => job[v] # "none",
             \A v \in Verifiers : v \in seen' => v \in seen \/ job[v] # "none",
             st.phase # "Healthy" => \A c \in Cells :
                job'[Verifier(c)] = "passed" \/ st.passed => proved'[Verifier(c)] > st.preBoot
      PROVE  VerifierInv'
  <2>1. UNCHANGED <<st, op, opened, abandoned>> /\ At("verifiers")' = At("verifiers")
    BY <1>2 DEF OperatorsOwn, At
  <2>2. \A c \in Cells : Verifier(c)' = Verifier(c)
    BY <2>1 DEF Verifier
  <2>3. \A v \in Verifiers : job'[v] # "none" \/ v \in seen' => v[1] \in opened
    BY <1>2 DEF VerifierInv
  <2>4. st.phase # "Healthy" => \A c \in Cells :
           job'[Verifier(c)] # "none" => st.newBoot # 0
    BY <1>1, <1>2 DEF VerifierInv
  <2>5. abandoned = 0 /\ st.phase \in Reopening => \A c \in Cells :
           job'[Verifier(c)] # "none" \/ Verifier(c) \in seen' =>
              At("verifiers") /\ st.phase = "Rebooting" /\ c \notin op.todo
    BY <1>1, <1>2 DEF VerifierInv, Reopening
  <2>6. QED
    BY <1>2, <2>1, <2>2, <2>3, <2>4, <2>5 DEF VerifierInv
<1>3. CASE AbandonPass
  <2>1. abandoned' # 0 /\ UNCHANGED <<st, job, seen, proved, opened>>
    BY <1>0, <1>3, AbandonStep
  <2>2. QED
    BY <1>0, <2>1 DEF VerifierInv, Verifier
<1>4. CASE \E v \in Verifiers : \E r \in {"passed", "failed"} : VerifierEnds(v, r)
  <2>1. PICK v \in Verifiers, r \in {"passed", "failed"} : VerifierEnds(v, r)
    BY <1>4
  <2>2. /\ OperatorsOwn /\ seen' = seen /\ job[v] = "running" /\ job'[v] = r
        /\ \A w \in Verifiers : w # v => job'[w] = job[w] /\ proved'[w] = proved[w]
        /\ proved'[v] = IF r = "passed" THEN host ELSE proved[v]
    BY <1>0, <2>1, VerifierEndsStep
  <2>3. \A w \in Verifiers : job'[w] # "none" <=> job[w] # "none"
    BY <2>2
  <2>4. ASSUME NEW c \in Cells, st.phase # "Healthy",
               job'[Verifier(c)] = "passed" \/ st.passed
        PROVE  proved'[Verifier(c)] > st.preBoot
    <3>1. CASE v = Verifier(c) /\ r = "passed"
      BY <1>0, <1>1, <2>2, <2>4, <3>1 DEF VerifierInv, BootInv
    <3>2. CASE v = Verifier(c) /\ r = "failed"
      BY <1>0, <1>1, <2>2, <2>4, <3>2 DEF VerifierInv
    <3>3. CASE v # Verifier(c)
      BY <1>0, <1>1, <2>2, <2>4, <3>3 DEF VerifierInv
    <3>4. QED
      BY <3>1, <3>2, <3>3
  <2>5. QED
    BY <1>2, <2>2, <2>3, <2>4
<1>5. CASE \/ SyncNode \/ ScheduleWorker \/ \E v \in Verifiers : SyncVerifier(v)
           \/ \E t \in Timers : TimePasses(t)
  <2>1. /\ OperatorsOwn /\ UNCHANGED <<job, proved>>
        /\ \A v \in Verifiers : v \in seen' => v \in seen \/ job[v] # "none"
    BY <1>0, <1>5, WatchStep
  <2>2. QED
    BY <1>2, <2>1 DEF VerifierInv
<1>6. CASE Operator
  <2>1. UNCHANGED <<abandoned, seen, proved>>
    BY <1>0, <1>6, OperatorMoves, Zenon
  <2>2. \A v \in Verifiers : job'[v] \in {"none", job[v]} \/
           (job'[v] = "running" /\ v[1] = st.inc /\ st'.inc = st.inc
              /\ st.phase # "Healthy" /\ st.newBoot # 0)
    BY <1>0, <1>6, OperatorJobs
  <2>3. opened \subseteq opened' /\ (st.phase # "Healthy" => st.inc \in opened)
    BY <1>0, <1>6, OperatorMoves, Zenon DEF Opens, GoesOn, Ends, ControlInv
  <2>4. \A v \in Verifiers : job'[v] # "none" \/ v \in seen' => v[1] \in opened'
    BY <1>0, <2>1, <2>2, <2>3 DEF VerifierInv
  <2>5. CASE Opens
    <3>1. st'.inc \in Ids \ {0}
      <4>1. st'.inc \in Ids
        BY <1>0, <1>6, OperatorTypes DEF TypeOK, RecoveryState
      <4>2. st'.inc \in opened' /\ IssuedInv'
        BY <1>0, <1>6, <2>5, IssuedStep DEF Opens
      <4>3. st'.inc # 0
        BY <4>2 DEF IssuedInv
      <4>4. QED
        BY <4>1, <4>3
    <3>2. \A c \in Cells : <<st'.inc, c>> \in Verifiers /\ <<st'.inc, c>>[1] \notin opened
      BY <2>5, <3>1 DEF Verifiers, Opens
    <3>3. \A c \in Cells : job'[<<st'.inc, c>>] = "none" /\ <<st'.inc, c>> \notin seen'
      BY <2>1, <2>5, <3>2, Zenon DEF VerifierInv, Opens
    <3>4. QED
      BY <2>4, <2>5, <3>3 DEF VerifierInv, Verifier, Opens
  <2>6. CASE Ends
    BY <2>4, <2>6, EmptyFields DEF VerifierInv, Ends, Reopening
  <2>7. CASE GoesOn
    <3>1. ASSUME NEW c \in Cells, st'.phase # "Healthy"
          PROVE  /\ job'[Verifier(c)] # "none" => st'.newBoot # 0
                 /\ job'[Verifier(c)] = "passed" \/ st'.passed =>
                       proved'[Verifier(c)] > st.preBoot
      BY <1>0, <1>1, <2>1, <2>2, <2>7, <3>1 DEF VerifierInv, GoesOn, Succeeded
    <3>2. ASSUME NEW c \in Cells, abandoned = 0, st'.phase \in Reopening,
                 job'[Verifier(c)] # "none" \/ Verifier(c) \in seen
          PROVE  At("verifiers")' /\ st'.phase = "Rebooting" /\ c \notin op'.todo
      <4>1. st.phase \in Reopening /\ st.phase # "Healthy" /\ Verifier(c) \in Verifiers
        BY <1>1, <2>7, <3>2 DEF GoesOn, Reopening
      <4>2. At("verifiers")
        <5>1. CASE job[Verifier(c)] # "none" \/ Verifier(c) \in seen
          BY <3>2, <4>1, <5>1 DEF VerifierInv
        <5>2. CASE job'[Verifier(c)] # job[Verifier(c)] /\ job'[Verifier(c)] # "none"
          BY <1>0, <1>6, <4>1, <5>2, OperatorJobs
        <5>3. QED
          BY <3>2, <5>1, <5>2
      <4>3. PICK d \in Cells :
               /\ At("verifiers")' /\ st'.phase = "Rebooting" /\ op'.todo \subseteq op.todo
               /\ d \notin op'.todo
               /\ \A v \in Verifiers : job'[v] # job[v] => v = Verifier(d)
        BY <1>0, <1>6, <2>7, <3>2, <4>2, OperatorVerifiers
      <4>4. CASE job'[Verifier(c)] # job[Verifier(c)]
        <5>1. c = d
          BY <4>1, <4>3, <4>4 DEF Verifier
        <5>2. QED
          BY <4>3, <5>1
      <4>5. CASE job'[Verifier(c)] = job[Verifier(c)]
        BY <3>2, <4>1, <4>3, <4>5 DEF VerifierInv
      <4>6. QED
        BY <4>4, <4>5
    <3>3. QED
      BY <2>1, <2>4, <2>7, <3>1, <3>2 DEF VerifierInv, GoesOn, Verifier
  <2>8. QED
    BY <1>0, <1>6, <2>5, <2>6, <2>7, OperatorMoves, Zenon
<1>7. CASE \/ RequestRecovery \/ RemoveTaint
           \/ \E b \in BOOLEAN : ReportFault(b) \/ ReportNode(b)
           \/ \E h \in Hashes : PublishInventory(h)
  BY <1>0, <1>2, <1>7, NodeStep DEF VerifierInv
<1>8. CASE Watchdog \/ HostCrash
  BY <1>0, <1>2, <1>8, CheckRequestStep, AcknowledgeStep, RebootHostStep, WatchdogStep
  DEF Watchdog, VerifierInv
<1>9. QED
  BY <1>3, <1>4, <1>5, <1>6, <1>7, <1>8 DEF Others

-----------------------------------------------------------------------------
(* What holds throughout, with a cache that is up to date *)

\* The initial state, in which the cluster is healthy.
LEMMA FreshInit == Init => FreshInv
<1> SUFFICES ASSUME Init PROVE FreshInv
  OBVIOUS
<1>1. IsolationInv
  BY EmptyFields DEF Init, IsolationInv, At, Cleared, Marked
<1>2. RebootInv
  BY EmptyFields DEF Init, RebootInv, Touched, Reopening
<1>3. VerifierInv
  BY EmptyFields DEF Init, VerifierInv, Reopening
<1>4. QED
  BY <1>1, <1>2, <1>3, InvInit DEF FreshInv

\* Every step keeps FreshInv too.
LEMMA FreshStep ==
    ASSUME "lose" \notin Interference, Lag = FALSE
    PROVE  FreshInv /\ [Next]_vars => FreshInv'
<1> SUFFICES ASSUME FreshInv, [Next]_vars PROVE FreshInv'
  OBVIOUS
<1>1. Inv /\ Inv'
  BY InvStep DEF FreshInv
<1>2. CASE Operator \/ AbandonPass \/ Others
  BY <1>1, <1>2, IsolationStep, RebootStep, VerifierStep, Zenon DEF FreshInv, Inv
<1>3. CASE UNCHANGED vars
  <2>1. IsolationInv'
    BY <1>3 DEF vars, api, hist, FreshInv, IsolationInv, At
  <2>2. RebootInv'
    BY <1>3 DEF vars, api, hist, FreshInv, RebootInv, Touched
  <2>3. VerifierInv'
    BY <1>3 DEF vars, api, hist, FreshInv, VerifierInv, Verifier, At
  <2>4. QED
    BY <1>1, <2>1, <2>2, <2>3 DEF FreshInv
<1>4. QED
  BY <1>2, <1>3, NextCases DEF LoseState

\* With a cache that is up to date and a ConfigMap that nobody deletes, FreshInv is
\* an invariant.
THEOREM FreshInvariant ==
    ASSUME "lose" \notin Interference, Lag = FALSE
    PROVE  Spec => []FreshInv
BY FreshInit, FreshStep, PTL DEF Spec

\* One reboot for one incident: rebootOnce does not serve a request again, and
\* ensureIsolation does not repeat one whose acknowledgement is gone.
THEOREM RebootsOnce ==
    ASSUME "lose" \notin Interference, Lag = FALSE
    PROVE  Spec => []OneRebootPerIncident
<1>1. FreshInv => OneRebootPerIncident
  BY DEF FreshInv, Inv, TypeOK, RebootInv, OneRebootPerIncident
<1>2. QED
  BY <1>1, FreshInvariant, PTL

\* setHealthy takes the taint away only after a verification that has passed, in a
\* new boot.
THEOREM UntaintsVerified ==
    ASSUME "lose" \notin Interference
    PROVE  Spec => UntaintedOnlyVerified
<1>1. CASE Lag = FALSE
  <2>1. FreshInv =>
          [At("healthy") /\ node.taint /\ ~node'.taint =>
             /\ st.phase = "Verifying" /\ st.passed
             /\ Lag \/ \A c \in Cells : proved[Verifier(c)] > st.preBoot]_vars
    BY DEF FreshInv, Inv, ControlInv, TaintInv, VerifierInv, At
  <2>2. QED
    BY <1>1, <2>1, FreshInvariant, PTL DEF UntaintedOnlyVerified
<1>2. CASE Lag = TRUE
  <2>1. Inv =>
          [At("healthy") /\ node.taint /\ ~node'.taint =>
             /\ st.phase = "Verifying" /\ st.passed
             /\ Lag \/ \A c \in Cells : proved[Verifier(c)] > st.preBoot]_vars
    BY <1>2 DEF Inv, ControlInv, TaintInv, At
  <2>2. QED
    BY <2>1, Invariant, PTL DEF UntaintedOnlyVerified
<1>3. QED
  BY <1>1, <1>2, IncidentAssumption, Zenon

\* Reconcile leaves ManualRepair for nothing but another request of the
\* administrator, whatever the raw fault, the verifiers or the timers do.
THEOREM ManualFinal ==
    ASSUME "lose" \notin Interference
    PROVE  Spec => ManualRepairIsFinal
<1>1. ASSUME Inv, [Next]_vars, st.phase = "ManualRepair", st'.phase # "ManualRepair"
      PROVE  /\ At("reenter") /\ op.node.request \notin {0, st.manual}
             /\ st'.phase = "Isolated" /\ st'.inc = op.node.request
  BY <1>1, OnlyOperatorTurns, OperatorTurns, EmptyFields, Zenon DEF Inv
<1>2. CASE Lag = TRUE
  <2>1. Inv /\ [Next]_vars =>
          [st.phase = "ManualRepair" /\ st'.phase # "ManualRepair" =>
             /\ st'.phase = "Isolated" /\ st'.inc = op.node.request /\ st'.inc # st.manual
             /\ Lag \/ st'.inc > st.inc]_vars
    BY <1>1, <1>2
  <2>2. QED
    BY <2>1, Invariant, PTL DEF Spec, ManualRepairIsFinal
<1>3. CASE Lag = FALSE
  <2>1. FreshInv /\ [Next]_vars =>
          [st.phase = "ManualRepair" /\ st'.phase # "ManualRepair" =>
             /\ st'.phase = "Isolated" /\ st'.inc = op.node.request /\ st'.inc # st.manual
             /\ Lag \/ st'.inc > st.inc]_vars
    <3>1. FreshInv /\ At("reenter") /\ op.node.request \notin {0, st.manual} =>
             op.node.request > st.inc
      BY <1>3 DEF FreshInv, Inv, IsolationInv, RequestInv, At
    <3>2. QED
      BY <1>1, <3>1 DEF FreshInv
  <2>2. QED
    BY <1>3, <2>1, FreshInvariant, PTL DEF Spec, ManualRepairIsFinal
<1>4. QED
  BY <1>2, <1>3, IncidentAssumption, Zenon

\* ensureVerifierResources finds a verifier that it did not expect only where a pass
\* was cut short between creating one and saving the phase Verifying.
THEOREM RefusedForCause ==
    ASSUME "lose" \notin Interference, Lag = FALSE
    PROVE  Spec => VerifiersRefusedForCause
<1>1. FreshInv /\ [Next]_vars =>
        [At("verifiers") /\ st.preInventory /\ st'.phase = "ManualRepair" => abandoned > 0]_vars
  <2> SUFFICES ASSUME FreshInv, [Next]_vars, At("verifiers"), st.preInventory,
                      st'.phase = "ManualRepair"
               PROVE  abandoned > 0
    BY DEF vars
  <2>1. /\ TypeOK /\ ControlInv /\ VerifierInv /\ abandoned \in Nat
        /\ st.phase \in {"Rebooting", "Verifying"} /\ op.todo \subseteq Cells
    <3>1. TypeOK /\ ControlInv /\ VerifierInv
      BY Zenon DEF FreshInv, Inv
    <3>2. abandoned \in 0..MaxAbandoned /\ op.todo \subseteq Cells
      BY <3>1, Zenon DEF TypeOK, Pass
    <3>3. QED
      BY <3>1, <3>2 DEF ControlInv
  <2>2. Operator
    BY <2>1, OnlyOperatorTurns
  <2>3. CASE VerifiersRefused
    <3>1. PICK c \in op.todo : Verifier(c) \in seen
      BY <2>1, <2>3, VerifiersRefusedStep, Zenon
    <3>2. st.phase = "Rebooting"
      BY <2>1, <2>3, VerifiersRefusedStep
    <3>3. c \in Cells /\ st.phase \in Reopening
      BY <2>1, <3>1, <3>2 DEF Reopening
    <3>4. abandoned # 0
      BY <2>1, <3>1, <3>3 DEF VerifierInv
    <3>5. QED
      BY <2>1, <3>4
  <2>4. CASE VerifiersCreated
    BY <2>1, <2>4, VerifiersCreatedStep DEF MovesTo
  <2>5. CASE \E c \in Cells : CreateVerifier(c)
    BY <2>1, <2>5, CreateVerifierStep
  <2>6. QED
    BY <2>1, <2>2, <2>3, <2>4, <2>5, AtVerifiers, Zenon
<1>2. QED
  BY <1>1, FreshInvariant, PTL DEF Spec, VerifiersRefusedForCause
=============================================================================
