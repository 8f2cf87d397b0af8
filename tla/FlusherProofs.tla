---------------------------- MODULE FlusherProofs ----------------------------
(***************************************************************************)
(* Transactions of the checkpoint-flusher are kept apart, for any number   *)
(* of clients, jobs, transactions and faults: proofs about module Flusher. *)
(***************************************************************************)
EXTENDS Flusher, TLAPS

-----------------------------------------------------------------------------
(* Records *)

\* The parts of the type invariant that speak of records.
LEMMA Records ==
    TypeOK => /\ proc \in [Clients -> Processes] /\ req \in [Ids -> Requests]
              /\ life \in [Clients -> Lives] /\ flow \in [Ids -> {"empty", "whole", "cut"}]
              /\ txn \in [Ids -> Clients \cup {None}] /\ active \in [Clients -> Ids \cup {None}]
BY DEF TypeOK

\* The empty records are well typed.
LEMMA EmptyRecords == NoTxn \in Processes /\ NoReq \in Requests
BY DEF NoTxn, NoReq, Processes, Requests

Points == {"down", "start", "run", "want", "stream", "wait", "clean", "deleting"}

\* One field of a process at a time.
LEMMA OneField ==
    ASSUME NEW p \in Processes
    PROVE  /\ \A point \in Points : [p EXCEPT !.pc = point] \in Processes
           /\ \A op \in {"put", "get"} : [p EXCEPT !.op = op] \in Processes
           /\ \A i \in Ids \cup {None} : [p EXCEPT !.id = i] \in Processes
           /\ \A ok \in BOOLEAN : [p EXCEPT !.ok = ok] \in Processes
<1>1. \A point \in Points : [p EXCEPT !.pc = point] \in Processes
  BY DEF Processes, Points
<1>2. \A op \in {"put", "get"} : [p EXCEPT !.op = op] \in Processes
  BY DEF Processes
<1>3. \A i \in Ids \cup {None} : [p EXCEPT !.id = i] \in Processes
  BY DEF Processes
<1>4. \A ok \in BOOLEAN : [p EXCEPT !.ok = ok] \in Processes
  BY DEF Processes
<1> QED BY <1>1, <1>2, <1>3, <1>4

\* Several fields of the process of one client.
LEMMA ManyFields ==
    ASSUME TypeOK, NEW c \in Clients, NEW point \in Points
    PROVE  /\ \A op \in {"put", "get"} :
                [proc EXCEPT ![c].pc = point, ![c].op = op] \in [Clients -> Processes]
           /\ \A i \in Ids \cup {None} :
                [proc EXCEPT ![c].pc = point, ![c].id = i] \in [Clients -> Processes]
           /\ [proc EXCEPT ![c].pc = point, ![c].id = None, ![c].ok = FALSE]
                \in [Clients -> Processes]
<1>0. proc \in [Clients -> Processes] /\ [proc[c] EXCEPT !.pc = point] \in Processes
  BY Records, OneField, Zenon
<1>1. ASSUME NEW op \in {"put", "get"}
      PROVE  [proc EXCEPT ![c].pc = point, ![c].op = op] \in [Clients -> Processes]
  <2>1. [[proc[c] EXCEPT !.pc = point] EXCEPT !.op = op] \in Processes
    BY <1>0, OneField, Zenon
  <2> QED BY <1>0, <2>1
<1>2. ASSUME NEW i \in Ids \cup {None}
      PROVE  [proc EXCEPT ![c].pc = point, ![c].id = i] \in [Clients -> Processes]
  <2>1. [[proc[c] EXCEPT !.pc = point] EXCEPT !.id = i] \in Processes
    BY <1>0, OneField, Zenon
  <2> QED BY <1>0, <2>1
<1>3. [proc EXCEPT ![c].pc = point, ![c].id = None, ![c].ok = FALSE] \in [Clients -> Processes]
  <2>1. [[proc[c] EXCEPT !.pc = point] EXCEPT !.id = None] \in Processes
    BY <1>0, OneField, Zenon
  <2>2. [[[proc[c] EXCEPT !.pc = point] EXCEPT !.id = None] EXCEPT !.ok = FALSE] \in Processes
    BY <2>1, OneField, Zenon
  <2> QED BY <1>0, <2>2
<1> QED BY <1>1, <1>2, <1>3, Zenon

\* A client that only moves on.
LEMMA Moves ==
    ASSUME TypeOK, NEW c \in Clients, NEW point \in Points,
           proc' = [proc EXCEPT ![c].pc = point]
    PROVE  /\ proc' \in [Clients -> Processes]
           /\ proc'[c].pc = point /\ proc'[c].id = proc[c].id /\ proc'[c].ok = proc[c].ok
           /\ proc'[c].op = proc[c].op
           /\ \A d \in Clients \ {c} : proc'[d] = proc[d]
BY Records DEF Processes, Points

\* A client that is done with its stream.
LEMMA MovesToClean ==
    ASSUME TypeOK, NEW c \in Clients, NEW ok \in BOOLEAN, Cleans(c, ok)
    PROVE  /\ proc' \in [Clients -> Processes]
           /\ proc'[c].pc = "clean" /\ proc'[c].id = proc[c].id /\ proc'[c].ok = ok
           /\ proc'[c].op = proc[c].op
           /\ \A d \in Clients \ {c} : proc'[d] = proc[d]
BY Records, Zenon DEF Processes, Cleans

\* An operation that has raised.
LEMMA MovesToRaised ==
    ASSUME TypeOK, NEW c \in Clients, proc' = Raised(c)
    PROVE  /\ proc' \in [Clients -> Processes]
           /\ proc'[c].pc \in {"run", "start"} /\ proc'[c].id = None /\ ~proc'[c].ok
           /\ \A d \in Clients \ {c} : proc'[d] = proc[d]
<1>1. PICK point \in {"run", "start"} :
        proc' = [proc EXCEPT ![c].pc = point, ![c].id = None, ![c].ok = FALSE]
  BY Zenon DEF Raised
<1>2. point \in Points
  BY DEF Points
<1>3. proc' \in [Clients -> Processes]
  <2> DEFINE f == [proc EXCEPT ![c].pc = point, ![c].id = None, ![c].ok = FALSE]
  <2>1. f \in [Clients -> Processes]
    BY <1>2, ManyFields, Zenon
  <2>2. proc' = f
    BY <1>1
  <2> HIDE DEF f
  <2> QED BY <2>1, <2>2
<1>4. proc \in [Clients -> Processes]
  BY Records
<1>5. /\ proc'[c].pc = point /\ proc'[c].id = None /\ ~proc'[c].ok
      /\ \A d \in Clients \ {c} : proc'[d] = proc[d]
  BY <1>1, <1>4 DEF Processes
<1> QED BY <1>1, <1>3, <1>5

\* Leaving a transaction whose request is answered.
LEMMA Left ==
    ASSUME TypeOK, NEW i \in Ids \cup {None}, Leaves(i)
    PROVE  /\ req' \in [Ids -> Requests] /\ flow' \in [Ids -> {"empty", "whole", "cut"}]
           /\ \A j \in Ids : \/ req'[j] = req[j] /\ flow'[j] = flow[j]
                             \/ j = i /\ req'[j] = NoReq
BY Records, EmptyRecords DEF Leaves

\* A handler that goes on, or answers.
LEMMA Staged ==
    ASSUME TypeOK, NEW i \in Ids, NEW point \in {"sent", "found", "open", "ok", "error"},
           Stage(i, point)
    PROVE  /\ req' \in [Ids -> Requests] /\ flow' = flow
           /\ req'[i].pc = point /\ req'[i].by = req[i].by /\ req'[i].op = req[i].op
           /\ \A j \in Ids \ {i} : req'[j] = req[j]
BY Records DEF Stage, Requests

\* The answer reaches the client, or nobody waits for it.
LEMMA Answers ==
    ASSUME TypeOK, NEW i \in Ids, NEW point \in {"ok", "error"},
           NEW end \in {"empty", "whole", "cut"}, Answer(i, point, end)
    PROVE  /\ req' \in [Ids -> Requests] /\ flow' \in [Ids -> {"empty", "whole", "cut"}]
           /\ \A j \in Ids \ {i} : req'[j] = req[j] /\ flow'[j] = flow[j]
           /\ \/ /\ proc[req[i].by].id = i /\ flow'[i] = end
                 /\ req'[i].pc = point /\ req'[i].by = req[i].by /\ req'[i].op = req[i].op
              \/ proc[req[i].by].id # i /\ req'[i] = NoReq
<1>1. CASE proc[req[i].by].id = i
  <2>1. req' = [req EXCEPT ![i].pc = point] /\ flow' = [flow EXCEPT ![i] = end]
    BY <1>1 DEF Answer
  <2>2. /\ req' \in [Ids -> Requests]
        /\ req'[i].pc = point /\ req'[i].by = req[i].by /\ req'[i].op = req[i].op
        /\ \A j \in Ids \ {i} : req'[j] = req[j]
    BY <2>1, Records DEF Requests
  <2>3. /\ flow' \in [Ids -> {"empty", "whole", "cut"}] /\ flow'[i] = end
        /\ \A j \in Ids \ {i} : flow'[j] = flow[j]
    BY <2>1, Records
  <2> QED BY <1>1, <2>2, <2>3
<1>2. CASE proc[req[i].by].id # i
  BY <1>2, Records, EmptyRecords DEF Answer
<1> QED BY <1>1, <1>2

-----------------------------------------------------------------------------
(* Types *)

\* The initial state is well typed.
LEMMA TypeInit == Init => TypeOK
<1>1. 0 \in 0..MaxFaults
  BY FlusherAssumption
<1>2. [requested |-> FALSE, due |-> FALSE, signalled |-> FALSE] \in Lives
  BY DEF Lives
<1> QED BY <1>1, <1>2, EmptyRecords DEF Init, TypeOK

\* Faults are counted.
LEMMA FaultType == ASSUME TypeOK, NEW kind, Fault(kind) PROVE faults' \in 0..MaxFaults
BY FlusherAssumption DEF Fault, TypeOK

\* A free identifier is chosen.
LEMMA FreeId ==
    ASSUME FreeIds # {} PROVE (CHOOSE i \in FreeIds : TRUE) \in FreeIds
OBVIOUS

\* What createTransaction does when it accepts, with the identifier it takes.
LEMMA Created ==
    ASSUME TypeOK, NEW c \in Clients, CreateTransaction(c), active[c] = None
    PROVE  \E i \in FreeIds :
             /\ txn' = [txn EXCEPT ![i] = c] /\ active' = [active EXCEPT ![c] = i]
             /\ dir' = dir \cup {i} /\ flow' = [flow EXCEPT ![i] = "empty"]
             /\ \/ /\ proc' = [proc EXCEPT ![c].pc = "stream", ![c].id = i]
                   /\ req' = [req EXCEPT ![i] = [pc |-> "sent", by |-> c, op |-> proc[c].op]]
                   /\ UNCHANGED <<hurt, faults>>
                \/ /\ Fault("lost") /\ hurt' = hurt \cup {c}
                   /\ proc' = Raised(c) /\ UNCHANGED req
             /\ UNCHANGED <<owner, removing, life, stored>>
BY FreeId, Zenon DEF CreateTransaction

\* The steps of a client keep the types.
LEMMA TypeOfWork ==
    ASSUME TypeOK, NEW c \in Clients, Work(c),
           proc[c].pc \in {"stream", "wait", "clean", "deleting"} => proc[c].id \in Ids
    PROVE  TypeOK'
<1>1. CASE RestoreOrInitialize(c)
  <2>1. proc' \in [Clients -> Processes]
    <3>1. PICK op \in {"put", "get"} : proc' = [proc EXCEPT ![c].pc = "want", ![c].op = op]
      BY <1>1, Zenon DEF RestoreOrInitialize
    <3>2. "want" \in Points
      BY DEF Points
    <3> QED BY <3>1, <3>2, ManyFields, Zenon
  <2> QED BY <1>1, <2>1 DEF RestoreOrInitialize, TypeOK, server
<1>2. CASE CheckpointIfDue(c)
  <2>1. proc' \in [Clients -> Processes]
    BY <1>2, ManyFields, Zenon DEF CheckpointIfDue, Points
  <2> QED BY <1>2, <2>1 DEF CheckpointIfDue, TypeOK, server
<1>3. CASE CreateTransaction(c) /\ active[c] # None
  <2>1. proc' = Raised(c)
    BY <1>3 DEF CreateTransaction
  <2>2. proc' \in [Clients -> Processes]
    BY <2>1, MovesToRaised
  <2> QED BY <1>3, <2>2 DEF CreateTransaction, TypeOK, server
<1>4. CASE CreateTransaction(c) /\ active[c] = None
  <2>1. PICK i \in FreeIds :
             /\ txn' = [txn EXCEPT ![i] = c] /\ active' = [active EXCEPT ![c] = i]
             /\ dir' = dir \cup {i} /\ flow' = [flow EXCEPT ![i] = "empty"]
             /\ \/ /\ proc' = [proc EXCEPT ![c].pc = "stream", ![c].id = i]
                   /\ req' = [req EXCEPT ![i] = [pc |-> "sent", by |-> c, op |-> proc[c].op]]
                   /\ UNCHANGED <<hurt, faults>>
                \/ /\ Fault("lost") /\ hurt' = hurt \cup {c}
                   /\ proc' = Raised(c) /\ UNCHANGED req
             /\ UNCHANGED <<owner, removing, life, stored>>
    BY <1>4, Created
  <2>2. i \in Ids
    BY DEF FreeIds
  <2>3. proc' \in [Clients -> Processes]
    <3>1. CASE proc' = [proc EXCEPT ![c].pc = "stream", ![c].id = i]
      BY <2>2, <3>1, ManyFields, Zenon DEF Points
    <3> QED BY <2>1, <3>1, MovesToRaised
  <2>4. req' \in [Ids -> Requests]
    <3>1. [pc |-> "sent", by |-> c, op |-> proc[c].op] \in Requests
      BY Records DEF Processes, Requests
    <3> QED BY <2>1, <2>2, <3>1, Records
  <2>5. faults' \in 0..MaxFaults /\ hurt' \subseteq Clients
    BY <2>1, FaultType DEF TypeOK
  <2> QED BY <2>1, <2>2, <2>3, <2>4, <2>5, Zenon DEF TypeOK
<1>5. CASE ClientWrite(c)
  <2>1. proc' \in [Clients -> Processes]
    BY <1>5, Moves, Zenon DEF ClientWrite, Goes, Points
  <2> QED BY <1>5, <2>1, Zenon DEF ClientWrite, TypeOK, server
<1>6. CASE ClientRead(c)
  <2>1. proc' \in [Clients -> Processes]
    BY <1>6, Moves, Zenon DEF ClientRead, Goes, Points
  <2> QED BY <1>6, <2>1 DEF ClientRead, TypeOK, server
<1>7. CASE ClientGivesUp(c)
  <2>1. proc' \in [Clients -> Processes] /\ faults' \in 0..MaxFaults
    BY <1>7, MovesToClean, FaultType, Zenon DEF ClientGivesUp, TypeOK
  <2> QED BY <1>7, <2>1, Zenon DEF ClientGivesUp, TypeOK, server
<1>8. CASE ClientResult(c)
  <2>1. \E ok \in BOOLEAN : Cleans(c, ok)
    BY <1>8, Zenon DEF ClientResult, Serving
  <2>2. proc' \in [Clients -> Processes] /\ faults' \in 0..MaxFaults
    BY <1>8, <2>1, MovesToClean, FaultType, Zenon DEF ClientResult, TypeOK
  <2> QED BY <1>8, <2>2 DEF ClientResult, TypeOK, server
<1>9. CASE DeleteTransaction(c)
  <2>1. proc' \in [Clients -> Processes] /\ faults' \in 0..MaxFaults
    BY <1>9, Moves, FaultType, Zenon DEF DeleteTransaction, Goes, TypeOK, Points
  <2>2. proc[c].id \in Ids
    BY <1>9 DEF DeleteTransaction, At
  <2> QED BY <1>9, <2>1, <2>2 DEF DeleteTransaction, TypeOK
<1>10. CASE Return(c)
  <2>1. proc' \in [Clients -> Processes]
    <3>1. CASE proc' = [proc EXCEPT ![c].pc = "run", ![c].id = None, ![c].ok = FALSE]
      BY <3>1, ManyFields, Zenon DEF Points
    <3> QED BY <1>10, <3>1, MovesToRaised DEF Return
  <2>2. life' \in [Clients -> Lives]
    <3>1. \/ life' = life
          \/ life' = [life EXCEPT ![c].requested = FALSE, ![c].due = FALSE]
      BY <1>10, Zenon DEF Return
    <3>2. [[life[c] EXCEPT !.requested = FALSE] EXCEPT !.due = FALSE] \in Lives
      BY Records, Zenon DEF Lives
    <3> QED BY <3>1, <3>2, Records, Zenon
  <2>3. proc[c].id \in Ids \cup {None}
    BY Records DEF Processes
  <2>4. req' \in [Ids -> Requests] /\ flow' \in [Ids -> {"empty", "whole", "cut"}]
    BY <1>10, <2>3, Left DEF Return
  <2> QED BY <1>10, <2>1, <2>2, <2>4 DEF Return, TypeOK, server
<1> QED BY <1>1, <1>2, <1>3, <1>4, <1>5, <1>6, <1>7, <1>8, <1>9, <1>10 DEF Work

\* The other steps keep them too.
LEMMA TypeOfFate ==
    ASSUME TypeOK, NEW c \in Clients, Launch(c) \/ Signal(c) \/ Elapse(c) \/ Crash(c)
    PROVE  TypeOK'
<1>0. [requested |-> FALSE, due |-> FALSE, signalled |-> FALSE] \in Lives
  BY DEF Lives
<1>1. CASE Launch(c)
  <2>1. [NoTxn EXCEPT !.pc = "start"] \in Processes
    BY EmptyRecords, OneField, Zenon DEF Points
  <2> QED BY <1>0, <1>1, <2>1 DEF Launch, TypeOK, server
<1>2. CASE Signal(c)
  <2>1. [[life[c] EXCEPT !.requested = TRUE] EXCEPT !.signalled = TRUE] \in Lives
    BY Records, Zenon DEF Lives
  <2>2. life' \in [Clients -> Lives]
    BY <1>2, <2>1, Records DEF Signal
  <2> QED BY <1>2, <2>2 DEF Signal, TypeOK, server
<1>3. CASE Elapse(c)
  <2>1. life' \in [Clients -> Lives]
    BY <1>3, Records, Zenon DEF Elapse, Lives
  <2> QED BY <1>3, <2>1 DEF Elapse, TypeOK, server
<1>4. CASE Crash(c)
  <2>1. proc[c].id \in Ids \cup {None}
    BY Records DEF Processes
  <2>2. req' \in [Ids -> Requests] /\ flow' \in [Ids -> {"empty", "whole", "cut"}]
    BY <1>4, <2>1, Left DEF Crash
  <2>3. faults' \in 0..MaxFaults
    BY <1>4, FaultType DEF Crash
  <2> QED BY <1>4, <2>2, <2>3, EmptyRecords DEF Crash, TypeOK, server
<1> QED BY <1>1, <1>2, <1>3, <1>4

\* What a handler does to the request it serves: it goes on or answers, and the
\* rest of the server is left alone but for the owner.
Handles(i) ==
    /\ req[i].pc \in {"sent", "found", "open"}
    /\ UNCHANGED <<proc, txn, active, dir, removing, hurt>>
    /\ req' \in [Ids -> Requests] /\ flow' \in [Ids -> {"empty", "whole", "cut"}]
    /\ \A j \in Ids \ {i} : req'[j] = req[j] /\ flow'[j] = flow[j]
    /\ stored \subseteq stored'
    /\ owner' \in {owner, JobOf[req[i].by]} /\ owner \in {0, owner'}
    /\ \/ /\ req'[i].by = req[i].by /\ req'[i].op = req[i].op
          /\ req'[i].pc \in {"found", "open", "ok", "error"}
          /\ req'[i].pc = "found" => owner' = JobOf[req[i].by]
          /\ req'[i].pc \in {"open", "ok"} => req[i].pc \in {"found", "open"}
          /\ req'[i].pc \in {"open", "ok"} /\ req[i].op = "get" =>
               req[i].pc = "open" \/ req[i].by \in stored
          /\ req'[i].pc = "ok" => req[i].pc = "open" /\ flow'[i] = "whole"
          /\ req'[i].pc = "ok" /\ req[i].op = "put" => req[i].by \in stored'
       \/ req'[i] = NoReq /\ proc[req[i].by].id # i

\* Every handler of a request does this, and keeps the types.
LEMMA Handled ==
    ASSUME TypeOK, RequestInv, NEW i \in Ids,
           HandleClaim(i) \/ HandleOpen(i) \/ HandlePut(i) \/ HandleGet(i) \/ HandleFail(i)
    PROVE  TypeOK' /\ Handles(i)
<1>0. flow[i] \in {"empty", "whole", "cut"} /\ req[i] \in Requests
  BY Records
<1>a. req[i].pc # "none" => req[i].by \in Clients
  BY DEF RequestInv
<1>1. CASE HandleClaim(i)
  <2>0. req[i].pc = "sent" /\ req[i].by \in Clients
    BY <1>1, <1>a DEF HandleClaim, Serving
  <2>1. \/ Stage(i, "found") /\ owner' = JobOf[req[i].by]
        \/ Answer(i, "error", flow[i])
    BY <1>1 DEF HandleClaim
  <2>2. /\ UNCHANGED <<proc, life, txn, active, dir, removing, stored, hurt, faults>>
        /\ owner' \in {owner, JobOf[req[i].by]} /\ owner \in {0, owner'}
    BY <1>1 DEF HandleClaim
  <2>3. TypeOK' /\ req' \in [Ids -> Requests] /\ flow' \in [Ids -> {"empty", "whole", "cut"}]
    BY <1>0, <2>0, <2>1, <2>2, Staged, Answers DEF TypeOK
  <2>4. CASE Stage(i, "found") /\ owner' = JobOf[req[i].by]
    BY <2>0, <2>2, <2>3, <2>4, Staged DEF Handles
  <2>5. CASE Answer(i, "error", flow[i])
    BY <1>0, <2>0, <2>2, <2>3, <2>5, Answers DEF Handles
  <2> QED BY <2>1, <2>3, <2>4, <2>5
<1>2. CASE HandleOpen(i)
  <2>0. req[i].pc = "found" /\ req[i].by \in Clients
    BY <1>2, <1>a DEF HandleOpen, Serving
  <2>1. \/ Stage(i, "open") /\ (req[i].op = "get" => req[i].by \in stored)
        \/ Answer(i, "error", flow[i])
    BY <1>2 DEF HandleOpen
  <2>2. UNCHANGED <<proc, life, txn, active, owner, dir, removing, stored, hurt, faults>>
    BY <1>2 DEF HandleOpen, server
  <2>3. TypeOK' /\ req' \in [Ids -> Requests] /\ flow' \in [Ids -> {"empty", "whole", "cut"}]
    BY <1>0, <2>1, <2>2, Staged, Answers DEF TypeOK
  <2>4. CASE Stage(i, "open") /\ (req[i].op = "get" => req[i].by \in stored)
    BY <2>0, <2>2, <2>3, <2>4, Staged DEF Handles
  <2>5. CASE Answer(i, "error", flow[i])
    BY <1>0, <2>0, <2>2, <2>3, <2>5, Answers DEF Handles
  <2> QED BY <2>1, <2>3, <2>4, <2>5
<1>3. CASE HandlePut(i)
  <2>0. req[i].pc = "open" /\ req[i].by \in Clients
    BY <1>3, <1>a DEF HandlePut, Serving
  <2>1. Answer(i, "ok", "whole")
    BY <1>3 DEF HandlePut
  <2>2. /\ UNCHANGED <<proc, txn, active, owner, dir, removing, hurt, faults>>
        /\ stored' = stored \cup {req[i].by}
    BY <1>3 DEF HandlePut, server
  <2>3. life' \in [Clients -> Lives]
    BY <1>3, Records, Zenon DEF HandlePut, Lives
  <2>4. TypeOK' /\ req' \in [Ids -> Requests] /\ flow' \in [Ids -> {"empty", "whole", "cut"}]
    BY <2>0, <2>1, <2>2, <2>3, Answers DEF TypeOK
  <2>5. Handles(i)
    BY <2>0, <2>1, <2>2, <2>4, Answers DEF Handles
  <2> QED BY <2>4, <2>5
<1>4. CASE HandleGet(i)
  <2>0. req[i].pc = "open" /\ req[i].op = "get"
    BY <1>4 DEF HandleGet, Serving
  <2>1. Answer(i, "ok", "whole")
    BY <1>4 DEF HandleGet
  <2>2. UNCHANGED <<proc, life, txn, active, owner, dir, removing, stored, hurt, faults>>
    BY <1>4 DEF HandleGet, server
  <2>4. TypeOK' /\ req' \in [Ids -> Requests] /\ flow' \in [Ids -> {"empty", "whole", "cut"}]
    BY <2>1, <2>2, Answers DEF TypeOK
  <2>5. Handles(i)
    BY <2>0, <2>1, <2>2, <2>4, Answers DEF Handles
  <2> QED BY <2>4, <2>5
<1>5. CASE HandleFail(i)
  <2>0. req[i].pc \in {"sent", "found", "open"}
    BY <1>5 DEF HandleFail
  <2>1. PICK end \in {"cut", "whole"} : Answer(i, "error", end)
    BY <1>5 DEF HandleFail
  <2>2. UNCHANGED <<proc, life, txn, active, owner, dir, removing, stored, hurt>>
    BY <1>5 DEF HandleFail, server
  <2>3. faults' \in 0..MaxFaults
    BY <1>5, FaultType DEF HandleFail, TypeOK
  <2>4. TypeOK' /\ req' \in [Ids -> Requests] /\ flow' \in [Ids -> {"empty", "whole", "cut"}]
    BY <2>1, <2>2, <2>3, Answers DEF TypeOK
  <2>5. Handles(i)
    BY <2>0, <2>1, <2>2, <2>4, Answers DEF Handles
  <2> QED BY <2>4, <2>5
<1> QED BY <1>1, <1>2, <1>3, <1>4, <1>5

-----------------------------------------------------------------------------
(* The invariant *)

\* What the types say of the fields.
LEMMA Typed ==
    ASSUME TypeOK
    PROVE  /\ \A c \in Clients : proc[c].id \in Ids \cup {None} /\ proc[c].ok \in BOOLEAN
                                 /\ active[c] \in Ids \cup {None}
           /\ \A i \in Ids : txn[i] \in Clients \cup {None}
           /\ None \notin Ids /\ None \notin Clients
           /\ NoReq.pc = "none"
BY Records, FlusherAssumption DEF Processes, NoReq

\* The initial state.
LEMMA InvInit == Init => FlusherInv
<1> SUFFICES ASSUME Init PROVE FlusherInv
  OBVIOUS
<1>1. TypeOK
  BY TypeInit
<1>2. /\ \A c \in Clients : proc[c] = NoTxn /\ active[c] = None
      /\ \A i \in Ids : req[i] = NoReq /\ txn[i] = None
      /\ dir = {} /\ removing = {}
  BY DEF Init
<1>3. NoTxn.pc = "down" /\ NoTxn.id = None /\ NoTxn.ok = FALSE /\ NoReq.pc = "none"
  BY DEF NoTxn, NoReq
<1>4. ClientInv /\ SuccessAnswered
  BY <1>2, <1>3 DEF ClientInv, SuccessAnswered
<1>5. RequestInv /\ OwnerServed
  BY <1>2, <1>3 DEF RequestInv, OwnerServed
<1>6. TransactionInv /\ StagingOwned
  BY <1>2, <1>3, FlusherAssumption DEF TransactionInv, StagingOwned
<1> QED BY <1>1, <1>4, <1>5, <1>6 DEF FlusherInv

\* A step that touches none of it.
LEMMA Aside ==
    ASSUME FlusherInv, TypeOK', UNCHANGED <<proc, server, req, flow, stored, hurt>>
    PROVE  FlusherInv'
BY DEF FlusherInv, ClientInv, RequestInv, TransactionInv, StagingOwned, OwnerServed,
       SuccessAnswered, server

\* A client that is in no transaction afterwards.
LEMMA Away ==
    ASSUME FlusherInv, TypeOK', NEW c \in Clients,
           \A d \in Clients \ {c} : proc'[d] = proc[d],
           proc'[c].id = None, ~proc'[c].ok, proc'[c].pc \in {"down", "start", "run", "want"},
           Leaves(proc[c].id), UNCHANGED <<server, stored>>,
           hurt' \in {hurt, hurt \cup {c}}, c \notin hurt' => active[c] = None
    PROVE  FlusherInv'
<1> USE DEF FlusherInv
<1>0. /\ \A j \in Ids : \/ req'[j] = req[j] /\ flow'[j] = flow[j]
                        \/ j = proc[c].id /\ req'[j] = NoReq
  BY Typed, Left
<1>1. \A d \in Clients \ {c} : proc[d].id # None => proc[d].id # proc[c].id
  BY DEF ClientInv
<1>2. \A d \in Clients \ {c} : proc[d].id \in Ids =>
         req'[proc[d].id] = req[proc[d].id] /\ flow'[proc[d].id] = flow[proc[d].id]
  BY <1>0, <1>1, Typed
<1>3. ClientInv'
  BY <1>2, Typed DEF ClientInv
<1>4. SuccessAnswered'
  BY <1>2, Typed DEF SuccessAnswered, ClientInv
<1>5. RequestInv'
  BY <1>0, Typed DEF RequestInv, server
<1>6. OwnerServed'
  BY <1>0, Typed DEF OwnerServed, server
<1>7. TransactionInv' /\ StagingOwned'
  BY DEF TransactionInv, StagingOwned, server
<1> QED BY <1>3, <1>4, <1>5, <1>6, <1>7

\* A client that goes on in its transaction.
LEMMA Onward ==
    ASSUME FlusherInv, TypeOK', NEW c \in Clients, NEW i \in Ids, proc[c].id = i,
           \A d \in Clients \ {c} : proc'[d] = proc[d],
           proc[c].pc # "deleting", proc'[c].pc \in {"wait", "clean"},
           proc'[c].id = proc[c].id, proc'[c].op = proc[c].op,
           UNCHANGED <<server, req, stored, hurt>>,
           \A j \in Ids \ {i} : flow'[j] = flow[j],
           proc'[c].pc = "wait" /\ req[i].pc = "ok" => flow'[i] = "whole",
           proc'[c].ok => proc'[c].pc = "clean" /\ req[i].pc = "ok" /\ flow'[i] = "whole"
    PROVE  FlusherInv'
<1> USE DEF FlusherInv
<1>1. \A d \in Clients \ {c} : proc[d].id # i
  BY Typed DEF ClientInv
<1>2. ClientInv'
  BY Typed DEF ClientInv
<1>3. SuccessAnswered'
  <2>1. proc'[c].ok => /\ req[i] = [pc |-> "ok", by |-> c, op |-> proc[c].op]
                       /\ c \in stored
    <3>1. req[i].by = c /\ req[i].op = proc[c].op /\ req[i] \in Requests
      BY Records, Typed DEF ClientInv
    <3>2. req[i].pc = "ok" => req[i] = [pc |-> "ok", by |-> c, op |-> proc[c].op]
      BY <3>1 DEF Requests
    <3> QED BY <3>1, <3>2 DEF RequestInv
  <2>2. \A d \in Clients \ {c} : proc[d].ok => proc[d].id \in Ids \ {i}
    BY <1>1, Typed DEF ClientInv
  <2> QED BY <2>1, <2>2 DEF SuccessAnswered
<1>4. RequestInv'
  BY <1>1, Typed DEF RequestInv, ClientInv
<1>5. OwnerServed' /\ StagingOwned'
  BY DEF OwnerServed, StagingOwned, server
<1>6. TransactionInv'
  BY DEF TransactionInv, server
<1> QED BY <1>2, <1>3, <1>4, <1>5, <1>6

\* A handler of a request.
LEMMA Handling ==
    ASSUME FlusherInv, TypeOK', NEW i \in Ids, Handles(i)
    PROVE  FlusherInv'
<1> USE DEF FlusherInv
<1>1. req[i].by \in Clients /\ JobOf[req[i].by] # 0
  BY FlusherAssumption DEF Handles, RequestInv
<1>2. ClientInv'
  BY Typed DEF ClientInv, Handles
<1>3. SuccessAnswered'
  BY Typed DEF SuccessAnswered, ClientInv, Handles
<1>4. RequestInv'
  <2>1. \A j \in Ids \ {i} : req'[j] = req[j] /\ flow'[j] = flow[j]
    BY DEF Handles
  <2>2. proc' = proc /\ stored \subseteq stored'
    BY DEF Handles
  <2>3. LET r == req'[i] IN
          /\ r.pc # "none" => r.by \in Clients
          /\ r.pc \in {"open", "ok"} /\ r.op = "get" => r.by \in stored'
          /\ r.pc = "ok" => r.by \in stored' /\ flow'[i] = "whole"
    <3>1. CASE req'[i] = NoReq
      BY <3>1, Typed
    <3>2. CASE req'[i] # NoReq
      <4>1. /\ req'[i].by = req[i].by /\ req'[i].op = req[i].op
            /\ req'[i].pc \in {"open", "ok"} /\ req[i].op = "get" =>
                 req[i].pc = "open" \/ req[i].by \in stored
            /\ req'[i].pc = "ok" => flow'[i] = "whole"
            /\ req'[i].pc = "ok" /\ req[i].op = "put" => req[i].by \in stored'
        BY <3>2 DEF Handles
      <4>2. req[i].op \in {"put", "get"}
        BY Records DEF Requests
      <4> QED BY <1>1, <2>2, <4>1, <4>2 DEF RequestInv
    <3> QED BY <3>1, <3>2
  <2> QED BY <2>1, <2>2, <2>3 DEF RequestInv
<1>5. OwnerServed'
  BY <1>1, FlusherAssumption, Typed DEF OwnerServed, RequestInv, Handles
<1>6. TransactionInv' /\ StagingOwned'
  BY DEF TransactionInv, StagingOwned, Handles
<1> QED BY <1>2, <1>3, <1>4, <1>5, <1>6

\* createTransaction, when it accepts.
LEMMA Creating ==
    ASSUME FlusherInv, TypeOK', NEW c \in Clients, CreateTransaction(c), active[c] = None
    PROVE  FlusherInv'
<1> USE DEF FlusherInv
<1>1. PICK i \in FreeIds :
             /\ txn' = [txn EXCEPT ![i] = c] /\ active' = [active EXCEPT ![c] = i]
             /\ dir' = dir \cup {i} /\ flow' = [flow EXCEPT ![i] = "empty"]
             /\ \/ /\ proc' = [proc EXCEPT ![c].pc = "stream", ![c].id = i]
                   /\ req' = [req EXCEPT ![i] = [pc |-> "sent", by |-> c, op |-> proc[c].op]]
                   /\ UNCHANGED <<hurt, faults>>
                \/ /\ Fault("lost") /\ hurt' = hurt \cup {c}
                   /\ proc' = Raised(c) /\ UNCHANGED req
             /\ UNCHANGED <<owner, removing, life, stored>>
  BY Created
<1>2. i \in Ids /\ txn[i] = None /\ i \notin dir /\ req[i] = NoReq
      /\ \A d \in Clients : proc[d].id # i
  BY DEF FreeIds
<1>3. proc[c].pc = "want" /\ proc[c].id = None /\ ~proc[c].ok
  BY DEF CreateTransaction, At, ClientInv
<1>4. /\ \A d \in Clients \ {c} : proc'[d] = proc[d]
      /\ ~proc'[c].ok
      /\ \/ /\ proc'[c].id = i /\ proc'[c].pc = "stream" /\ proc'[c].op = proc[c].op
            /\ req'[i].pc = "sent" /\ req'[i].by = c /\ req'[i].op = proc[c].op /\ hurt' = hurt
         \/ /\ proc'[c].id = None /\ proc'[c].pc \in {"run", "start"}
            /\ req'[i] = NoReq /\ hurt' = hurt \cup {c}
  <2>1. CASE /\ proc' = [proc EXCEPT ![c].pc = "stream", ![c].id = i]
             /\ req' = [req EXCEPT ![i] = [pc |-> "sent", by |-> c, op |-> proc[c].op]]
             /\ UNCHANGED <<hurt, faults>>
    <3>1. /\ \A d \in Clients \ {c} : proc'[d] = proc[d]
          /\ proc'[c].ok = proc[c].ok
          /\ proc'[c].id = i /\ proc'[c].pc = "stream" /\ proc'[c].op = proc[c].op
      BY <2>1, Records DEF Processes
    <3> QED BY <1>2, <1>3, <2>1, <3>1, Records
  <2>2. CASE hurt' = hurt \cup {c} /\ proc' = Raised(c) /\ UNCHANGED req
    BY <1>2, <2>2, MovesToRaised
  <2> QED BY <1>1, <2>1, <2>2
<1>5. \A j \in Ids \ {i} : req'[j] = req[j] /\ flow'[j] = flow[j] /\ txn'[j] = txn[j]
  BY <1>1, <1>2, Records
<1>6. ClientInv'
  BY <1>2, <1>3, <1>4, <1>5, Typed DEF ClientInv
<1>7. SuccessAnswered'
  BY <1>1, <1>2, <1>4, <1>5, Typed DEF SuccessAnswered, ClientInv
<1>8. RequestInv'
  <2>1. /\ req'[i].pc # "none" => req'[i].by \in Clients
        /\ req'[i].pc \notin {"open", "ok"}
    BY <1>4, Typed
  <2>2. \A j \in Ids \ {i}, d \in Clients :
          proc'[d].id = j /\ proc'[d].pc = "wait" => proc[d].id = j /\ proc[d].pc = "wait"
    BY <1>4, Typed
  <2> QED BY <1>1, <1>5, <2>1, <2>2 DEF RequestInv
<1>9. OwnerServed'
  BY <1>1, <1>4, <1>5, Typed DEF OwnerServed
<1>10. TransactionInv'
  <2>1. \A d \in Clients \ {c} : active'[d] = active[d]
    BY <1>1, Records
  <2>2. active'[c] = i
    BY <1>1, Records
  <2>3. i \notin removing
    BY <1>2 DEF StagingOwned
  <2> QED BY <1>1, <1>4, <1>5, <2>1, <2>2, <2>3, Typed DEF TransactionInv
<1>11. StagingOwned'
  <2>1. /\ \A d \in Clients \ {c} : active'[d] = active[d]
        /\ active'[c] = i /\ txn'[i] = c
    BY <1>1, <1>2, Records
  <2> QED BY <1>1, <1>2, <1>5, <2>1, Typed DEF StagingOwned
<1> QED BY <1>6, <1>7, <1>8, <1>9, <1>10, <1>11

\* deleteTransaction, or its request that does not arrive.
LEMMA Deleting ==
    ASSUME FlusherInv, TypeOK', NEW c \in Clients, DeleteTransaction(c)
    PROVE  FlusherInv'
<1> USE DEF FlusherInv
<1> DEFINE i == proc[c].id
<1>1. proc[c].pc = "clean" /\ i \in Ids
  BY Typed DEF DeleteTransaction, At, ClientInv
<1>2. /\ proc'[c].pc = "deleting" /\ proc'[c].id = i /\ proc'[c].ok = proc[c].ok
      /\ proc'[c].op = proc[c].op
      /\ \A d \in Clients \ {c} : proc'[d] = proc[d]
  BY Moves, Zenon DEF DeleteTransaction, Goes, Points
<1>3. UNCHANGED <<owner, dir, req, flow, stored>>
  BY DEF DeleteTransaction
<1>4. \/ /\ txn[i] = c
         /\ txn' = [txn EXCEPT ![i] = None] /\ active' = [active EXCEPT ![c] = None]
         /\ removing' = removing \cup {i} /\ hurt' = hurt
      \/ hurt' = hurt \cup {c} /\ UNCHANGED <<txn, active, removing>>
  BY DEF DeleteTransaction
<1> HIDE DEF i
<1>5. ClientInv'
  BY <1>1, <1>2, <1>3, Typed DEF ClientInv, i
<1>6. SuccessAnswered'
  BY <1>2, <1>3 DEF SuccessAnswered, i
<1>7. RequestInv'
  BY <1>2, <1>3 DEF RequestInv
<1>8. OwnerServed'
  BY <1>3 DEF OwnerServed
<1>9. CASE /\ txn[i] = c
           /\ txn' = [txn EXCEPT ![i] = None] /\ active' = [active EXCEPT ![c] = None]
           /\ removing' = removing \cup {i} /\ hurt' = hurt
  <2>1. /\ \A d \in Clients \ {c} : active'[d] = active[d]
        /\ \A j \in Ids \ {i} : txn'[j] = txn[j]
        /\ active'[c] = None /\ txn'[i] = None
    BY <1>1, <1>9, Records
  <2>2. TransactionInv'
    BY <1>2, <1>9, <2>1, Typed DEF TransactionInv, TypeOK
  <2>3. StagingOwned'
    BY <1>1, <1>3, <1>9, <2>1, Typed DEF StagingOwned
  <2> QED BY <1>5, <1>6, <1>7, <1>8, <2>2, <2>3
<1>10. CASE hurt' = hurt \cup {c} /\ UNCHANGED <<txn, active, removing>>
  <2>1. TransactionInv' /\ StagingOwned'
    BY <1>2, <1>3, <1>10, ZenonT(60) DEF TransactionInv, StagingOwned
  <2> QED BY <1>5, <1>6, <1>7, <1>8, <2>1
<1> QED BY <1>4, <1>9, <1>10

\* RemoveAll, after deleteTransaction has let go of the lock.
LEMMA Removing ==
    ASSUME FlusherInv, NEW i \in Ids, RemoveAll(i)
    PROVE  FlusherInv'
<1> USE DEF FlusherInv, RemoveAll
<1>1. TypeOK'
  BY DEF TypeOK
<1>2. ClientInv' /\ RequestInv' /\ OwnerServed' /\ SuccessAnswered'
  BY DEF ClientInv, RequestInv, OwnerServed, SuccessAnswered
<1>3. TransactionInv' /\ StagingOwned'
  BY ZenonT(60) DEF TransactionInv, StagingOwned
<1> QED BY <1>1, <1>2, <1>3

\* The steps of a client.
LEMMA InvOfWork ==
    ASSUME FlusherInv, NEW c \in Clients, Work(c)
    PROVE  FlusherInv'
<1> USE DEF FlusherInv
<1>0. /\ proc[c].pc \in {"stream", "wait", "clean", "deleting"} => proc[c].id \in Ids
      /\ proc[c].pc \notin {"stream", "wait", "clean", "deleting"} =>
           proc[c].id = None /\ ~proc[c].ok
  BY Typed DEF ClientInv
<1>a. TypeOK'
  BY <1>0, TypeOfWork
<1>b. c \notin hurt /\ proc[c].id = None => active[c] = None
  BY Typed DEF TransactionInv
<1>1. CASE RestoreOrInitialize(c)
  <2>1. /\ proc[c].id = None /\ ~proc[c].ok /\ UNCHANGED <<server, req, flow, stored, hurt>>
    BY <1>0, <1>1 DEF RestoreOrInitialize, At
  <2>2. /\ proc'[c].id = proc[c].id /\ proc'[c].ok = proc[c].ok /\ proc'[c].pc = "want"
        /\ \A d \in Clients \ {c} : proc'[d] = proc[d]
    BY <1>1, Records DEF RestoreOrInitialize, Processes
  <2> QED BY <1>a, <1>b, <2>1, <2>2, Away DEF Leaves
<1>2. CASE CheckpointIfDue(c)
  <2>1. /\ proc[c].id = None /\ ~proc[c].ok /\ UNCHANGED <<server, req, flow, stored, hurt>>
    BY <1>0, <1>2 DEF CheckpointIfDue, At
  <2>2. /\ proc'[c].id = proc[c].id /\ proc'[c].ok = proc[c].ok /\ proc'[c].pc = "want"
        /\ \A d \in Clients \ {c} : proc'[d] = proc[d]
    BY <1>2, Records DEF CheckpointIfDue, Processes
  <2> QED BY <1>a, <1>b, <2>1, <2>2, Away DEF Leaves
<1>3. CASE CreateTransaction(c) /\ active[c] # None
  <2>1. proc[c].id = None /\ proc' = Raised(c) /\ UNCHANGED <<server, req, flow, stored, hurt>>
    BY <1>0, <1>3 DEF CreateTransaction, At
  <2> QED BY <1>a, <1>b, <2>1, MovesToRaised, Away DEF Leaves
<1>4. CASE CreateTransaction(c) /\ active[c] = None
  BY <1>a, <1>4, Creating
<1>5. CASE ClientWrite(c)
  <2> DEFINE i == proc[c].id
  <2>1. i \in Ids /\ proc[c].pc = "stream"
    BY <1>0, <1>5 DEF ClientWrite, At
  <2>2. /\ proc'[c].pc = "wait" /\ proc'[c].id = proc[c].id /\ proc'[c].ok = proc[c].ok
        /\ proc'[c].op = proc[c].op /\ \A d \in Clients \ {c} : proc'[d] = proc[d]
    BY <1>5, Moves, Zenon DEF ClientWrite, Goes, Points
  <2>3. /\ UNCHANGED <<server, req, stored, hurt>>
        /\ flow'[i] = "whole" /\ \A j \in Ids \ {i} : flow'[j] = flow[j]
    BY <1>5, <2>1, Records DEF ClientWrite
  <2>4. ~proc[c].ok
    BY <2>1 DEF ClientInv
  <2> QED BY <1>a, <2>1, <2>2, <2>3, <2>4, Onward
<1>6. CASE ClientRead(c)
  <2> DEFINE i == proc[c].id
  <2>1. i \in Ids /\ proc[c].pc = "stream"
    BY <1>0, <1>6 DEF ClientRead, At
  <2>2. /\ proc'[c].pc = "wait" /\ proc'[c].id = proc[c].id /\ proc'[c].ok = proc[c].ok
        /\ proc'[c].op = proc[c].op /\ \A d \in Clients \ {c} : proc'[d] = proc[d]
    BY <1>6, Moves, Zenon DEF ClientRead, Goes, Points
  <2>3. UNCHANGED <<server, req, flow, stored, hurt>> /\ flow[i] = "whole"
    BY <1>6 DEF ClientRead
  <2>4. ~proc[c].ok
    BY <2>1 DEF ClientInv
  <2> QED BY <1>a, <2>1, <2>2, <2>3, <2>4, Onward
<1>7. CASE ClientGivesUp(c)
  <2> DEFINE i == proc[c].id
  <2>1. i \in Ids /\ proc[c].pc = "stream"
    BY <1>0, <1>7 DEF ClientGivesUp, At
  <2>2. /\ proc'[c].pc = "clean" /\ proc'[c].id = proc[c].id /\ ~proc'[c].ok
        /\ proc'[c].op = proc[c].op /\ \A d \in Clients \ {c} : proc'[d] = proc[d]
    BY <1>7, MovesToClean, Zenon DEF ClientGivesUp
  <2>3. /\ UNCHANGED <<server, req, stored, hurt>>
        /\ \A j \in Ids \ {i} : flow'[j] = flow[j]
    BY <1>7, <2>1, Records DEF ClientGivesUp
  <2> QED BY <1>a, <2>1, <2>2, <2>3, Onward
<1>8. CASE ClientResult(c)
  <2> DEFINE i == proc[c].id
  <2>1. i \in Ids /\ proc[c].pc = "wait"
    BY <1>0, <1>8 DEF ClientResult, At
  <2>2. PICK ok \in BOOLEAN : Cleans(c, ok) /\ (ok => req[i].pc = "ok")
    BY <1>8, Zenon DEF ClientResult, Serving
  <2>3. /\ proc'[c].pc = "clean" /\ proc'[c].id = proc[c].id /\ proc'[c].ok = ok
        /\ proc'[c].op = proc[c].op /\ \A d \in Clients \ {c} : proc'[d] = proc[d]
    BY <2>2, MovesToClean
  <2>4. UNCHANGED <<server, req, flow, stored, hurt>>
    BY <1>8 DEF ClientResult
  <2>5. req[i].pc = "ok" => flow[i] = "whole"
    BY <2>1, Typed DEF RequestInv, ClientInv
  <2> QED BY <1>a, <2>1, <2>2, <2>3, <2>4, <2>5, Onward
<1>9. CASE DeleteTransaction(c)
  BY <1>a, <1>9, Deleting
<1>10. CASE Return(c)
  <2>1. /\ proc[c].pc = "deleting" /\ UNCHANGED <<server, stored, hurt>> /\ Leaves(proc[c].id)
    BY <1>10 DEF Return, At
  <2>2. /\ proc'[c].pc \in {"run", "start"} /\ proc'[c].id = None /\ ~proc'[c].ok
        /\ \A d \in Clients \ {c} : proc'[d] = proc[d]
    <3>1. CASE proc' = [proc EXCEPT ![c].pc = "run", ![c].id = None, ![c].ok = FALSE]
      BY <3>1, Records DEF Processes
    <3> QED BY <1>10, <3>1, MovesToRaised DEF Return
  <2>3. c \notin hurt => active[c] = None
    BY <2>1 DEF TransactionInv
  <2> QED BY <1>a, <2>1, <2>2, <2>3, Away
<1> QED BY <1>1, <1>2, <1>3, <1>4, <1>5, <1>6, <1>7, <1>8, <1>9, <1>10 DEF Work

\* Every step.
LEMMA InvStep ==
    ASSUME FlusherInv, [Next]_vars PROVE FlusherInv'
<1> USE DEF FlusherInv
<1>1. CASE \E c \in Clients : Launch(c)
  <2>1. PICK c \in Clients : Launch(c)
    BY <1>1
  <2>2. TypeOK'
    BY <2>1, TypeOfFate
  <2>3. proc[c].pc = "down" /\ proc[c].id = None
    BY <2>1 DEF Launch, At, ClientInv
  <2>4. /\ proc'[c].pc = "start" /\ proc'[c].id = None /\ ~proc'[c].ok
        /\ \A d \in Clients \ {c} : proc'[d] = proc[d]
    BY <2>1, Records DEF Launch, NoTxn
  <2>5. c \notin hurt => active[c] = None
    BY <2>3 DEF TransactionInv
  <2> QED BY <2>1, <2>2, <2>3, <2>4, <2>5, Away DEF Launch, Leaves
<1>2. CASE \E c \in Clients : Work(c)
  BY <1>2, InvOfWork
<1>3. CASE \E c \in Clients : Signal(c) \/ Elapse(c)
  BY <1>3, TypeOfFate, Aside DEF Signal, Elapse
<1>4. CASE \E c \in Clients : Crash(c)
  <2>1. PICK c \in Clients : Crash(c)
    BY <1>4
  <2>2. TypeOK'
    BY <2>1, TypeOfFate
  <2>3. /\ proc'[c].pc = "down" /\ proc'[c].id = None /\ ~proc'[c].ok
        /\ \A d \in Clients \ {c} : proc'[d] = proc[d]
    BY <2>1, Records DEF Crash, NoTxn
  <2> QED BY <2>1, <2>2, <2>3, Away DEF Crash
<1>5. CASE \E i \in Ids : Serve(i)
  <2>1. PICK i \in Ids : Serve(i)
    BY <1>5
  <2>2. CASE RemoveAll(i)
    BY <2>2, Removing
  <2> QED BY <2>1, <2>2, Handled, Handling DEF Serve
<1>6. CASE UNCHANGED vars
  <2>1. TypeOK'
    BY <1>6 DEF vars, server, TypeOK
  <2> QED BY <1>6, <2>1, Aside DEF vars
<1> QED BY <1>1, <1>2, <1>3, <1>4, <1>5, <1>6 DEF Next

\* The invariant holds initially and every step keeps it.
THEOREM FlusherSafety == Spec => []FlusherInv
BY InvInit, InvStep, PTL DEF Spec

-----------------------------------------------------------------------------
(* What it gives *)

\* Type correctness.
THEOREM FlusherTypes == Spec => []TypeOK
<1>1. FlusherInv => TypeOK
  BY DEF FlusherInv
<1> QED BY <1>1, FlusherSafety, PTL

\* server.transactions and server.active agree for any number of ranks, and every
\* staging directory belongs to a transaction or is being removed.
THEOREM Staging == Spec => []StagingOwned
<1>1. FlusherInv => StagingOwned
  BY DEF FlusherInv
<1> QED BY <1>1, FlusherSafety, PTL

\* claimRun serves one job only, for the whole life of the server.
THEOREM OneOwner == Spec => []OwnerServed
<1>1. FlusherInv => OwnerServed
  BY DEF FlusherInv
<1> QED BY <1>1, FlusherSafety, PTL

\* A save or restore that returns normally was answered with success.
THEOREM Answered == Spec => []SuccessAnswered
<1>1. FlusherInv => SuccessAnswered
  BY DEF FlusherInv
<1> QED BY <1>1, FlusherSafety, PTL

\* However many timeouts and store errors there are, only a rank that died or lost
\* an answer leaves a transaction behind.
THEOREM Strandings == Spec => []StrandedForCause
<1>1. FlusherInv => StrandedForCause
  BY DEF FlusherInv, TransactionInv, StrandedForCause, Stranded
<1> QED BY <1>1, FlusherSafety, PTL
=============================================================================
