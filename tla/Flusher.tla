------------------------------- MODULE Flusher -------------------------------
(***************************************************************************)
(* The checkpoint-flusher of one worker (checkpoint-flusher/server.go) and *)
(* its clients, the ranks of the jobs on that worker (client.py,           *)
(* lifecycle.py).  A client saves or restores an object in a transaction:  *)
(* it creates one, a request of its own moves the bytes through a ring     *)
(* file, and the transaction is deleted.  The server keeps transactions,   *)
(* the active transaction of every rank, and the job that owns the run.    *)
(*                                                                         *)
(* What happens inside a ring is module Ring, what the store does module   *)
(* Store; here a stream is empty, whole or cut, and an upload succeeds or  *)
(* fails.  The container is not restarted when it dies (RestartPolicy      *)
(* Never), so its maps live as long as the Pod.                            *)
(***************************************************************************)
EXTENDS Integers, FiniteSets

CONSTANTS
    Clients,    \* ranks of jobs on this worker
    JobOf,      \* [client -> Slurm job ID]; all jobs use the same run
    Signalled,  \* clients whose job is sent USR1
    Ids,        \* transaction identifiers in use at one time
    None,
    Faults,     \* kinds of fault that can happen
    MaxFaults   \* bound: faults in a behaviour

ASSUME FlusherAssumption ==
    /\ JobOf \in [Clients -> Nat \ {0}] /\ None \notin Clients /\ None \notin Ids
    /\ Signalled \subseteq Clients /\ MaxFaults \in Nat

VARIABLES
    proc,      \* the process of a client: where it is, what it does, in which transaction
    life,      \* its CheckpointLifecycle: requested, due; and signalled, below
    txn,       \* server.transactions: the rank a transaction belongs to
    active,    \* server.active
    owner,     \* server.runOwners, for the one run; 0 for none
    dir,       \* staging directories under /dev/shm
    removing,  \* directories a deleteTransaction is about to remove
    req,       \* the PUT or GET of a transaction
    flow,      \* the ring of a transaction
    stored,    \* clients that have a checkpoint in the store
    hurt,      \* clients that have died or lost an answer
    faults

server == <<txn, active, owner, dir, removing>>
vars   == <<proc, life, server, req, flow, stored, hurt, faults>>

NoTxn == [pc |-> "down", op |-> "put", id |-> None, ok |-> FALSE]
NoReq == [pc |-> "none", by |-> None, op |-> "put"]

Init ==
    /\ proc = [c \in Clients |-> NoTxn]
    /\ life = [c \in Clients |-> [requested |-> FALSE, due |-> FALSE, signalled |-> FALSE]]
    /\ txn = [i \in Ids |-> None] /\ active = [c \in Clients |-> None]
    /\ owner = 0 /\ dir = {} /\ removing = {}
    /\ req = [i \in Ids |-> NoReq]
    /\ flow = [i \in Ids |-> "empty"]
    /\ stored = {} /\ hurt = {}
    /\ faults = 0

Fault(kind) == /\ kind \in Faults /\ faults < MaxFaults
               /\ faults' = faults + 1

At(c, point)  == proc[c].pc = point
Goes(c, point) == proc' = [proc EXCEPT ![c].pc = point]

\* The client is done with transaction i: nobody waits for its answer any more.
Leaves(i) ==
    IF i # None /\ req[i].pc \in {"ok", "error"}
    THEN req' = [req EXCEPT ![i] = NoReq] /\ flow' = [flow EXCEPT ![i] = "empty"]
    ELSE UNCHANGED <<req, flow>>

-----------------------------------------------------------------------------
(* lifecycle.py *)

\* slurmd starts the process, for the first time or after a requeue.
Launch(c) ==
    /\ At(c, "down") /\ proc' = [proc EXCEPT ![c] = [NoTxn EXCEPT !.pc = "start"]]
    /\ life' = [life EXCEPT ![c] = [requested |-> FALSE, due |-> FALSE, signalled |-> FALSE]]
    /\ UNCHANGED <<server, req, flow, stored, hurt, faults>>

\* restore_or_initialize: restore what is committed, or save step zero.
RestoreOrInitialize(c) ==
    /\ At(c, "start")
    /\ proc' = [proc EXCEPT ![c].pc = "want",
                            ![c].op = IF c \in stored THEN "get" ELSE "put"]
    /\ UNCHANGED <<life, server, req, flow, stored, hurt, faults>>

\* Variant with a fault: only a request counts, not the interval.
CheckpointIfRequested(c) ==
    /\ At(c, "run") /\ life[c].requested
    /\ proc' = [proc EXCEPT ![c].pc = "want", ![c].op = "put"]
    /\ UNCHANGED <<life, server, req, flow, stored, hurt, faults>>

\* checkpoint_if_due, up to the call of save.
CheckpointIfDue(c) ==
    /\ At(c, "run") /\ (life[c].requested \/ life[c].due)
    /\ proc' = [proc EXCEPT ![c].pc = "want", ![c].op = "put"]
    /\ UNCHANGED <<life, server, req, flow, stored, hurt, faults>>

\* _signal: USR1 arrives, at any time.  signalled until a save has stored its
\* objects after it.
Signal(c) ==
    /\ c \in Signalled
    /\ ~At(c, "down") /\ ~(life[c].requested /\ life[c].signalled)
    /\ life' = [life EXCEPT ![c].requested = TRUE, ![c].signalled = TRUE]
    /\ UNCHANGED <<proc, server, req, flow, stored, hurt, faults>>

\* interval_seconds pass.  Only the application's loop sees it.
Elapse(c) ==
    /\ At(c, "run") /\ ~life[c].due
    /\ life' = [life EXCEPT ![c].due = TRUE]
    /\ UNCHANGED <<proc, server, req, flow, stored, hurt, faults>>

\* The process dies; its sockets close.
Crash(c) ==
    /\ ~At(c, "down") /\ Fault("crash")
    /\ proc' = [proc EXCEPT ![c] = NoTxn]
    /\ hurt' = hurt \cup {c}
    /\ Leaves(proc[c].id)
    /\ UNCHANGED <<life, server, stored>>

-----------------------------------------------------------------------------
(* Transactions *)

\* Variant with a fault: the process is left where nothing goes on.
RaisedForGood(c) == [proc EXCEPT ![c].pc = "raised", ![c].id = None, ![c].ok = FALSE]

\* Save or restore has raised: the application catches it and tries again later,
\* before its main loop if it has nothing to start from yet.
Raised(c) == [proc EXCEPT ![c].pc = IF proc[c].op = "put" /\ c \in stored THEN "run" ELSE "start",
                          ![c].id = None, ![c].ok = FALSE]

FreeIds == {i \in Ids : /\ txn[i] = None /\ i \notin dir
                        /\ req[i] = NoReq
                        /\ \A c \in Clients : proc[c].id # i}

\* createTransaction: refused while the rank has an active one.  The client then
\* sends the PUT or GET from another thread.  When the answer to the POST is
\* lost, create_transaction raises outside the try that would clean up.
CreateTransaction(c) ==
    /\ At(c, "want")
    /\ IF active[c] # None
       THEN /\ proc' = Raised(c)
            /\ UNCHANGED <<server, req, flow, hurt, faults>>
       ELSE LET i == CHOOSE i \in FreeIds : TRUE IN
              /\ FreeIds # {}
              /\ txn' = [txn EXCEPT ![i] = c] /\ active' = [active EXCEPT ![c] = i]
              /\ dir' = dir \cup {i}
              /\ flow' = [flow EXCEPT ![i] = "empty"]
              /\ \/ /\ proc' = [proc EXCEPT ![c].pc = "stream", ![c].id = i]
                    /\ req' = [req EXCEPT ![i] = [pc |-> "sent", by |-> c, op |-> proc[c].op]]
                    /\ UNCHANGED <<hurt, faults>>
                 \/ /\ Fault("lost") /\ hurt' = hurt \cup {c}
                    /\ proc' = Raised(c) /\ UNCHANGED req
              /\ UNCHANGED <<owner, removing>>
    /\ UNCHANGED <<life, stored>>

\* The DELETE in _cleanup; its errors are ignored.  deleteTransaction forgets the
\* transaction under the lock and removes the directory after it.
DeleteTransaction(c) ==
    LET i == proc[c].id IN
    /\ At(c, "clean") /\ Goes(c, "deleting")
    /\ \/ /\ txn[i] = c
          /\ txn' = [txn EXCEPT ![i] = None] /\ active' = [active EXCEPT ![c] = None]
          /\ removing' = removing \cup {i}
          /\ UNCHANGED <<hurt, faults>>
       \/ /\ Fault("lost") /\ hurt' = hurt \cup {c}
          /\ UNCHANGED <<txn, active, removing>>
    /\ UNCHANGED <<life, owner, dir, req, flow, stored>>

\* Variant with a fault: the directory stays.
RemoveNothing(i) ==
    /\ i \in removing
    /\ removing' = removing \ {i}
    /\ UNCHANGED <<dir, proc, life, txn, active, owner, req, flow, stored, hurt, faults>>

RemoveAll(i) ==
    /\ i \in removing
    /\ dir' = dir \ {i} /\ removing' = removing \ {i}
    /\ UNCHANGED <<proc, life, txn, active, owner, req, flow, stored, hurt, faults>>

\* The operation returns.  After a save, checkpoint_if_due clears the request
\* and sets the next time, whatever has arrived in between.
Return(c) ==
    LET p == proc[c] IN
    /\ At(c, "deleting") /\ p.id \notin removing
    /\ IF p.ok
       THEN /\ proc' = [proc EXCEPT ![c].pc = "run", ![c].id = None, ![c].ok = FALSE]
            /\ life' = IF p.op = "put"
                       THEN [life EXCEPT ![c].requested = FALSE, ![c].due = FALSE] ELSE life
       ELSE proc' = Raised(c) /\ UNCHANGED life
    /\ Leaves(p.id)
    /\ UNCHANGED <<server, stored, hurt, faults>>

-----------------------------------------------------------------------------
(* handleChunk *)

Serving(i, point) == req[i].pc = point
Stage(i, point)   == req' = [req EXCEPT ![i].pc = point] /\ UNCHANGED flow

\* The answer, and how the handler leaves the ring it closes.
Answer(i, point, end) ==
    IF proc[req[i].by].id = i
    THEN req' = [req EXCEPT ![i].pc = point] /\ flow' = [flow EXCEPT ![i] = end]
    ELSE req' = [req EXCEPT ![i] = NoReq] /\ flow' = [flow EXCEPT ![i] = "empty"]

\* Variant with a fault: the last job to ask owns the run.
HandleClaimLast(i) ==
    LET c == req[i].by IN
    /\ Serving(i, "sent") /\ owner' = JobOf[c]
    /\ IF txn[i] = c THEN Stage(i, "found") ELSE Answer(i, "error", flow[i])
    /\ UNCHANGED <<proc, life, txn, active, dir, removing, stored, hurt, faults>>

\* claimRun, then transactionStream.
HandleClaim(i) ==
    LET c == req[i].by IN
    /\ Serving(i, "sent")
    /\ IF owner \notin {0, JobOf[c]}
       THEN Answer(i, "error", flow[i]) /\ UNCHANGED owner
       ELSE /\ owner' = JobOf[c]
            /\ IF txn[i] = c THEN Stage(i, "found") ELSE Answer(i, "error", flow[i])
    /\ UNCHANGED <<proc, life, txn, active, dir, removing, stored, hurt, faults>>

\* A GET needs a committed checkpoint; both open the ring file.
HandleOpen(i) ==
    /\ Serving(i, "found")
    /\ IF i \in dir /\ (req[i].op = "get" => req[i].by \in stored)
       THEN Stage(i, "open") ELSE Answer(i, "error", flow[i])
    /\ UNCHANGED <<proc, life, server, stored, hurt, faults>>

\* upload: everything the client wrote reaches the store.
HandlePut(i) ==
    LET c == req[i].by IN
    /\ Serving(i, "open") /\ req[i].op = "put" /\ flow[i] = "whole"
    /\ Answer(i, "ok", "whole")
    /\ stored' = stored \cup {c}
    /\ life' = [life EXCEPT ![c].signalled = FALSE]
    /\ UNCHANGED <<proc, server, hurt, faults>>

\* restore: the object reaches the ring and its digest is right.
HandleGet(i) ==
    /\ Serving(i, "open") /\ req[i].op = "get"
    /\ Answer(i, "ok", "whole")
    /\ UNCHANGED <<proc, life, server, stored, hurt, faults>>

\* The request fails and its end of the ring is closed: the stream was cut, the
\* client's socket is closed, or the store does not do what it is asked in time.
\* A GET may have streamed everything before it sees a wrong digest.
HandleFail(i) ==
    /\ req[i].pc \in {"sent", "found", "open"}
    /\ \/ /\ flow[i] = "cut" \/ proc[req[i].by].id # i
          /\ UNCHANGED faults
       \/ Serving(i, "open") /\ Fault("store")
    /\ \E end \in IF req[i].op = "get" THEN {"cut", "whole"} ELSE {"cut"} :
         Answer(i, "error", end)
    /\ UNCHANGED <<proc, life, server, stored, hurt>>

-----------------------------------------------------------------------------
(* The client's end of the stream *)

\* Variants with a fault: the result is not looked at; a failure is raised at
\* once.
CleansAsDone(c, ok)  == proc' = [proc EXCEPT ![c].pc = "clean", ![c].ok = TRUE]
CleansOnlyIf(c, ok) ==
    proc' = IF ok THEN [proc EXCEPT ![c].pc = "clean", ![c].ok = ok] ELSE Raised(c)

Cleans(c, ok) == proc' = [proc EXCEPT ![c].pc = "clean", ![c].ok = ok]

\* upload writes all of the data: the ring has room for it, or is being read.
ClientWrite(c) ==
    LET i == proc[c].id IN
    /\ At(c, "stream") /\ proc[c].op = "put" /\ flow[i] = "empty"
    /\ Goes(c, "wait") /\ flow' = [flow EXCEPT ![i] = "whole"]
    /\ UNCHANGED <<life, server, req, stored, hurt, faults>>

\* restore has read all of the data.
ClientRead(c) ==
    /\ At(c, "stream") /\ proc[c].op = "get" /\ flow[proc[c].id] = "whole"
    /\ Goes(c, "wait")
    /\ UNCHANGED <<life, server, req, flow, stored, hurt, faults>>

\* The ring is closed at the other end, or nobody moved it for 120 seconds.
ClientGivesUp(c) ==
    LET i == proc[c].id IN
    /\ At(c, "stream")
    /\ \/ (flow[i] = "cut" \/ Serving(i, "error")) /\ UNCHANGED faults
       \/ Fault("slow")
    /\ Cleans(c, FALSE)
    /\ flow' = [flow EXCEPT ![i] = "cut"]
    /\ UNCHANGED <<life, server, req, stored, hurt>>

\* request.result: the answer, or none in 125 seconds.
ClientResult(c) ==
    LET i == proc[c].id IN
    /\ At(c, "wait")
    /\ \/ req[i].pc \in {"ok", "error"} /\ Cleans(c, Serving(i, "ok")) /\ UNCHANGED faults
       \/ Fault("slow") /\ Cleans(c, FALSE)
    /\ UNCHANGED <<life, server, req, flow, stored, hurt>>

-----------------------------------------------------------------------------
Work(c) == \/ RestoreOrInitialize(c) \/ CheckpointIfDue(c) \/ CreateTransaction(c)
           \/ ClientWrite(c) \/ ClientRead(c) \/ ClientGivesUp(c) \/ ClientResult(c)
           \/ DeleteTransaction(c) \/ Return(c)

Serve(i) == \/ HandleClaim(i) \/ HandleOpen(i) \/ HandlePut(i) \/ HandleGet(i)
            \/ HandleFail(i) \/ RemoveAll(i)

Next == \/ \E c \in Clients : Launch(c) \/ Work(c) \/ Signal(c) \/ Elapse(c) \/ Crash(c)
        \/ \E i \in Ids : Serve(i)

Spec == Init /\ [][Next]_vars

\* A live process goes on, the server serves, and time passes.
FairSpec == /\ Spec
            /\ \A c \in Clients : WF_vars(Work(c)) /\ WF_vars(Elapse(c))
            /\ \A i \in Ids : WF_vars(Serve(i))

-----------------------------------------------------------------------------
(* Properties *)

Processes == [pc : {"down", "start", "run", "want", "stream", "wait", "clean", "deleting"},
              op : {"put", "get"}, id : Ids \cup {None}, ok : BOOLEAN]
Lives     == [requested : BOOLEAN, due : BOOLEAN, signalled : BOOLEAN]
Requests  == [pc : {"none", "sent", "found", "open", "ok", "error"},
              by : Clients \cup {None}, op : {"put", "get"}]

\* Type correctness.
TypeOK ==
    /\ proc \in [Clients -> Processes] /\ life \in [Clients -> Lives]
    /\ txn \in [Ids -> Clients \cup {None}] /\ active \in [Clients -> Ids \cup {None}]
    /\ owner \in {0} \cup {JobOf[c] : c \in Clients}
    /\ dir \subseteq Ids /\ removing \subseteq Ids
    /\ req \in [Ids -> Requests] /\ flow \in [Ids -> {"empty", "whole", "cut"}]
    /\ stored \subseteq Clients /\ hurt \subseteq Clients
    /\ faults \in 0..MaxFaults

\* The two maps of the server agree, so a rank never has two transactions, and
\* no directory stays behind: each belongs to a transaction or is about to be
\* removed by the request that deleted it.
StagingOwned ==
    /\ \A c \in Clients, i \in Ids : active[c] = i <=> txn[i] = c
    /\ \A i \in Ids : i \in dir <=> (txn[i] # None \/ i \in removing)

\* Only the first job of a run is served: a request that got past claimRun is of
\* the owning job, for the whole life of the server.
OwnerServed ==
    \A i \in Ids : req[i].pc \in {"found", "open", "ok"} => owner = JobOf[req[i].by]

\* A save or restore returns normally only if its own request was answered with
\* success and the whole stream went through, though an earlier request of the
\* same rank on which the client gave up may still be served.
SuccessAnswered ==
    \A c \in Clients : proc[c].ok =>
        /\ req[proc[c].id] = [pc |-> "ok", by |-> c, op |-> proc[c].op]
        /\ flow[proc[c].id] = "whole" /\ c \in stored

\* A transaction is active and no process will delete it.
Stranded(c) == active[c] # None /\ proc[c].id # active[c]

\* Timeouts and store errors alone never leave a transaction behind: only a
\* process that died or an answer that got lost does.
StrandedForCause == \A c \in Clients : Stranded(c) => c \in hurt

\* A USR1 is followed by a save that stores its objects, even one that arrives
\* when checkpoint_if_due is about to clear the request, unless the rank dies,
\* is locked out, or its job does not own the run.
SignalHonoured ==
    \A c \in Signalled : life[c].signalled ~>
        (~life[c].signalled \/ At(c, "down") \/ Stranded(c) \/ owner \notin {0, JobOf[c]})

-----------------------------------------------------------------------------
(* Inductive invariants *)

\* A client that streams, waits or cleans up is in a transaction of its own, and
\* the request of that transaction is its own.
ClientInv ==
    \A c \in Clients : LET p == proc[c] IN
        /\ p.id # None <=> p.pc \in {"stream", "wait", "clean", "deleting"}
        /\ p.id # None => req[p.id].pc # "none" /\ req[p.id].by = c /\ req[p.id].op = p.op
        /\ p.ok => p.pc \in {"clean", "deleting"}

\* Requests come from clients.  One that gets through has moved the whole stream
\* of a client that is in the store, unless the client has turned away.
RequestInv ==
    \A i \in Ids : LET r == req[i] IN
        /\ r.pc # "none" => r.by \in Clients
        /\ r.pc \in {"open", "ok"} /\ r.op = "get" => r.by \in stored
        /\ r.pc = "ok" => r.by \in stored
        /\ r.pc = "ok" /\ proc[r.by].id = i /\ proc[r.by].pc = "wait" => flow[i] = "whole"

\* Who is not hurt keeps its transaction until it has deleted it, and an identifier
\* is not taken again while its old directory is being removed.
TransactionInv ==
    /\ \A c \in Clients : c \notin hurt =>
         active[c] = IF proc[c].pc = "deleting" THEN None ELSE proc[c].id
    /\ \A i \in removing : txn[i] = None

FlusherInv == /\ TypeOK /\ ClientInv /\ RequestInv /\ TransactionInv
              /\ StagingOwned /\ OwnerServed /\ SuccessAnswered
=============================================================================
