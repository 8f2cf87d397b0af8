-------------------------------- MODULE Store --------------------------------
(***************************************************************************)
(* Checkpoints in the object store (checkpoint-flusher/store.go).  A save  *)
(* is one attempt of a job to make the objects of one step durable: every  *)
(* rank uploads its objects through its own flusher, and the flusher of    *)
(* rank zero verifies them and writes the manifest and then the commit     *)
(* marker.  A loader asks for the newest committed step and reads it back. *)
(*                                                                         *)
(* Several attempts can be under way: a job that is requeued saves again   *)
(* while requests of its previous incarnation are still being served.      *)
(* Every attempt has its own bytes and its own manifest (created_at), so   *)
(* the digest of a manifest identifies the attempt.  A step of the model   *)
(* is one effect on the store; reads of objects that cannot change any     *)
(* more are part of the step that uses them.                               *)
(***************************************************************************)
EXTENDS Integers, FiniteSets

CONSTANTS
    Steps,       \* global steps
    Paths,       \* objects of a checkpoint: shards, RNG states, optimizer state
    Optimizer,   \* the path of the optimizer metadata
    Attempts,    \* saves
    Persistent,  \* attempts of which liveness is asked: they go on until told
    Bytes,       \* [attempt -> [path -> what it wants to store]]
    Expectations,    \* for every kind of loader, the attempts compatible with it
    ManifestJSON,    \* the name of the manifest of a step
    None,
    Damaged,     \* bytes that no attempt wrote
    MaxFaults    \* bound: failed calls, and objects the store loses or damages

ASSUME StoreAssumption ==
    /\ Steps \subseteq Nat /\ IsFiniteSet(Steps)
    /\ Optimizer \in Paths /\ ManifestJSON \notin Paths
    /\ Expectations \subseteq SUBSET Attempts
    /\ Persistent \subseteq Attempts /\ None \notin Attempts
    /\ \A a \in Attempts : Bytes[a] \in [Paths -> Nat]
    /\ None \notin Nat /\ Damaged \notin Nat /\ Damaged # None
    /\ MaxFaults \in Nat

VARIABLES
    obj,       \* store: the objects of every step
    man,       \* store: manifest.json of every step, by the attempt that wrote it
    mark,      \* store: the .complete marker, by the manifest digest in it
    damaged,   \* objects the store has lost or changed on its own
    save,      \* every attempt: its step, how far it is, its receipts
    put,       \* the upload requests whose StatObject found nothing
    com,       \* the commit request of every attempt
    ld,        \* the loader
    faults

store == <<obj, man, mark>>
vars  == <<store, damaged, save, put, com, ld, faults>>

Init ==
    /\ obj = [s \in Steps |-> [p \in Paths |-> None]]
    /\ man = [s \in Steps |-> None] /\ mark = [s \in Steps |-> None]
    /\ damaged = {}
    /\ save = [a \in Attempts |-> [pc |-> "idle", step |-> None, receipts |-> {}]]
    /\ put = [a \in Attempts |-> {}]
    /\ com = [a \in Attempts |-> [pc |-> "none", todo |-> {}]]
    /\ ld = [pc |-> "idle", listed |-> {}, todo |-> {}, ok |-> {}, skipped |-> FALSE,
             step |-> None, got |-> [p \in Paths |-> None]]
    /\ faults = 0

Fault == faults < MaxFaults /\ faults' = faults + 1

Saving(a) == save[a].pc = "saving"
StepOf(a) == save[a].step

-----------------------------------------------------------------------------
(* A save *)

\* The application starts to save step s.
BeginSave(a, s) ==
    /\ save[a].pc = "idle"
    /\ save' = [save EXCEPT ![a].pc = "saving", ![a].step = s]
    /\ UNCHANGED <<store, damaged, put, com, ld, faults>>

\* The application dies, or gives the save up.  A request the flusher is
\* working on ends with it, after whatever it has already done.
Abandon(a) ==
    /\ Saving(a)
    /\ save' = [save EXCEPT ![a].pc = "gone"]
    /\ put' = [put EXCEPT ![a] = {}]
    /\ com' = [com EXCEPT ![a] = [pc |-> "none", todo |-> {}]]
    /\ UNCHANGED <<store, damaged, ld, faults>>

Receipt(a, p) == save' = [save EXCEPT ![a].receipts = @ \cup {p}]

\* Variant with a fault: whatever exists is taken for the caller's.
CompareNothing(a, p, digest) == Receipt(a, p)

\* compareExistingHash: what is stored against the digest of what was read from
\* the source.  A mismatch is an error and the application may try again.
CompareExistingHash(a, p, digest) ==
    IF obj[StepOf(a)][p] = digest THEN Receipt(a, p) ELSE UNCHANGED save

\* upload: an object that exists is compared with all of the source; one that
\* does not is put.
UploadStat(a, p) ==
    /\ Saving(a) /\ p \notin save[a].receipts /\ p \notin put[a]
    /\ IF obj[StepOf(a)][p] # None
       THEN CompareExistingHash(a, p, Bytes[a][p]) /\ UNCHANGED put
       ELSE put' = [put EXCEPT ![a] = @ \cup {p}] /\ UNCHANGED save
    /\ UNCHANGED <<store, damaged, com, ld, faults>>

Answered(a, p) == put' = [put EXCEPT ![a] = @ \ {p}]

\* upload, the conditional PUT of a new object.
UploadPut(a, p) ==
    /\ p \in put[a] /\ obj[StepOf(a)][p] = None
    /\ Answered(a, p) /\ Receipt(a, p)
    /\ obj' = [obj EXCEPT ![StepOf(a)][p] = Bytes[a][p]]
    /\ UNCHANGED <<man, mark, damaged, com, ld, faults>>

\* upload, If-None-Match fails.  The store may answer before it has read the
\* body; what is left of the source is then drained past the hash, and the
\* digest is the digest of a part.
UploadPrecondition(a, p) ==
    /\ p \in put[a] /\ obj[StepOf(a)][p] # None
    /\ Answered(a, p)
    /\ \E digest \in {Bytes[a][p], None} : CompareExistingHash(a, p, digest)
    /\ UNCHANGED <<store, damaged, com, ld, faults>>

\* upload, the PUT fails, before or after it took effect.
UploadFail(a, p) ==
    /\ p \in put[a] /\ Fault /\ Answered(a, p)
    /\ \/ UNCHANGED obj
       \/ /\ obj[StepOf(a)][p] = None
          /\ obj' = [obj EXCEPT ![StepOf(a)][p] = Bytes[a][p]]
    /\ UNCHANGED <<man, mark, damaged, save, com, ld>>

-----------------------------------------------------------------------------
(* commit *)

Committing(a, point) == com[a].pc = point
CommitGoes(a, point) == com' = [com EXCEPT ![a].pc = point]

\* Variant with a fault: the request is left in a state of its own.
RejectedForGood(a) == com' = [com EXCEPT ![a].pc = "rejected"]

\* An error: the request ends, and rank zero may ask again.
Rejected(a) == com' = [com EXCEPT ![a] = [pc |-> "none", todo |-> {}]]

\* The coordinator submits its manifest.  Nothing but the verification below
\* makes sure that all ranks have uploaded.
BeginCommit(a) ==
    /\ Saving(a) /\ Committing(a, "none")
    /\ com' = [com EXCEPT ![a] = [pc |-> "optimizer", todo |-> Paths]]
    /\ UNCHANGED <<store, damaged, save, put, ld, faults>>

\* readArtifact and DecodeOptimizerState: bytes other than the attempt's own may
\* or may not decode.
ReadOptimizer(a) ==
    /\ Committing(a, "optimizer")
    /\ \/ obj[StepOf(a)][Optimizer] # None /\ CommitGoes(a, "verify")
       \/ obj[StepOf(a)][Optimizer] # Bytes[a][Optimizer] /\ Rejected(a)
    /\ UNCHANGED <<store, damaged, save, put, ld, faults>>

\* Variant with a fault: it is enough that the object exists.
MatchesPresent(a, p) == obj[StepOf(a)][p] # None

\* verifyObject.
Matches(a, p) == obj[StepOf(a)][p] = Bytes[a][p]

CommitVerify(a) ==
    /\ Committing(a, "verify") /\ com[a].todo # {}
    /\ \E p \in com[a].todo :
         IF Matches(a, p) THEN com' = [com EXCEPT ![a].todo = @ \ {p}] ELSE Rejected(a)
    /\ UNCHANGED <<store, damaged, save, put, ld, faults>>

\* Variant with a fault: a manifest that exists is a conflict, whosever it is.
CommitManifestOnce(a) ==
    LET s == StepOf(a) IN
    /\ Committing(a, "verify") /\ com[a].todo = {}
    /\ IF man[s] = None
       THEN man' = [man EXCEPT ![s] = a] /\ CommitGoes(a, "marker")
       ELSE Rejected(a) /\ UNCHANGED man
    /\ UNCHANGED <<obj, mark, damaged, save, put, ld, faults>>

\* putImmutable for the manifest: it exists, or it is put with If-None-Match.
CommitManifest(a) ==
    LET s == StepOf(a) IN
    /\ Committing(a, "verify") /\ com[a].todo = {}
    /\ IF man[s] = None
       THEN man' = [man EXCEPT ![s] = a] /\ CommitGoes(a, "marker")
       ELSE /\ IF man[s] = a THEN CommitGoes(a, "marker") ELSE Rejected(a)
            /\ UNCHANGED man
    /\ UNCHANGED <<obj, mark, damaged, save, put, ld, faults>>

\* putImmutableMarker: committed_at differs in every request, so a marker that
\* exists never has the same bytes; it is read back, and only the digest of the
\* manifest in it counts.
CommitMarker(a) ==
    LET s == StepOf(a) IN
    /\ Committing(a, "marker")
    /\ mark' = [mark EXCEPT ![s] = IF @ = None THEN a ELSE @]
    /\ IF mark'[s] = a
       THEN save' = [save EXCEPT ![a].pc = "committed"] ELSE UNCHANGED save
    /\ Rejected(a)
    /\ UNCHANGED <<obj, man, damaged, put, ld, faults>>

\* Variant with a fault: the error of the marker's PUT is dropped.
CommitFailIgnored(a) ==
    /\ Committing(a, "marker") /\ Fault /\ Rejected(a)
    /\ save' = [save EXCEPT ![a].pc = "committed"]
    /\ UNCHANGED <<store, damaged, put, ld>>

\* A call of the request fails, a PUT before or after it took effect.  For the
\* marker the answer is lost and so is the read that would have settled it.
CommitFail(a) ==
    LET s == StepOf(a) IN
    /\ ~Committing(a, "none") /\ Fault /\ Rejected(a)
    /\ \/ UNCHANGED store
       \/ /\ Committing(a, "verify") /\ com[a].todo = {} /\ man[s] = None
          /\ man' = [man EXCEPT ![s] = a] /\ UNCHANGED <<obj, mark>>
       \/ /\ Committing(a, "marker") /\ mark[s] = None
          /\ mark' = [mark EXCEPT ![s] = a] /\ UNCHANGED <<obj, man>>
    /\ UNCHANGED <<damaged, save, put, ld>>

-----------------------------------------------------------------------------
(* latest and restore *)

\* A loader asks.  ListObjects: the steps that have a marker.
LatestList ==
    LET listed == {s \in Steps : mark[s] # None} IN
    /\ ld.pc = "idle"
    /\ \E ok \in Expectations :
         ld' = [ld EXCEPT !.pc = "scan", !.listed = listed, !.todo = listed, !.ok = ok]
    /\ UNCHANGED <<store, damaged, save, put, com, faults>>

\* loadCommitted: the marker names the manifest that is stored.
LoadCommitted(s) == mark[s] # None /\ man[s] = mark[s]

\* verifyObject for every object of the manifest of step s.
Intact(s) == \A p \in Paths : obj[s][p] = Bytes[man[s]][p]

\* Variant with a fault: the lowest step first.
Oldest(s) == s \in ld.todo /\ \A t \in ld.todo : t >= s

\* latest, one turn of its loop: the highest step that is left.
Newest(s) == s \in ld.todo /\ \A t \in ld.todo : t <= s

LatestTry ==
    /\ ld.pc = "scan"
    /\ \E s \in Steps :
         /\ Newest(s)
         /\ IF LoadCommitted(s) /\ man[s] \in ld.ok /\ Intact(s)
            THEN ld' = [ld EXCEPT !.pc = "found", !.step = s]
            ELSE ld' = [ld EXCEPT !.todo = @ \ {s}]
    /\ UNCHANGED <<store, damaged, save, put, com, faults>>

\* latest: a call that fails is taken for a checkpoint that is not valid.
LatestSkip ==
    /\ ld.pc = "scan" /\ Fault
    /\ \E s \in Steps :
         /\ Newest(s)
         /\ ld' = [ld EXCEPT !.todo = @ \ {s}, !.skipped = TRUE]
    /\ UNCHANGED <<store, damaged, save, put, com>>

\* "no compatible committed checkpoint".
LatestNone ==
    /\ ld.pc = "scan" /\ ld.todo = {}
    /\ ld' = [ld EXCEPT !.pc = "none"]
    /\ UNCHANGED <<store, damaged, save, put, com, faults>>

\* Variant with a fault: the digest of the stream is not compared.
RestoreUnchecked(p) ==
    LET s == ld.step IN
    /\ ld.pc = "found" /\ ld.got[p] = None
    /\ LoadCommitted(s) /\ obj[s][p] # None
    /\ ld' = [ld EXCEPT !.got[p] = obj[s][p]]
    /\ UNCHANGED <<store, damaged, save, put, com, faults>>

\* restore, one object: the digest of what was streamed must be the manifest's.
Restore(p) ==
    LET s == ld.step IN
    /\ ld.pc = "found" /\ ld.got[p] = None
    /\ LoadCommitted(s) /\ obj[s][p] = Bytes[man[s]][p]
    /\ ld' = [ld EXCEPT !.got[p] = obj[s][p]]
    /\ UNCHANGED <<store, damaged, save, put, com, faults>>

\* The application is told that the restore failed and starts over.
RestoreFail(p) ==
    LET s == ld.step IN
    /\ ld.pc = "found" /\ ld.got[p] = None
    /\ \/ Fault
       \/ /\ ~(LoadCommitted(s) /\ obj[s][p] = Bytes[man[s]][p])
          /\ UNCHANGED faults
    /\ ld' = [ld EXCEPT !.pc = "idle", !.step = None, !.ok = {},
                        !.skipped = FALSE, !.got = [q \in Paths |-> None]]
    /\ UNCHANGED <<store, damaged, save, put, com>>

-----------------------------------------------------------------------------
\* The store loses an object or a manifest, or the bytes of an object change.
Damage(s, p) ==
    /\ Fault
    /\ \/ /\ p \in Paths /\ obj[s][p] \notin {None, Damaged}
          /\ \E v \in {None, Damaged} : obj' = [obj EXCEPT ![s][p] = v]
          /\ UNCHANGED man
       \/ /\ p = ManifestJSON /\ man[s] # None
          /\ man' = [man EXCEPT ![s] = None]
          /\ UNCHANGED obj
    /\ damaged' = damaged \cup {<<s, p>>}
    /\ UNCHANGED <<mark, save, put, com, ld>>

Upload(a, p) == \/ UploadStat(a, p) \/ UploadPut(a, p) \/ UploadPrecondition(a, p)

Commit(a) == \/ BeginCommit(a) \/ ReadOptimizer(a) \/ CommitVerify(a)
             \/ CommitManifest(a) \/ CommitMarker(a)

Load == \/ LatestList \/ LatestTry \/ LatestSkip \/ LatestNone
        \/ \E p \in Paths : Restore(p) \/ RestoreFail(p)

Next == \/ \E a \in Attempts : \/ \E s \in Steps : BeginSave(a, s)
                               \/ Abandon(a) \/ Commit(a) \/ CommitFail(a)
                               \/ \E p \in Paths : Upload(a, p) \/ UploadFail(a, p)
        \/ Load
        \/ \E s \in Steps, p \in Paths \cup {ManifestJSON} : Damage(s, p)

Spec == Init /\ [][Next]_vars

\* A live application goes on uploading every object and asking for the commit.
FairSpec == /\ Spec
            /\ \A a \in Persistent : /\ WF_vars(Commit(a))
                                   /\ \A p \in Paths : WF_vars(Upload(a, p))

-----------------------------------------------------------------------------
(* Properties *)

Contents  == [Paths -> Nat \cup {None, Damaged}]
Saves     == [pc : {"idle", "saving", "committed", "gone"}, step : Steps \cup {None},
              receipts : SUBSET Paths]
Requests  == [pc : {"none", "optimizer", "verify", "marker"}, todo : SUBSET Paths]
Loaders   == [pc : {"idle", "scan", "found", "none"}, listed : SUBSET Steps,
              todo : SUBSET Steps, ok : SUBSET Attempts, skipped : BOOLEAN,
              step : Steps \cup {None}, got : [Paths -> Nat \cup {None}]]
Locations == Steps \X (Paths \cup {ManifestJSON})

\* Type correctness.
TypeOK ==
    /\ obj \in [Steps -> Contents]
    /\ man \in [Steps -> Attempts \cup {None}] /\ mark \in [Steps -> Attempts \cup {None}]
    /\ damaged \subseteq Locations
    /\ save \in [Attempts -> Saves] /\ put \in [Attempts -> SUBSET Paths]
    /\ com \in [Attempts -> Requests] /\ ld \in Loaders
    /\ faults \in Nat

Harmed(s, p) == <<s, p>> \in damaged

\* A receipt that upload returned is true: the store holds the bytes of the
\* caller, also when another attempt, or a request that was given up, wrote them.
ReceiptsTrue ==
    \A a \in Attempts : \A p \in save[a].receipts :
        Matches(a, p) \/ Harmed(StepOf(a), p)

\* "If any required rank or shard is unavailable, no marker is written": a
\* marker that is visible names a manifest that is stored, and every object of
\* that manifest is stored with the bytes the manifest promises, however many
\* attempts wrote to the step and wherever they died.
CommittedComplete ==
    \A s \in Steps : mark[s] # None =>
        /\ man[s] = mark[s] \/ Harmed(s, ManifestJSON)
        /\ \A p \in Paths : obj[s][p] = Bytes[mark[s]][p] \/ Harmed(s, p)

\* "A different hash for the same step is a conflict": commit returns success to
\* an attempt only if the marker of the step is the attempt's.
AcknowledgedIsCommitted ==
    \A a \in Attempts : save[a].pc = "committed" => mark[StepOf(a)] = a

\* "It does promise not to restore a partial or corrupt save": all that a loader
\* has been given comes from the one manifest the marker names, although every
\* object is fetched by a request of its own and the store may damage it at any
\* time.
RestoredIsCommitted ==
    \A p \in Paths : ld.got[p] # None => ld.got[p] = Bytes[mark[ld.step]][p]

\* latest returns the newest step that was committed when it was asked: what it
\* passes over is incompatible or damaged, or a call failed.
NewestIsFound ==
    ld.pc \in {"found", "none"} /\ ~ld.skipped =>
        \A s \in ld.listed : (ld.pc = "none" \/ s > ld.step) =>
            mark[s] \notin ld.ok \/ \E p \in Paths \cup {ManifestJSON} : Harmed(s, p)

\* Somebody else's bytes or manifest are at the step, or the store has done harm.
Blocked(a) ==
    LET s == StepOf(a) IN
    \/ man[s] \notin {None, a} \/ mark[s] \notin {None, a}
    \/ \E p \in Paths : obj[s][p] \notin {None, Bytes[a][p]}
    \/ \E p \in Paths \cup {ManifestJSON} : Harmed(s, p)

\* A save that is not given up ends with its commit, in spite of failed calls,
\* lost answers and requests of its own that were cut short, unless the step
\* holds something else.
SaveCommits ==
    \A a \in Persistent : Saving(a) ~> (~Saving(a) \/ Blocked(a))

-----------------------------------------------------------------------------
(* Inductive invariants *)

\* Commit requests are those of attempts that are saving, and an attempt has a
\* step as soon as it does anything.
RequestsInv ==
    \A a \in Attempts :
        /\ save[a].pc # "idle" => StepOf(a) \in Steps
        /\ save[a].pc = "idle" => save[a].receipts = {} /\ put[a] = {}
        /\ com[a].pc # "none" => Saving(a)

\* Why a marker can be trusted.  The bytes of an object are written once and stay
\* unless the store harms them; a commit gets to the manifest with every object
\* verified, and to the marker with its own manifest in the store.
CommitInv ==
    \A a \in Attempts :
        /\ com[a].pc = "optimizer" => com[a].todo = Paths
        /\ com[a].pc = "verify" => \A p \in Paths \ com[a].todo :
                                      Matches(a, p) \/ Harmed(StepOf(a), p)
        /\ com[a].pc = "marker" =>
             /\ \A p \in Paths : Matches(a, p) \/ Harmed(StepOf(a), p)
             /\ man[StepOf(a)] = a \/ Harmed(StepOf(a), ManifestJSON)

\* What latest has passed over without a failed call.
Unusable(s) == mark[s] \notin ld.ok \/ \E p \in Paths \cup {ManifestJSON} : Harmed(s, p)

\* The loader: what is listed is committed, and what is no longer to be tried and
\* was not found is of no use.
LoaderInv ==
    /\ \A s \in ld.listed : mark[s] # None
    /\ ld.todo \subseteq ld.listed
    /\ ~ld.skipped => \A s \in ld.listed \ ld.todo : Unusable(s)
    /\ ld.pc = "found" => ld.step \in ld.todo /\ \A s \in ld.todo : s <= ld.step
    /\ ld.pc = "none" => ld.todo = {}
    /\ ld.pc # "found" => \A p \in Paths : ld.got[p] = None

StoreInv == /\ TypeOK /\ RequestsInv /\ ReceiptsTrue /\ CommitInv /\ CommittedComplete
            /\ AcknowledgedIsCommitted /\ LoaderInv /\ RestoredIsCommitted
=============================================================================
