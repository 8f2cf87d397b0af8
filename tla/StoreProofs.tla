----------------------------- MODULE StoreProofs -----------------------------
(***************************************************************************)
(* Checkpoints are committed whole and restored whole, for every set of    *)
(* steps, objects and attempts and any number of faults: proofs about      *)
(* module Store.                                                           *)
(***************************************************************************)
EXTENDS Store, TLAPS

-----------------------------------------------------------------------------
(* Types *)

\* The initial state is well typed.
LEMMA TypeInit == Init => TypeOK
BY StoreAssumption DEF Init, TypeOK, Contents, Saves, Requests, Loaders, Locations

\* The parts of the type invariant that speak of records.
LEMMA Records ==
    TypeOK => /\ save \in [Attempts -> Saves] /\ com \in [Attempts -> Requests]
              /\ ld \in Loaders /\ obj \in [Steps -> Contents]
BY DEF TypeOK

\* Every upload action preserves the types.
LEMMA TypeUpload ==
    ASSUME TypeOK, NEW a \in Attempts, NEW p \in Paths, Upload(a, p) \/ UploadFail(a, p)
    PROVE  TypeOK'
<1>1. CASE UploadStat(a, p)
  <2>1. save' \in [Attempts -> Saves]
    BY <1>1, Records DEF UploadStat, CompareExistingHash, Receipt, Saves
  <2> QED BY <1>1, <2>1 DEF UploadStat, TypeOK, store
<1>2. CASE UploadPut(a, p)
  <2>1. save' \in [Attempts -> Saves]
    BY <1>2, Records DEF UploadPut, Receipt, Saves
  <2>2. Bytes[a][p] \in Nat /\ obj' = [obj EXCEPT ![StepOf(a)][p] = Bytes[a][p]]
    BY <1>2, StoreAssumption DEF UploadPut
  <2>3. obj' \in [Steps -> Contents]
    BY <2>2, Records, ZenonT(60) DEF Contents
  <2> QED BY <1>2, <2>1, <2>3, ZenonT(60) DEF UploadPut, Answered, TypeOK
<1>3. CASE UploadPrecondition(a, p)
  <2>1. save' \in [Attempts -> Saves]
    BY <1>3, Records, SMTT(60) DEF UploadPrecondition, CompareExistingHash, Receipt, Saves
  <2> QED BY <1>3, <2>1, ZenonT(60) DEF UploadPrecondition, Answered, TypeOK, store
<1>4. CASE UploadFail(a, p)
  <2>1. obj' \in [Steps -> Contents]
    BY <1>4, Records, StoreAssumption DEF UploadFail, Contents
  <2> QED BY <1>4, <2>1 DEF UploadFail, Answered, Fault, TypeOK
<1> QED BY <1>1, <1>2, <1>3, <1>4 DEF Upload

\* Every action of the application and of its commit request does.
LEMMA TypeSave ==
    ASSUME TypeOK, NEW a \in Attempts,
           (\E s \in Steps : BeginSave(a, s)) \/ Abandon(a) \/ Commit(a) \/ CommitFail(a)
    PROVE  TypeOK'
<1>1. CASE \E s \in Steps : BeginSave(a, s)
  <2>1. save' \in [Attempts -> Saves]
    BY <1>1, Records, ZenonT(60) DEF BeginSave, Saves
  <2> QED BY <1>1, <2>1, ZenonT(60) DEF BeginSave, TypeOK, store
<1>2. CASE Abandon(a)
  <2>1. save' \in [Attempts -> Saves]
    BY <1>2, Records, SMTT(60) DEF Abandon, Saves
  <2>2. com' \in [Attempts -> Requests]
    BY <1>2, Records DEF Abandon, Requests
  <2> QED BY <1>2, <2>1, <2>2 DEF Abandon, TypeOK, store
<1>3. CASE BeginCommit(a)
  <2>1. com' \in [Attempts -> Requests]
    BY <1>3, Records DEF BeginCommit, Requests
  <2> QED BY <1>3, <2>1 DEF BeginCommit, TypeOK, store
<1>4. CASE ReadOptimizer(a)
  <2>1. com' \in [Attempts -> Requests]
    BY <1>4, Records DEF ReadOptimizer, CommitGoes, Rejected, Requests
  <2> QED BY <1>4, <2>1 DEF ReadOptimizer, TypeOK, store
<1>5. CASE CommitVerify(a)
  <2>1. com' \in [Attempts -> Requests]
    BY <1>5, Records DEF CommitVerify, Rejected, Requests
  <2> QED BY <1>5, <2>1 DEF CommitVerify, TypeOK, store
<1>6. CASE CommitManifest(a)
  <2>1. com' \in [Attempts -> Requests]
    BY <1>6, Records DEF CommitManifest, CommitGoes, Rejected, Requests
  <2> QED BY <1>6, <2>1 DEF CommitManifest, TypeOK
<1>7. CASE CommitMarker(a)
  <2>1. save' \in [Attempts -> Saves]
    BY <1>7, Records, SMTT(60) DEF CommitMarker, Saves
  <2>2. com' \in [Attempts -> Requests]
    BY <1>7, Records DEF CommitMarker, Rejected, Requests
  <2> QED BY <1>7, <2>1, <2>2, ZenonT(60) DEF CommitMarker, TypeOK
<1>8. CASE CommitFail(a)
  <2>1. com' \in [Attempts -> Requests]
    BY <1>8, Records DEF CommitFail, Rejected, Requests
  <2> QED BY <1>8, <2>1 DEF CommitFail, Fault, TypeOK, store
<1> QED BY <1>1, <1>2, <1>3, <1>4, <1>5, <1>6, <1>7, <1>8 DEF Commit

\* And so do the loader and the faults of the store.
LEMMA TypeLoad ==
    ASSUME TypeOK, ld.pc = "found" => ld.step \in Steps, Load
    PROVE  TypeOK'
<1>1. CASE LatestList
  <2> DEFINE listed == {s \in Steps : mark[s] # None}
  <2>1. PICK ok \in Expectations :
          ld' = [ld EXCEPT !.pc = "scan", !.listed = listed, !.todo = listed, !.ok = ok]
    BY <1>1, ZenonT(60) DEF LatestList
  <2>2. listed \in SUBSET Steps /\ ok \in SUBSET Attempts
    BY StoreAssumption
  <2> HIDE DEF listed
  <2>3. ld' \in Loaders
    BY <2>1, <2>2, Records, ZenonT(60) DEF Loaders
  <2> QED BY <1>1, <2>3, SMTT(60) DEF LatestList, TypeOK, store
<1>2. CASE LatestTry
  <2>1. PICK s \in Steps : \/ ld' = [ld EXCEPT !.pc = "found", !.step = s]
                           \/ ld' = [ld EXCEPT !.todo = @ \ {s}]
    BY <1>2, ZenonT(60) DEF LatestTry
  <2>2. ld' \in Loaders
    BY <2>1, Records, ZenonT(60) DEF Loaders
  <2> QED BY <1>2, <2>2 DEF LatestTry, TypeOK, store
<1>3. CASE LatestSkip
  <2>1. PICK s \in Steps : ld' = [ld EXCEPT !.todo = @ \ {s}, !.skipped = TRUE]
    BY <1>3, ZenonT(60) DEF LatestSkip
  <2> DEFINE rest == ld.todo \ {s}
  <2>2. rest \in SUBSET Steps
    BY Records DEF Loaders
  <2>3. ld' = [ld EXCEPT !.todo = rest, !.skipped = TRUE]
    BY <2>1
  <2> HIDE DEF rest
  <2>4. ld' \in Loaders
    BY <2>2, <2>3, Records, ZenonT(60) DEF Loaders
  <2> QED BY <1>3, <2>4 DEF LatestSkip, Fault, TypeOK, store
<1>4. CASE LatestNone
  <2>1. ld' \in Loaders
    BY <1>4, Records DEF LatestNone, Loaders
  <2> QED BY <1>4, <2>1 DEF LatestNone, TypeOK, store
<1>5. ASSUME NEW p \in Paths, Restore(p) PROVE TypeOK'
  <2>1. Bytes[man[ld.step]][p] \in Nat
    BY <1>5, StoreAssumption DEF Restore, LoadCommitted, TypeOK
  <2>2. ld' \in Loaders
    BY <1>5, <2>1, Records DEF Restore, Loaders
  <2> QED BY <1>5, <2>2 DEF Restore, TypeOK, store
<1>6. ASSUME NEW p \in Paths, RestoreFail(p) PROVE TypeOK'
  <2>1. ld' \in Loaders
    BY <1>6, Records, ZenonT(60) DEF RestoreFail, Loaders
  <2> QED BY <1>6, <2>1 DEF RestoreFail, Fault, TypeOK, store
<1> QED BY <1>1, <1>2, <1>3, <1>4, <1>5, <1>6 DEF Load

\* Harm the store does keeps the types as well.
LEMMA TypeDamage ==
    ASSUME TypeOK, NEW s \in Steps, NEW p \in Paths \cup {ManifestJSON}, Damage(s, p)
    PROVE  TypeOK'
<1>1. obj' \in [Steps -> Contents]
  BY Records DEF Damage, Contents
<1> QED BY <1>1 DEF TypeOK, Damage, Fault, Locations

\* All steps, in the shape the lemmas below split them.
LEMMA NextCases ==
    ASSUME Next
    PROVE  \/ \E a \in Attempts : \/ \E s \in Steps : BeginSave(a, s)
                                  \/ Abandon(a) \/ BeginCommit(a) \/ ReadOptimizer(a)
                                  \/ CommitVerify(a) \/ CommitManifest(a) \/ CommitMarker(a)
                                  \/ CommitFail(a)
           \/ \E a \in Attempts, p \in Paths : \/ UploadStat(a, p) \/ UploadPut(a, p)
                                               \/ UploadPrecondition(a, p) \/ UploadFail(a, p)
           \/ Load
           \/ \E s \in Steps, p \in Paths \cup {ManifestJSON} : Damage(s, p)
BY DEF Next, Commit, Upload

\* A step of the loader changes nothing but the loader and the count of faults.
LEMMA LoadEffect == ASSUME Load PROVE UNCHANGED <<obj, man, mark, damaged, save, put, com>>
BY ZenonT(60) DEF Load, LatestList, LatestTry, LatestSkip, LatestNone, Restore, RestoreFail, store

-----------------------------------------------------------------------------
(* What the store holds stays *)

\* Bytes that an attempt stored, a manifest and a marker are never replaced, and
\* go only when the store itself harms them; an attempt keeps its step.
Grows ==
    /\ \A s \in Steps, p \in Paths :
         obj[s][p] \in Nat => obj'[s][p] = obj[s][p] \/ <<s, p>> \in damaged'
    /\ \A s \in Steps : man[s] # None => \/ man'[s] = man[s]
                                         \/ <<s, ManifestJSON>> \in damaged'
    /\ \A s \in Steps : mark[s] # None => mark'[s] = mark[s]
    /\ damaged \subseteq damaged'
    /\ \A a \in Attempts : save[a].pc # "idle" => /\ save'[a].pc # "idle"
                                                  /\ save'[a].step = save[a].step

\* putImmutable, putImmutableMarker and the conditional PUT of upload.
LEMMA StepGrows == ASSUME TypeOK, Next PROVE Grows
<1>1. CASE \E a \in Attempts, s \in Steps : BeginSave(a, s)
  BY <1>1 DEF BeginSave, Grows, store, TypeOK
<1>2. CASE \E a \in Attempts : Abandon(a)
  BY <1>2 DEF Abandon, Grows, store, TypeOK
<1>3. CASE \E a \in Attempts : BeginCommit(a) \/ ReadOptimizer(a) \/ CommitVerify(a)
  BY <1>3 DEF BeginCommit, ReadOptimizer, CommitVerify, Grows, store
<1>4. CASE \E a \in Attempts : CommitManifest(a)
  BY <1>4 DEF CommitManifest, Grows, TypeOK
<1>5. CASE \E a \in Attempts : CommitMarker(a)
  <2>1. PICK a \in Attempts : CommitMarker(a)
    BY <1>5
  <2>2. save' = [save EXCEPT ![a].pc = "committed"] \/ save' = save
    BY <2>1 DEF CommitMarker
  <2>3. \A b \in Attempts : save[b].pc # "idle" => /\ save'[b].pc # "idle"
                                                   /\ save'[b].step = save[b].step
    BY <2>2, Records, SMTT(60) DEF Saves
  <2>4. \A s \in Steps : mark[s] # None => mark'[s] = mark[s]
    BY <2>1 DEF CommitMarker, TypeOK
  <2> QED BY <2>1, <2>3, <2>4 DEF CommitMarker, Grows
<1>6. CASE \E a \in Attempts : CommitFail(a)
  BY <1>6 DEF CommitFail, Grows, store, TypeOK
<1>7. CASE \E a \in Attempts, p \in Paths : UploadStat(a, p) \/ UploadPrecondition(a, p)
  <2>1. PICK a \in Attempts, p \in Paths : UploadStat(a, p) \/ UploadPrecondition(a, p)
    BY <1>7
  <2>2. Receipt(a, p) \/ save' = save
    BY <2>1 DEF UploadStat, UploadPrecondition, CompareExistingHash
  <2>3. \A b \in Attempts : save'[b].pc = save[b].pc /\ save'[b].step = save[b].step
    BY <2>2, Records DEF Receipt, Saves, TypeOK
  <2> QED BY <2>1, <2>3 DEF UploadStat, UploadPrecondition, Grows, store
<1>8. CASE \E a \in Attempts, p \in Paths : UploadPut(a, p)
  <2>1. PICK a \in Attempts, p \in Paths : UploadPut(a, p)
    BY <1>8
  <2>2. \A s \in Steps, q \in Paths : obj[s][q] \in Nat => obj'[s][q] = obj[s][q]
    BY <2>1, StoreAssumption DEF UploadPut, TypeOK, Contents
  <2> QED BY <2>1, <2>2 DEF UploadPut, Receipt, Grows, TypeOK
<1>9. CASE \E a \in Attempts, p \in Paths : UploadFail(a, p)
  <2>1. PICK a \in Attempts, p \in Paths : UploadFail(a, p)
    BY <1>9
  <2>2. \A s \in Steps, q \in Paths : obj[s][q] \in Nat => obj'[s][q] = obj[s][q]
    BY <2>1, StoreAssumption DEF UploadFail, TypeOK, Contents
  <2> QED BY <2>1, <2>2 DEF UploadFail, Grows
<1>10. CASE Load
  BY <1>10, LoadEffect DEF Grows
<1>11. CASE \E s \in Steps, p \in Paths \cup {ManifestJSON} : Damage(s, p)
  <2>1. PICK s \in Steps, p \in Paths \cup {ManifestJSON} : Damage(s, p)
    BY <1>11
  <2>2. \A t \in Steps, q \in Paths : obj'[t][q] = obj[t][q] \/ (t = s /\ q = p)
    BY <2>1 DEF Damage, TypeOK, Contents
  <2>3. \A t \in Steps : man'[t] = man[t] \/ (t = s /\ p = ManifestJSON)
    BY <2>1, SMTT(60) DEF Damage, TypeOK
  <2> QED BY <2>1, <2>2, <2>3 DEF Damage, Grows
<1> QED BY <1>1, <1>2, <1>3, <1>4, <1>5, <1>6, <1>7, <1>8, <1>9, <1>10, <1>11, NextCases

-----------------------------------------------------------------------------
(* Requests *)

\* Commit requests belong to saves that are under way.
LEMMA RequestsStep == ASSUME TypeOK, RequestsInv, Next PROVE RequestsInv'
<1> USE DEF RequestsInv, StepOf, Saving
<1>1. CASE \E a \in Attempts, s \in Steps : BeginSave(a, s)
  BY <1>1, Records DEF BeginSave, Saves
<1>2. CASE \E a \in Attempts : Abandon(a)
  BY <1>2, Records, SMTT(60) DEF Abandon, Saves, TypeOK
<1>3. CASE \E a \in Attempts : BeginCommit(a)
  BY <1>3, Records DEF BeginCommit, Requests
<1>4. CASE \E a \in Attempts : ReadOptimizer(a) \/ CommitVerify(a)
  BY <1>4, Records, SMTT(60) DEF ReadOptimizer, CommitVerify, Committing, CommitGoes, Rejected, Requests
<1>5. CASE \E a \in Attempts : CommitManifest(a)
  BY <1>5, Records DEF CommitManifest, Committing, CommitGoes, Rejected, Requests
<1>6. CASE \E a \in Attempts : CommitMarker(a)
  BY <1>6, Records DEF CommitMarker, Committing, Rejected, Requests, Saves
<1>7. CASE \E a \in Attempts : CommitFail(a)
  BY <1>7, Records DEF CommitFail, Committing, Rejected, Requests
<1>8. CASE \E a \in Attempts, p \in Paths : UploadStat(a, p)
  BY <1>8, Records, SMTT(60) DEF UploadStat, CompareExistingHash, Receipt, Saves, TypeOK
<1>9. CASE \E a \in Attempts, p \in Paths : UploadPut(a, p)
  BY <1>9, Records DEF UploadPut, Answered, Receipt, Saves, TypeOK
<1>10. CASE \E a \in Attempts, p \in Paths : UploadPrecondition(a, p)
  BY <1>10, Records, SMTT(60) DEF UploadPrecondition, Answered, CompareExistingHash, Receipt, Saves, TypeOK
<1>11. CASE \E a \in Attempts, p \in Paths : UploadFail(a, p)
  BY <1>11 DEF UploadFail, Answered, TypeOK
<1>12. CASE Load
  BY <1>12, LoadEffect
<1>13. CASE \E s \in Steps, p \in Paths \cup {ManifestJSON} : Damage(s, p)
  BY <1>13, SMTT(60) DEF Damage
<1> QED BY <1>1, <1>2, <1>3, <1>4, <1>5, <1>6, <1>7, <1>8, <1>9, <1>10, <1>11, <1>12, <1>13,
          NextCases

-----------------------------------------------------------------------------
(* Receipts *)

\* A step that adds a receipt has compared the object, or has put it.
LEMMA NewReceipt ==
    ASSUME TypeOK, RequestsInv, Next, NEW a \in Attempts,
           NEW p \in save'[a].receipts, p \notin save[a].receipts
    PROVE  save[a].pc # "idle" /\ obj'[StepOf(a)][p] = Bytes[a][p]
<1>1. CASE \E b \in Attempts, s \in Steps : BeginSave(b, s)
  BY <1>1, Records DEF BeginSave, Saves
<1>2. CASE \E b \in Attempts : Abandon(b)
  BY <1>2, Records DEF Abandon, Saves
<1>3. CASE \E b \in Attempts : CommitMarker(b)
  BY <1>3, Records DEF CommitMarker, Saves
<1>4. CASE \E b \in Attempts : \/ BeginCommit(b) \/ ReadOptimizer(b) \/ CommitVerify(b)
                               \/ CommitManifest(b) \/ CommitFail(b)
  BY <1>4 DEF BeginCommit, ReadOptimizer, CommitVerify, CommitManifest, CommitFail
<1>5. CASE \E b \in Attempts, q \in Paths : UploadStat(b, q)
  BY <1>5, Records, StoreAssumption, SMTT(60)
     DEF UploadStat, CompareExistingHash, Receipt, Saves, Saving, store
<1>6. CASE \E b \in Attempts, q \in Paths : UploadPut(b, q)
  <2>1. PICK b \in Attempts, q \in Paths : UploadPut(b, q)
    BY <1>6
  <2>2. a = b /\ p = q /\ save[a].pc # "idle"
    BY <2>1, Records, SMTT(60) DEF UploadPut, Receipt, Saves, RequestsInv
  <2> QED BY <2>1, <2>2, SMTT(60) DEF UploadPut, RequestsInv, TypeOK, Contents
<1>7. CASE \E b \in Attempts, q \in Paths : UploadPrecondition(b, q)
  <2>1. PICK b \in Attempts, q \in Paths : UploadPrecondition(b, q)
    BY <1>7
  <2>2. PICK digest \in {Bytes[b][q], None} : CompareExistingHash(b, q, digest)
    BY <2>1 DEF UploadPrecondition
  <2>3. obj[StepOf(b)][q] = digest /\ Receipt(b, q)
    BY <2>2 DEF CompareExistingHash
  <2>4. a = b /\ p = q
    BY <2>3, Records DEF Receipt, Saves
  <2> QED BY <2>1, <2>3, <2>4 DEF UploadPrecondition, store, RequestsInv
<1>8. CASE \E b \in Attempts, q \in Paths : UploadFail(b, q)
  BY <1>8 DEF UploadFail
<1>9. CASE Load
  BY <1>9, LoadEffect
<1>10. CASE \E s \in Steps, q \in Paths \cup {ManifestJSON} : Damage(s, q)
  BY <1>10 DEF Damage
<1> QED BY <1>1, <1>2, <1>3, <1>4, <1>5, <1>6, <1>7, <1>8, <1>9, <1>10, NextCases

\* Receipts stay true: the bytes they stand for are not replaced.
LEMMA ReceiptsStep ==
    ASSUME TypeOK, TypeOK', RequestsInv, ReceiptsTrue, Next PROVE ReceiptsTrue'
<1> SUFFICES ASSUME NEW a \in Attempts, NEW p \in save'[a].receipts
             PROVE  (Matches(a, p) \/ Harmed(StepOf(a), p))'
  BY DEF ReceiptsTrue
<1>1. Grows
  BY StepGrows
<1>2. p \in Paths /\ Bytes[a][p] \in Nat
  BY StoreAssumption, SMTT(60) DEF TypeOK, Saves
<1>3. save[a].pc # "idle"
  BY NewReceipt DEF RequestsInv
<1>4. StepOf(a) \in Steps /\ save'[a].step = StepOf(a)
  BY <1>1, <1>3 DEF RequestsInv, Grows, StepOf
<1>5. CASE p \notin save[a].receipts
  BY <1>4, <1>5, NewReceipt, SMTT(60) DEF Matches, StepOf
<1>6. CASE p \in save[a].receipts
  BY <1>1, <1>2, <1>4, <1>6, SMTT(60) DEF ReceiptsTrue, Matches, Harmed, StepOf, Grows
<1> QED BY <1>5, <1>6

-----------------------------------------------------------------------------
(* Commits *)

\* A request that is being verified or past it was there before the step, unless
\* the step made that progress itself.
LEMMA CommitProgress ==
    ASSUME TypeOK, RequestsInv, CommitInv, Next, NEW a \in Attempts,
           com'[a].pc \in {"verify", "marker"}
    PROVE  \/ com'[a] = com[a]
           \/ com[a].pc = "optimizer" /\ com'[a].pc = "verify" /\ com'[a].todo = com[a].todo
           \/ /\ com[a].pc = "verify" /\ com'[a].pc = "verify" /\ obj' = obj
              /\ \E p \in Paths : Matches(a, p) /\ com'[a].todo = com[a].todo \ {p}
           \/ /\ com[a].pc = "verify" /\ com'[a].pc = "marker" /\ com[a].todo = {}
              /\ obj' = obj /\ (StepOf(a) \in Steps => man'[StepOf(a)] = a)
<1> USE DEF Requests
<1>1. CASE \E b \in Attempts : BeginCommit(b)
  <2>1. PICK b \in Attempts : com' = [com EXCEPT ![b] = [pc |-> "optimizer", todo |-> Paths]]
    BY <1>1, Zenon DEF BeginCommit
  <2>2. com'[a] = com[a] \/ com'[a].pc = "optimizer"
    BY <2>1, Records, ZenonT(60)
  <2> QED BY <2>2
<1>2. CASE \E b \in Attempts : ReadOptimizer(b)
  BY <1>2, Records, SMTT(60) DEF ReadOptimizer, Committing, CommitGoes, Rejected
<1>3. CASE \E b \in Attempts : CommitVerify(b)
  <2>1. PICK b \in Attempts : CommitVerify(b)
    BY <1>3
  <2>2. PICK p \in com[b].todo :
           IF Matches(b, p) THEN com' = [com EXCEPT ![b].todo = @ \ {p}] ELSE Rejected(b)
    BY <2>1 DEF CommitVerify
  <2>3. p \in Paths /\ obj' = obj /\ com[b].pc = "verify"
    BY <2>1, Records DEF CommitVerify, Committing, store
  <2>4. CASE a # b
    BY <2>2, <2>4, Records DEF Rejected
  <2>5. CASE a = b
    BY <2>2, <2>3, <2>5, Records DEF Rejected
  <2> QED BY <2>4, <2>5, ZenonT(60)
<1>4. CASE \E b \in Attempts : CommitManifest(b)
  <2>1. PICK b \in Attempts : CommitManifest(b)
    BY <1>4
  <2>2. CASE a # b
    BY <2>1, <2>2, Records, SMTT(60) DEF CommitManifest, CommitGoes, Rejected
  <2>3. CASE a = b
    <3>1. com[a].pc = "verify" /\ com[a].todo = {} /\ obj' = obj
      BY <2>1, <2>3 DEF CommitManifest, Committing
    <3>2. com'[a].pc = "marker"
      BY <2>1, <2>3, Records DEF CommitManifest, CommitGoes, Rejected
    <3>3. StepOf(a) \in Steps => man'[StepOf(a)] = a
      BY <2>1, <2>3, <3>2, Records DEF CommitManifest, CommitGoes, Rejected, TypeOK
    <3> QED BY <3>1, <3>2, <3>3
  <2> QED BY <2>2, <2>3
<1>5. CASE \E b \in Attempts : CommitMarker(b)
  BY <1>5, Records, SMTT(60) DEF CommitMarker, Rejected
<1>6. CASE \E b \in Attempts : CommitFail(b)
  BY <1>6, Records DEF CommitFail, Rejected
<1>7. CASE \E b \in Attempts : Abandon(b)
  BY <1>7, Records DEF Abandon
<1>8. CASE \E b \in Attempts, s \in Steps : BeginSave(b, s)
  BY <1>8, SMTT(60) DEF BeginSave
<1>9. CASE \E b \in Attempts, p \in Paths : \/ UploadStat(b, p) \/ UploadPut(b, p)
                                            \/ UploadPrecondition(b, p) \/ UploadFail(b, p)
  BY <1>9, SMTT(60) DEF UploadStat, UploadPut, UploadPrecondition, UploadFail
<1>10. CASE Load
  BY <1>10, LoadEffect
<1>11. CASE \E s \in Steps, p \in Paths \cup {ManifestJSON} : Damage(s, p)
  BY <1>11, SMTT(60) DEF Damage
<1> QED BY <1>1, <1>2, <1>3, <1>4, <1>5, <1>6, <1>7, <1>8, <1>9, <1>10, <1>11, NextCases, ZenonT(60)

\* Verification starts with all objects.
LEMMA OptimizerFirst ==
    ASSUME TypeOK, CommitInv, Next, NEW a \in Attempts, com'[a].pc = "optimizer"
    PROVE  com'[a].todo = Paths
<1> USE DEF Requests, CommitInv
<1>1. CASE \E b \in Attempts : BeginCommit(b)
  BY <1>1, Records DEF BeginCommit
<1>2. CASE \E b \in Attempts : ReadOptimizer(b)
  BY <1>2, Records DEF ReadOptimizer, Committing, CommitGoes, Rejected
<1>3. CASE \E b \in Attempts : CommitVerify(b) \/ CommitManifest(b)
  BY <1>3, Records DEF CommitVerify, CommitManifest, Committing, CommitGoes, Rejected
<1>4. CASE \E b \in Attempts : CommitMarker(b) \/ CommitFail(b) \/ Abandon(b)
  BY <1>4, Records, SMTT(60) DEF CommitMarker, CommitFail, Abandon, Rejected
<1>5. CASE \E b \in Attempts, s \in Steps : BeginSave(b, s)
  BY <1>5 DEF BeginSave
<1>6. CASE \E b \in Attempts, p \in Paths : \/ UploadStat(b, p) \/ UploadPut(b, p)
                                            \/ UploadPrecondition(b, p) \/ UploadFail(b, p)
  BY <1>6 DEF UploadStat, UploadPut, UploadPrecondition, UploadFail
<1>7. CASE Load
  BY <1>7, LoadEffect, SMTT(60)
<1>8. CASE \E s \in Steps, p \in Paths \cup {ManifestJSON} : Damage(s, p)
  BY <1>8, SMTT(60) DEF Damage
<1> QED BY <1>1, <1>2, <1>3, <1>4, <1>5, <1>6, <1>7, <1>8, NextCases, SMTT(60)

\* Verified stays verified.
LEMMA CommitStep ==
    ASSUME TypeOK, TypeOK', RequestsInv, RequestsInv', CommitInv, Next PROVE CommitInv'
<1>a. \A a \in Attempts : com'[a].pc = "optimizer" => com'[a].todo = Paths
  BY OptimizerFirst, SMTT(60)
<1> SUFFICES ASSUME NEW a \in Attempts, com'[a].pc \in {"verify", "marker"}
             PROVE  /\ com'[a].pc = "verify" => \A p \in Paths \ com'[a].todo :
                                                  (Matches(a, p) \/ Harmed(StepOf(a), p))'
                    /\ com'[a].pc = "marker" =>
                         /\ \A p \in Paths : (Matches(a, p) \/ Harmed(StepOf(a), p))'
                         /\ (man[StepOf(a)] = a \/ Harmed(StepOf(a), ManifestJSON))'
  BY <1>a DEF CommitInv
<1>1. Grows
  BY StepGrows, SMTT(60)
<1>2. \A p \in Paths : Bytes[a][p] \in Nat
  BY StoreAssumption, SMTT(60)
<1>3. com[a].pc # "none"
  BY CommitProgress, SMTT(60)
<1>4. StepOf(a) \in Steps /\ save'[a].step = StepOf(a)
  BY <1>1, <1>3, SMTT(60) DEF RequestsInv, Grows, StepOf, Saving
<1>5. \A p \in Paths : Matches(a, p) \/ Harmed(StepOf(a), p) =>
                         (Matches(a, p) \/ Harmed(StepOf(a), p))'
  BY <1>1, <1>2, <1>4, SMTT(60) DEF Matches, Harmed, StepOf, Grows
<1>6. CASE com'[a] = com[a]
  <2>1. man[StepOf(a)] = a \/ Harmed(StepOf(a), ManifestJSON) =>
          (man[StepOf(a)] = a \/ Harmed(StepOf(a), ManifestJSON))'
    BY <1>1, <1>4, StoreAssumption, ZenonT(60) DEF Harmed, StepOf, Grows
  <2> QED BY <1>5, <1>6, <2>1 DEF CommitInv
<1>7. CASE com[a].pc = "optimizer" /\ com'[a].pc = "verify" /\ com'[a].todo = com[a].todo
  <2>1. com[a].todo = Paths
    BY <1>7 DEF CommitInv
  <2> QED BY <1>7, <2>1
<1>8. CASE /\ com[a].pc = "verify" /\ com'[a].pc = "verify" /\ obj' = obj
           /\ \E p \in Paths : Matches(a, p) /\ com'[a].todo = com[a].todo \ {p}
  BY <1>5, <1>8, SMTT(60) DEF CommitInv
<1>9. CASE /\ com[a].pc = "verify" /\ com'[a].pc = "marker" /\ com[a].todo = {}
           /\ obj' = obj /\ (StepOf(a) \in Steps => man'[StepOf(a)] = a)
  BY <1>4, <1>5, <1>9, SMTT(60) DEF CommitInv, StepOf
<1> QED BY <1>6, <1>7, <1>8, <1>9, CommitProgress

\* A marker appears only for a commit request that got that far.
LEMMA NewMarker ==
    ASSUME TypeOK, Next, NEW s \in Steps, mark[s] = None, mark'[s] # None
    PROVE  \E a \in Attempts : /\ com[a].pc = "marker" /\ StepOf(a) = s /\ mark'[s] = a
                               /\ UNCHANGED <<obj, man, damaged>>
<1>1. CASE \E a \in Attempts : CommitMarker(a)
  BY <1>1, SMTT(60) DEF CommitMarker, Committing, TypeOK
<1>2. CASE \E a \in Attempts : CommitFail(a)
  BY <1>2 DEF CommitFail, Committing, store, TypeOK
<1>3. CASE \E a \in Attempts : \/ \E t \in Steps : BeginSave(a, t)
                               \/ Abandon(a) \/ BeginCommit(a) \/ ReadOptimizer(a)
                               \/ CommitVerify(a) \/ CommitManifest(a)
  BY <1>3, SMTT(60) DEF BeginSave, Abandon, BeginCommit, ReadOptimizer, CommitVerify, CommitManifest,
              store
<1>4. CASE \E a \in Attempts, p \in Paths : \/ UploadStat(a, p) \/ UploadPut(a, p)
                                            \/ UploadPrecondition(a, p) \/ UploadFail(a, p)
  BY <1>4, SMTT(60) DEF UploadStat, UploadPut, UploadPrecondition, UploadFail, store
<1>5. CASE Load
  BY <1>5, LoadEffect
<1>6. CASE \E t \in Steps, p \in Paths \cup {ManifestJSON} : Damage(t, p)
  BY <1>6 DEF Damage
<1> QED BY <1>1, <1>2, <1>3, <1>4, <1>5, <1>6, NextCases

\* What is committed is complete, and stays so.
LEMMA CompleteStep ==
    ASSUME TypeOK, CommitInv, CommittedComplete, Next PROVE CommittedComplete'
<1> SUFFICES ASSUME NEW s \in Steps, mark'[s] # None
             PROVE  /\ man'[s] = mark'[s] \/ <<s, ManifestJSON>> \in damaged'
                    /\ \A p \in Paths : \/ obj'[s][p] = Bytes[mark'[s]][p]
                                        \/ <<s, p>> \in damaged'
  BY SMTT(60) DEF CommittedComplete, Harmed
<1>1. CASE mark[s] = None
  <2>1. PICK a \in Attempts : /\ com[a].pc = "marker" /\ StepOf(a) = s /\ mark'[s] = a
                              /\ UNCHANGED <<obj, man, damaged>>
    BY <1>1, NewMarker, SMTT(60)
  <2> QED BY <2>1 DEF CommitInv, Matches, Harmed
<1>2. CASE mark[s] # None
  <2>1. Grows
    BY StepGrows, SMTT(60)
  <2>2. mark'[s] = mark[s] /\ mark[s] \in Attempts
    BY <1>2, <2>1 DEF Grows, TypeOK
  <2>3. \A p \in Paths : Bytes[mark[s]][p] \in Nat
    BY <2>2, StoreAssumption, SMTT(60)
  <2> QED BY <1>2, <2>1, <2>2, <2>3 DEF CommittedComplete, Harmed, Grows
<1> QED BY <1>1, <1>2

\* Success is answered only by CommitMarker, to the attempt the marker names.
LEMMA NewSuccess ==
    ASSUME TypeOK, RequestsInv, Next, NEW a \in Attempts, save'[a].pc = "committed"
    PROVE  \/ save[a].pc = "committed"
           \/ save[a].pc = "saving" /\ mark'[StepOf(a)] = a
<1> USE DEF Saves
<1>1. CASE \E b \in Attempts : CommitMarker(b)
  <2>1. PICK b \in Attempts : CommitMarker(b)
    BY <1>1
  <2>2. CASE a # b
    BY <2>1, <2>2, Records DEF CommitMarker
  <2>3. CASE a = b
    BY <2>1, <2>3 DEF CommitMarker, Committing, RequestsInv, Saving
  <2> QED BY <2>2, <2>3
<1>2. CASE \E b \in Attempts : Abandon(b) \/ \E s \in Steps : BeginSave(b, s)
  BY <1>2, Records DEF Abandon, BeginSave
<1>3. CASE \E b \in Attempts : \/ BeginCommit(b) \/ ReadOptimizer(b) \/ CommitVerify(b)
                               \/ CommitManifest(b) \/ CommitFail(b)
  BY <1>3 DEF BeginCommit, ReadOptimizer, CommitVerify, CommitManifest, CommitFail
<1>4. CASE \E b \in Attempts, p \in Paths : \/ UploadStat(b, p) \/ UploadPut(b, p)
                                            \/ UploadPrecondition(b, p) \/ UploadFail(b, p)
  <2>1. PICK b \in Attempts, p \in Paths : Receipt(b, p) \/ save' = save
    BY <1>4 DEF UploadStat, UploadPut, UploadPrecondition, UploadFail, CompareExistingHash
  <2> QED BY <2>1, Records, SMTT(60) DEF Receipt
<1>5. CASE Load
  BY <1>5, LoadEffect
<1>6. CASE \E s \in Steps, p \in Paths \cup {ManifestJSON} : Damage(s, p)
  BY <1>6 DEF Damage
<1> QED BY <1>1, <1>2, <1>3, <1>4, <1>5, <1>6, NextCases

\* And the marker it names stays.
LEMMA AckStep ==
    ASSUME TypeOK, RequestsInv, AcknowledgedIsCommitted, Next
    PROVE  AcknowledgedIsCommitted'
<1> SUFFICES ASSUME NEW a \in Attempts, save'[a].pc = "committed"
             PROVE  mark'[save'[a].step] = a
  BY DEF AcknowledgedIsCommitted, StepOf
<1>1. Grows
  BY StepGrows, SMTT(60)
<1>2. save[a].pc # "idle" /\ StepOf(a) \in Steps /\ save'[a].step = StepOf(a)
  BY <1>1, NewSuccess, SMTT(60) DEF RequestsInv, Grows, StepOf
<1>3. a # None
  BY StoreAssumption
<1>4. CASE save[a].pc = "committed"
  <2>1. mark[StepOf(a)] = a
    BY <1>4 DEF AcknowledgedIsCommitted
  <2> QED BY <1>1, <1>2, <1>3, <2>1 DEF Grows
<1> QED BY <1>2, <1>4, NewSuccess

-----------------------------------------------------------------------------
(* The loader *)

\* What was of no use stays of no use, and what is listed stays committed.
LEMMA LoaderKept ==
    ASSUME TypeOK, LoaderInv, RestoredIsCommitted, Next, ld' = ld
    PROVE  LoaderInv' /\ RestoredIsCommitted'
<1>1. Grows
  BY StepGrows
<1>2. ld.listed \subseteq Steps
  BY Records, SMTT(60) DEF Loaders
<1>3. \A s \in ld.listed : mark'[s] = mark[s] /\ mark[s] # None
  BY <1>1, <1>2 DEF LoaderInv, Grows
<1>4. \A s \in ld.listed : Unusable(s) => Unusable(s)'
  BY <1>1, <1>3 DEF Unusable, Harmed, Grows
<1>5. LoaderInv'
  BY <1>3, <1>4 DEF LoaderInv
<1>6. \A p \in Paths : ld.got[p] # None => ld.step \in ld.listed
  BY DEF LoaderInv
<1> QED BY <1>3, <1>5, <1>6 DEF RestoredIsCommitted

\* Every step of the loader keeps its invariant.
LEMMA LoaderMoves ==
    ASSUME TypeOK, CommittedComplete, LoaderInv, RestoredIsCommitted, Load
    PROVE  LoaderInv' /\ RestoredIsCommitted'
<1> USE DEF Loaders
<1>0. UNCHANGED <<obj, man, mark, damaged>> /\ ld.listed \subseteq Steps
  BY LoadEffect, Records
<1>1. CASE LatestList
  <2> DEFINE listed == {s \in Steps : mark[s] # None}
  <2>1. PICK ok \in Expectations :
          ld' = [ld EXCEPT !.pc = "scan", !.listed = listed, !.todo = listed, !.ok = ok]
    BY <1>1, ZenonT(60) DEF LatestList
  <2>2. ld.pc = "idle" /\ \A s \in listed : mark'[s] # None
    BY <1>0, <1>1 DEF LatestList
  <2> HIDE DEF listed
  <2>3. /\ ld'.pc = "scan" /\ ld'.listed = listed /\ ld'.todo = listed
        /\ ld'.got = ld.got
    BY <2>1, Records
  <2> QED BY <2>2, <2>3, SMTT(60) DEF LoaderInv, RestoredIsCommitted
<1>2. CASE LatestTry
  <2>1. PICK s \in Steps :
          /\ Newest(s)
          /\ IF LoadCommitted(s) /\ man[s] \in ld.ok /\ Intact(s)
             THEN ld' = [ld EXCEPT !.pc = "found", !.step = s]
             ELSE ld' = [ld EXCEPT !.todo = @ \ {s}]
    BY <1>2, ZenonT(60) DEF LatestTry
  <2>2. ld.pc = "scan" /\ \A p \in Paths : ld.got[p] = None
    BY <1>2 DEF LatestTry, LoaderInv
  <2>3. CASE LoadCommitted(s) /\ man[s] \in ld.ok /\ Intact(s)
    <3>1. /\ ld'.pc = "found" /\ ld'.step = s /\ ld'.listed = ld.listed
          /\ ld'.todo = ld.todo /\ ld'.ok = ld.ok /\ ld'.skipped = ld.skipped
          /\ ld'.got = ld.got
      BY <2>1, <2>3, Records, ZenonT(60)
    <3> QED BY <1>0, <2>1, <2>2, <3>1
            DEF LoaderInv, RestoredIsCommitted, Newest, Unusable, Harmed
  <2>4. CASE ~(LoadCommitted(s) /\ man[s] \in ld.ok /\ Intact(s))
    <3>1. /\ ld'.pc = "scan" /\ ld'.listed = ld.listed /\ ld'.todo = ld.todo \ {s}
          /\ ld'.ok = ld.ok /\ ld'.skipped = ld.skipped /\ ld'.got = ld.got
      BY <2>1, <2>2, <2>4, Records
    <3>2. mark[s] # None
      BY <2>1 DEF Newest, LoaderInv
    <3>3. Unusable(s)
      BY <2>4, <3>2 DEF CommittedComplete, LoadCommitted, Intact, Unusable
    <3> QED BY <1>0, <2>2, <3>1, <3>3, SMTT(60) DEF LoaderInv, RestoredIsCommitted, Unusable, Harmed
  <2> QED BY <2>3, <2>4, SMTT(60)
<1>3. CASE LatestSkip
  <2>1. PICK s \in Steps : ld' = [ld EXCEPT !.todo = @ \ {s}, !.skipped = TRUE]
    BY <1>3, ZenonT(60) DEF LatestSkip
  <2>2. /\ ld'.pc = "scan" /\ ld'.listed = ld.listed /\ ld'.todo = ld.todo \ {s}
        /\ ld'.skipped = TRUE /\ ld'.got = ld.got /\ ld.pc = "scan"
    BY <1>3, <2>1, Records, ZenonT(60) DEF LatestSkip
  <2> QED BY <1>0, <2>2 DEF LoaderInv, RestoredIsCommitted
<1>4. CASE LatestNone
  <2>1. /\ ld'.pc = "none" /\ ld'.listed = ld.listed /\ ld'.todo = ld.todo /\ ld.todo = {}
        /\ ld'.ok = ld.ok /\ ld'.skipped = ld.skipped /\ ld'.got = ld.got /\ ld.pc = "scan"
    BY <1>4, Records DEF LatestNone
  <2> QED BY <1>0, <2>1 DEF LoaderInv, RestoredIsCommitted, Unusable, Harmed
<1>5. ASSUME NEW p \in Paths, Restore(p) PROVE LoaderInv' /\ RestoredIsCommitted'
  <2>1. /\ ld' = [ld EXCEPT !.got[p] = obj[ld.step][p]] /\ ld.pc = "found"
        /\ obj[ld.step][p] = Bytes[mark[ld.step]][p]
    BY <1>5 DEF Restore, LoadCommitted
  <2>2. /\ ld'.pc = "found" /\ ld'.listed = ld.listed /\ ld'.todo = ld.todo
        /\ ld'.ok = ld.ok /\ ld'.skipped = ld.skipped /\ ld'.step = ld.step
        /\ ld'.got = [ld.got EXCEPT ![p] = obj[ld.step][p]] /\ ld.got \in [Paths -> Nat \cup {None}]
    BY <2>1, Records
  <2>3. LoaderInv'
    BY <1>0, <2>1, <2>2, ZenonT(60) DEF LoaderInv, Unusable, Harmed
  <2> QED BY <1>0, <2>1, <2>2, <2>3 DEF RestoredIsCommitted
<1>6. ASSUME NEW p \in Paths, RestoreFail(p) PROVE LoaderInv' /\ RestoredIsCommitted'
  <2>1. PICK got \in {[q \in Paths |-> None]} :
          ld' = [ld EXCEPT !.pc = "idle", !.step = None, !.ok = {}, !.skipped = FALSE,
                           !.got = got]
    BY <1>6 DEF RestoreFail
  <2>2. \A q \in Paths : got[q] = None
    BY <2>1
  <2>3. /\ ld'.pc = "idle" /\ ld'.listed = ld.listed /\ ld'.todo = ld.todo
        /\ ld'.ok = {} /\ ld'.got = got
    BY <2>1, Records
  <2> QED BY <1>0, <2>2, <2>3 DEF LoaderInv, RestoredIsCommitted, Unusable
<1> QED BY <1>1, <1>2, <1>3, <1>4, <1>5, <1>6, SMTT(60) DEF Load

\* Steps of everybody else leave the loader alone.
LEMMA LoaderStep ==
    ASSUME TypeOK, CommittedComplete, LoaderInv, RestoredIsCommitted, Next
    PROVE  LoaderInv' /\ RestoredIsCommitted'
<1>1. CASE Load
  BY <1>1, LoaderMoves
<1>2. CASE \E a \in Attempts : \/ \E s \in Steps : BeginSave(a, s)
                               \/ Abandon(a) \/ BeginCommit(a) \/ ReadOptimizer(a)
                               \/ CommitVerify(a) \/ CommitManifest(a) \/ CommitMarker(a)
                               \/ CommitFail(a)
  <2>1. ld' = ld
    BY <1>2, SMTT(60) DEF BeginSave, Abandon, BeginCommit, ReadOptimizer, CommitVerify, CommitManifest,
                CommitMarker, CommitFail
  <2> QED BY <2>1, LoaderKept
<1>3. CASE \E a \in Attempts, p \in Paths : \/ UploadStat(a, p) \/ UploadPut(a, p)
                                            \/ UploadPrecondition(a, p) \/ UploadFail(a, p)
  <2>1. ld' = ld
    BY <1>3 DEF UploadStat, UploadPut, UploadPrecondition, UploadFail
  <2> QED BY <2>1, LoaderKept
<1>4. CASE \E s \in Steps, p \in Paths \cup {ManifestJSON} : Damage(s, p)
  BY <1>4, LoaderKept DEF Damage
<1> QED BY <1>1, <1>2, <1>3, <1>4, NextCases

-----------------------------------------------------------------------------
(* The theorems *)

\* The empty store.
LEMMA InvInit == Init => StoreInv
<1> SUFFICES ASSUME Init PROVE StoreInv
  OBVIOUS
<1>1. TypeOK
  BY TypeInit, SMTT(60)
<1>2. RequestsInv /\ ReceiptsTrue /\ CommitInv /\ AcknowledgedIsCommitted
  BY SMTT(60) DEF Init, RequestsInv, ReceiptsTrue, CommitInv, AcknowledgedIsCommitted
<1>3. CommittedComplete /\ LoaderInv /\ RestoredIsCommitted
  BY DEF Init, CommittedComplete, LoaderInv, RestoredIsCommitted
<1> QED BY <1>1, <1>2, <1>3 DEF StoreInv

\* Every step keeps the types, given where a loader that has found a step reads.
LEMMA TypeStep == ASSUME TypeOK, LoaderInv, Next PROVE TypeOK'
<1>1. ld.pc = "found" => ld.step \in Steps
  BY Records DEF LoaderInv, Loaders
<1> QED BY <1>1, TypeUpload, TypeSave, TypeLoad, TypeDamage DEF Next

\* StoreInv is inductive.
LEMMA InvStep == StoreInv /\ [Next]_vars => StoreInv'
<1> SUFFICES ASSUME StoreInv, [Next]_vars PROVE StoreInv'
  OBVIOUS
<1> USE DEF StoreInv
<1>1. CASE Next
  <2>1. TypeOK' /\ RequestsInv'
    BY <1>1, TypeStep, RequestsStep
  <2>2. ReceiptsTrue' /\ CommitInv'
    BY <1>1, <2>1, ReceiptsStep, CommitStep
  <2>3. CommittedComplete' /\ AcknowledgedIsCommitted'
    BY <1>1, CompleteStep, AckStep
  <2>4. LoaderInv' /\ RestoredIsCommitted'
    BY <1>1, LoaderStep
  <2> QED BY <2>1, <2>2, <2>3, <2>4
<1>2. CASE UNCHANGED vars
  <2> USE <1>2 DEF vars, store
  <2>1. TypeOK' /\ RequestsInv'
    BY SMTT(60) DEF TypeOK, RequestsInv, StepOf, Saving
  <2>2. ReceiptsTrue' /\ CommitInv'
    BY SMTT(60) DEF ReceiptsTrue, CommitInv, Matches, Harmed, StepOf
  <2>3. CommittedComplete' /\ AcknowledgedIsCommitted'
    BY SMTT(60) DEF CommittedComplete, AcknowledgedIsCommitted, Harmed, StepOf
  <2>4. LoaderInv' /\ RestoredIsCommitted'
    BY DEF LoaderInv, RestoredIsCommitted, Unusable, Harmed
  <2> QED BY <2>1, <2>2, <2>3, <2>4, SMTT(60)
<1> QED BY <1>1, <1>2

\* The inductive invariant holds throughout.
THEOREM StoreSafety == Spec => []StoreInv
BY InvInit, InvStep, PTL DEF Spec

\* Type correctness of the model of store.go.
THEOREM StoreTypes == Spec => []TypeOK
<1>1. StoreInv => TypeOK
  BY DEF StoreInv
<1> QED BY <1>1, StoreSafety, PTL

\* A receipt of upload is true as long as the store does no harm, whoever wrote
\* the object and whichever requests failed half-way.
THEOREM Receipts == Spec => []ReceiptsTrue
<1>1. StoreInv => ReceiptsTrue
  BY DEF StoreInv
<1> QED BY <1>1, StoreSafety, PTL

\* A visible marker of commit stands for a complete checkpoint, for any number of
\* attempts, objects, steps and failures.
THEOREM Committed == Spec => []CommittedComplete
<1>1. StoreInv => CommittedComplete
  BY DEF StoreInv
<1> QED BY <1>1, StoreSafety, PTL

\* commit reports success only for the manifest the marker names.
THEOREM Acknowledged == Spec => []AcknowledgedIsCommitted
<1>1. StoreInv => AcknowledgedIsCommitted
  BY DEF StoreInv
<1> QED BY <1>1, StoreSafety, PTL

\* restore never mixes two checkpoints and never hands out damaged bytes.
THEOREM Restored == Spec => []RestoredIsCommitted
<1>1. StoreInv => RestoredIsCommitted
  BY DEF StoreInv
<1> QED BY <1>1, StoreSafety, PTL

\* latest finds the newest checkpoint that can be used.
THEOREM Latest == Spec => []NewestIsFound
<1>1. StoreInv => NewestIsFound
  <2> SUFFICES ASSUME StoreInv, ld.pc \in {"found", "none"}, ~ld.skipped,
                      NEW s \in ld.listed, ld.pc = "none" \/ s > ld.step
               PROVE  Unusable(s)
    BY SMTT(60) DEF NewestIsFound, Unusable
  <2>1. s \in Nat /\ (ld.pc = "found" => ld.step \in Nat)
    BY Records, StoreAssumption, ZenonT(60) DEF StoreInv, LoaderInv, Loaders
  <2>2. s \notin ld.todo
    BY <2>1 DEF StoreInv, LoaderInv
  <2> QED BY <2>2 DEF StoreInv, LoaderInv
<1> QED BY <1>1, StoreSafety, PTL

\* The store is append-only for the flusher: no step replaces or removes bytes, a
\* manifest or a marker, except harm done by the store itself.
THEOREM Immutable == Spec => [][Grows]_vars
<1>1. StoreInv /\ Next => Grows
  BY StepGrows DEF StoreInv
<1>2. StoreInv /\ [Next]_vars => [Grows]_vars
  BY <1>1
<1> QED BY <1>2, StoreSafety, PTL DEF Spec
=============================================================================
