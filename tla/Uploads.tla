------------------------------ MODULE Uploads ------------------------------
(***************************************************************************)
(* The two ways to upload together, the evidence that names what was       *)
(* uploaded, and processes that die.                                       *)
(***************************************************************************)
EXTENDS MultipartUpload, PresignedUpload

\* Keys that a client can know of: it was told, or it presigned them.
Known(k) == url[k] # "none" \/ \E u \in User : <<u, k>> \in told

\* POST /jobs/:id/evidence looks at the job, then waits for the body.
EvidenceRead(r) ==
  /\ At(r, "idle")
  /\ \E j \in Job, k \in Key :
       /\ progress[j] /\ Known(k)
       /\ req' = [req EXCEPT ![r] = Local("citing", Provider[j], k, Absent, 0, FALSE, j)]
  /\ UNCHANGED <<setup, tables, stores, history>>

\* Mutant: any upload will do.
OwnUploadOfAnyone(r) == uploads[req[r].key] # NoRow

\* There is a row of this key and this user.
OwnUpload(r) ==
  /\ uploads[req[r].key] # NoRow
  /\ uploads[req[r].key].by = req[r].user

\* Mutant: the transaction does not look at the job again.
AcceptsEvidenceAsRead(r) == TRUE

\* The transaction looks at the job again, under its lock; the file store
\* does not.
AcceptsEvidence(r) == mode = "postgres" => progress[req[r].job]

\* insertEvidenceAndTouchJob, or db.insert and save.
EvidenceInsert(r) ==
  /\ At(r, "citing")
  /\ AcceptsEvidence(r)
  /\ OwnUpload(r)
  /\ evidence' = evidence \cup {[job |-> req[r].job, by |-> req[r].user, key |-> req[r].key]}
  /\ End(r)
  /\ UNCHANGED <<setup, uploads, intents, progress, stores, history>>

\* One of these checks fails, or reading the body or a statement does.
EvidenceRefused(r) ==
  /\ At(r, "citing")
  /\ End(r)
  /\ UNCHANGED <<setup, tables, stores, history>>

\* The provider delivers: the job is no longer IN_PROGRESS, and never again.
Deliver(j) ==
  /\ progress[j]
  /\ progress' = [progress EXCEPT ![j] = FALSE]
  /\ UNCHANGED <<setup, uploads, intents, evidence, stores, req, history>>

\* The process dies in the middle of a handler.  What a restart does to the
\* tables of the file store is the subject of FileStore.
Die(r) ==
  /\ mode = "postgres"
  /\ ~At(r, "idle")
  /\ faulted' = IF req[r].pc \in Direct THEN faulted \cup {req[r].key} ELSE faulted
  /\ End(r)
  /\ UNCHANGED <<setup, tables, stores, told>>

Next ==
  \/ \E r \in Request :
       \/ UploadStep(r) \/ CompleteStep(r)
       \/ EvidenceRead(r) \/ EvidenceInsert(r) \/ EvidenceRefused(r)
       \/ Die(r)
  \/ ClientStep
  \/ \E j \in Job : Deliver(j)

Spec == Init /\ [][Next]_vars

-----------------------------------------------------------------------------
(* Properties. *)

Row    == [by : User, type : Type, size : 1..MaxBytes]
Intent == [by : User, type : Type, live : BOOLEAN]
Handler == [pc : {"idle", "citing"} \cup Direct \cup Completes,
            user : User \cup {Absent}, key : Key \cup {Absent},
            type : Type \cup {Absent}, size : 0..MaxBytes,
            had : BOOLEAN, job : Job \cup {Absent}]

\* Of every key: a row and an intent have an owner, a type and what else the
\* columns hold; a handler in flight holds what its checks have let pass.
TypeOK ==
  /\ backend \in {"s3", "local"} /\ mode \in {"postgres", "file"}
  /\ temp \subseteq Key
  /\ disk \in [Key -> {Absent, Content, Envelope}]
  /\ bucket \in [Key -> {Absent, Content, Envelope} \cup Objects]
  /\ uploads \in [Key -> Row \cup {NoRow}]
  /\ intents \in [Key -> Intent \cup {NoIntent}]
  /\ url \in [Key -> {"none", "live", "expired"}]
  /\ req \in [Request -> Handler]
  /\ progress \in [Job -> BOOLEAN]
  /\ evidence \subseteq [job : Job, by : User, key : Key]
  /\ told \subseteq User \X Key
  /\ held \in [Key -> SUBSET Objects]
  /\ faulted \subseteq Key

\* An upload that somebody was told is registered is registered, theirs and
\* stored, whatever fails afterwards: cleaning up after one request never
\* takes away what an answer has promised (storageRoutes: upload, complete).
AnsweredIsStored ==
  \A u \in User, k \in Key :
    <<u, k>> \in told => uploads[k] # NoRow /\ uploads[k].by = u /\ Stored(k)

\* Evidence names an upload of the provider who submitted it, and the object
\* is there to be looked at (POST evidence, insertEvidenceAndTouchJob).
EvidenceIsBacked ==
  \A e \in evidence :
    /\ e.by = Provider[e.job]
    /\ uploads[e.key] # NoRow /\ uploads[e.key].by = e.by
    /\ Stored(e.key)

\* Completion consumes its intent: a key is never both reserved and
\* registered, so that no second completion finds the intent again.
IntentIsConsumed ==
  \A k \in Key : uploads[k] # NoRow => intents[k] = NoIntent

\* What is recorded of a direct upload was seen: one object of that size and
\* type by HEAD, and one with the first bytes of that type (complete).
RecordedIsVerified ==
  \A k \in Key :
    url[k] # "none" /\ uploads[k] # NoRow =>
      /\ \E o \in held[k] : Acceptable(o, uploads[k].type) /\ o.size = uploads[k].size
      /\ \E o \in held[k] : uploads[k].type \in o.looks

\* An object of the multipart route without a row belongs to a handler that
\* is still at work, unless a process died or storage failed: no error of the
\* database alone leaves an orphan (the catch around insertUpload).
NoSilentOrphan ==
  \A k \in Key :
    Stored(k) /\ url[k] = "none" /\ uploads[k] = NoRow =>
      k \in faulted \/ \E r \in Request : req[r].key = k /\ req[r].pc \in Direct

\* A completion sent again after the upload was registered finds the row and
\* never depends on the intent, which is gone (complete: findUploadByKey).
LateRetryIsAnswered ==
  \A r \in Request : req[r].pc \in {"looked", "reserved"} => ~req[r].had

\* A row of a direct upload appears only out of an intent of the same user
\* and type that has not expired when it is spent, however long ago the
\* handler has read it (completeUploadAtomic).
OnlyLiveIntentsAreSpent ==
  [][\A k \in Key :
       url[k] # "none" /\ uploads[k] = NoRow /\ uploads'[k] # NoRow =>
         /\ intents[k].live
         /\ uploads'[k].by = intents[k].by /\ uploads'[k].type = intents[k].type
         /\ intents'[k] = NoIntent]_vars

\* Over PostgreSQL evidence arrives only while the work is in progress, also
\* when the job is delivered between the handler's first look and its insert.
EvidenceWhileInProgress ==
  [][mode = "postgres" => \A e \in evidence' \ evidence : progress[e.job]]_vars

\* What storage keeps of a registered upload is the file that was uploaded,
\* not the request that carried it (storageRoutes: upload, storage.put).
UploadIsRetained ==
  \A k \in Key : uploads[k] # NoRow => Kept(k) # Envelope

-----------------------------------------------------------------------------
(* The inductive invariant. *)

\* A multipart upload works on a key that nobody else knows of.
DirectInv ==
  \A r \in Request : req[r].pc \in Direct =>
    /\ req[r].user \in User /\ req[r].key \in Key
    /\ url[req[r].key] = "none"
    /\ \A u \in User : <<u, req[r].key>> \notin told
    /\ req[r].pc # "cleanup" => uploads[req[r].key] = NoRow
    /\ req[r].pc = "received" => ~Stored(req[r].key)
    /\ req[r].pc \in {"stored", "swept"} => Stored(req[r].key)
    /\ req[r].pc # "received" => req[r].type \in Type /\ req[r].size \in 1..MaxBytes
    /\ \A q \in Request \ {r} : req[q].pc \in Direct => req[q].key # req[r].key

\* A completion has seen what it is about to record.
CompleteInv ==
  \A r \in Request : req[r].pc \in Completes =>
    /\ req[r].user \in User /\ req[r].key \in Key /\ req[r].type \in Type
    /\ req[r].size \in 1..MaxBytes
    /\ url[req[r].key] # "none"
    /\ \E o \in held[req[r].key] : Acceptable(o, req[r].type) /\ o.size = req[r].size
    /\ req[r].pc # "headed" => \E o \in held[req[r].key] : req[r].type \in o.looks
    /\ req[r].had => uploads[req[r].key] # NoRow

\* Presigned keys are keys of the bucket, which never loses their object.
KeyInv ==
  \A k \in Key :
    /\ url[k] = "none" => intents[k] = NoIntent /\ held[k] = {}
    /\ url[k] # "none" => backend = "s3" /\ bucket[k] \in held[k] \cup {Absent}
    /\ held[k] # {} => bucket[k] # Absent

\* Evidence, and requests that bring some, name keys that a client knows.
CiteInv ==
  /\ \A e \in evidence : Known(e.key)
  /\ \A r \in Request : At(r, "citing") =>
       /\ req[r].job \in Job /\ req[r].user = Provider[req[r].job]
       /\ req[r].key \in Key /\ Known(req[r].key)

\* The inductive invariant that the theorems about Uploads rest on
\* (storageRoutes and POST evidence as a whole).
UploadInv ==
  /\ TypeOK
  /\ DirectInv /\ CompleteInv /\ KeyInv /\ CiteInv
  /\ AnsweredIsStored /\ EvidenceIsBacked /\ IntentIsConsumed
  /\ RecordedIsVerified /\ NoSilentOrphan /\ LateRetryIsAnswered
=============================================================================
