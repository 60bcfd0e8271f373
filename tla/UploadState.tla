---------------------------- MODULE UploadState ----------------------------
(***************************************************************************)
(* What the upload handlers of app.js (storageRoutes, POST evidence) read  *)
(* and change: the directory and the bucket of storage.js, the tables of   *)
(* uploads and intents, and the handlers in flight.                        *)
(*                                                                         *)
(* Every handler sits between awaits at one of the points pc names.  An    *)
(* object in the bucket is a record of what completion looks at (HEAD and  *)
(* the first bytes); of an object that the multipart route stores only the *)
(* form is told apart: the file that was sent, or the request body with    *)
(* boundary and part headers around it.                                    *)
(***************************************************************************)
EXTENDS Naturals

CONSTANTS
  User, Request, Job,
  Key,          \* storage keys: fresh random names
  Type,         \* the content types the API takes
  Objects,      \* what a client may PUT to a presigned URL
  MaxBytes,     \* config.maxUploadBytes
  Provider,     \* Provider[j]: who is assigned to job j
  NoType,       \* a HEAD without content type
  Absent, Content, Envelope

ASSUME UploadAssumption ==
  /\ MaxBytes \in Nat \ {0}
  /\ Provider \in [Job -> User]
  /\ Objects \subseteq [type : Type \cup {NoType}, size : Nat, looks : SUBSET Type]
  /\ Absent \notin Objects /\ Envelope \notin Objects
  /\ Absent \notin User
  /\ Absent # Content /\ Absent # Envelope /\ Content # Envelope

VARIABLES
  backend,      \* STORAGE_BACKEND: "s3" or "local"
  mode,         \* "postgres", or "file" without DATABASE_URL
  temp,         \* keys whose request body is in its .incoming- file
  disk,         \* disk[k]: the file of that name in STORAGE_DIR
  bucket,       \* bucket[k]: the object of that name in the bucket
  uploads,      \* table uploads, by storage_key
  intents,      \* table upload_intents, by storage_key
  url,          \* url[k]: a presigned URL for k
  req,          \* the handlers in flight
  progress,     \* progress[j]: job j is IN_PROGRESS
  evidence,     \* table evidence: rows that name an upload
  told,         \* history: who was answered that which key is registered
  held,         \* history: held[k]: the objects a client has put at k
  faulted       \* history: keys whose handler died, or whose storage failed

setup   == <<backend, mode>>
tables  == <<uploads, intents, evidence, progress>>
stores  == <<temp, disk, bucket, url, held>>
history == <<told, faulted>>
vars    == <<setup, tables, stores, req, history>>

NoRow    == [by |-> Absent, type |-> Absent, size |-> 0]
NoIntent == [by |-> Absent, type |-> Absent, live |-> FALSE]

\* What the handler of a request has in its local variables; had is history:
\* the key was registered when the handler began.
Local(label, u, k, t, n, had, j) ==
  [pc |-> label, user |-> u, key |-> k, type |-> t, size |-> n, had |-> had, job |-> j]
Idle == Local("idle", Absent, Absent, Absent, 0, FALSE, Absent)

Direct    == {"received", "parsed", "stored", "swept", "cleanup"}
Completes == {"headed", "validated", "looked", "reserved"}

\* What the configured storage has under this name.
Kept(k)   == IF backend = "s3" THEN bucket[k] ELSE disk[k]
Stored(k) == Kept(k) # Absent

\* crypto.randomUUID: a name that nobody has used.
Fresh(k) ==
  /\ url[k] = "none" /\ ~Stored(k) /\ disk[k] = Absent /\ k \notin temp
  /\ uploads[k] = NoRow /\ k \notin faulted
  /\ \A r \in Request : req[r].key # k

Init ==
  /\ backend \in {"s3", "local"}
  /\ mode \in {"postgres", "file"}
  /\ temp = {}
  /\ disk = [k \in Key |-> Absent]
  /\ bucket = [k \in Key |-> Absent]
  /\ uploads = [k \in Key |-> NoRow]
  /\ intents = [k \in Key |-> NoIntent]
  /\ url = [k \in Key |-> "none"]
  /\ req = [r \in Request |-> Idle]
  /\ progress = [j \in Job |-> TRUE]
  /\ evidence = {}
  /\ told = {}
  /\ held = [k \in Key |-> {}]
  /\ faulted = {}

-----------------------------------------------------------------------------
(* Steps of handlers. *)

At(r, label)   == req[r].pc = label
Goto(r, label) == req' = [req EXCEPT ![r].pc = label]
End(r)         == req' = [req EXCEPT ![r] = Idle]

\* insertUpload, db.insert.
Register(r) ==
  uploads' = [uploads EXCEPT ![req[r].key] =
                [by |-> req[r].user, type |-> req[r].type, size |-> req[r].size]]

\* An answer of success names the key to the user.
Tell(r) == told' = told \cup {<<req[r].user, req[r].key>>}
=============================================================================
