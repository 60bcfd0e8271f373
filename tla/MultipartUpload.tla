-------------------------- MODULE MultipartUpload --------------------------
(***************************************************************************)
(* POST /storage/upload: the request body goes to a temporary file, is     *)
(* parsed, put into storage and registered; what was stored is removed     *)
(* again when it cannot be registered.                                     *)
(***************************************************************************)
EXTENDS UploadState

Mine(r) == req[r].key

\* The body streams into .incoming-<name>.
Receive(r) ==
  /\ At(r, "idle")
  /\ \E u \in User, k \in Key :
       /\ Fresh(k)
       /\ temp' = temp \cup {k}
       /\ req' = [req EXCEPT ![r] = Local("received", u, k, Absent, 0, FALSE, Absent)]
  /\ UNCHANGED <<setup, tables, disk, bucket, url, held, history>>

\* The part is a file of a type and size that pass, and is written under its
\* key.  The path that is returned is that of the temporary file.
Extract(r) ==
  /\ At(r, "received")
  /\ \E t \in Type, n \in 1..MaxBytes :
       req' = [req EXCEPT ![r] = Local("parsed", @.user, @.key, t, n, FALSE, Absent)]
  /\ disk' = [disk EXCEPT ![Mine(r)] = Content]
  /\ UNCHANGED <<setup, tables, temp, bucket, url, held, history>>

\* Receiving, parsing, checking or writing fails: what there is is removed.
RefuseFile(r) ==
  /\ At(r, "received")
  /\ temp' = temp \ {Mine(r)}
  /\ End(r)
  /\ UNCHANGED <<setup, tables, disk, bucket, url, held, history>>

\* storage.put sends or renames file.path: the request body.
Put(k) ==
  \/ /\ backend = "s3"
     /\ bucket' = [bucket EXCEPT ![k] = Envelope]
     /\ UNCHANGED <<temp, disk>>
  \/ /\ backend = "local"
     /\ disk' = [disk EXCEPT ![k] = Envelope]
     /\ temp' = temp \ {k}
     /\ UNCHANGED bucket

StoreObject(r) ==
  /\ At(r, "parsed")
  /\ Put(Mine(r))
  /\ Goto(r, "stored")
  /\ UNCHANGED <<setup, tables, url, held, history>>

\* put throws, having done its work or not; finally removes the temporary
\* file, and the handler ends.
StoreFails(r) ==
  /\ At(r, "parsed")
  /\ \/ backend = "s3" /\ bucket' \in {bucket, [bucket EXCEPT ![Mine(r)] = Envelope]}
     \/ backend = "local" /\ UNCHANGED bucket
  /\ temp' = temp \ {Mine(r)}
  /\ faulted' = faulted \cup {Mine(r)}
  /\ End(r)
  /\ UNCHANGED <<setup, tables, disk, url, held, told>>

\* finally: the temporary file is removed.
Sweep(r) ==
  /\ At(r, "stored")
  /\ temp' = temp \ {Mine(r)}
  /\ Goto(r, "swept")
  /\ UNCHANGED <<setup, tables, disk, bucket, url, held, history>>

\* Mutant: the object is removed whether or not the row was inserted.
RegisterUploadAndClean(r) ==
  /\ At(r, "swept")
  /\ Register(r)
  /\ Tell(r)
  /\ Goto(r, "cleanup")
  /\ UNCHANGED <<setup, intents, evidence, progress, stores, faulted>>

RegisterUpload(r) ==
  /\ At(r, "swept")
  /\ Register(r)
  /\ Tell(r)
  /\ End(r)
  /\ UNCHANGED <<setup, intents, evidence, progress, stores, faulted>>

\* Mutant: nobody removes what could not be registered.
RegisterFailsUncleaned(r) ==
  /\ At(r, "swept")
  /\ mode = "postgres"
  /\ UNCHANGED uploads \/ Register(r)
  /\ End(r)
  /\ UNCHANGED <<setup, intents, evidence, progress, stores, history>>

\* insertUpload throws; if only its answer was lost the row is there.
RegisterFails(r) ==
  /\ At(r, "swept")
  /\ mode = "postgres"
  /\ UNCHANGED uploads \/ Register(r)
  /\ Goto(r, "cleanup")
  /\ UNCHANGED <<setup, intents, evidence, progress, stores, history>>

\* storage.delete.
Cleanup(r) ==
  /\ At(r, "cleanup")
  /\ IF backend = "s3"
       THEN bucket' = [bucket EXCEPT ![Mine(r)] = Absent] /\ UNCHANGED disk
       ELSE disk' = [disk EXCEPT ![Mine(r)] = Absent] /\ UNCHANGED bucket
  /\ End(r)
  /\ UNCHANGED <<setup, tables, temp, url, held, history>>

\* It fails, and that is logged or ignored.
CleanupFails(r) ==
  /\ At(r, "cleanup")
  /\ faulted' = faulted \cup {Mine(r)}
  /\ End(r)
  /\ UNCHANGED <<setup, tables, stores, told>>

UploadStep(r) ==
  \/ Receive(r) \/ Extract(r) \/ RefuseFile(r)
  \/ StoreObject(r) \/ StoreFails(r) \/ Sweep(r)
  \/ RegisterUpload(r) \/ RegisterFails(r)
  \/ Cleanup(r) \/ CleanupFails(r)
=============================================================================
