-------------------------- MODULE PresignedUpload --------------------------
(***************************************************************************)
(* POST /storage/presign and POST /storage/complete, and the client that   *)
(* puts its object in between, straight into the bucket.                   *)
(*                                                                         *)
(* Completing a key that was not presigned changes nothing (no intent has  *)
(* its name), so that only presigned keys are completed here; early        *)
(* returns of the first checks are steps not taken.                        *)
(***************************************************************************)
EXTENDS UploadState

\* The URL is computed, the intent inserted.  Local storage throws before.
Presign(u, k, t) ==
  /\ backend = "s3"
  /\ Fresh(k)
  /\ url' = [url EXCEPT ![k] = "live"]
  /\ intents' = [intents EXCEPT ![k] = [by |-> u, type |-> t, live |-> TRUE]]
  /\ UNCHANGED <<setup, uploads, evidence, progress, temp, disk, bucket, held, req, history>>

\* The client, as often as it likes while its URL is valid: a PUT that was
\* begun in time counts as in time.
PutObject(k, o) ==
  /\ url[k] = "live"
  /\ bucket' = [bucket EXCEPT ![k] = o]
  /\ held' = [held EXCEPT ![k] = @ \cup {o}]
  /\ UNCHANGED <<setup, tables, temp, disk, url, req, history>>

\* Five minutes pass: for the bucket, and for the server, by their clocks.
UrlExpires(k) ==
  /\ url[k] = "live"
  /\ url' = [url EXCEPT ![k] = "expired"]
  /\ UNCHANGED <<setup, tables, temp, disk, bucket, held, req, history>>

IntentExpires(k) ==
  /\ intents[k].live
  /\ intents' = [intents EXCEPT ![k].live = FALSE]
  /\ UNCHANGED <<setup, uploads, evidence, progress, stores, req, history>>

-----------------------------------------------------------------------------
(* Completion. *)

\* The object is there, of the declared type if it has one, and of a size
\* that passes.
Acceptable(o, t) == o.type \in {t, NoType} /\ o.size \in 1..MaxBytes

\* storage.head.
Head(r, u, k, t) ==
  /\ At(r, "idle")
  /\ url[k] # "none" /\ bucket[k] # Absent
  /\ Acceptable(bucket[k], t)
  /\ req' = [req EXCEPT ![r] =
                Local("headed", u, k, t, bucket[k].size, uploads[k] # NoRow, Absent)]
  /\ UNCHANGED <<setup, tables, stores, history>>

\* Mutant: the first bytes are not compared with the declared type.
ValidateAnything(r) ==
  /\ At(r, "headed")
  /\ Goto(r, "validated")
  /\ UNCHANGED <<setup, tables, stores, history>>

\* storage.validateObject reads the object, whichever it is by now.
Validate(r) ==
  /\ At(r, "headed")
  /\ req[r].type \in bucket[req[r].key].looks
  /\ Goto(r, "validated")
  /\ UNCHANGED <<setup, tables, stores, history>>

ValidateFails(r) ==
  /\ At(r, "headed")
  /\ End(r)
  /\ UNCHANGED <<setup, tables, stores, history>>

\* There is a row: it is the answer, if it is the user's.
AnswerExisting(r) ==
  LET row == uploads[req[r].key] IN
  /\ row # NoRow
  /\ IF row.by = req[r].user THEN Tell(r) ELSE UNCHANGED told
  /\ End(r)
  /\ UNCHANGED <<setup, tables, stores, faulted>>

\* Mutant: completion does not look for a row.
LookupNothing(r) ==
  /\ At(r, "validated") /\ mode = "postgres"
  /\ Goto(r, "looked") /\ UNCHANGED <<setup, tables, stores, history>>

\* findUploadByKey.
Lookup(r) ==
  /\ At(r, "validated") /\ mode = "postgres"
  /\ \/ AnswerExisting(r)
     \/ /\ uploads[req[r].key] = NoRow
        /\ Goto(r, "looked")
        /\ UNCHANGED <<setup, tables, stores, history>>

\* Mutant: the transaction trusts the expiry that was read before it.
UsableOnce(r) ==
  LET i == intents[req[r].key] IN
  /\ i # NoIntent
  /\ i.by = req[r].user /\ i.type = req[r].type
  /\ At(r, "reserved") \/ i.live

\* The intent is the user's, of this type, and has not expired.
Usable(r) ==
  LET i == intents[req[r].key] IN
  /\ i # NoIntent
  /\ i.by = req[r].user /\ i.type = req[r].type
  /\ i.live

\* findUploadIntentForUpdate outside of a transaction: its lock is gone with
\* the statement.
ReadIntent(r) ==
  /\ At(r, "looked")
  /\ Usable(r)
  /\ Goto(r, "reserved")
  /\ UNCHANGED <<setup, tables, stores, history>>

\* 403, 410 or 415, from the checks before the transaction or in it, or 500
\* from any statement.
RefuseCompletion(r) ==
  /\ req[r].pc \in {"validated", "looked", "reserved"}
  /\ mode = "postgres" \/ (uploads[req[r].key] = NoRow /\ ~Usable(r))
  /\ End(r)
  /\ UNCHANGED <<setup, tables, stores, history>>

\* Mutant: the intent stays.
SpendNot(r) == Register(r) /\ UNCHANGED intents

\* The row is inserted and the intent deleted.
Spend(r) ==
  /\ IF uploads[req[r].key] = NoRow THEN Register(r) ELSE UNCHANGED uploads
  /\ intents' = [intents EXCEPT ![req[r].key] = NoIntent]

\* completeUploadAtomic, under the lock of the intent's row.  Its answer may
\* be lost on the way.
CompleteUploadAtomic(r) ==
  /\ At(r, "reserved")
  /\ Usable(r)
  /\ Spend(r)
  /\ Tell(r) \/ UNCHANGED told
  /\ End(r)
  /\ UNCHANGED <<setup, evidence, progress, stores, faulted>>

\* The same over the file store, where nothing comes in between.
CompleteInFile(r) ==
  /\ At(r, "validated") /\ mode = "file"
  /\ \/ AnswerExisting(r)
     \/ /\ uploads[req[r].key] = NoRow
        /\ Usable(r)
        /\ Spend(r)
        /\ Tell(r)
        /\ End(r)
        /\ UNCHANGED <<setup, evidence, progress, stores, faulted>>

CompleteStep(r) ==
  \/ \E u \in User, k \in Key, t \in Type : Head(r, u, k, t)
  \/ Validate(r) \/ ValidateFails(r)
  \/ Lookup(r) \/ ReadIntent(r) \/ RefuseCompletion(r)
  \/ CompleteUploadAtomic(r) \/ CompleteInFile(r)

ClientStep ==
  \E k \in Key :
    \/ \E u \in User, t \in Type : Presign(u, k, t)
    \/ \E o \in Objects : PutObject(k, o)
    \/ UrlExpires(k) \/ IntentExpires(k)
=============================================================================
