--------------------------- MODULE UploadsProofs ---------------------------
(***************************************************************************)
(* Proofs about Uploads for every number of users, keys, handlers and      *)
(* objects, and for either kind of storage and of tables.                  *)
(***************************************************************************)
EXTENDS Uploads, TLAPS

USE UploadAssumption DEF setup

\* A handler that goes on to another point, or ends, keeps its type.
LEMMA HandlerTyped ==
  ASSUME TypeOK, NEW r \in Request,
         \/ End(r)
         \/ \E label \in {"citing"} \cup Direct \cup Completes : Goto(r, label)
  PROVE  /\ req' \in [Request -> Handler]
         /\ \A q \in Request \ {r} : req'[q] = req[q]
<1> USE DEF TypeOK
<1>1. ASSUME NEW h \in Handler, req' = [req EXCEPT ![r] = h]
      PROVE  req' \in [Request -> Handler] /\ \A q \in Request \ {r} : req'[q] = req[q]
  BY <1>1
<1>2. CASE End(r)
  <2>1. Idle \in Handler BY DEF Idle, Local, Handler
  <2>2. QED BY <1>1, <1>2, <2>1 DEF End
<1>3. ASSUME NEW label \in {"citing"} \cup Direct \cup Completes, Goto(r, label)
      PROVE  req' \in [Request -> Handler] /\ \A q \in Request \ {r} : req'[q] = req[q]
  <2>1. [req[r] EXCEPT !.pc = label] \in Handler BY DEF Handler
  <2>2. req' = [req EXCEPT ![r] = [req[r] EXCEPT !.pc = label]] BY <1>3 DEF Goto
  <2>3. QED BY <1>1, <2>1, <2>2
<1>4. QED BY <1>2, <1>3

\* A new row is a row, and no other changes.
LEMMA RowTyped ==
  ASSUME TypeOK, NEW r \in Request, Register(r),
         req[r].user \in User, req[r].key \in Key,
         req[r].type \in Type, req[r].size \in 1..MaxBytes
  PROVE  /\ uploads' \in [Key -> Row \cup {NoRow}]
         /\ uploads'[req[r].key] # NoRow
         /\ uploads'[req[r].key].by = req[r].user
         /\ uploads'[req[r].key].type = req[r].type
         /\ uploads'[req[r].key].size = req[r].size
         /\ \A k \in Key \ {req[r].key} : uploads'[k] = uploads[k]
<1> DEFINE k == req[r].key
           row == [by |-> req[r].user, type |-> req[r].type, size |-> req[r].size]
<1>1. row \in Row /\ row # NoRow
  BY DEF Row, NoRow
<1>2. uploads' = [uploads EXCEPT ![k] = row] BY DEF Register
<1>3. QED BY <1>1, <1>2 DEF TypeOK

LEMMA UploadInit == Init => UploadInv
<1> SUFFICES ASSUME Init PROVE UploadInv
  OBVIOUS
<1> USE DEF Init
<1>1. TypeOK BY DEF TypeOK, Handler, Idle, Local
<1>2. DirectInv /\ CompleteInv /\ CiteInv
  BY DEF DirectInv, CompleteInv, CiteInv, Idle, Local, Direct, Completes, At
<1>3. KeyInv BY DEF KeyInv
<1>4. AnsweredIsStored /\ EvidenceIsBacked
  BY DEF AnsweredIsStored, EvidenceIsBacked
<1>5. IntentIsConsumed /\ RecordedIsVerified
  BY DEF IntentIsConsumed, RecordedIsVerified
<1>6. NoSilentOrphan BY DEF NoSilentOrphan, Stored, Kept
<1>7. LateRetryIsAnswered BY DEF LateRetryIsAnswered, Idle, Local
<1>8. QED BY <1>1, <1>2, <1>3, <1>4, <1>5, <1>6, <1>7 DEF UploadInv

(***************************************************************************)
(* All steps that end a handler and change no table.  One of the multipart *)
(* route may change what is stored under its key, if that is accounted for *)
(* afterwards.                                                             *)
(***************************************************************************)
LEMMA EndStep ==
  ASSUME UploadInv, UNCHANGED setup, NEW r \in Request, End(r),
         UNCHANGED <<tables, url, held, told>>,
         temp' \subseteq temp,
         disk' \in [Key -> {Absent, Content, Envelope}],
         bucket' \in [Key -> {Absent, Content, Envelope} \cup Objects],
         \/ UNCHANGED <<disk, bucket>>
         \/ /\ req[r].pc \in Direct
            /\ \A k \in Key \ {req[r].key} : disk'[k] = disk[k] /\ bucket'[k] = bucket[k],
         faulted \subseteq faulted', faulted' \subseteq Key,
         \A k \in Key :
           req[r].pc \in Direct /\ k = req[r].key => k \in faulted' \/ ~Stored(k)'
  PROVE  UploadInv'
<1> USE DEF UploadInv, tables
<1>1. req' \in [Request -> Handler] /\ \A q \in Request \ {r} : req'[q] = req[q]
  BY HandlerTyped
<1>2. req'[r].pc = "idle" BY DEF TypeOK, End, Idle, Local
<1>3. \A k \in Key :
        \/ Stored(k)' = Stored(k) /\ bucket'[k] = bucket[k]
        \/ /\ req[r].pc \in Direct /\ k = req[r].key
           /\ url[k] = "none" /\ held[k] = {} /\ ~Known(k)
           /\ \A u \in User : <<u, k>> \notin told
           /\ \A q \in Request \ {r} : req[q].pc \in Direct => req[q].key # k
  <2> SUFFICES ASSUME NEW k \in Key
               PROVE  \/ Stored(k)' = Stored(k) /\ bucket'[k] = bucket[k]
                      \/ /\ req[r].pc \in Direct /\ k = req[r].key
                         /\ url[k] = "none" /\ held[k] = {} /\ ~Known(k)
                         /\ \A u \in User : <<u, k>> \notin told
                         /\ \A q \in Request \ {r} : req[q].pc \in Direct => req[q].key # k
    OBVIOUS
  <2>1. CASE disk'[k] = disk[k] /\ bucket'[k] = bucket[k] BY <2>1 DEF Stored, Kept
  <2>2. CASE req[r].pc \in Direct /\ k = req[r].key BY <2>2 DEF DirectInv, KeyInv, Known
  <2>3. QED BY <2>1, <2>2
<1>4. TypeOK' BY <1>1 DEF TypeOK
<1>5. DirectInv'
  <2> SUFFICES ASSUME NEW q \in Request, req'[q].pc \in Direct
               PROVE  /\ req'[q].pc = "received" => ~Stored(req[q].key)'
                      /\ req'[q].pc \in {"stored", "swept"} => Stored(req[q].key)'
    BY <1>1, <1>2 DEF DirectInv, Direct, Stored, Kept
  <2>1. q # r /\ req'[q] = req[q] BY <1>1, <1>2 DEF Direct
  <2>2. req[q].key \in Key BY <2>1 DEF DirectInv
  <2>3. Stored(req[q].key)' = Stored(req[q].key) BY <1>3, <2>1, <2>2 DEF Stored, Kept
  <2>4. QED BY <2>1, <2>3 DEF DirectInv
<1>6. CompleteInv' BY <1>1, <1>2 DEF CompleteInv, Completes
<1>7. KeyInv' BY <1>3 DEF KeyInv
<1>8. CiteInv' BY <1>1, <1>2 DEF CiteInv, At, Known
<1>9. AnsweredIsStored' BY <1>3 DEF AnsweredIsStored
<1>10. EvidenceIsBacked' BY <1>3 DEF EvidenceIsBacked, CiteInv, TypeOK
<1>11. IntentIsConsumed' BY DEF IntentIsConsumed
<1>12. RecordedIsVerified' BY DEF RecordedIsVerified
<1>13. NoSilentOrphan'
  <2> SUFFICES ASSUME NEW k \in Key, Stored(k)', url[k] = "none", uploads[k] = NoRow
               PROVE  k \in faulted' \/ \E q \in Request : req'[q].key = k /\ req'[q].pc \in Direct
    BY DEF NoSilentOrphan
  <2>1. CASE req[r].pc \in Direct /\ k = req[r].key BY <2>1
  <2>2. CASE ~(req[r].pc \in Direct /\ k = req[r].key)
    <3>1. Stored(k) BY <1>3, <2>2
    <3>2. k \in faulted \/ \E q \in Request : req[q].key = k /\ req[q].pc \in Direct
      BY <3>1 DEF NoSilentOrphan
    <3>3. QED BY <1>1, <2>2, <3>2
  <2>3. QED BY <2>1, <2>2
<1>14. LateRetryIsAnswered' BY <1>1, <1>2 DEF LateRetryIsAnswered
<1>15. QED
  BY <1>4, <1>5, <1>6, <1>7, <1>8, <1>9, <1>10, <1>11, <1>12, <1>13, <1>14

LEMMA RefusalSteps ==
  ASSUME UploadInv, UNCHANGED setup, NEW r \in Request,
         \/ RefuseFile(r) \/ CleanupFails(r)
         \/ ValidateFails(r) \/ RefuseCompletion(r)
         \/ EvidenceRefused(r) \/ Die(r)
  PROVE  UploadInv'
<1> USE DEF At, stores, tables, history, Mine
<1>1. CASE RefuseFile(r)
  <2>1. /\ req[r].pc = "received" /\ temp' \subseteq temp /\ End(r)
        /\ UNCHANGED <<tables, disk, bucket, url, held, told, faulted>>
    BY <1>1 DEF RefuseFile
  <2>2. \A k \in Key : k = req[r].key => ~Stored(k)'
    BY <2>1 DEF UploadInv, DirectInv, Direct, Stored, Kept
  <2>3. QED BY <2>1, <2>2, EndStep DEF UploadInv, TypeOK
<1>2. CASE CleanupFails(r)
  <2>1. req[r].key \in Key BY <1>2 DEF CleanupFails, UploadInv, DirectInv, Direct
  <2>2. QED BY <1>2, <2>1, EndStep DEF CleanupFails, UploadInv, TypeOK
<1>3. CASE ValidateFails(r) BY <1>3, EndStep DEF ValidateFails, Direct, UploadInv, TypeOK
<1>4. CASE RefuseCompletion(r) BY <1>4, EndStep DEF RefuseCompletion, Direct, UploadInv, TypeOK
<1>5. CASE EvidenceRefused(r) BY <1>5, EndStep DEF EvidenceRefused, Direct, UploadInv, TypeOK
<1>6. CASE Die(r)
  <2>1. req[r].pc \in Direct => req[r].key \in Key BY DEF UploadInv, DirectInv
  <2>2. faulted' = IF req[r].pc \in Direct THEN faulted \cup {req[r].key} ELSE faulted
    BY <1>6 DEF Die
  <2>3. End(r) /\ UNCHANGED <<tables, stores, told>> BY <1>6 DEF Die
  <2>4. QED BY <2>1, <2>2, <2>3, EndStep DEF UploadInv, TypeOK
<1>7. QED BY <1>1, <1>2, <1>3, <1>4, <1>5, <1>6

(***************************************************************************)
(* The multipart route.                                                    *)
(***************************************************************************)

\* The key is fresh: nothing says anything of it yet.
LEMMA ReceiveStep ==
  ASSUME UploadInv, UNCHANGED setup, NEW r \in Request, Receive(r)
  PROVE  UploadInv'
<1> USE DEF UploadInv, tables, history, At
<1>1. PICK u \in User, k \in Key :
        /\ Fresh(k)
        /\ temp' = temp \cup {k}
        /\ req' = [req EXCEPT ![r] = Local("received", u, k, Absent, 0, FALSE, Absent)]
  BY DEF Receive
<1>2. UNCHANGED <<tables, disk, bucket, url, held, history>> /\ req[r].pc = "idle"
  BY DEF Receive
<1> DEFINE h == Local("received", u, k, Absent, 0, FALSE, Absent)
<1>3. h \in Handler /\ h.pc = "received" /\ h.user = u /\ h.key = k
  BY DEF Local, Handler, Direct
<1>4. req' \in [Request -> Handler] /\ req'[r] = h
      /\ \A q \in Request \ {r} : req'[q] = req[q] /\ req'[q].key # k
  BY <1>1, <1>3 DEF TypeOK, Fresh
<1> HIDE DEF h
<1>5. TypeOK' BY <1>1, <1>2, <1>4 DEF TypeOK
<1>6. \A v \in User : <<v, k>> \notin told
  BY <1>1 DEF Fresh, AnsweredIsStored
<1>7. DirectInv'
  <2>1. url[k] = "none" /\ uploads[k] = NoRow /\ ~Stored(k) BY <1>1 DEF Fresh
  <2>2. QED BY <1>2, <1>3, <1>4, <1>6, <2>1 DEF DirectInv, Stored, Kept
<1>8. CompleteInv' BY <1>2, <1>3, <1>4 DEF CompleteInv, Completes
<1>9. KeyInv' BY <1>2 DEF KeyInv
<1>10. CiteInv' BY <1>2, <1>3, <1>4 DEF CiteInv, Known
<1>11. AnsweredIsStored' BY <1>2 DEF AnsweredIsStored, Stored, Kept
<1>12. EvidenceIsBacked' BY <1>2 DEF EvidenceIsBacked, Stored, Kept
<1>13. IntentIsConsumed' BY <1>2 DEF IntentIsConsumed
<1>14. RecordedIsVerified' BY <1>2 DEF RecordedIsVerified
<1>15. NoSilentOrphan' BY <1>2, <1>4, <1>3 DEF NoSilentOrphan, Stored, Kept, Direct
<1>16. LateRetryIsAnswered' BY <1>2, <1>3, <1>4 DEF LateRetryIsAnswered
<1>17. QED
  BY <1>5, <1>7, <1>8, <1>9, <1>10, <1>11, <1>12, <1>13, <1>14, <1>15, <1>16

(***************************************************************************)
(* All steps within the multipart route that keep the handler at its key:  *)
(* they may put something under that key, which is not a presigned one.    *)
(***************************************************************************)
LEMMA WorkStep ==
  ASSUME UploadInv, UNCHANGED setup, NEW r \in Request,
         req[r].pc \in Direct, NEW h \in Handler,
         req' = [req EXCEPT ![r] = h],
         h.pc \in Direct \ {"received"}, h.user = req[r].user, h.key = req[r].key,
         h.type \in Type, h.size \in 1..MaxBytes,
         h.pc \in {"stored", "swept"} => Stored(h.key)',
         temp' \subseteq temp,
         disk' \in [Key -> {Absent, Content, Envelope}],
         bucket' \in [Key -> {Absent, Content, Envelope} \cup Objects],
         \A k \in Key \ {req[r].key} : disk'[k] = disk[k] /\ bucket'[k] = bucket[k],
         h.pc # "cleanup" => req[r].pc # "cleanup" /\ UNCHANGED uploads,
         \/ UNCHANGED uploads
         \/ Register(r) /\ req[r].type \in Type /\ req[r].size \in 1..MaxBytes,
         UNCHANGED <<intents, evidence, progress, url, held, told, faulted>>
  PROVE  UploadInv'
<1> USE DEF UploadInv
<1> DEFINE k == req[r].key
<1>1. /\ k \in Key /\ req[r].user \in User /\ url[k] = "none"
      /\ \A u \in User : <<u, k>> \notin told
      /\ \A q \in Request \ {r} : req[q].pc \in Direct => req[q].key # k
  BY DEF DirectInv
<1>2. /\ req' \in [Request -> Handler] /\ req'[r] = h
      /\ \A q \in Request \ {r} : req'[q] = req[q]
  BY DEF TypeOK
<1>3. /\ uploads' \in [Key -> Row \cup {NoRow}]
      /\ \A j \in Key \ {k} : uploads'[j] = uploads[j]
      /\ uploads[k] # NoRow => uploads'[k] # NoRow
  BY <1>1, RowTyped DEF TypeOK
<1>4. \A j \in Key \ {k} : Stored(j)' = Stored(j)
  BY DEF Stored, Kept
<1>5. ~Known(k)
  BY <1>1 DEF Known
<1> HIDE DEF k
<1>6. TypeOK' BY <1>2, <1>3 DEF TypeOK
<1>7. DirectInv'
  <2> SUFFICES ASSUME NEW q \in Request, req'[q].pc \in Direct
               PROVE  /\ req'[q].user \in User /\ req'[q].key \in Key
                      /\ url[req'[q].key] = "none"
                      /\ \A u \in User : <<u, req'[q].key>> \notin told
                      /\ req'[q].pc # "cleanup" => uploads'[req'[q].key] = NoRow
                      /\ req'[q].pc = "received" => ~Stored(req[q].key)'
                      /\ req'[q].pc \in {"stored", "swept"} => Stored(req[q].key)'
                      /\ req'[q].pc # "received" => req'[q].type \in Type /\ req'[q].size \in 1..MaxBytes
                      /\ \A p \in Request \ {q} : req'[p].pc \in Direct => req'[p].key # req'[q].key
    BY DEF DirectInv, Stored, Kept
  <2>1. CASE q = r
    <3>1. req'[q] = h BY <1>2, <2>1
    <3>2. h.pc # "cleanup" => uploads'[k] = NoRow BY DEF DirectInv, k
    <3>3. \A p \in Request \ {q} : req'[p].pc \in Direct => req'[p].key # k
      BY <1>1, <1>2, <2>1 DEF k
    <3>4. h.pc \in {"stored", "swept"} => Stored(req[q].key)'
      BY <3>1 DEF Stored, Kept, k
    <3>5. QED BY <1>1, <3>1, <3>2, <3>3, <3>4 DEF k
  <2>2. CASE q # r
    <3>1. req'[q] = req[q] /\ req[q].key # k BY <1>1, <1>2, <2>2 DEF k
    <3>2. req[q].key \in Key BY <3>1 DEF DirectInv
    <3>3. /\ uploads'[req[q].key] = uploads[req[q].key]
          /\ Stored(req[q].key)' = Stored(req[q].key)
      BY <1>3, <1>4, <3>1, <3>2 DEF Stored, Kept
    <3>4. \A p \in Request \ {q} : req'[p].pc \in Direct => req'[p].key # req'[q].key
      BY <1>2, <3>1 DEF DirectInv, k
    <3>5. QED BY <3>1, <3>2, <3>3, <3>4 DEF DirectInv
  <2>3. QED BY <2>1, <2>2
<1>8. CompleteInv'
  <2> SUFFICES ASSUME NEW q \in Request, req[q].pc \in Completes, q # r
               PROVE  req[q].had => uploads'[req[q].key] # NoRow
    BY <1>2 DEF CompleteInv, Completes, Direct
  <2>1. req[q].key \in Key BY DEF CompleteInv
  <2>2. QED BY <1>3, <2>1 DEF CompleteInv
<1>9. KeyInv' BY <1>1 DEF KeyInv, k
<1>10. CiteInv' BY <1>2 DEF CiteInv, Known, At, Direct
<1>11. AnsweredIsStored' BY <1>1, <1>3, <1>4 DEF AnsweredIsStored, k
<1>12. EvidenceIsBacked'
  <2>1. \A e \in evidence : e.key \in Key /\ e.key # k BY <1>5 DEF CiteInv, TypeOK
  <2>2. QED BY <1>3, <1>4, <2>1 DEF EvidenceIsBacked
<1>13. IntentIsConsumed' BY <1>1, <1>3 DEF IntentIsConsumed, KeyInv, k
<1>14. RecordedIsVerified' BY <1>1, <1>3 DEF RecordedIsVerified, k
<1>15. NoSilentOrphan'
  <2> SUFFICES ASSUME NEW j \in Key, Stored(j)', url[j] = "none", uploads'[j] = NoRow
               PROVE  j \in faulted \/ \E q \in Request : req'[q].key = j /\ req'[q].pc \in Direct
    BY DEF NoSilentOrphan
  <2>1. CASE j = k BY <1>2, <2>1 DEF k
  <2>2. CASE j # k BY <1>2, <1>3, <1>4, <2>2 DEF NoSilentOrphan, k
  <2>3. QED BY <2>1, <2>2
<1>16. LateRetryIsAnswered' BY <1>2 DEF LateRetryIsAnswered, Direct
<1>17. QED
  BY <1>6, <1>7, <1>8, <1>9, <1>10, <1>11, <1>12, <1>13, <1>14, <1>15, <1>16

(***************************************************************************)
(* All steps that end a handler with its key registered, by this step or   *)
(* before it.                                                              *)
(***************************************************************************)
LEMMA RecordStep ==
  ASSUME UploadInv, UNCHANGED setup, NEW r \in Request, End(r),
         NEW k \in Key, k = req[r].key, NEW u \in User, u = req[r].user,
         Stored(k),
         \A q \in Request \ {r} : req[q].pc \in Direct => req[q].key # k,
         uploads' \in [Key -> Row \cup {NoRow}], uploads'[k] # NoRow,
         \A j \in Key \ {k} : uploads'[j] = uploads[j] /\ intents'[j] = intents[j],
         intents' \in [Key -> Intent \cup {NoIntent}], intents'[k] = NoIntent,
         uploads[k] # NoRow => UNCHANGED uploads,
         \/ UNCHANGED told
         \/ told' = told \cup {<<u, k>>} /\ uploads'[k].by = u,
         url[k] # "none" =>
           /\ \E o \in held[k] : Acceptable(o, uploads'[k].type) /\ o.size = uploads'[k].size
           /\ \E o \in held[k] : uploads'[k].type \in o.looks,
         UNCHANGED <<evidence, progress, stores, faulted>>
  PROVE  UploadInv'
<1> USE DEF UploadInv, stores
<1>1. req' \in [Request -> Handler] /\ \A q \in Request \ {r} : req'[q] = req[q]
  BY HandlerTyped
<1>2. req'[r].pc = "idle" BY DEF TypeOK, End, Idle, Local
<1>3. \A j \in Key : Stored(j)' = Stored(j) /\ (uploads[j] # NoRow => uploads'[j] = uploads[j])
  BY DEF Stored, Kept
<1>4. told' \subseteq told \cup {<<u, k>>} /\ told \subseteq told'
  OBVIOUS
<1>5. TypeOK' BY <1>1, <1>4 DEF TypeOK
<1>6. DirectInv'
  <2> SUFFICES ASSUME NEW q \in Request, req'[q].pc \in Direct
               PROVE  /\ \A v \in User : <<v, req[q].key>> \notin told'
                      /\ req'[q].pc # "cleanup" => uploads'[req[q].key] = NoRow
                      /\ q # r
    BY <1>1, <1>2 DEF DirectInv, Direct, Stored, Kept
  <2>1. q # r /\ req'[q] = req[q] BY <1>1, <1>2 DEF Direct
  <2>2. req[q].key \in Key /\ req[q].key # k BY <2>1 DEF DirectInv
  <2>3. QED BY <1>4, <2>1, <2>2 DEF DirectInv
<1>7. CompleteInv'
  <2> SUFFICES ASSUME NEW q \in Request, req[q].pc \in Completes, q # r
               PROVE  req[q].had => uploads'[req[q].key] # NoRow
    BY <1>1, <1>2 DEF CompleteInv, Completes
  <2>1. QED BY <1>3 DEF CompleteInv
<1>8. KeyInv' BY DEF KeyInv
<1>9. CiteInv' BY <1>1, <1>2, <1>4 DEF CiteInv, At, Known
<1>10. AnsweredIsStored' BY <1>3, <1>4 DEF AnsweredIsStored
<1>11. EvidenceIsBacked' BY <1>3 DEF EvidenceIsBacked, TypeOK
<1>12. IntentIsConsumed' BY DEF IntentIsConsumed
<1>13. RecordedIsVerified' BY DEF RecordedIsVerified
<1>14. NoSilentOrphan'
  <2> SUFFICES ASSUME NEW j \in Key, j # k, Stored(j), url[j] = "none", uploads[j] = NoRow
               PROVE  j \in faulted \/ \E q \in Request : req'[q].key = j /\ req'[q].pc \in Direct
    BY <1>3 DEF NoSilentOrphan
  <2>1. QED BY <1>1 DEF NoSilentOrphan
<1>15. LateRetryIsAnswered' BY <1>1, <1>2 DEF LateRetryIsAnswered
<1>16. QED
  BY <1>5, <1>6, <1>7, <1>8, <1>9, <1>10, <1>11, <1>12, <1>13, <1>14, <1>15

LEMMA MultipartSteps ==
  ASSUME UploadInv, UNCHANGED setup, NEW r \in Request,
         \/ Extract(r) \/ StoreObject(r) \/ StoreFails(r) \/ Sweep(r)
         \/ RegisterUpload(r) \/ RegisterFails(r) \/ Cleanup(r)
  PROVE  UploadInv'
<1> USE DEF UploadInv, tables, history, At, Mine
<1>0. PICK k : k = req[r].key
  OBVIOUS
<1>1. /\ req[r] \in Handler
      /\ req[r].pc \in Direct => k \in Key /\ req[r].user \in User
  BY <1>0 DEF TypeOK, DirectInv
<1>2. CASE Extract(r)
  <2>1. PICK t \in Type, n \in 1..MaxBytes :
          req' = [req EXCEPT ![r] = Local("parsed", req[r].user, req[r].key, t, n, FALSE, Absent)]
    BY <1>0, <1>2 DEF Extract
  <2> DEFINE h == Local("parsed", req[r].user, req[r].key, t, n, FALSE, Absent)
  <2>2. req[r].pc \in Direct /\ req[r].pc = "received" BY <1>0, <1>2 DEF Extract, Direct
  <2>3. /\ h \in Handler /\ h.pc = "parsed" /\ h.user = req[r].user /\ h.key = k
        /\ h.type = t /\ h.size = n
    BY <1>0, <1>1, <2>2 DEF Local, Handler, Direct
  <2> HIDE DEF h
  <2>4. disk' = [disk EXCEPT ![k] = Content] /\ UNCHANGED <<tables, temp, bucket, url, held, history>>
    BY <1>0, <1>2 DEF Extract
  <2>5. req' = [req EXCEPT ![r] = h] BY <1>0, <2>1 DEF h
  <2>6. QED BY <1>0, <1>1, <2>2, <2>3, <2>4, <2>5, WorkStep DEF TypeOK, Direct
<1>3. ASSUME NEW label \in Direct \ {"received"}, Goto(r, label), req[r].pc \in Direct \ {"received"}
      PROVE  \E h \in Handler :
               /\ req' = [req EXCEPT ![r] = h]
               /\ h.pc = label /\ h.user = req[r].user /\ h.key = k
               /\ h.type \in Type /\ h.size \in 1..MaxBytes
  <2> DEFINE h == [req[r] EXCEPT !.pc = label]
  <2>1. h \in Handler /\ h.pc = label /\ h.user = req[r].user /\ h.key = k
        /\ h.type = req[r].type /\ h.size = req[r].size
    BY <1>0, <1>1 DEF Handler
  <2>2. req[r].type \in Type /\ req[r].size \in 1..MaxBytes BY <1>0, <1>3 DEF DirectInv
  <2>3. req' = [req EXCEPT ![r] = h] BY <1>0, <1>3 DEF Goto
  <2>4. QED BY <1>0, <2>1, <2>2, <2>3
<1>4. CASE StoreObject(r)
  <2>1. req[r].pc = "parsed" /\ Goto(r, "stored") /\ Put(k)
        /\ UNCHANGED <<tables, url, held, history>>
    BY <1>0, <1>4 DEF StoreObject
  <2>2. PICK h \in Handler :
          /\ req' = [req EXCEPT ![r] = h]
          /\ h.pc = "stored" /\ h.user = req[r].user /\ h.key = k
          /\ h.type \in Type /\ h.size \in 1..MaxBytes
    BY <1>0, <1>3, <2>1 DEF Direct
  <2>3. /\ temp' \subseteq temp
        /\ disk' \in [Key -> {Absent, Content, Envelope}]
        /\ bucket' \in [Key -> {Absent, Content, Envelope} \cup Objects]
        /\ \A j \in Key \ {k} : disk'[j] = disk[j] /\ bucket'[j] = bucket[j]
        /\ Stored(k)'
    <3>1. k \in Key BY <1>0, <1>1, <2>1 DEF Direct
    <3>2. CASE backend = "s3"
      BY <1>0, <2>1, <3>1, <3>2 DEF Put, TypeOK, Stored, Kept
    <3>3. CASE backend = "local"
      BY <1>0, <2>1, <3>1, <3>3 DEF Put, TypeOK, Stored, Kept
    <3>4. QED BY <1>0, <3>2, <3>3 DEF TypeOK
  <2>4. QED BY <1>0, <2>1, <2>2, <2>3, WorkStep DEF Direct
<1>5. CASE StoreFails(r)
  <2>1. /\ req[r].pc = "parsed" /\ req[r].pc \in Direct /\ k \in Key
        /\ bucket' \in {bucket, [bucket EXCEPT ![k] = Envelope]}
        /\ temp' \subseteq temp /\ faulted' = faulted \cup {k} /\ End(r)
        /\ UNCHANGED <<tables, disk, url, held, told>>
    BY <1>0, <1>1, <1>5 DEF StoreFails, Direct
  <2>2. bucket' \in [Key -> {Absent, Content, Envelope} \cup Objects]
        /\ \A j \in Key \ {k} : bucket'[j] = bucket[j]
    BY <1>0, <2>1 DEF TypeOK
  <2>3. QED BY <1>0, <2>1, <2>2, EndStep DEF TypeOK
<1>6. CASE Sweep(r)
  <2>1. req[r].pc = "stored" /\ Goto(r, "swept") /\ temp' = temp \ {k}
        /\ UNCHANGED <<tables, disk, bucket, url, held, history>>
    BY <1>0, <1>6 DEF Sweep
  <2>2. PICK h \in Handler :
          /\ req' = [req EXCEPT ![r] = h]
          /\ h.pc = "swept" /\ h.user = req[r].user /\ h.key = k
          /\ h.type \in Type /\ h.size \in 1..MaxBytes
    BY <1>0, <1>3, <2>1 DEF Direct
  <2>3. Stored(k)'
    <3>1. Stored(k) BY <1>0, <2>1 DEF DirectInv, Direct
    <3>2. Stored(k)' = Stored(k)
      BY <1>0, <2>1, <2>2 DEF Stored, Kept
    <3>3. QED BY <1>0, <3>1, <3>2
  <2>4. QED BY <1>0, <1>1, <2>1, <2>2, <2>3, WorkStep DEF Direct, TypeOK
<1>7. CASE RegisterFails(r)
  <2>1. /\ req[r].pc = "swept" /\ Goto(r, "cleanup")
        /\ UNCHANGED uploads \/ Register(r)
        /\ UNCHANGED <<intents, evidence, progress, stores, history>>
    BY <1>0, <1>7 DEF RegisterFails
  <2>2. PICK h \in Handler :
          /\ req' = [req EXCEPT ![r] = h]
          /\ h.pc = "cleanup" /\ h.user = req[r].user /\ h.key = k
          /\ h.type \in Type /\ h.size \in 1..MaxBytes
    BY <1>0, <1>3, <2>1 DEF Direct
  <2>3. req[r].type \in Type /\ req[r].size \in 1..MaxBytes BY <1>0, <2>1 DEF DirectInv, Direct
  <2>4. UNCHANGED stores BY <1>0, <2>1
  <2>5. QED BY <1>0, <1>1, <2>1, <2>2, <2>3, <2>4, WorkStep DEF Direct, TypeOK, stores
<1>8. CASE RegisterUpload(r)
  <2>1. /\ req[r].pc = "swept" /\ Register(r) /\ Tell(r) /\ End(r) /\ k \in Key
        /\ UNCHANGED <<intents, evidence, progress, stores, faulted>>
    BY <1>0, <1>1, <1>8 DEF RegisterUpload, Direct
  <2>2. /\ req[r].user \in User /\ req[r].type \in Type /\ req[r].size \in 1..MaxBytes
        /\ url[k] = "none" /\ Stored(k) /\ uploads[k] = NoRow /\ intents[k] = NoIntent
        /\ \A q \in Request \ {r} : req[q].pc \in Direct => req[q].key # k
    BY <1>0, <2>1 DEF DirectInv, KeyInv, Direct
  <2>3. /\ uploads' \in [Key -> Row \cup {NoRow}] /\ uploads'[k] # NoRow
        /\ uploads'[k].by = req[r].user
        /\ \A j \in Key \ {k} : uploads'[j] = uploads[j]
    BY <1>0, <2>1, <2>2, RowTyped
  <2>4. told' = told \cup {<<req[r].user, k>>} BY <1>0, <2>1 DEF Tell
  <2>5. QED BY <1>0, <2>1, <2>2, <2>3, <2>4, RecordStep DEF TypeOK
<1>9. CASE Cleanup(r)
  <2>1. /\ req[r].pc = "cleanup" /\ End(r) /\ k \in Key
        /\ IF backend = "s3"
             THEN bucket' = [bucket EXCEPT ![k] = Absent] /\ UNCHANGED disk
             ELSE disk' = [disk EXCEPT ![k] = Absent] /\ UNCHANGED bucket
        /\ UNCHANGED <<tables, temp, url, held, history>>
    BY <1>0, <1>1, <1>9 DEF Cleanup, Direct
  <2>2. /\ disk' \in [Key -> {Absent, Content, Envelope}]
        /\ bucket' \in [Key -> {Absent, Content, Envelope} \cup Objects]
        /\ \A j \in Key \ {k} : disk'[j] = disk[j] /\ bucket'[j] = bucket[j]
        /\ (IF backend = "s3" THEN bucket'[k] ELSE disk'[k]) = Absent
    BY <1>0, <2>1 DEF TypeOK
  <2>3. ~Stored(k)' BY <1>0, <2>2 DEF Stored, Kept
  <2>4. QED BY <1>0, <2>1, <2>2, <2>3, EndStep DEF TypeOK, Direct
<1>10. QED BY <1>0, <1>2, <1>4, <1>5, <1>6, <1>7, <1>8, <1>9

(***************************************************************************)
(* Completion.                                                             *)
(***************************************************************************)
LEMMA HeadStep ==
  ASSUME UploadInv, UNCHANGED setup, NEW r \in Request, NEW u \in User, NEW k \in Key, NEW t \in Type,
         Head(r, u, k, t)
  PROVE  UploadInv'
<1> USE DEF UploadInv, tables, history, stores, At
<1> DEFINE o == bucket[k]
           h == Local("headed", u, k, t, o.size, uploads[k] # NoRow, Absent)
<1>1. /\ req[r].pc = "idle" /\ url[k] # "none" /\ o # Absent /\ Acceptable(o, t)
      /\ req' = [req EXCEPT ![r] = h] /\ UNCHANGED <<tables, stores, history>>
  BY DEF Head
<1>2. o \in held[k] BY <1>1 DEF KeyInv
<1>3. o.size \in 1..MaxBytes BY <1>1 DEF Acceptable
<1>4. /\ h \in Handler /\ h.pc = "headed" /\ h.user = u /\ h.key = k /\ h.type = t
      /\ h.size = o.size /\ h.had = (uploads[k] # NoRow)
  BY <1>3 DEF Local, Handler, Completes
<1> HIDE DEF h
<1>5. req' \in [Request -> Handler] /\ req'[r] = h /\ \A q \in Request \ {r} : req'[q] = req[q]
  BY <1>1, <1>4 DEF TypeOK
<1>6. TypeOK' BY <1>1, <1>5 DEF TypeOK
<1>7. DirectInv' BY <1>1, <1>4, <1>5 DEF DirectInv, Direct, Stored, Kept
<1>8. CompleteInv'
  <2> SUFFICES ASSUME NEW q \in Request, req'[q].pc \in Completes
               PROVE  /\ req'[q].user \in User /\ req'[q].key \in Key /\ req'[q].type \in Type
                      /\ req'[q].size \in 1..MaxBytes
                      /\ url[req'[q].key] # "none"
                      /\ \E x \in held[req'[q].key] : Acceptable(x, req'[q].type) /\ x.size = req'[q].size
                      /\ req'[q].pc # "headed" => \E x \in held[req'[q].key] : req'[q].type \in x.looks
                      /\ req'[q].had => uploads[req'[q].key] # NoRow
    BY <1>1 DEF CompleteInv
  <2>1. CASE q = r
    BY <1>1, <1>2, <1>3, <1>4, <1>5, <2>1
  <2>2. CASE q # r
    BY <1>5, <2>2 DEF CompleteInv
  <2>3. QED BY <2>1, <2>2
<1>9. KeyInv' BY <1>1 DEF KeyInv
<1>10. CiteInv' BY <1>1, <1>4, <1>5 DEF CiteInv, Known
<1>11. AnsweredIsStored' BY <1>1 DEF AnsweredIsStored, Stored, Kept
<1>12. EvidenceIsBacked' BY <1>1 DEF EvidenceIsBacked, Stored, Kept
<1>13. IntentIsConsumed' BY <1>1 DEF IntentIsConsumed
<1>14. RecordedIsVerified' BY <1>1 DEF RecordedIsVerified
<1>15. NoSilentOrphan' BY <1>1, <1>5 DEF NoSilentOrphan, Stored, Kept, Direct
<1>16. LateRetryIsAnswered' BY <1>4, <1>5 DEF LateRetryIsAnswered
<1>17. QED
  BY <1>6, <1>7, <1>8, <1>9, <1>10, <1>11, <1>12, <1>13, <1>14, <1>15, <1>16

\* A completion passes one more check.
LEMMA PassStep ==
  ASSUME UploadInv, UNCHANGED setup, NEW r \in Request, NEW label \in Completes \ {"headed"},
         req[r].pc \in Completes, Goto(r, label),
         req[r].pc = "headed" => \E o \in held[req[r].key] : req[r].type \in o.looks,
         label \in {"looked", "reserved"} => ~req[r].had,
         UNCHANGED <<tables, stores, history>>
  PROVE  UploadInv'
<1> USE DEF UploadInv, tables, history, stores
<1> DEFINE h == [req[r] EXCEPT !.pc = label]
<1>1. /\ h \in Handler /\ h.pc = label /\ h.user = req[r].user /\ h.key = req[r].key
      /\ h.type = req[r].type /\ h.size = req[r].size /\ h.had = req[r].had
  BY DEF TypeOK, Handler
<1>2. req' \in [Request -> Handler] /\ req'[r] = h /\ \A q \in Request \ {r} : req'[q] = req[q]
  BY <1>1 DEF TypeOK, Goto
<1> HIDE DEF h
<1>3. TypeOK' BY <1>2 DEF TypeOK
<1>4. DirectInv' BY <1>1, <1>2 DEF DirectInv, Direct, Completes, Stored, Kept
<1>5. CompleteInv' BY <1>1, <1>2 DEF CompleteInv
<1>6. KeyInv' BY DEF KeyInv
<1>7. CiteInv' BY <1>1, <1>2 DEF CiteInv, At, Known, Completes
<1>8. AnsweredIsStored' BY DEF AnsweredIsStored, Stored, Kept
<1>9. EvidenceIsBacked' BY DEF EvidenceIsBacked, Stored, Kept
<1>10. IntentIsConsumed' BY DEF IntentIsConsumed
<1>11. RecordedIsVerified' BY DEF RecordedIsVerified
<1>12. NoSilentOrphan' BY <1>2 DEF NoSilentOrphan, Stored, Kept, Direct, Completes
<1>13. LateRetryIsAnswered' BY <1>1, <1>2 DEF LateRetryIsAnswered
<1>14. QED
  BY <1>3, <1>4, <1>5, <1>6, <1>7, <1>8, <1>9, <1>10, <1>11, <1>12, <1>13

\* What RecordStep needs to know of a completion.
LEMMA Completing ==
  ASSUME UploadInv, NEW r \in Request, req[r].pc \in Completes
  PROVE  /\ req[r].key \in Key /\ req[r].user \in User
         /\ req[r].type \in Type /\ req[r].size \in 1..MaxBytes
         /\ url[req[r].key] # "none" /\ Stored(req[r].key)
         /\ \A q \in Request \ {r} : req[q].pc \in Direct => req[q].key # req[r].key
<1>1. /\ req[r].key \in Key /\ req[r].user \in User
      /\ req[r].type \in Type /\ req[r].size \in 1..MaxBytes
      /\ url[req[r].key] # "none" /\ held[req[r].key] # {}
  BY DEF UploadInv, CompleteInv
<1>2. Stored(req[r].key) BY <1>1 DEF UploadInv, KeyInv, Stored, Kept
<1>3. QED BY <1>1, <1>2 DEF UploadInv, DirectInv

LEMMA AnswerExistingStep ==
  ASSUME UploadInv, UNCHANGED setup, NEW r \in Request, req[r].pc \in Completes, AnswerExisting(r)
  PROVE  UploadInv'
<1> DEFINE k == req[r].key
<1>1. k \in Key /\ req[r].user \in User /\ Stored(k) /\ url[k] # "none"
      /\ \A q \in Request \ {r} : req[q].pc \in Direct => req[q].key # k
  BY Completing
<1>2. /\ uploads[k] # NoRow /\ End(r) /\ UNCHANGED <<tables, stores, faulted>>
      /\ \/ UNCHANGED told
         \/ told' = told \cup {<<req[r].user, k>>} /\ uploads[k].by = req[r].user
  BY DEF AnswerExisting, Tell
<1>3. intents[k] = NoIntent BY <1>1, <1>2 DEF UploadInv, IntentIsConsumed
<1>4. /\ \E o \in held[k] : Acceptable(o, uploads[k].type) /\ o.size = uploads[k].size
      /\ \E o \in held[k] : uploads[k].type \in o.looks
  BY <1>1, <1>2 DEF UploadInv, RecordedIsVerified
<1>5. UNCHANGED uploads /\ UNCHANGED intents /\ UNCHANGED <<evidence, progress, stores, faulted>>
  BY <1>2 DEF tables
<1> HIDE DEF k
<1>6. QED BY <1>1, <1>2, <1>3, <1>4, <1>5, RecordStep DEF UploadInv, TypeOK, k

LEMMA SpendStep ==
  ASSUME UploadInv, UNCHANGED setup, NEW r \in Request, req[r].pc \in Completes \ {"headed"}, Spend(r), End(r),
         Usable(r), UNCHANGED told \/ Tell(r),
         UNCHANGED <<evidence, progress, stores, faulted>>
  PROVE  UploadInv'
<1> DEFINE k == req[r].key
<1>1. k \in Key /\ req[r].user \in User /\ Stored(k) /\ url[k] # "none"
      /\ req[r].type \in Type /\ req[r].size \in 1..MaxBytes
      /\ \A q \in Request \ {r} : req[q].pc \in Direct => req[q].key # k
  BY Completing
<1>2. uploads[k] = NoRow BY <1>1 DEF Usable, UploadInv, IntentIsConsumed
<1>3. Register(r) /\ intents' = [intents EXCEPT ![k] = NoIntent] BY <1>2 DEF Spend
<1>4. /\ uploads' \in [Key -> Row \cup {NoRow}] /\ uploads'[k] # NoRow
      /\ uploads'[k].by = req[r].user /\ uploads'[k].type = req[r].type
      /\ uploads'[k].size = req[r].size
      /\ \A j \in Key \ {k} : uploads'[j] = uploads[j]
  BY <1>1, <1>3, RowTyped DEF UploadInv
<1>5. /\ intents' \in [Key -> Intent \cup {NoIntent}] /\ intents'[k] = NoIntent
      /\ \A j \in Key \ {k} : intents'[j] = intents[j]
  BY <1>1, <1>3 DEF UploadInv, TypeOK
<1>6. /\ \E o \in held[k] : Acceptable(o, uploads'[k].type) /\ o.size = uploads'[k].size
      /\ \E o \in held[k] : uploads'[k].type \in o.looks
  BY <1>4 DEF UploadInv, CompleteInv
<1>7. UNCHANGED told \/ told' = told \cup {<<req[r].user, k>>} BY DEF Tell
<1> HIDE DEF k
<1>8. QED BY <1>1, <1>2, <1>4, <1>5, <1>6, <1>7, RecordStep DEF k

LEMMA CompletionSteps ==
  ASSUME UploadInv, UNCHANGED setup, NEW r \in Request,
         \/ Validate(r) \/ Lookup(r) \/ ReadIntent(r)
         \/ CompleteUploadAtomic(r) \/ CompleteInFile(r)
  PROVE  UploadInv'
<1> USE DEF At
<1>1. CASE Validate(r)
  <2>1. req[r].pc = "headed" /\ req[r].pc \in Completes BY <1>1 DEF Validate, Completes
  <2>2. req[r].key \in Key /\ bucket[req[r].key] \in held[req[r].key]
    BY <2>1 DEF UploadInv, CompleteInv, KeyInv
  <2>3. QED BY <1>1, <2>1, <2>2, PassStep DEF Validate, Completes
<1>2. CASE Lookup(r)
  <2>1. req[r].pc = "validated" /\ req[r].pc \in Completes BY <1>2 DEF Lookup, Completes
  <2>2. CASE AnswerExisting(r) BY <2>1, <2>2, AnswerExistingStep
  <2>3. CASE uploads[req[r].key] = NoRow /\ Goto(r, "looked") /\ UNCHANGED <<tables, stores, history>>
    <3>1. req[r].had \in BOOLEAN /\ ~req[r].had
      BY <2>1, <2>3 DEF UploadInv, CompleteInv, TypeOK, Handler
    <3>2. QED BY <2>1, <2>3, <3>1, PassStep DEF Completes
  <2>4. QED BY <1>2, <2>2, <2>3 DEF Lookup
<1>3. CASE ReadIntent(r)
  <2>1. req[r].pc = "looked" /\ req[r].pc \in Completes BY <1>3 DEF ReadIntent, Completes
  <2>2. ~req[r].had BY <2>1 DEF UploadInv, LateRetryIsAnswered
  <2>3. QED BY <1>3, <2>1, <2>2, PassStep DEF ReadIntent, Completes
<1>4. CASE CompleteUploadAtomic(r)
  <2>1. req[r].pc \in Completes \ {"headed"} BY <1>4 DEF CompleteUploadAtomic, Completes
  <2>2. QED BY <1>4, <2>1, SpendStep DEF CompleteUploadAtomic
<1>5. CASE CompleteInFile(r)
  <2>1. req[r].pc \in Completes \ {"headed"} BY <1>5 DEF CompleteInFile, Completes
  <2>2. CASE AnswerExisting(r) BY <2>1, <2>2, AnswerExistingStep
  <2>3. CASE Usable(r) /\ Spend(r) /\ Tell(r) /\ End(r) /\ UNCHANGED <<evidence, progress, stores, faulted>>
    BY <2>1, <2>3, SpendStep
  <2>4. QED BY <1>5, <2>2, <2>3 DEF CompleteInFile
<1>6. QED BY <1>1, <1>2, <1>3, <1>4, <1>5

(***************************************************************************)
(* Evidence.                                                               *)
(***************************************************************************)
LEMMA EvidenceReadStep ==
  ASSUME UploadInv, UNCHANGED setup, NEW r \in Request, EvidenceRead(r)
  PROVE  UploadInv'
<1> USE DEF UploadInv, tables, stores, history, At
<1>1. PICK j \in Job, k \in Key :
        /\ Known(k)
        /\ req' = [req EXCEPT ![r] = Local("citing", Provider[j], k, Absent, 0, FALSE, j)]
  BY DEF EvidenceRead
<1>2. UNCHANGED <<tables, stores, history>> /\ req[r].pc = "idle" BY DEF EvidenceRead
<1> DEFINE h == Local("citing", Provider[j], k, Absent, 0, FALSE, j)
<1>3. h \in Handler /\ h.pc = "citing" /\ h.user = Provider[j] /\ h.key = k /\ h.job = j
  BY DEF Local, Handler
<1> HIDE DEF h
<1>4. req' \in [Request -> Handler] /\ req'[r] = h /\ \A q \in Request \ {r} : req'[q] = req[q]
  BY <1>1, <1>3 DEF TypeOK, h
<1>5. TypeOK' BY <1>2, <1>4 DEF TypeOK
<1>6. DirectInv' BY <1>2, <1>3, <1>4 DEF DirectInv, Direct, Stored, Kept
<1>7. CompleteInv' BY <1>2, <1>3, <1>4 DEF CompleteInv, Completes
<1>8. KeyInv' BY <1>2 DEF KeyInv
<1>9. CiteInv'
  <2>1. Known(k)' = Known(k) BY <1>2 DEF Known
  <2>2. \A e \in evidence : Known(e.key)' BY <1>2 DEF CiteInv, Known
  <2>3. ASSUME NEW q \in Request, req'[q].pc = "citing"
        PROVE  /\ req'[q].job \in Job /\ req'[q].user = Provider[req'[q].job]
               /\ req'[q].key \in Key
               /\ url[req'[q].key] # "none" \/ \E u \in User : <<u, req'[q].key>> \in told
    <3>1. CASE q = r BY <1>1, <1>3, <1>4, <3>1 DEF Known
    <3>2. CASE q # r BY <1>4, <2>3, <3>2 DEF CiteInv, Known
    <3>3. QED BY <3>1, <3>2
  <2>4. QED BY <1>2, <2>2, <2>3 DEF CiteInv, Known
<1>10. AnsweredIsStored' BY <1>2 DEF AnsweredIsStored, Stored, Kept
<1>11. EvidenceIsBacked' BY <1>2 DEF EvidenceIsBacked, Stored, Kept
<1>12. IntentIsConsumed' BY <1>2 DEF IntentIsConsumed
<1>13. RecordedIsVerified' BY <1>2 DEF RecordedIsVerified
<1>14. NoSilentOrphan' BY <1>2, <1>4 DEF NoSilentOrphan, Stored, Kept, Direct
<1>15. LateRetryIsAnswered' BY <1>3, <1>4 DEF LateRetryIsAnswered
<1>16. QED
  BY <1>5, <1>6, <1>7, <1>8, <1>9, <1>10, <1>11, <1>12, <1>13, <1>14, <1>15

\* A known key with a row has its object: it was answered, or presigned.
LEMMA KnownIsStored ==
  ASSUME UploadInv, NEW k \in Key, Known(k), uploads[k] # NoRow
  PROVE  Stored(k)
<1> USE DEF UploadInv
<1>1. CASE url[k] # "none"
  BY <1>1 DEF RecordedIsVerified, KeyInv, Stored, Kept
<1>2. CASE \E u \in User : <<u, k>> \in told
  BY <1>2 DEF AnsweredIsStored
<1>3. QED BY <1>1, <1>2 DEF Known

LEMMA EvidenceInsertStep ==
  ASSUME UploadInv, UNCHANGED setup, NEW r \in Request, EvidenceInsert(r)
  PROVE  UploadInv'
<1> USE DEF UploadInv, stores, history, At
<1> DEFINE e == [job |-> req[r].job, by |-> req[r].user, key |-> req[r].key]
<1>1. /\ req[r].pc = "citing" /\ OwnUpload(r) /\ End(r) /\ evidence' = evidence \cup {e}
      /\ UNCHANGED <<uploads, intents, progress, stores, history>>
  BY DEF EvidenceInsert
<1>2. /\ req[r].job \in Job /\ req[r].user = Provider[req[r].job]
      /\ req[r].key \in Key /\ Known(req[r].key)
  BY <1>1 DEF CiteInv
<1>3. /\ e \in [job : Job, by : User, key : Key]
      /\ e.by = Provider[e.job] /\ Known(e.key)
      /\ uploads[e.key] # NoRow /\ uploads[e.key].by = e.by /\ Stored(e.key)
  BY <1>1, <1>2, KnownIsStored DEF OwnUpload
<1> HIDE DEF e
<1>4. req' \in [Request -> Handler] /\ \A q \in Request \ {r} : req'[q] = req[q]
  BY <1>1, HandlerTyped
<1>5. req'[r].pc = "idle" BY <1>1 DEF TypeOK, End, Idle, Local
<1>6. TypeOK' BY <1>1, <1>3, <1>4 DEF TypeOK
<1>7. DirectInv' BY <1>1, <1>4, <1>5 DEF DirectInv, Direct, Stored, Kept
<1>8. CompleteInv' BY <1>1, <1>4, <1>5 DEF CompleteInv, Completes
<1>9. KeyInv' BY <1>1 DEF KeyInv
<1>10. CiteInv' BY <1>1, <1>3, <1>4, <1>5 DEF CiteInv, Known
<1>11. AnsweredIsStored' BY <1>1 DEF AnsweredIsStored, Stored, Kept
<1>12. EvidenceIsBacked' BY <1>1, <1>3 DEF EvidenceIsBacked, Stored, Kept
<1>13. IntentIsConsumed' BY <1>1 DEF IntentIsConsumed
<1>14. RecordedIsVerified' BY <1>1 DEF RecordedIsVerified
<1>15. NoSilentOrphan' BY <1>1, <1>4 DEF NoSilentOrphan, Stored, Kept, Direct
<1>16. LateRetryIsAnswered' BY <1>4, <1>5 DEF LateRetryIsAnswered
<1>17. QED
  BY <1>6, <1>7, <1>8, <1>9, <1>10, <1>11, <1>12, <1>13, <1>14, <1>15, <1>16

(***************************************************************************)
(* Clients, clocks and the delivery of the job.                            *)
(***************************************************************************)
LEMMA PresignStep ==
  ASSUME UploadInv, UNCHANGED setup, NEW u \in User, NEW k \in Key, NEW t \in Type, Presign(u, k, t)
  PROVE  UploadInv'
<1> USE DEF UploadInv, history
<1>1. /\ backend = "s3" /\ bucket[k] = Absent /\ uploads[k] = NoRow
      /\ \A r \in Request : req[r].key # k
      /\ url' = [url EXCEPT ![k] = "live"]
      /\ intents' = [intents EXCEPT ![k] = [by |-> u, type |-> t, live |-> TRUE]]
      /\ UNCHANGED <<uploads, evidence, progress, temp, disk, bucket, held, req, history>>
  BY DEF Presign, Fresh, Stored, Kept
<1>2. /\ url' \in [Key -> {"none", "live", "expired"}]
      /\ intents' \in [Key -> Intent \cup {NoIntent}]
      /\ url'[k] = "live"
      /\ \A j \in Key \ {k} : url'[j] = url[j] /\ intents'[j] = intents[j]
  BY <1>1 DEF TypeOK, Intent
<1>3. TypeOK' BY <1>1, <1>2 DEF TypeOK
<1>4. DirectInv' BY <1>1, <1>2 DEF DirectInv, Stored, Kept
<1>5. CompleteInv' BY <1>1, <1>2 DEF CompleteInv
<1>6. KeyInv'
  <2>1. ASSUME NEW j \in Key, j = k
        PROVE  url'[j] # "none" /\ bucket[j] = Absent /\ held[j] = {}
    BY <1>1, <1>2, <2>1 DEF KeyInv
  <2>2. QED BY <1>1, <1>2, <2>1 DEF KeyInv
<1>7. CiteInv'
  <2>1. \A j \in Key : Known(j) => Known(j)' BY <1>1, <1>2 DEF Known
  <2>2. QED BY <1>1, <2>1 DEF CiteInv, At, TypeOK
<1>8. AnsweredIsStored' BY <1>1 DEF AnsweredIsStored, Stored, Kept
<1>9. EvidenceIsBacked' BY <1>1 DEF EvidenceIsBacked, Stored, Kept
<1>10. IntentIsConsumed' BY <1>1, <1>2 DEF IntentIsConsumed
<1>11. RecordedIsVerified' BY <1>1, <1>2 DEF RecordedIsVerified
<1>12. NoSilentOrphan' BY <1>1, <1>2 DEF NoSilentOrphan, Stored, Kept
<1>13. LateRetryIsAnswered' BY <1>1 DEF LateRetryIsAnswered
<1>14. QED
  BY <1>3, <1>4, <1>5, <1>6, <1>7, <1>8, <1>9, <1>10, <1>11, <1>12, <1>13

LEMMA PutObjectStep ==
  ASSUME UploadInv, UNCHANGED setup, NEW k \in Key, NEW o \in Objects, PutObject(k, o)
  PROVE  UploadInv'
<1> USE DEF UploadInv, tables, history
<1>1. /\ url[k] = "live"
      /\ bucket' = [bucket EXCEPT ![k] = o]
      /\ held' = [held EXCEPT ![k] = held[k] \cup {o}]
      /\ UNCHANGED <<tables, temp, disk, url, req, history>>
  BY DEF PutObject
<1>2. /\ bucket' \in [Key -> {Absent, Content, Envelope} \cup Objects]
      /\ held' \in [Key -> SUBSET Objects]
      /\ bucket'[k] = o /\ o \in held'[k] /\ o # Absent
      /\ \A j \in Key \ {k} : bucket'[j] = bucket[j] /\ held'[j] = held[j]
      /\ \A j \in Key : held[j] \subseteq held'[j]
  BY <1>1 DEF TypeOK
<1>3. backend = "s3" BY <1>1 DEF KeyInv
<1>4. \A j \in Key \ {k} : Stored(j)' = Stored(j) BY <1>1, <1>2 DEF Stored, Kept
<1>5. \A j \in Key : j = k => Stored(j)' BY <1>2, <1>3 DEF Stored, Kept
<1>6. TypeOK' BY <1>1, <1>2 DEF TypeOK
<1>7. DirectInv'
  <2>1. \A r \in Request : req[r].pc \in Direct => req[r].key \in Key \ {k}
    BY <1>1 DEF DirectInv
  <2>2. \A r \in Request : req[r].pc \in Direct => bucket'[req[r].key] = bucket[req[r].key]
    BY <1>2, <2>1
  <2>3. QED BY <1>1, <2>2 DEF DirectInv, Stored, Kept
<1>8. CompleteInv' BY <1>1, <1>2 DEF CompleteInv
<1>9. KeyInv' BY <1>1, <1>2, <1>3 DEF KeyInv
<1>10. CiteInv' BY <1>1 DEF CiteInv, Known, At
<1>11. AnsweredIsStored' BY <1>1, <1>4, <1>5 DEF AnsweredIsStored
<1>12. EvidenceIsBacked' BY <1>1, <1>4, <1>5 DEF EvidenceIsBacked, TypeOK
<1>13. IntentIsConsumed' BY <1>1 DEF IntentIsConsumed
<1>14. RecordedIsVerified' BY <1>1, <1>2 DEF RecordedIsVerified
<1>15. NoSilentOrphan' BY <1>1, <1>4 DEF NoSilentOrphan
<1>16. LateRetryIsAnswered' BY <1>1 DEF LateRetryIsAnswered
<1>17. QED
  BY <1>6, <1>7, <1>8, <1>9, <1>10, <1>11, <1>12, <1>13, <1>14, <1>15, <1>16

\* A URL or an intent expires, or a job is delivered.
LEMMA TimeStep ==
  ASSUME UploadInv, UNCHANGED setup,
         url' \in [Key -> {"none", "live", "expired"}],
         \A k \in Key : (url'[k] = "none") <=> (url[k] = "none"),
         intents' \in [Key -> Intent \cup {NoIntent}],
         \A k \in Key : intents[k] = NoIntent => intents'[k] = NoIntent,
         progress' \in [Job -> BOOLEAN],
         UNCHANGED <<uploads, evidence, temp, disk, bucket, held, req, history>>
  PROVE  UploadInv'
<1> USE DEF UploadInv, history
<1>1. TypeOK' BY DEF TypeOK
<1>2. DirectInv' BY DEF DirectInv, Stored, Kept
<1>3. CompleteInv' BY DEF CompleteInv
<1>4. KeyInv' BY DEF KeyInv
<1>5. CiteInv'
  <2>1. \A k \in Key : Known(k)' = Known(k) BY DEF Known
  <2>2. QED BY <2>1 DEF CiteInv, Known, At, TypeOK
<1>6. AnsweredIsStored' BY DEF AnsweredIsStored, Stored, Kept
<1>7. EvidenceIsBacked' BY DEF EvidenceIsBacked, Stored, Kept
<1>8. IntentIsConsumed' BY DEF IntentIsConsumed
<1>9. RecordedIsVerified' BY DEF RecordedIsVerified
<1>10. NoSilentOrphan' BY DEF NoSilentOrphan, Stored, Kept
<1>11. LateRetryIsAnswered' BY DEF LateRetryIsAnswered
<1>12. QED
  BY <1>1, <1>2, <1>3, <1>4, <1>5, <1>6, <1>7, <1>8, <1>9, <1>10, <1>11

\* The configuration is read once, when a process starts.
LEMMA SetupStays == [Next]_vars => UNCHANGED setup
<1> SUFFICES ASSUME [Next]_vars PROVE UNCHANGED setup
  OBVIOUS
<1>1. ASSUME NEW r \in Request, UploadStep(r) PROVE UNCHANGED setup
  BY <1>1 DEF UploadStep, Receive, Extract, RefuseFile, StoreObject, StoreFails, Sweep,
              RegisterUpload, RegisterFails, Cleanup, CleanupFails
<1>2. ASSUME NEW r \in Request, CompleteStep(r) PROVE UNCHANGED setup
  BY <1>2 DEF CompleteStep, Head, Validate, ValidateFails, Lookup, AnswerExisting,
              ReadIntent, RefuseCompletion, CompleteUploadAtomic, CompleteInFile
<1>3. ASSUME NEW r \in Request,
             EvidenceRead(r) \/ EvidenceInsert(r) \/ EvidenceRefused(r) \/ Die(r)
      PROVE  UNCHANGED setup
  BY <1>3 DEF EvidenceRead, EvidenceInsert, EvidenceRefused, Die
<1>4. CASE ClientStep
  BY <1>4 DEF ClientStep, Presign, PutObject, UrlExpires, IntentExpires
<1>5. ASSUME NEW j \in Job, Deliver(j) PROVE UNCHANGED setup
  BY <1>5 DEF Deliver
<1>6. CASE UNCHANGED vars BY <1>6 DEF vars
<1>7. QED BY <1>1, <1>2, <1>3, <1>4, <1>5, <1>6 DEF Next

LEMMA UploadStepInv == UploadInv /\ [Next]_vars => UploadInv'
<1> SUFFICES ASSUME UploadInv, [Next]_vars, UNCHANGED setup PROVE UploadInv'
  BY SetupStays
<1>1. ASSUME NEW r \in Request, UploadStep(r) PROVE UploadInv'
  BY <1>1, ReceiveStep, MultipartSteps, RefusalSteps DEF UploadStep
<1>2. ASSUME NEW r \in Request, CompleteStep(r) PROVE UploadInv'
  BY <1>2, HeadStep, CompletionSteps, RefusalSteps DEF CompleteStep
<1>3. ASSUME NEW r \in Request, EvidenceRead(r) \/ EvidenceInsert(r) \/ EvidenceRefused(r) \/ Die(r)
      PROVE  UploadInv'
  BY <1>3, EvidenceReadStep, EvidenceInsertStep, RefusalSteps
<1>4. ASSUME NEW k \in Key, UrlExpires(k) PROVE UploadInv'
  BY <1>4, TimeStep DEF UrlExpires, UploadInv, TypeOK, tables
<1>5. ASSUME NEW k \in Key, IntentExpires(k) PROVE UploadInv'
  <2>1. intents[k] # NoIntent /\ intents[k] \in Intent
    BY <1>5 DEF IntentExpires, NoIntent, UploadInv, TypeOK
  <2>2. [intents[k] EXCEPT !.live = FALSE] \in Intent BY <2>1 DEF Intent
  <2>3. intents' = [intents EXCEPT ![k] = [intents[k] EXCEPT !.live = FALSE]]
    BY <1>5 DEF IntentExpires
  <2>4. /\ intents' \in [Key -> Intent \cup {NoIntent}]
        /\ \A j \in Key : intents[j] = NoIntent => intents'[j] = NoIntent
    BY <2>1, <2>2, <2>3 DEF UploadInv, TypeOK
  <2>5. QED BY <1>5, <2>4, TimeStep DEF IntentExpires, UploadInv, TypeOK, stores
<1>6. CASE ClientStep
  BY <1>4, <1>5, <1>6, PresignStep, PutObjectStep DEF ClientStep
<1>7. ASSUME NEW j \in Job, Deliver(j) PROVE UploadInv'
  BY <1>7, TimeStep DEF Deliver, UploadInv, TypeOK, stores
<1>8. CASE UNCHANGED vars
  BY <1>8, TimeStep DEF vars, tables, stores, history, UploadInv, TypeOK
<1>9. QED BY <1>1, <1>2, <1>3, <1>6, <1>7, <1>8 DEF Next

-----------------------------------------------------------------------------

\* What the tables, the storage and the handlers in flight of the upload
\* routes say of each other is an inductive invariant.
THEOREM UploadInductive == Spec => []UploadInv
<1>1. QED BY UploadInit, UploadStepInv, PTL DEF Spec

\* Cleaning up after one upload never takes away what an answer of the upload
\* or completion route has promised.
THEOREM AnsweredUploadsStay == Spec => []AnsweredIsStored
<1>1. UploadInv => AnsweredIsStored BY DEF UploadInv
<1>2. QED BY <1>1, UploadInductive, PTL

\* Evidence names an upload of its author, whose object is there.
THEOREM EvidenceStaysBacked == Spec => []EvidenceIsBacked
<1>1. UploadInv => EvidenceIsBacked BY DEF UploadInv
<1>2. QED BY <1>1, UploadInductive, PTL

\* No key is reserved and registered at once: completion spends its intent.
THEOREM IntentsAreConsumed == Spec => []IntentIsConsumed
<1>1. UploadInv => IntentIsConsumed BY DEF UploadInv
<1>2. QED BY <1>1, UploadInductive, PTL

\* What completion records of an object it has seen in the bucket.
THEOREM RecordsAreVerified == Spec => []RecordedIsVerified
<1>1. UploadInv => RecordedIsVerified BY DEF UploadInv
<1>2. QED BY <1>1, UploadInductive, PTL

\* An object of the multipart route without a row has a handler, or a failure
\* of storage or of a process, to explain it.
THEOREM OrphansHaveACause == Spec => []NoSilentOrphan
<1>1. UploadInv => NoSilentOrphan BY DEF UploadInv
<1>2. QED BY <1>1, UploadInductive, PTL

\* A completion of a key that is registered already is answered from the row.
THEOREM RetriesAreAnswered == Spec => []LateRetryIsAnswered
<1>1. UploadInv => LateRetryIsAnswered BY DEF UploadInv
<1>2. QED BY <1>1, UploadInductive, PTL

\* Over PostgreSQL evidence is inserted only while its job is in progress.
THEOREM EvidenceIsInTime == Spec => EvidenceWhileInProgress
<1>1. ASSUME [Next]_vars, mode = "postgres"
      PROVE  \A e \in evidence' \ evidence : progress[e.job]
  <2>1. ASSUME NEW r \in Request, EvidenceInsert(r)
        PROVE  \A e \in evidence' \ evidence : progress[e.job]
    BY <1>1, <2>1 DEF EvidenceInsert, AcceptsEvidence
  <2>2. ASSUME ~\E r \in Request : EvidenceInsert(r)
        PROVE  UNCHANGED evidence
    <3>1. ASSUME NEW r \in Request, UploadStep(r) PROVE UNCHANGED evidence
      BY <3>1 DEF UploadStep, Receive, Extract, RefuseFile, StoreObject, StoreFails, Sweep,
                  RegisterUpload, RegisterFails, Cleanup, CleanupFails, tables
    <3>2. ASSUME NEW r \in Request, CompleteStep(r) PROVE UNCHANGED evidence
      BY <3>2 DEF CompleteStep, Head, Validate, ValidateFails, Lookup, AnswerExisting,
                  ReadIntent, RefuseCompletion, CompleteUploadAtomic, CompleteInFile, tables
    <3>3. ASSUME NEW r \in Request, EvidenceRead(r) \/ EvidenceRefused(r) \/ Die(r)
          PROVE  UNCHANGED evidence
      BY <3>3 DEF EvidenceRead, EvidenceRefused, Die, tables
    <3>4. CASE ClientStep
      BY <3>4 DEF ClientStep, Presign, PutObject, UrlExpires, IntentExpires, tables
    <3>5. ASSUME NEW j \in Job, Deliver(j) PROVE UNCHANGED evidence
      BY <3>5 DEF Deliver
    <3>6. CASE UNCHANGED vars BY <3>6 DEF vars, tables
    <3>7. QED BY <1>1, <2>2, <3>1, <3>2, <3>3, <3>4, <3>5, <3>6 DEF Next
  <2>3. QED BY <2>1, <2>2
<1>2. QED BY <1>1, PTL DEF Spec, EvidenceWhileInProgress

\* A completion spends an intent that has not expired and is the user's.
THEOREM IntentsAreSpentAlive == Spec => OnlyLiveIntentsAreSpent
<1>1. ASSUME UploadInv, [Next]_vars, NEW k \in Key,
             url[k] # "none", uploads[k] = NoRow, uploads'[k] # NoRow
      PROVE  /\ intents[k].live
             /\ uploads'[k].by = intents[k].by /\ uploads'[k].type = intents[k].type
             /\ intents'[k] = NoIntent
  <2>1. ASSUME NEW r \in Request, req[r].pc \in Completes, Spend(r), Usable(r)
        PROVE  /\ intents[k].live
               /\ uploads'[k].by = intents[k].by /\ uploads'[k].type = intents[k].type
               /\ intents'[k] = NoIntent
    <3>1. /\ req[r].key \in Key /\ req[r].user \in User
          /\ req[r].type \in Type /\ req[r].size \in 1..MaxBytes
      BY <1>1, <2>1, Completing
    <3>2. uploads[req[r].key] = NoRow BY <1>1, <2>1, <3>1 DEF Usable, UploadInv, IntentIsConsumed
    <3>3. Register(r) /\ intents' = [intents EXCEPT ![req[r].key] = NoIntent]
      BY <2>1, <3>2 DEF Spend
    <3>4. k = req[r].key BY <1>1, <3>1, <3>3, RowTyped DEF UploadInv
    <3>5. uploads'[k].by = req[r].user /\ uploads'[k].type = req[r].type
      BY <1>1, <3>1, <3>3, <3>4, RowTyped DEF UploadInv
    <3>6. QED BY <1>1, <2>1, <3>3, <3>4, <3>5 DEF Usable, UploadInv, TypeOK
  <2>2. ASSUME NEW r \in Request, UploadStep(r) PROVE FALSE
    <3>1. CASE RegisterUpload(r) \/ RegisterFails(r)
      <4>1. /\ req[r].pc = "swept" /\ req[r].pc \in Direct
            /\ UNCHANGED uploads \/ Register(r)
        BY <3>1 DEF RegisterUpload, RegisterFails, At, Direct
      <4>2. /\ req[r].key \in Key /\ req[r].user \in User /\ url[req[r].key] = "none"
            /\ req[r].type \in Type /\ req[r].size \in 1..MaxBytes
        BY <1>1, <4>1 DEF UploadInv, DirectInv
      <4>3. Register(r) => uploads'[k] = uploads[k]
        BY <1>1, <4>2, RowTyped DEF UploadInv
      <4>4. QED BY <1>1, <4>1, <4>3
    <3>2. CASE ~(RegisterUpload(r) \/ RegisterFails(r))
      <4>1. UNCHANGED uploads
        BY <2>2, <3>2 DEF UploadStep, Receive, Extract, RefuseFile, StoreObject, StoreFails,
                          Sweep, Cleanup, CleanupFails, tables
      <4>2. QED BY <1>1, <4>1
    <3>3. QED BY <3>1, <3>2
  <2>3. ASSUME NEW r \in Request, CompleteUploadAtomic(r) \/ CompleteInFile(r)
        PROVE  /\ intents[k].live
               /\ uploads'[k].by = intents[k].by /\ uploads'[k].type = intents[k].type
               /\ intents'[k] = NoIntent
    <3>1. req[r].pc \in Completes
      BY <2>3 DEF CompleteUploadAtomic, CompleteInFile, At, Completes
    <3>2. UNCHANGED uploads \/ (Usable(r) /\ Spend(r))
      BY <2>3 DEF CompleteUploadAtomic, CompleteInFile, AnswerExisting, tables
    <3>3. QED BY <1>1, <2>1, <3>1, <3>2
  <2>4. ASSUME NEW r \in Request, CompleteStep(r), ~(CompleteUploadAtomic(r) \/ CompleteInFile(r))
        PROVE  UNCHANGED uploads
    BY <2>4 DEF CompleteStep, Head, Validate, ValidateFails, Lookup, AnswerExisting,
                ReadIntent, RefuseCompletion, tables
  <2>5. ASSUME NEW r \in Request,
               EvidenceRead(r) \/ EvidenceInsert(r) \/ EvidenceRefused(r) \/ Die(r)
        PROVE  UNCHANGED uploads
    BY <2>5 DEF EvidenceRead, EvidenceInsert, EvidenceRefused, Die, tables
  <2>6. ASSUME ClientStep PROVE UNCHANGED uploads
    BY <2>6 DEF ClientStep, Presign, PutObject, UrlExpires, IntentExpires, tables
  <2>7. ASSUME NEW j \in Job, Deliver(j) PROVE UNCHANGED uploads
    BY <2>7 DEF Deliver
  <2>8. ASSUME UNCHANGED vars PROVE UNCHANGED uploads
    BY <2>8 DEF vars, tables
  <2>9. QED BY <1>1, <2>2, <2>3, <2>4, <2>5, <2>6, <2>7, <2>8 DEF Next
<1>2. UploadInv /\ [Next]_vars =>
        [\A k \in Key :
           url[k] # "none" /\ uploads[k] = NoRow /\ uploads'[k] # NoRow =>
             /\ intents[k].live
             /\ uploads'[k].by = intents[k].by /\ uploads'[k].type = intents[k].type
             /\ intents'[k] = NoIntent]_vars
  BY <1>1
<1>3. QED BY <1>2, UploadInductive, PTL DEF Spec, OnlyLiveIntentsAreSpent
=============================================================================
