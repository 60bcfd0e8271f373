----------------------------- MODULE Marketplace -----------------------------
(***************************************************************************)
(* The request handlers of the backend that move a job, its offers and its *)
(* payment, over the PostgreSQL tables jobs, offers, payments and          *)
(* outbox_events (src/backend/src/app.js and repository.js).               *)
(*                                                                         *)
(* One variable is one column, a function over the primary keys.  A        *)
(* payment is named by its job (payments.job_id is UNIQUE) and an event by *)
(* its dedupe key, <<type, job>>.                                          *)
(*                                                                         *)
(* A transaction is one action: each takes the row lock of the job first   *)
(* (or, inserting an offer, waits for it through the foreign key), so two  *)
(* of them on a job are serialised.  What a handler reads BEFORE its       *)
(* transaction is a separate action, whenever the transaction does not     *)
(* read it again.  Such a read leaves its result in a set that only grows: *)
(* any number of identical requests may be in flight, and any of them may  *)
(* act on the stale result at any later time, or never (its client or its  *)
(* server may die, its transaction may be refused).                        *)
(*                                                                         *)
(* An operator whose comment begins with "Mutant" is not part of the       *)
(* specification: it is a plausible mistake in the operator after it.      *)
(***************************************************************************)
EXTENDS Naturals

CONSTANTS
  Job, User, Offer,             \* primary keys
  OwnerOf,                      \* jobs.owner_id
  OfferJob, OfferBy, OfferPrice,\* offers.job_id, offers.provider_id, offers.price
  Key,                          \* idempotency keys a client may send
  NoUser, NoOffer, NoKey, NoRef \* the NULL of each column

ASSUME ColumnsAssumption ==
  /\ OwnerOf \in [Job -> User]
  /\ OfferJob \in [Offer -> Job]
  /\ OfferBy \in [Offer -> User]
  /\ OfferPrice \in [Offer -> Nat]

ASSUME NullAssumption ==
  /\ NoUser \notin User
  /\ NoOffer \notin Offer
  /\ NoKey \notin Key
  /\ NoRef \notin [payment : Job, key : Key \cup {NoKey}]

VARIABLES
  jobStatus, provider,               \* jobs.status, jobs.provider_id
  offer,                             \* offers.status
  payStatus, payee, payKey, payRef,  \* payments.status, .payee_id, .idempotency_key, .provider_ref
  evStatus, attempts, due, payload,  \* outbox_events.status, .attempts, see Due below, .payload
  audit,                             \* audit_logs: rows per <<action, job>>
  offerRead, startRead, fundRead, fundChosen  \* requests between a read and their transaction

jobVars     == <<jobStatus, provider>>
payVars     == <<payStatus, payee, payKey, payRef>>
eventVars   == <<evStatus, attempts, due, payload>>
requestVars == <<offerRead, startRead, fundRead, fundChosen>>

JobState == {"NONE", "DRAFT", "PUBLISHED", "ASSIGNED", "FUNDED", "IN_PROGRESS",
             "DELIVERED", "UNDER_REVIEW", "COMPLETED", "SETTLED"}
OfferState == {"NONE", "PENDING", "ACCEPTED", "REJECTED"}
PayState == {"NONE", "HOLD_PENDING", "HOLD_FAILED", "HELD", "RELEASE_PENDING", "RELEASED"}
EventState == {"NONE", "PENDING", "PROCESSING", "DONE", "FAILED"}

KeyOrNone == Key \cup {NoKey}

\* What the provider answers a hold with: SIM-<payment>-<hash of the key>.
Ref == [payment : Job, key : KeyOrNone]

\* Outbox events, by dedupe key.
HoldEvent(j)    == <<"PAYMENT_CREATE_HOLD", j>>
ReleaseEvent(j) == <<"PAYMENT_RELEASE", j>>
Event == {"PAYMENT_CREATE_HOLD", "PAYMENT_RELEASE"} \X Job

\* The part of an event's payload that varies.  NoKey in a payload is the key
\* the code makes up from the payment's id.
Payload == [key : KeyOrNone, ref : Ref \cup {NoRef}]

AuditAction == {"PAYMENT_FUND", "PAYMENT_HOLD_CONFIRMED", "PAYMENT_RELEASE"}

\* A funding request that knows whom to pay, and through which offer if the
\* job had no provider when it was read.
Choice == [job : Job, payee : User, offer : Offer \cup {NoOffer}]

MarketInit ==
  /\ jobStatus = [j \in Job |-> "NONE"]
  /\ provider = [j \in Job |-> NoUser]
  /\ offer = [o \in Offer |-> "NONE"]
  /\ payStatus = [j \in Job |-> "NONE"]
  /\ payee = [j \in Job |-> NoUser]
  /\ payKey = [j \in Job |-> NoKey]
  /\ payRef = [j \in Job |-> NoRef]
  /\ evStatus = [e \in Event |-> "NONE"]
  /\ attempts = [e \in Event |-> 0]
  /\ due = [e \in Event |-> FALSE]
  /\ payload = [e \in Event |-> [key |-> NoKey, ref |-> NoRef]]
  /\ audit = [a \in AuditAction \X Job |-> 0]
  /\ offerRead = {}
  /\ startRead = {}
  /\ fundRead = {}
  /\ fundChosen = {}

Log(action, j) == audit' = [audit EXCEPT ![<<action, j>>] = @ + 1]

-----------------------------------------------------------------------------
(* Jobs. *)

\* POST /jobs: the row is inserted as a draft without a provider.
CreateJob(j) ==
  /\ jobStatus[j] = "NONE"
  /\ jobStatus' = [jobStatus EXCEPT ![j] = "DRAFT"]
  /\ UNCHANGED <<provider, offer, payVars, eventVars, audit, requestVars>>

\* updateJobSimple: the job must be in the expected state under its lock.
\* The handler's own check of that state, before the lock, adds nothing.
UpdateJobSimple(j, from, to) ==
  /\ jobStatus[j] = from
  /\ jobStatus' = [jobStatus EXCEPT ![j] = to]
  /\ UNCHANGED <<provider, offer, payVars, eventVars, audit, requestVars>>

\* POST /jobs/:id/publish, by the owner.
Publish(j) == UpdateJobSimple(j, "DRAFT", "PUBLISHED")

\* Mutant: the handler does not ask for the payment.
StartReadUnpaid(j) ==
  /\ provider[j] # NoUser
  /\ jobStatus[j] = "FUNDED"
  /\ startRead' = startRead \cup {j}
  /\ UNCHANGED <<jobVars, offer, payVars, eventVars, audit, offerRead, fundRead, fundChosen>>

\* POST /jobs/:id/start, by the provider.  The payment is read outside the
\* transaction, which looks at the job only.
StartRead(j) ==
  /\ provider[j] # NoUser
  /\ jobStatus[j] = "FUNDED"
  /\ payStatus[j] = "HELD"
  /\ startRead' = startRead \cup {j}
  /\ UNCHANGED <<jobVars, offer, payVars, eventVars, audit, offerRead, fundRead, fundChosen>>

\* Mutant: the job's state is not checked again under its lock.
StartCommitBlind(j) ==
  /\ j \in startRead
  /\ jobStatus' = [jobStatus EXCEPT ![j] = "IN_PROGRESS"]
  /\ UNCHANGED <<provider, offer, payVars, eventVars, audit, requestVars>>

StartCommit(j) ==
  /\ j \in startRead
  /\ UpdateJobSimple(j, "FUNDED", "IN_PROGRESS")

\* POST /jobs/:id/deliver, by the provider.
Deliver(j) ==
  /\ provider[j] # NoUser
  /\ UpdateJobSimple(j, "IN_PROGRESS", "DELIVERED")

\* POST /jobs/:id/accept, by the owner: transitionJobWithPayment, which takes
\* the payment through HELD to RELEASE_PENDING in the job's transaction.
AcceptDelivery(j) ==
  /\ jobStatus[j] \in {"DELIVERED", "UNDER_REVIEW"}
  /\ payStatus[j] = "HELD"
  /\ jobStatus' = [jobStatus EXCEPT ![j] = "COMPLETED"]
  /\ payStatus' = [payStatus EXCEPT ![j] = "RELEASE_PENDING"]
  /\ UNCHANGED <<provider, offer, payee, payKey, payRef, eventVars, audit, requestVars>>

-----------------------------------------------------------------------------
(* Offers. *)

\* POST /offers reads the job as PUBLISHED ...
OfferReadJob(o) ==
  /\ offer[o] = "NONE"
  /\ OfferBy[o] # OwnerOf[OfferJob[o]]
  /\ jobStatus[OfferJob[o]] = "PUBLISHED"
  /\ offerRead' = offerRead \cup {o}
  /\ UNCHANGED <<jobVars, offer, payVars, eventVars, audit, startRead, fundRead, fundChosen>>

\* ... and inserts the offer later, without looking at the job again.  Only a
\* pending offer of the same provider on the job stops it, through the unique
\* index behind findPendingOffer.
OfferInsert(o) ==
  /\ o \in offerRead
  /\ ~ \E p \in Offer : /\ OfferJob[p] = OfferJob[o]
                        /\ OfferBy[p] = OfferBy[o]
                        /\ offer[p] = "PENDING"
  /\ offer' = [offer EXCEPT ![o] = "PENDING"]
  /\ offerRead' = offerRead \ {o}
  /\ UNCHANGED <<jobVars, payVars, eventVars, audit, startRead, fundRead, fundChosen>>

\* The two UPDATEs that accept an offer and reject its pending rivals.
Accepted(o) ==
  [p \in Offer |-> IF p = o THEN "ACCEPTED"
                   ELSE IF OfferJob[p] = OfferJob[o] /\ offer[p] = "PENDING"
                        THEN "REJECTED" ELSE offer[p]]

\* POST /offers/:id/accept, by the owner: acceptOffer reads the job and the
\* offer again under their locks.
AcceptOffer(o) ==
  LET j == OfferJob[o] IN
  /\ jobStatus[j] = "PUBLISHED"
  /\ offer[o] = "PENDING"
  /\ offer' = Accepted(o)
  /\ jobStatus' = [jobStatus EXCEPT ![j] = "ASSIGNED"]
  /\ provider' = [provider EXCEPT ![j] = OfferBy[o]]
  /\ UNCHANGED <<payVars, eventVars, audit, requestVars>>

-----------------------------------------------------------------------------
(* Funding: POST /payments/fund/:jobId, by the owner. *)

\* The handler reads the job, then the payment.  It goes on from PUBLISHED and
\* ASSIGNED jobs without a payment, and from FUNDED ones whose hold failed.  A
\* job with a provider settles whom to pay; the rest must look at the offers.
FundReadJob(j) ==
  /\ \/ jobStatus[j] \in {"PUBLISHED", "ASSIGNED"} /\ payStatus[j] = "NONE"
     \/ jobStatus[j] = "FUNDED" /\ payStatus[j] = "HOLD_FAILED"
  /\ IF provider[j] = NoUser
       THEN /\ fundRead' = fundRead \cup {j}
            /\ UNCHANGED fundChosen
       ELSE /\ fundChosen' = fundChosen \cup
                 {[job |-> j, payee |-> provider[j], offer |-> NoOffer]}
            /\ UNCHANGED fundRead
  /\ UNCHANGED <<jobVars, offer, payVars, eventVars, audit, offerRead, startRead>>

\* It then reads the payment and the offers, and takes the cheapest pending
\* one (any of the cheapest: creation times are abstracted).
FundReadOffers(o) ==
  LET j == OfferJob[o] IN
  /\ j \in fundRead
  /\ payStatus[j] = "NONE"
  /\ offer[o] = "PENDING"
  /\ \A p \in Offer : OfferJob[p] = j /\ offer[p] = "PENDING" => OfferPrice[o] <= OfferPrice[p]
  /\ fundChosen' = fundChosen \cup {[job |-> j, payee |-> OfferBy[o], offer |-> o]}
  /\ UNCHANGED <<jobVars, offer, payVars, eventVars, audit, offerRead, startRead, fundRead>>

Fundable == {"PUBLISHED", "ASSIGNED", "FUNDED"}

\* payments_idempotency_uq: no other payment of the payer carries the key.  The
\* index decides when the payment is written.  The lookup that fundJobAtomic
\* makes before refuses nothing else, since payments keep their keys; when two
\* transactions both find none, the index aborts the later one, and neither a
\* refusal nor an abort changes a row.
KeyFree(j, k) ==
  k = NoKey \/ \A i \in Job \ {j} : OwnerOf[i] = OwnerOf[j] => payKey[i] # k

\* Mutant: the payment is made and the offer left pending.
TakeOfferLater(c) == UNCHANGED offer

\* Mutant: the offer's state is not checked again under its lock.
TakeOfferBlind(c) == IF c.offer = NoOffer THEN UNCHANGED offer ELSE offer' = Accepted(c.offer)

\* fundJobAtomic: the offer the payee was taken from is accepted, if it is
\* pending still.
TakeOffer(c) ==
  IF c.offer = NoOffer THEN UNCHANGED offer
                       ELSE offer[c.offer] = "PENDING" /\ offer' = Accepted(c.offer)

\* Mutant: funding overwrites the provider.
AssigneeOverwritten(j, u) == u

\* provider_id=COALESCE(provider_id, payee)
Assignee(j, u) == IF provider[j] = NoUser THEN u ELSE provider[j]

\* fundJobAtomic on a job without a payment: the payment and its hold event
\* are inserted and the job is FUNDED.
FundNew(c, k) ==
  LET j == c.job IN
  /\ c \in fundChosen
  /\ jobStatus[j] \in Fundable
  /\ payStatus[j] = "NONE"
  /\ KeyFree(j, k)
  /\ TakeOffer(c)
  /\ payStatus' = [payStatus EXCEPT ![j] = "HOLD_PENDING"]
  /\ payee' = [payee EXCEPT ![j] = c.payee]
  /\ payKey' = [payKey EXCEPT ![j] = k]
  /\ jobStatus' = [jobStatus EXCEPT ![j] = "FUNDED"]
  /\ provider' = [provider EXCEPT ![j] = Assignee(j, c.payee)]
  /\ evStatus' = [evStatus EXCEPT ![HoldEvent(j)] = "PENDING"]
  /\ due' = [due EXCEPT ![HoldEvent(j)] = TRUE]
  /\ payload' = [payload EXCEPT ![HoldEvent(j)] = [key |-> k, ref |-> NoRef]]
  /\ Log("PAYMENT_FUND", j)
  /\ UNCHANGED <<payRef, attempts, requestVars>>

\* Mutant: the upsert writes the payload of this request.
PayloadOnRetryReplaced(j, k) == [payload EXCEPT ![HoldEvent(j)].key = k]

\* The upsert of the hold event keeps the payload there is.
PayloadOnRetry(j, k) == payload

\* fundJobAtomic on a job whose hold failed: the same event is queued again,
\* with the payload and the attempts it has.  A payment without a key takes
\* the one of this request (COALESCE), if the index lets it.
FundRetry(c, k) ==
  LET j == c.job
      key == IF payKey[j] = NoKey THEN k ELSE payKey[j]
  IN
  /\ c \in fundChosen
  /\ jobStatus[j] \in Fundable
  /\ payStatus[j] = "HOLD_FAILED"
  /\ k \in {NoKey, key}
  /\ KeyFree(j, key)
  /\ payStatus' = [payStatus EXCEPT ![j] = "HOLD_PENDING"]
  /\ payKey' = [payKey EXCEPT ![j] = key]
  /\ evStatus' = [evStatus EXCEPT ![HoldEvent(j)] = "PENDING"]
  /\ due' = [due EXCEPT ![HoldEvent(j)] = TRUE]
  /\ payload' = PayloadOnRetry(j, key)
  /\ UNCHANGED <<jobVars, offer, payee, payRef, attempts, audit, requestVars>>

-----------------------------------------------------------------------------
(* Release: POST /payments/release/:jobId, by the owner. *)

\* Mutant: the release looks at the payment only, as if holding were approving.
ApprovedIfHeld(j) == payStatus[j] \in {"HELD", "RELEASE_PENDING"}

\* enqueuePaymentRelease: the owner has accepted the delivery.
Approved(j) == jobStatus[j] = "COMPLETED" /\ payStatus[j] = "RELEASE_PENDING"

\* enqueuePaymentRelease: inserts the release event or, unless it is done,
\* puts the one there is back in the queue with its attempts reset, even while
\* a worker is busy with it.
Release(j) ==
  LET e == ReleaseEvent(j) IN
  /\ Approved(j)
  /\ evStatus[e] # "DONE"
  /\ evStatus' = [evStatus EXCEPT ![e] = "PENDING"]
  /\ attempts' = [attempts EXCEPT ![e] = 0]
  /\ due' = [due EXCEPT ![e] = TRUE]
  /\ payload' = IF evStatus[e] = "NONE"
                  THEN [payload EXCEPT ![e] = [key |-> payKey[j], ref |-> payRef[j]]]
                  ELSE payload
  /\ UNCHANGED <<jobVars, offer, payVars, audit, requestVars>>

Request ==
  \/ \E j \in Job : \/ CreateJob(j) \/ Publish(j)
                    \/ StartRead(j) \/ StartCommit(j)
                    \/ Deliver(j) \/ AcceptDelivery(j)
                    \/ FundReadJob(j) \/ Release(j)
  \/ \E o \in Offer : OfferReadJob(o) \/ OfferInsert(o) \/ AcceptOffer(o) \/ FundReadOffers(o)
  \/ \E c \in fundChosen, k \in KeyOrNone : FundNew(c, k) \/ FundRetry(c, k)
=============================================================================
