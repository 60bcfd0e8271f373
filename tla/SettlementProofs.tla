-------------------------- MODULE SettlementProofs --------------------------
(***************************************************************************)
(* Proofs about Settlement for every number of jobs, offers, users, keys,  *)
(* workers and attempts.                                                   *)
(***************************************************************************)
EXTENDS Settlement, TLAPS

USE ColumnsAssumption, NullAssumption, WorkerAssumption

(***************************************************************************)
(* Every variable keeps its type: the columns hold values of their domains *)
(* and the provider's books hold references to payments that exist.        *)
(***************************************************************************)
LEMMA TypeInit == Init => TypeOK
BY DEF Init, MarketInit, WorkerInit, TypeOK, JobState, OfferState, PayState, EventState, KeyOrNone,
       Payload, AuditAction, PC

\* Recording an action leaves the audit table well typed.
LEMMA LogType ==
  ASSUME audit \in [AuditAction \X Job -> Nat], NEW a \in AuditAction, NEW j \in Job, Log(a, j)
  PROVE  audit' \in [AuditAction \X Job -> Nat]
BY DEF Log

\* Every request handler leaves the state well typed.
LEMMA TypeRequest == TypeOK /\ Request /\ UNCHANGED <<workerVars, pspVars>> => TypeOK'
<1> SUFFICES ASSUME TypeOK, Request, UNCHANGED <<workerVars, pspVars>>
             PROVE  TypeOK'
  OBVIOUS
<1> USE DEF TypeOK, jobVars, payVars, eventVars, requestVars, workerVars, pspVars, JobState, PayState
<1>1. ASSUME NEW j \in Job, CreateJob(j) PROVE TypeOK'
  BY <1>1 DEF CreateJob
<1>2. ASSUME NEW j \in Job, Publish(j) \/ StartCommit(j) \/ Deliver(j) PROVE TypeOK'
  BY <1>2 DEF Publish, StartCommit, Deliver, UpdateJobSimple
<1>3. ASSUME NEW j \in Job, StartRead(j) PROVE TypeOK'
  BY <1>3 DEF StartRead
<1>4. ASSUME NEW j \in Job, AcceptDelivery(j) PROVE TypeOK'
  BY <1>4 DEF AcceptDelivery
<1>5. ASSUME NEW j \in Job, FundReadJob(j) PROVE TypeOK'
  BY <1>5 DEF FundReadJob, Choice
<1>6. ASSUME NEW j \in Job, Release(j) PROVE TypeOK'
  BY <1>6 DEF Release, ReleaseEvent, Event, EventState, Payload
<1>7. ASSUME NEW o \in Offer, OfferReadJob(o) PROVE TypeOK'
  BY <1>7 DEF OfferReadJob
<1>8. ASSUME NEW o \in Offer, OfferInsert(o) PROVE TypeOK'
  BY <1>8 DEF OfferInsert, OfferState
<1>9. ASSUME NEW o \in Offer, AcceptOffer(o) PROVE TypeOK'
  BY <1>9 DEF AcceptOffer, Accepted, OfferState
<1>10. ASSUME NEW o \in Offer, FundReadOffers(o) PROVE TypeOK'
  BY <1>10 DEF FundReadOffers, Choice
<1>11. ASSUME NEW c \in fundChosen, NEW k \in KeyOrNone, FundNew(c, k) PROVE TypeOK'
  BY <1>11 DEF FundNew, Choice, TakeOffer, Accepted, Assignee, OfferState, HoldEvent, Event, EventState,
     Payload, Log, AuditAction
<1>12. ASSUME NEW c \in fundChosen, NEW k \in KeyOrNone, FundRetry(c, k) PROVE TypeOK'
  BY <1>12 DEF FundRetry, Choice, PayloadOnRetry, HoldEvent, Event, EventState
<1>13. QED
  BY <1>1, <1>2, <1>3, <1>4, <1>5, <1>6, <1>7, <1>8, <1>9, <1>10, <1>11, <1>12 DEF Request

\* Every step of a worker, and the passing of a deadline, leaves the state
\* well typed.
LEMMA TypeWorker == TypeOK /\ WorkerStep => TypeOK'
<1> SUFFICES ASSUME TypeOK, WorkerStep
             PROVE  TypeOK'
  OBVIOUS
<1> USE DEF TypeOK, jobVars, payVars, eventVars, requestVars, workerVars, pspVars, PC
<1>1. ASSUME NEW e \in Event, DeadlinePasses(e) PROVE TypeOK'
  BY <1>1 DEF DeadlinePasses
<1>2. ASSUME NEW w \in Worker, NEW e \in Event, Claim(w, e) PROVE TypeOK'
  BY <1>2 DEF Claim, NextAttempt, EventState
<1>3. ASSUME NEW w \in Worker, Proceed(w) PROVE TypeOK'
  <2> DEFINE e == claim[w]
  <2> USE DEF Goto
  <2>1. ASSUME pc[w] = "call" PROVE HoldRef(e) \in Ref /\ PayoutOf(e) \in Payout
    BY <2>1 DEF HoldRef, PayoutOf, Ref, Payout, Payload, Event, KeyOrNone
  <2>2. CASE ProviderConfirms(w) BY <2>1, <2>2 DEF ProviderConfirms, Effect
  <2>3. CASE ProviderFails(w) BY <2>1, <2>3 DEF ProviderFails, Effect
  <2>4. CASE CompleteHold(w)
    <3>1. e \in Event /\ e[2] \in Job BY <2>4 DEF CompleteHold, Event
    <3>2. HoldRef(e) \in Ref BY <3>1 DEF HoldRef, Ref, Payload, KeyOrNone
    <3>3. audit' \in [AuditAction \X Job -> Nat]
      BY <2>4, <3>1, LogType DEF CompleteHold, AuditAction
    <3>4. payStatus' \in [Job -> PayState] /\ payRef' \in [Job -> Ref \cup {NoRef}]
      BY <2>4, <3>1, <3>2 DEF CompleteHold, PayState
    <3>5. QED BY <2>4, <3>1, <3>3, <3>4 DEF CompleteHold, Done, EventState
  <2>5. CASE CompleteRelease(w)
    <3>1. e \in Event /\ e[2] \in Job BY <2>5 DEF CompleteRelease, Event
    <3>2. audit' \in [AuditAction \X Job -> Nat]
      BY <2>5, <3>1, LogType DEF CompleteRelease, AuditAction
    <3>3. payStatus' \in [Job -> PayState] /\ jobStatus' \in [Job -> JobState]
      BY <2>5, <3>1 DEF CompleteRelease, PayState, JobState
    <3>4. QED BY <2>5, <3>1, <3>2, <3>3 DEF CompleteRelease, Done, EventState
  <2>6. CASE CompleteRefused(w) BY <2>6 DEF CompleteRefused
  <2>7. CASE Fail(w)
    <3>1. e \in Event /\ e[2] \in Job BY <2>7 DEF Fail, Event
    <3>2. QED BY <2>7, <3>1 DEF Fail, GiveUpHold, PayState, EventState
  <2>8. QED BY <1>3, <2>2, <2>3, <2>4, <2>5, <2>6, <2>7 DEF Proceed
<1>4. ASSUME NEW w \in Worker, CompleteAborts(w) \/ Crash(w) PROVE TypeOK'
  BY <1>4 DEF CompleteAborts, Crash, Goto
<1>5. QED
  BY <1>1, <1>2, <1>3, <1>4 DEF WorkerStep

-----------------------------------------------------------------------------
(* The inductive invariant, one lemma for each part. *)

\* A busy worker holds an event of a job: its hold event or its release event.
LEMMA WorkersEvent ==
  ASSUME TypeOK, NEW w \in Worker, pc[w] # "idle"
  PROVE  /\ claim[w] \in Event
         /\ claim[w][2] \in Job
         /\ claim[w] = IF IsHold(claim[w]) THEN HoldEvent(claim[w][2]) ELSE ReleaseEvent(claim[w][2])
BY DEF TypeOK, Event, IsHold, HoldEvent, ReleaseEvent

\* A job has one hold event and one release event, its own.
LEMMA EventNames ==
  ASSUME NEW i \in Job, NEW j \in Job
  PROVE  /\ HoldEvent(i) \in Event /\ ReleaseEvent(i) \in Event
         /\ HoldEvent(i)[2] = i /\ ReleaseEvent(i)[2] = i
         /\ IsHold(HoldEvent(i)) /\ ~IsHold(ReleaseEvent(i))
         /\ HoldEvent(i) # ReleaseEvent(j)
         /\ HoldEvent(i) = HoldEvent(j) => i = j
         /\ ReleaseEvent(i) = ReleaseEvent(j) => i = j
BY DEF HoldEvent, ReleaseEvent, Event, IsHold

\* No step lets the jobs and the payments table part.  The step that needs the
\* invariant is StartCommit, which acts on a payment read before.
LEMMA JobPaymentStep == SettlementInv /\ [Next]_vars => JobPaymentAgree'
<1> SUFFICES ASSUME SettlementInv, [Next]_vars
             PROVE  JobPaymentAgree'
  OBVIOUS
<1> USE DEF SettlementInv, TypeOK, JobPaymentAgree, jobVars, payVars
<1>1. ASSUME NEW j \in Job, CreateJob(j) \/ Publish(j) PROVE JobPaymentAgree'
  BY <1>1 DEF CreateJob, Publish, UpdateJobSimple
<1>2. ASSUME NEW j \in Job, StartCommit(j) PROVE JobPaymentAgree'
  BY <1>2 DEF StartCommit, UpdateJobSimple, RequestsMatchTables, Booked
<1>3. ASSUME NEW j \in Job, Deliver(j) \/ AcceptDelivery(j) PROVE JobPaymentAgree'
  BY <1>3 DEF Deliver, UpdateJobSimple, AcceptDelivery
<1>4. ASSUME NEW o \in Offer, AcceptOffer(o) PROVE JobPaymentAgree'
  BY <1>4 DEF AcceptOffer
<1>5. ASSUME NEW c \in fundChosen, NEW k \in KeyOrNone, FundNew(c, k) \/ FundRetry(c, k)
      PROVE  JobPaymentAgree'
  BY <1>5 DEF FundNew, FundRetry, Fundable, Choice
<1>6. ASSUME NEW w \in Worker, CompleteHold(w) PROVE JobPaymentAgree'
  BY <1>6, WorkersEvent DEF CompleteHold, AwaitsHold
<1>7. ASSUME NEW w \in Worker, CompleteRelease(w) PROVE JobPaymentAgree'
  BY <1>7, WorkersEvent DEF CompleteRelease
<1>8. ASSUME NEW w \in Worker, Fail(w) PROVE JobPaymentAgree'
  BY <1>8, WorkersEvent DEF Fail, GiveUpHold
<1>9. ASSUME UNCHANGED <<jobStatus, payStatus>> PROVE JobPaymentAgree'
  BY <1>9
<1>10. QED
  BY <1>1, <1>2, <1>3, <1>4, <1>5, <1>6, <1>7, <1>8, <1>9
  DEF Next, Request, WorkerStep, Proceed, vars, StartRead, FundReadJob, Release, OfferReadJob, OfferInsert,
      FundReadOffers, Claim, ProviderConfirms, ProviderFails, CompleteRefused, CompleteAborts, Crash, DeadlinePasses

\* No step sets a provider or a payee at another time than the status says.
LEMMA AssignmentStep == SettlementInv /\ [Next]_vars => AssignmentMatchesStatus'
<1> SUFFICES ASSUME SettlementInv, [Next]_vars
             PROVE  AssignmentMatchesStatus'
  OBVIOUS
<1> USE DEF SettlementInv, TypeOK, AssignmentMatchesStatus, jobVars, payVars
<1>1. ASSUME NEW j \in Job, CreateJob(j) \/ Publish(j) \/ StartCommit(j) \/ Deliver(j) \/ AcceptDelivery(j)
      PROVE  AssignmentMatchesStatus'
  BY <1>1 DEF CreateJob, Publish, StartCommit, Deliver, UpdateJobSimple, AcceptDelivery
<1>2. ASSUME NEW o \in Offer, AcceptOffer(o) PROVE AssignmentMatchesStatus'
  BY <1>2 DEF AcceptOffer
<1>3. ASSUME NEW c \in fundChosen, NEW k \in KeyOrNone, FundNew(c, k) \/ FundRetry(c, k)
      PROVE  AssignmentMatchesStatus'
  BY <1>3 DEF FundNew, FundRetry, Assignee, Fundable, Choice
<1>4. ASSUME NEW w \in Worker, CompleteHold(w) \/ CompleteRelease(w) \/ Fail(w)
      PROVE  AssignmentMatchesStatus'
  BY <1>4, WorkersEvent DEF CompleteHold, CompleteRelease, Fail, AwaitsHold, GiveUpHold, JobPaymentAgree
<1>5. ASSUME UNCHANGED <<jobVars, payStatus, payee>> PROVE AssignmentMatchesStatus'
  BY <1>5
<1>6. QED
  BY <1>1, <1>2, <1>3, <1>4, <1>5
  DEF Next, Request, WorkerStep, Proceed, vars, StartRead, FundReadJob, Release, OfferReadJob, OfferInsert,
      FundReadOffers, Claim, ProviderConfirms, ProviderFails, CompleteRefused, CompleteAborts, Crash, DeadlinePasses

\* No step makes what a request in flight has read untrue, as far as its
\* transaction relies on it.
LEMMA RequestsStep == SettlementInv /\ [Next]_vars => RequestsMatchTables'
<1> SUFFICES ASSUME SettlementInv, [Next]_vars
             PROVE  RequestsMatchTables'
  OBVIOUS
<1> USE DEF SettlementInv, TypeOK, RequestsMatchTables, Booked, jobVars, payVars, requestVars, Choice
<1>1. ASSUME NEW j \in Job, CreateJob(j) \/ Publish(j) \/ StartCommit(j) \/ Deliver(j) \/ AcceptDelivery(j)
      PROVE  RequestsMatchTables'
  BY <1>1 DEF CreateJob, Publish, StartCommit, Deliver, UpdateJobSimple, AcceptDelivery
<1>2. ASSUME NEW j \in Job, StartRead(j) \/ FundReadJob(j) PROVE RequestsMatchTables'
  BY <1>2 DEF StartRead, FundReadJob
<1>3. ASSUME NEW o \in Offer, OfferReadJob(o) \/ OfferInsert(o) PROVE RequestsMatchTables'
  BY <1>3 DEF OfferReadJob, OfferInsert
<1>4. ASSUME NEW o \in Offer, AcceptOffer(o) PROVE RequestsMatchTables'
  <2>1. \A c \in fundChosen : c.offer = NoOffer => c.job # OfferJob[o]
    BY <1>4 DEF AcceptOffer, AssignmentMatchesStatus
  <2>2. QED BY <1>4, <2>1 DEF AcceptOffer, Accepted
<1>5. ASSUME NEW o \in Offer, FundReadOffers(o) PROVE RequestsMatchTables'
  BY <1>5 DEF FundReadOffers
<1>6. ASSUME NEW c \in fundChosen, NEW k \in KeyOrNone, FundNew(c, k) PROVE RequestsMatchTables'
  BY <1>6 DEF FundNew, Assignee, TakeOffer, Accepted
<1>7. ASSUME NEW c \in fundChosen, NEW k \in KeyOrNone, FundRetry(c, k) PROVE RequestsMatchTables'
  BY <1>7 DEF FundRetry
<1>8. ASSUME NEW w \in Worker, CompleteHold(w) \/ CompleteRelease(w) \/ Fail(w)
      PROVE  RequestsMatchTables'
  BY <1>8, WorkersEvent DEF CompleteHold, CompleteRelease, Fail, AwaitsHold, GiveUpHold
<1>9. ASSUME UNCHANGED <<jobVars, payStatus, offer, requestVars>> PROVE RequestsMatchTables'
  BY <1>9
<1>10. QED
  BY <1>1, <1>2, <1>3, <1>4, <1>5, <1>6, <1>7, <1>8, <1>9
  DEF Next, Request, WorkerStep, Proceed, vars, Release, Claim, ProviderConfirms, ProviderFails, CompleteRefused,
      CompleteAborts, Crash, DeadlinePasses

\* No step leaves an event without its payment or a payment without its event.
LEMMA EventsStep == SettlementInv /\ [Next]_vars => EventsMatchPayments'
<1> SUFFICES ASSUME SettlementInv, [Next]_vars
             PROVE  EventsMatchPayments'
  OBVIOUS
<1> USE EventNames DEF SettlementInv, TypeOK, EventsMatchPayments, jobVars, payVars, eventVars
<1>1. ASSUME NEW j \in Job, AcceptDelivery(j) PROVE EventsMatchPayments'
  BY <1>1 DEF AcceptDelivery
<1>2. ASSUME NEW j \in Job, Release(j) PROVE EventsMatchPayments'
  BY <1>2 DEF Release, Approved
<1>3. ASSUME NEW c \in fundChosen, NEW k \in KeyOrNone, FundNew(c, k) PROVE EventsMatchPayments'
  BY <1>3 DEF FundNew, Choice
<1>4. ASSUME NEW c \in fundChosen, NEW k \in KeyOrNone, FundRetry(c, k) PROVE EventsMatchPayments'
  BY <1>4 DEF FundRetry, PayloadOnRetry, Choice
<1>5. ASSUME NEW e \in Event, NEW w \in Worker, Claim(w, e) PROVE EventsMatchPayments'
  BY <1>5 DEF Claim
<1>6. ASSUME NEW w \in Worker, CompleteHold(w) PROVE EventsMatchPayments'
  BY <1>6, WorkersEvent DEF CompleteHold, AwaitsHold, Done
<1>7. ASSUME NEW w \in Worker, CompleteRelease(w) PROVE EventsMatchPayments'
  BY <1>7, WorkersEvent DEF CompleteRelease, Done, WorkersMatchEvents
<1>8. ASSUME NEW w \in Worker, Fail(w) PROVE EventsMatchPayments'
  BY <1>8, WorkersEvent DEF Fail, GiveUpHold, WorkersMatchEvents
<1>9. ASSUME UNCHANGED <<evStatus, payload, payStatus, payRef>> PROVE EventsMatchPayments'
  BY <1>9
<1>10. QED
  BY <1>1, <1>2, <1>3, <1>4, <1>5, <1>6, <1>7, <1>8, <1>9
  DEF Next, Request, WorkerStep, Proceed, vars, CreateJob, Publish, StartRead, StartCommit, Deliver, UpdateJobSimple,
      FundReadJob, OfferReadJob, OfferInsert, AcceptOffer, FundReadOffers, ProviderConfirms, ProviderFails,
      CompleteRefused, CompleteAborts, Crash, DeadlinePasses

\* The provider makes no hold and no release but those that queued events name.
LEMMA ProviderStep == SettlementInv /\ [Next]_vars => ProviderMatchesEvents'
<1> SUFFICES ASSUME SettlementInv, [Next]_vars
             PROVE  ProviderMatchesEvents'
  OBVIOUS
<1> USE EventNames DEF SettlementInv, TypeOK, ProviderMatchesEvents, eventVars, pspVars, HoldRef, PayoutOf, Ref
<1>1. ASSUME NEW j \in Job, Release(j), UNCHANGED pspVars PROVE ProviderMatchesEvents'
  BY <1>1 DEF Release
<1>2. ASSUME NEW c \in fundChosen, NEW k \in KeyOrNone, FundNew(c, k), UNCHANGED pspVars
      PROVE  ProviderMatchesEvents'
  <2>1. c.job \in Job BY DEF Choice
  <2>2. \A r \in held : r.payment # c.job BY <1>2, <2>1 DEF FundNew, EventsMatchPayments
  <2>3. QED BY <1>2, <2>1, <2>2 DEF FundNew
<1>3. ASSUME NEW c \in fundChosen, NEW k \in KeyOrNone, FundRetry(c, k), UNCHANGED pspVars
      PROVE  ProviderMatchesEvents'
  BY <1>3 DEF FundRetry, PayloadOnRetry, Choice
<1>4. ASSUME NEW e \in Event, NEW w \in Worker, Claim(w, e) PROVE ProviderMatchesEvents'
  BY <1>4 DEF Claim
<1>5. ASSUME NEW w \in Worker, pc[w] = "call", Effect(claim[w]), UNCHANGED eventVars
      PROVE  ProviderMatchesEvents'
  <2> DEFINE e == claim[w]
  <2>1. e \in Event /\ e[2] \in Job /\ evStatus[e] # "NONE" BY <1>5, WorkersEvent DEF WorkersMatchEvents
  <2>2. CASE IsHold(e)
    <3>1. e = HoldEvent(e[2]) BY <2>2 DEF IsHold
    <3>2. QED BY <1>5, <2>1, <2>2, <3>1 DEF Effect
  <2>3. CASE ~IsHold(e)
    <3>1. e = ReleaseEvent(e[2]) BY <1>5, <2>3, WorkersEvent
    <3>2. /\ payStatus[e[2]] \in {"RELEASE_PENDING", "RELEASED"}
          /\ payload[e].ref = payRef[e[2]]
      BY <2>1, <3>1 DEF EventsMatchPayments
    <3>3. payload[e].ref = HoldRef(HoldEvent(e[2])) BY <2>1, <3>2 DEF BooksMatchProvider, Booked
    <3>4. payload[e].ref \in Ref /\ payload[e].ref.payment = e[2]
      BY <2>1, <3>3 DEF Payload
    <3>5. QED BY <1>5, <2>1, <2>3, <3>1, <3>4 DEF Effect
  <2>4. QED BY <2>2, <2>3
<1>6. ASSUME NEW w \in Worker, CompleteHold(w) \/ CompleteRelease(w) \/ Fail(w)
      PROVE  ProviderMatchesEvents'
  BY <1>6, WorkersEvent DEF CompleteHold, CompleteRelease, Fail, Done
<1>7. ASSUME UNCHANGED <<evStatus, payload, pspVars>> PROVE ProviderMatchesEvents'
  BY <1>7
<1>8. QED
  BY <1>1, <1>2, <1>3, <1>4, <1>5, <1>6, <1>7
  DEF Next, Request, WorkerStep, Proceed, vars, CreateJob, Publish, StartRead, StartCommit, Deliver, UpdateJobSimple,
      AcceptDelivery, FundReadJob, OfferReadJob, OfferInsert, AcceptOffer, FundReadOffers, ProviderConfirms,
      ProviderFails, CompleteRefused, CompleteAborts, Crash, DeadlinePasses

\* No step, a requeue by a request included, takes the event from under a
\* worker: its payload stays, and the provider has done what it asks.
LEMMA WorkersStep == SettlementInv /\ [Next]_vars => WorkersMatchEvents'
<1> SUFFICES ASSUME SettlementInv, [Next]_vars
             PROVE  WorkersMatchEvents'
  OBVIOUS
<1> USE EventNames DEF SettlementInv, TypeOK, WorkersMatchEvents, eventVars, workerVars, pspVars, HoldRef, PayoutOf
<1>1. ASSUME NEW j \in Job, Release(j), UNCHANGED <<workerVars, pspVars>> PROVE WorkersMatchEvents'
  <2>1. \A e \in Event : evStatus[e] # "NONE" => evStatus'[e] # "NONE" /\ payload'[e] = payload[e]
    BY <1>1 DEF Release
  <2>2. \A w \in Worker : pc[w] # "idle" => claim[w] \in Event /\ evStatus[claim[w]] # "NONE"
    BY WorkersEvent
  <2>3. QED BY <1>1, <2>1, <2>2 DEF IsHold, PC
<1>2. ASSUME NEW c \in fundChosen, NEW k \in KeyOrNone, FundNew(c, k), UNCHANGED <<workerVars, pspVars>>
      PROVE  WorkersMatchEvents'
  <2>1. c.job \in Job BY DEF Choice
  <2>2. evStatus[HoldEvent(c.job)] = "NONE" BY <1>2, <2>1 DEF FundNew, EventsMatchPayments
  <2>3. \A e \in Event : evStatus[e] # "NONE" => evStatus'[e] # "NONE" /\ payload'[e] = payload[e]
    BY <1>2, <2>1, <2>2 DEF FundNew
  <2>4. \A w \in Worker : pc[w] # "idle" => claim[w] \in Event /\ evStatus[claim[w]] # "NONE"
    BY WorkersEvent
  <2>5. QED BY <1>2, <2>3, <2>4 DEF IsHold, PC
<1>3. ASSUME NEW c \in fundChosen, NEW k \in KeyOrNone, FundRetry(c, k), UNCHANGED <<workerVars, pspVars>>
      PROVE  WorkersMatchEvents'
  BY <1>3, WorkersEvent DEF FundRetry, PayloadOnRetry, Choice
<1>4. ASSUME NEW e \in Event, NEW w \in Worker, Claim(w, e) PROVE WorkersMatchEvents'
  BY <1>4, WorkersEvent DEF Claim
<1>5. ASSUME NEW w \in Worker, ProviderConfirms(w) \/ ProviderFails(w) PROVE WorkersMatchEvents'
  BY <1>5, WorkersEvent DEF ProviderConfirms, ProviderFails, Effect, Goto
<1>6. ASSUME NEW w \in Worker, CompleteHold(w) \/ CompleteRelease(w) \/ Fail(w)
      PROVE  WorkersMatchEvents'
  BY <1>6, WorkersEvent DEF CompleteHold, CompleteRelease, Fail, Done, Goto
<1>7. ASSUME NEW w \in Worker, CompleteRefused(w) \/ CompleteAborts(w) \/ Crash(w) PROVE WorkersMatchEvents'
  BY <1>7 DEF CompleteRefused, CompleteAborts, Crash, Goto
<1>8. ASSUME UNCHANGED <<evStatus, payload, workerVars, pspVars>> PROVE WorkersMatchEvents'
  BY <1>8
<1>9. QED
  BY <1>1, <1>2, <1>3, <1>4, <1>5, <1>6, <1>7, <1>8
  DEF Next, Request, WorkerStep, Proceed, vars, CreateJob, Publish, StartRead, StartCommit, Deliver, UpdateJobSimple,
      AcceptDelivery, FundReadJob, OfferReadJob, OfferInsert, AcceptOffer, FundReadOffers, DeadlinePasses

\* Nothing is booked that the provider has not done.
LEMMA BooksStep == SettlementInv /\ [Next]_vars => BooksMatchProvider'
<1> SUFFICES ASSUME SettlementInv, [Next]_vars
             PROVE  BooksMatchProvider'
  OBVIOUS
<1> USE EventNames DEF SettlementInv, TypeOK, BooksMatchProvider, Booked, eventVars, payVars, pspVars, HoldRef, PayoutOf
<1>1. ASSUME NEW j \in Job, AcceptDelivery(j), UNCHANGED pspVars PROVE BooksMatchProvider'
  BY <1>1 DEF AcceptDelivery
<1>2. ASSUME NEW j \in Job, Release(j), UNCHANGED pspVars PROVE BooksMatchProvider'
  <2>1. \A i \in Job : payStatus[i] = "RELEASED" => payload'[ReleaseEvent(i)] = payload[ReleaseEvent(i)]
    BY <1>2 DEF Release, Approved
  <2>2. \A i \in Job : payload'[HoldEvent(i)] = payload[HoldEvent(i)]
    BY <1>2 DEF Release
  <2>3. UNCHANGED <<payStatus, payRef, pspVars>> BY <1>2 DEF Release
  <2>4. QED BY <2>1, <2>2, <2>3
<1>3. ASSUME NEW c \in fundChosen, NEW k \in KeyOrNone, FundNew(c, k), UNCHANGED pspVars PROVE BooksMatchProvider'
  BY <1>3 DEF FundNew, Choice
<1>4. ASSUME NEW c \in fundChosen, NEW k \in KeyOrNone, FundRetry(c, k), UNCHANGED pspVars PROVE BooksMatchProvider'
  BY <1>4 DEF FundRetry, PayloadOnRetry, Choice
<1>5. ASSUME NEW w \in Worker, ProviderConfirms(w) \/ ProviderFails(w) PROVE BooksMatchProvider'
  BY <1>5 DEF ProviderConfirms, ProviderFails, Effect
<1>6. ASSUME NEW w \in Worker, CompleteHold(w) PROVE BooksMatchProvider'
  <2> DEFINE e == claim[w]
  <2>1. e \in Event /\ e[2] \in Job /\ e = HoldEvent(e[2]) BY <1>6, WorkersEvent DEF CompleteHold, IsHold
  <2>2. HoldRef(e) \in held BY <1>6 DEF CompleteHold, WorkersMatchEvents
  <2>3. UNCHANGED <<payload, pspVars>> BY <1>6 DEF CompleteHold, Done
  <2>4. \A j \in Job \ {e[2]} : payStatus'[j] = payStatus[j] /\ payRef'[j] = payRef[j]
    BY <1>6, <2>1 DEF CompleteHold
  <2>5. payStatus'[e[2]] = "HELD" /\ payRef'[e[2]] = HoldRef(e)
    BY <1>6, <2>1 DEF CompleteHold
  <2>6. QED BY <2>1, <2>2, <2>3, <2>4, <2>5
<1>7. ASSUME NEW w \in Worker, CompleteRelease(w) PROVE BooksMatchProvider'
  <2> DEFINE e == claim[w]
  <2>1. e \in Event /\ e[2] \in Job /\ e = ReleaseEvent(e[2]) BY <1>7, WorkersEvent DEF CompleteRelease
  <2>2. PayoutOf(e) \in paid BY <1>7 DEF CompleteRelease, WorkersMatchEvents
  <2>3. UNCHANGED <<payload, payRef, pspVars>> BY <1>7 DEF CompleteRelease, Done
  <2>4. \A j \in Job \ {e[2]} : payStatus'[j] = payStatus[j] BY <1>7, <2>1 DEF CompleteRelease
  <2>5. payStatus[e[2]] \in Booked BY <1>7 DEF CompleteRelease
  <2>6. QED BY <2>1, <2>2, <2>3, <2>4, <2>5
<1>8. ASSUME NEW w \in Worker, Fail(w) PROVE BooksMatchProvider'
  BY <1>8, WorkersEvent DEF Fail, GiveUpHold
<1>9. ASSUME UNCHANGED <<payload, payStatus, payRef, pspVars>> PROVE BooksMatchProvider'
  BY <1>9
<1>10. QED
  BY <1>1, <1>2, <1>3, <1>4, <1>5, <1>6, <1>7, <1>8, <1>9
  DEF Next, Request, WorkerStep, Proceed, vars, CreateJob, Publish, StartRead, StartCommit, Deliver, UpdateJobSimple,
      FundReadJob, OfferReadJob, OfferInsert, AcceptOffer, FundReadOffers, Claim, CompleteRefused, CompleteAborts,
      Crash, DeadlinePasses

-----------------------------------------------------------------------------
\* Every step leaves the state well typed.
LEMMA TypeStep == TypeOK /\ [Next]_vars => TypeOK'
<1>1. TypeOK /\ UNCHANGED vars => TypeOK'
  BY DEF TypeOK, vars, jobVars, payVars, eventVars, requestVars, workerVars, pspVars
<1>2. QED BY <1>1, TypeRequest, TypeWorker DEF Next

\* In every reachable state every variable has its type.
THEOREM TypeCorrect == Spec => []TypeOK
BY TypeInit, TypeStep, PTL DEF Spec

\* The invariant holds at first: there are no jobs, events or requests yet.
LEMMA InvInit == Init => SettlementInv
<1> SUFFICES ASSUME Init PROVE SettlementInv
  OBVIOUS
<1>1. TypeOK BY TypeInit
<1>2. JobPaymentAgree /\ AssignmentMatchesStatus
  BY DEF Init, MarketInit, JobPaymentAgree, AssignmentMatchesStatus
<1>3. RequestsMatchTables BY DEF Init, MarketInit, RequestsMatchTables
<1>4. EventsMatchPayments
  BY EventNames DEF Init, MarketInit, EventsMatchPayments
<1>5. ProviderMatchesEvents /\ WorkersMatchEvents
  BY DEF Init, WorkerInit, ProviderMatchesEvents, WorkersMatchEvents
<1>6. BooksMatchProvider BY DEF Init, MarketInit, BooksMatchProvider, Booked
<1>7. QED BY <1>1, <1>2, <1>3, <1>4, <1>5, <1>6 DEF SettlementInv

\* Tables, requests in flight, workers and provider match in every reachable
\* state, for any number of each.
THEOREM Inductive == Spec => []SettlementInv
<1>1. SettlementInv /\ [Next]_vars => SettlementInv'
  <2> SUFFICES ASSUME SettlementInv, [Next]_vars PROVE SettlementInv'
    OBVIOUS
  <2>1. TypeOK' BY TypeStep DEF SettlementInv
  <2>2. QED
    BY <2>1, JobPaymentStep, AssignmentStep, RequestsStep, EventsStep, ProviderStep, WorkersStep, BooksStep
    DEF SettlementInv
<1>2. QED BY InvInit, <1>1, PTL DEF Spec
=============================================================================
