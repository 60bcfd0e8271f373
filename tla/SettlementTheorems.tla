------------------------- MODULE SettlementTheorems -------------------------
(***************************************************************************)
(* The properties of Settlement, from its inductive invariant.             *)
(***************************************************************************)
EXTENDS SettlementProofs, FiniteSetTheorems
\* The jobs and the payments table always tell the same story.
THEOREM Agreement == Spec => []JobPaymentAgree
<1>1. SettlementInv => JobPaymentAgree BY DEF SettlementInv
<1>2. QED BY Inductive, <1>1, PTL

-----------------------------------------------------------------------------
(* Events. *)

\* No step takes the event of a payment that waits for its hold out of the
\* queue: a completion books the hold, a last failure gives it up.
LEMMA PendingHoldStep == SettlementInv /\ PendingHoldIsQueued /\ [Next]_vars => PendingHoldIsQueued'
<1> SUFFICES ASSUME SettlementInv, PendingHoldIsQueued, [Next]_vars
             PROVE  PendingHoldIsQueued'
  OBVIOUS
<1> USE EventNames DEF SettlementInv, TypeOK, PendingHoldIsQueued, payVars, eventVars
<1>1. ASSUME NEW j \in Job, AcceptDelivery(j) PROVE PendingHoldIsQueued'
  BY <1>1 DEF AcceptDelivery
<1>2. ASSUME NEW j \in Job, Release(j) PROVE PendingHoldIsQueued'
  BY <1>2 DEF Release
<1>3. ASSUME NEW c \in fundChosen, NEW k \in KeyOrNone, FundNew(c, k) \/ FundRetry(c, k)
      PROVE  PendingHoldIsQueued'
  BY <1>3 DEF FundNew, FundRetry, Choice
<1>4. ASSUME NEW e \in Event, NEW w \in Worker, Claim(w, e) PROVE PendingHoldIsQueued'
  BY <1>4 DEF Claim
<1>5. ASSUME NEW w \in Worker, CompleteHold(w) \/ CompleteRelease(w) PROVE PendingHoldIsQueued'
  BY <1>5, WorkersEvent DEF CompleteHold, CompleteRelease, Done
<1>6. ASSUME NEW w \in Worker, Fail(w) PROVE PendingHoldIsQueued'
  BY <1>6, WorkersEvent DEF Fail, GiveUpHold
<1>7. ASSUME UNCHANGED <<evStatus, payStatus>> PROVE PendingHoldIsQueued'
  BY <1>7
<1>8. QED
  BY <1>1, <1>2, <1>3, <1>4, <1>5, <1>6, <1>7
  DEF Next, Request, WorkerStep, Proceed, vars, CreateJob, Publish, StartRead, StartCommit, Deliver, UpdateJobSimple,
      FundReadJob, OfferReadJob, OfferInsert, AcceptOffer, FundReadOffers, ProviderConfirms, ProviderFails,
      CompleteRefused, CompleteAborts, Crash, DeadlinePasses

\* No hold is forgotten: while a payment waits for it, its event is queued.
THEOREM HoldsAreQueued == Spec => []PendingHoldIsQueued
<1>1. Init => PendingHoldIsQueued BY DEF Init, MarketInit, PendingHoldIsQueued
<1>2. QED BY <1>1, Inductive, PendingHoldStep, PTL DEF Spec

\* No step marks an event DONE before its work is done or undoes the work of
\* an event that is DONE.
LEMMA DoneStep == SettlementInv /\ DoneMeansBooked /\ [Next]_vars => DoneMeansBooked'
<1> SUFFICES ASSUME SettlementInv, DoneMeansBooked, [Next]_vars
             PROVE  DoneMeansBooked'
  OBVIOUS
<1> USE EventNames DEF SettlementInv, TypeOK, DoneMeansBooked, Booked, payVars, eventVars
<1>1. ASSUME NEW j \in Job, AcceptDelivery(j) PROVE DoneMeansBooked'
  BY <1>1 DEF AcceptDelivery
<1>2. ASSUME NEW j \in Job, Release(j) PROVE DoneMeansBooked'
  BY <1>2 DEF Release
<1>3. ASSUME NEW c \in fundChosen, NEW k \in KeyOrNone, FundNew(c, k) \/ FundRetry(c, k)
      PROVE  DoneMeansBooked'
  BY <1>3 DEF FundNew, FundRetry, Choice
<1>4. ASSUME NEW e \in Event, NEW w \in Worker, Claim(w, e) PROVE DoneMeansBooked'
  BY <1>4 DEF Claim
<1>5. ASSUME NEW w \in Worker, CompleteHold(w) PROVE DoneMeansBooked'
  BY <1>5, WorkersEvent DEF CompleteHold, AwaitsHold, Done
<1>6. ASSUME NEW w \in Worker, CompleteRelease(w) PROVE DoneMeansBooked'
  BY <1>6, WorkersEvent DEF CompleteRelease, Done
<1>7. ASSUME NEW w \in Worker, Fail(w) PROVE DoneMeansBooked'
  BY <1>7, WorkersEvent DEF Fail, GiveUpHold
<1>8. ASSUME UNCHANGED <<evStatus, payStatus>> PROVE DoneMeansBooked'
  BY <1>8
<1>9. QED
  BY <1>1, <1>2, <1>3, <1>4, <1>5, <1>6, <1>7, <1>8
  DEF Next, Request, WorkerStep, Proceed, vars, CreateJob, Publish, StartRead, StartCommit, Deliver, UpdateJobSimple,
      FundReadJob, OfferReadJob, OfferInsert, AcceptOffer, FundReadOffers, ProviderConfirms, ProviderFails,
      CompleteRefused, CompleteAborts, Crash, DeadlinePasses

\* An event marked DONE did its work.
THEOREM DoneIsTrue == Spec => []DoneMeansBooked
<1>1. Init => DoneMeansBooked BY EventNames DEF Init, MarketInit, DoneMeansBooked
<1>2. QED BY <1>1, Inductive, DoneStep, PTL DEF Spec

\* An action is recorded in its own place.
LEMMA LogCount ==
  ASSUME TypeOK, NEW a \in AuditAction, NEW j \in Job, Log(a, j)
  PROVE  \A b \in AuditAction, i \in Job :
           audit'[<<b, i>>] = IF b = a /\ i = j THEN audit[<<b, i>>] + 1 ELSE audit[<<b, i>>]
BY DEF TypeOK, Log

\* No step records an action twice, or one that did not happen.
LEMMA AuditStep == SettlementInv /\ AuditExactlyOnce /\ [Next]_vars => AuditExactlyOnce'
<1> SUFFICES ASSUME SettlementInv, AuditExactlyOnce, [Next]_vars
             PROVE  AuditExactlyOnce'
  OBVIOUS
<1> DEFINE Exact(i) ==
      /\ audit[<<"PAYMENT_FUND", i>>] = IF payStatus[i] = "NONE" THEN 0 ELSE 1
      /\ audit[<<"PAYMENT_HOLD_CONFIRMED", i>>] = IF payStatus[i] \in Booked THEN 1 ELSE 0
      /\ audit[<<"PAYMENT_RELEASE", i>>] = IF payStatus[i] = "RELEASED" THEN 1 ELSE 0
<1> USE DEF SettlementInv, TypeOK, AuditExactlyOnce, Booked, payVars
<1>1. ASSUME NEW j \in Job, AcceptDelivery(j) PROVE AuditExactlyOnce'
  BY <1>1 DEF AcceptDelivery
<1>2. ASSUME NEW c \in fundChosen, NEW k \in KeyOrNone, FundNew(c, k) PROVE AuditExactlyOnce'
  <2>1. \A b \in AuditAction, i \in Job : audit'[<<b, i>>] =
          IF b = "PAYMENT_FUND" /\ i = c.job THEN audit[<<b, i>>] + 1 ELSE audit[<<b, i>>]
    BY <1>2, LogCount DEF FundNew, Choice, AuditAction
  <2>2. c.job \in Job /\ payStatus[c.job] = "NONE" /\ payStatus' = [payStatus EXCEPT ![c.job] = "HOLD_PENDING"]
    BY <1>2 DEF FundNew, Choice
  <2>3. ASSUME NEW i \in Job PROVE Exact(i)'
    <3>1. CASE i = c.job BY <2>1, <2>2, <3>1 DEF AuditAction
    <3>2. CASE i # c.job BY <2>1, <2>2, <3>2 DEF AuditAction
    <3>3. QED BY <3>1, <3>2
  <2>4. QED BY <2>3
<1>3. ASSUME NEW c \in fundChosen, NEW k \in KeyOrNone, FundRetry(c, k) PROVE AuditExactlyOnce'
  BY <1>3 DEF FundRetry, Choice
<1>4. ASSUME NEW w \in Worker, CompleteHold(w) PROVE AuditExactlyOnce'
  <2> DEFINE j == claim[w][2]
  <2>1. j \in Job BY <1>4, WorkersEvent DEF CompleteHold
  <2>2. CASE UNCHANGED <<audit, payStatus>> BY <2>2
  <2>3. CASE /\ payStatus[j] = "HOLD_PENDING"
             /\ payStatus' = [payStatus EXCEPT ![j] = "HELD"]
             /\ Log("PAYMENT_HOLD_CONFIRMED", j)
    <3>1. \A b \in AuditAction, i \in Job : audit'[<<b, i>>] =
            IF b = "PAYMENT_HOLD_CONFIRMED" /\ i = j THEN audit[<<b, i>>] + 1 ELSE audit[<<b, i>>]
      BY <2>1, <2>3, LogCount DEF AuditAction
    <3>2. ASSUME NEW i \in Job PROVE Exact(i)'
      <4>1. CASE i = j BY <2>1, <2>3, <3>1, <4>1 DEF AuditAction
      <4>2. CASE i # j BY <2>1, <2>3, <3>1, <4>2 DEF AuditAction
      <4>3. QED BY <4>1, <4>2
    <3>3. QED BY <3>2
  <2>4. QED BY <1>4, <2>2, <2>3 DEF CompleteHold, AwaitsHold
<1>5. ASSUME NEW w \in Worker, CompleteRelease(w) PROVE AuditExactlyOnce'
  <2> DEFINE j == claim[w][2]
  <2>1. j \in Job BY <1>5, WorkersEvent DEF CompleteRelease
  <2>2. CASE UNCHANGED <<audit, payStatus>> BY <2>2
  <2>3. CASE /\ payStatus[j] = "RELEASE_PENDING"
             /\ payStatus' = [payStatus EXCEPT ![j] = "RELEASED"]
             /\ Log("PAYMENT_RELEASE", j)
    <3>1. \A b \in AuditAction, i \in Job : audit'[<<b, i>>] =
            IF b = "PAYMENT_RELEASE" /\ i = j THEN audit[<<b, i>>] + 1 ELSE audit[<<b, i>>]
      BY <2>1, <2>3, LogCount DEF AuditAction
    <3>2. ASSUME NEW i \in Job PROVE Exact(i)'
      <4>1. CASE i = j BY <2>1, <2>3, <3>1, <4>1 DEF AuditAction
      <4>2. CASE i # j BY <2>1, <2>3, <3>1, <4>2 DEF AuditAction
      <4>3. QED BY <4>1, <4>2
    <3>3. QED BY <3>2
  <2>4. QED BY <1>5, <2>2, <2>3 DEF CompleteRelease
<1>6. ASSUME NEW w \in Worker, Fail(w) PROVE AuditExactlyOnce'
  BY <1>6, WorkersEvent DEF Fail, GiveUpHold
<1>7. ASSUME UNCHANGED <<audit, payStatus>> PROVE AuditExactlyOnce'
  BY <1>7
<1>8. QED
  BY <1>1, <1>2, <1>3, <1>4, <1>5, <1>6, <1>7
  DEF Next, Request, WorkerStep, Proceed, vars, CreateJob, Publish, StartRead, StartCommit, Deliver, UpdateJobSimple,
      FundReadJob, Release, OfferReadJob, OfferInsert, AcceptOffer, FundReadOffers, Claim, ProviderConfirms,
      ProviderFails, CompleteRefused, CompleteAborts, Crash, DeadlinePasses

\* The audit trail records each confirmation exactly once.
THEOREM AuditIsExact == Spec => []AuditExactlyOnce
<1>1. Init => AuditExactlyOnce
  <2> SUFFICES ASSUME Init PROVE AuditExactlyOnce
    OBVIOUS
  <2>1. \A b \in AuditAction, j \in Job : audit[<<b, j>>] = 0 BY DEF Init, MarketInit
  <2>2. QED BY <2>1 DEF Init, MarketInit, AuditExactlyOnce, AuditAction, Booked
<1>2. QED BY <1>1, Inductive, AuditStep, PTL DEF Spec

-----------------------------------------------------------------------------
(* The provider. *)

\* A set whose members are all the same has at most one member.
LEMMA AtMostOne == \A S : (\A x, y \in S : x = y) => Cardinality(S) <= 1
<1> SUFFICES ASSUME NEW S, \A x, y \in S : x = y
             PROVE  Cardinality(S) <= 1
  OBVIOUS
<1>1. CASE S = {} BY <1>1, FS_EmptySet
<1>2. CASE S # {}
  <2>1. PICK x : S = {x} BY <1>2
  <2>2. QED BY <2>1, FS_Singleton
<1>3. QED BY <1>1, <1>2

\* The provider makes at most one hold and at most one release for a payment:
\* all it does for the payment is what the payload of the event names.
THEOREM ProviderIsIdempotent == Spec => []ProviderActsOnce
<1>1. SettlementInv => ProviderActsOnce
  <2> SUFFICES ASSUME SettlementInv, NEW j \in Job
               PROVE  /\ Cardinality({r \in held : r.payment = j}) <= 1
                      /\ Cardinality({p \in paid : p.hold # NoRef /\ p.hold.payment = j}) <= 1
    BY DEF ProviderActsOnce
  <2> USE DEF SettlementInv, ProviderMatchesEvents
  <2> DEFINE Holds == {r \in held : r.payment = j}
             Payouts == {p \in paid : p.hold # NoRef /\ p.hold.payment = j}
  <2>1. \A r, s \in Holds : r = s
    <3>1. \A r \in Holds : r = HoldRef(HoldEvent(j)) OBVIOUS
    <3>2. QED BY <3>1
  <2>2. \A p, q \in Payouts : p = q
    <3>1. \A p \in Payouts : p = PayoutOf(ReleaseEvent(j)) OBVIOUS
    <3>2. QED BY <3>1
  <2> HIDE DEF Holds, Payouts
  <2>3. Cardinality(Holds) <= 1 BY <2>1, AtMostOne
  <2>4. Cardinality(Payouts) <= 1 BY <2>2, AtMostOne
  <2>5. QED BY <2>3, <2>4 DEF Holds, Payouts
<1>2. QED BY <1>1, Inductive, PTL

-----------------------------------------------------------------------------
(* Hiring. *)

USE ColumnsAssumption, NullAssumption

\* Accepting an offer leaves the offers accepted before accepted.
LEMMA AcceptedStay ==
  ASSUME TypeOK, NEW o \in Offer, offer' = Accepted(o)
  PROVE  /\ offer'[o] = "ACCEPTED"
         /\ \A p \in Offer : offer[p] = "ACCEPTED" => offer'[p] = "ACCEPTED"
         /\ offer[o] = "PENDING" =>
              \A p \in Offer : offer[p] \in {"ACCEPTED", "REJECTED"} => offer'[p] = offer[p]
BY DEF TypeOK, Accepted

\* No step hires, or promises money to, somebody without an accepted offer.
LEMMA HiringStep == SettlementInv /\ OnlyBiddersAreHired /\ [Next]_vars => OnlyBiddersAreHired'
<1> SUFFICES ASSUME SettlementInv, OnlyBiddersAreHired, [Next]_vars
             PROVE  OnlyBiddersAreHired'
  OBVIOUS
<1> USE DEF SettlementInv, OnlyBiddersAreHired, HasAcceptedOffer
<1>1. ASSUME \A o \in Offer : offer[o] = "ACCEPTED" => offer'[o] = "ACCEPTED", UNCHANGED <<provider, payee>>
      PROVE  OnlyBiddersAreHired'
  BY <1>1
<1>2. ASSUME NEW o \in Offer, OfferInsert(o) PROVE OnlyBiddersAreHired'
  <2>1. offer[o] = "NONE" BY <1>2 DEF OfferInsert, RequestsMatchTables
  <2>2. \A p \in Offer : offer[p] = "ACCEPTED" => offer'[p] = "ACCEPTED"
    BY <1>2, <2>1 DEF OfferInsert, TypeOK
  <2>3. QED BY <1>1, <1>2, <2>2 DEF OfferInsert, jobVars, payVars
<1>3. ASSUME NEW o \in Offer, AcceptOffer(o) PROVE OnlyBiddersAreHired'
  <2>1. \A p \in Offer : p = o \/ offer[p] = "ACCEPTED" => offer'[p] = "ACCEPTED"
    BY <1>3, AcceptedStay DEF AcceptOffer
  <2>2. \A j \in Job : provider'[j] = IF j = OfferJob[o] THEN OfferBy[o] ELSE provider[j]
    BY <1>3 DEF AcceptOffer, TypeOK
  <2>3. QED BY <1>3, <2>1, <2>2 DEF AcceptOffer, payVars
<1>4. ASSUME NEW c \in fundChosen, NEW k \in KeyOrNone, FundNew(c, k) PROVE OnlyBiddersAreHired'
  <2>1. c.job \in Job /\ c.offer \in Offer \cup {NoOffer} /\ c.payee \in User BY DEF TypeOK, Choice
  <2>2. \A p \in Offer : offer[p] = "ACCEPTED" => offer'[p] = "ACCEPTED"
    <3>1. CASE c.offer = NoOffer BY <1>4, <3>1 DEF FundNew, TakeOffer
    <3>2. CASE c.offer # NoOffer BY <1>4, <2>1, <3>2, AcceptedStay DEF FundNew, TakeOffer
    <3>3. QED BY <3>1, <3>2
  <2>3. HasAcceptedOffer(c.payee, c.job)'
    <3>1. CASE c.offer = NoOffer
      <4>1. c.payee = provider[c.job] BY <3>1 DEF RequestsMatchTables
      <4>2. HasAcceptedOffer(c.payee, c.job) BY <2>1, <4>1
      <4>3. QED BY <2>2, <4>2
    <3>2. CASE c.offer # NoOffer
      <4>1. OfferJob[c.offer] = c.job /\ OfferBy[c.offer] = c.payee BY <3>2 DEF RequestsMatchTables
      <4>2. c.offer \in Offer BY <2>1, <3>2
      <4>3. offer'[c.offer] = "ACCEPTED" BY <1>4, <3>2, <4>2, AcceptedStay DEF FundNew, TakeOffer
      <4>4. QED BY <4>1, <4>2, <4>3
    <3>3. QED BY <3>1, <3>2
  <2>4. \A j \in Job : /\ provider'[j] # provider[j] => j = c.job /\ provider'[j] = c.payee
                       /\ payee'[j] # payee[j] => j = c.job /\ payee'[j] = c.payee
    BY <1>4, <2>1 DEF FundNew, Assignee, TypeOK
  <2>5. ASSUME NEW j \in Job, provider'[j] # NoUser PROVE HasAcceptedOffer(provider[j], j)'
    <3>1. CASE provider'[j] = provider[j] BY <2>2, <2>5, <3>1
    <3>2. CASE provider'[j] # provider[j] BY <2>3, <2>4, <3>2
    <3>3. QED BY <3>1, <3>2
  <2>6. ASSUME NEW j \in Job, payee'[j] # NoUser PROVE HasAcceptedOffer(payee[j], j)'
    <3>1. CASE payee'[j] = payee[j] BY <2>2, <2>6, <3>1
    <3>2. CASE payee'[j] # payee[j] BY <2>3, <2>4, <3>2
    <3>3. QED BY <3>1, <3>2
  <2>7. QED BY <2>5, <2>6
<1>5. QED
  BY <1>1, <1>2, <1>3, <1>4
  DEF Next, Request, WorkerStep, Proceed, vars, jobVars, payVars, CreateJob, Publish, StartRead, StartCommit, Deliver,
      UpdateJobSimple, AcceptDelivery, FundReadJob, FundRetry, Release, OfferReadJob, FundReadOffers, Claim,
      ProviderConfirms, ProviderFails, CompleteHold, CompleteRelease, CompleteRefused, CompleteAborts, Fail, Crash,
      DeadlinePasses

\* Whoever is assigned or to be paid has an accepted offer on the job.
THEOREM HiringIsByOffer == Spec => []OnlyBiddersAreHired
<1>1. Init => OnlyBiddersAreHired BY DEF Init, MarketInit, OnlyBiddersAreHired
<1>2. QED BY <1>1, Inductive, HiringStep, PTL DEF Spec

\* The provider of a job and the payee of its payment, once set, stay.
THEOREM AssignmentStays == Spec => AssignmentIsFinal
<1> DEFINE Stay == \A j \in Job : /\ provider[j] # NoUser => provider'[j] = provider[j]
                                  /\ payee[j] # NoUser => payee'[j] = payee[j]
<1>1. SettlementInv /\ [Next]_vars => [Stay]_vars
  <2> SUFFICES ASSUME SettlementInv, [Next]_vars PROVE Stay
    OBVIOUS
  <2> USE DEF SettlementInv, TypeOK, AssignmentMatchesStatus
  <2>1. ASSUME NEW o \in Offer, AcceptOffer(o) PROVE Stay
    BY <2>1 DEF AcceptOffer, payVars
  <2>2. ASSUME NEW c \in fundChosen, NEW k \in KeyOrNone, FundNew(c, k) PROVE Stay
    BY <2>2 DEF FundNew, Assignee, Choice
  <2>3. ASSUME UNCHANGED <<provider, payee>> PROVE Stay
    BY <2>3
  <2>4. QED
    BY <2>1, <2>2, <2>3
    DEF Next, Request, WorkerStep, Proceed, vars, jobVars, payVars, CreateJob, Publish, StartRead, StartCommit, Deliver,
        UpdateJobSimple, AcceptDelivery, FundReadJob, FundRetry, Release, OfferReadJob, OfferInsert, FundReadOffers,
        Claim, ProviderConfirms, ProviderFails, CompleteHold, CompleteRelease, CompleteRefused, CompleteAborts, Fail,
        Crash, DeadlinePasses
<1>2. QED BY <1>1, Inductive, PTL DEF Spec, AssignmentIsFinal

\* An offer that was accepted or rejected stays so.
THEOREM OfferDecisionStays == Spec => OfferDecisionIsFinal
<1> DEFINE Stay == \A o \in Offer : offer[o] \in {"ACCEPTED", "REJECTED"} => offer'[o] = offer[o]
<1>1. SettlementInv /\ [Next]_vars => [Stay]_vars
  <2> SUFFICES ASSUME SettlementInv, [Next]_vars PROVE Stay
    OBVIOUS
  <2> USE DEF SettlementInv
  <2>1. ASSUME NEW o \in Offer, OfferInsert(o) PROVE Stay
    BY <2>1 DEF OfferInsert, RequestsMatchTables, TypeOK
  <2>2. ASSUME NEW o \in Offer, AcceptOffer(o) PROVE Stay
    BY <2>2, AcceptedStay DEF AcceptOffer
  <2>3. ASSUME NEW c \in fundChosen, NEW k \in KeyOrNone, FundNew(c, k) PROVE Stay
    BY <2>3, AcceptedStay DEF FundNew, TakeOffer, TypeOK, Choice
  <2>4. ASSUME UNCHANGED offer PROVE Stay
    BY <2>4
  <2>5. QED
    BY <2>1, <2>2, <2>3, <2>4
    DEF Next, Request, WorkerStep, Proceed, vars, CreateJob, Publish, StartRead, StartCommit, Deliver, UpdateJobSimple,
        AcceptDelivery, FundReadJob, FundRetry, Release, OfferReadJob, FundReadOffers, Claim, ProviderConfirms,
        ProviderFails, CompleteHold, CompleteRelease, CompleteRefused, CompleteAborts, Fail, Crash, DeadlinePasses
<1>2. QED BY <1>1, Inductive, PTL DEF Spec, OfferDecisionIsFinal

-----------------------------------------------------------------------------
(* Refinement. *)

\* A step that takes a job from one state to a later one of the table is a
\* move of Lifecycle.
LEMMA MoveOf ==
  ASSUME TypeOK, NEW j \in Job, NEW to \in Life!JobState, to \in Life!Transitions[jobStatus[j]],
         jobStatus' = [jobStatus EXCEPT ![j] = to]
  PROVE  Life!Next
BY DEF Life!Next, Life!Move, Life!CanTransition

\* Every handler moves a job along an edge of the table of workflow.js.
THEOREM HandlersFollowWorkflow == Spec => ImplementsLifecycle
<1>1. Init => Life!Init BY DEF Init, MarketInit, Life!Init
<1>2. SettlementInv /\ [Next]_vars => [Life!Next]_jobStatus
  <2> SUFFICES ASSUME SettlementInv, [Next]_vars, jobStatus' # jobStatus PROVE Life!Next
    OBVIOUS
  <2> USE DEF SettlementInv, Life!Transitions, Life!JobState
  <2>1. ASSUME NEW j \in Job, CreateJob(j) PROVE Life!Next
    BY <2>1, MoveOf DEF CreateJob
  <2>2. ASSUME NEW j \in Job, Publish(j) PROVE Life!Next
    BY <2>2, MoveOf DEF Publish, UpdateJobSimple
  <2>3. ASSUME NEW j \in Job, StartCommit(j) PROVE Life!Next
    BY <2>3, MoveOf DEF StartCommit, UpdateJobSimple
  <2>4. ASSUME NEW j \in Job, Deliver(j) PROVE Life!Next
    BY <2>4, MoveOf DEF Deliver, UpdateJobSimple
  <2>5. ASSUME NEW j \in Job, AcceptDelivery(j) PROVE Life!Next
    BY <2>5, MoveOf DEF AcceptDelivery
  <2>6. ASSUME NEW o \in Offer, AcceptOffer(o) PROVE Life!Next
    BY <2>6, MoveOf DEF AcceptOffer
  <2>7. ASSUME NEW c \in fundChosen, NEW k \in KeyOrNone, FundNew(c, k) PROVE Life!Next
    <3>1. c.job \in Job BY DEF TypeOK, Choice
    <3>2. jobStatus[c.job] \in {"PUBLISHED", "ASSIGNED"}
      BY <2>7, <3>1 DEF FundNew, Fundable, JobPaymentAgree
    <3>3. QED BY <2>7, <3>1, <3>2, MoveOf DEF FundNew
  <2>8. ASSUME NEW w \in Worker, CompleteRelease(w) PROVE Life!Next
    <3> DEFINE j == claim[w][2]
    <3>1. j \in Job BY <2>8, WorkersEvent DEF CompleteRelease
    <3>2. payStatus[j] = "RELEASE_PENDING" /\ jobStatus' = [jobStatus EXCEPT ![j] = "SETTLED"]
      BY <2>8 DEF CompleteRelease
    <3>3. jobStatus[j] = "COMPLETED" BY <3>1, <3>2 DEF JobPaymentAgree
    <3>4. QED BY <3>1, <3>2, <3>3, MoveOf
  <2>9. QED
    BY <2>1, <2>2, <2>3, <2>4, <2>5, <2>6, <2>7, <2>8
    DEF Next, Request, WorkerStep, Proceed, vars, jobVars, StartRead, FundReadJob, FundRetry, Release, OfferReadJob,
        OfferInsert, FundReadOffers, Claim, ProviderConfirms, ProviderFails, CompleteHold, CompleteRefused,
        CompleteAborts, Fail, Crash, DeadlinePasses
<1>3. QED BY <1>1, <1>2, Inductive, PTL DEF Spec, ImplementsLifecycle, Life!Spec

\* The value of a job in the platform's books, job by job.
LEMMA BookAt ==
  ASSUME NEW j \in Job
  PROVE  /\ BookOf[j] = IF payStatus[j] = "HELD" THEN "confirmed"
                        ELSE IF payStatus[j] = "RELEASE_PENDING" THEN "approved"
                        ELSE IF payStatus[j] = "RELEASED" THEN "settled" ELSE "open"
BY DEF BookOf

\* A release that took effect was approved, and is of a hold that is booked.
LEMMA PayoutIsApproved ==
  ASSUME SettlementInv, NEW j \in Job
  PROVE  HasPayout(j) => payStatus[j] \in {"RELEASE_PENDING", "RELEASED"}
BY DEF SettlementInv, HasPayout, ProviderMatchesEvents, EventsMatchPayments

\* What is booked is held.
LEMMA BookedIsHeld ==
  ASSUME SettlementInv, NEW j \in Job, payStatus[j] \in Booked
  PROVE  HasHold(j)
<1>1. HoldRef(HoldEvent(j)) \in held BY DEF SettlementInv, BooksMatchProvider
<1>2. HoldRef(HoldEvent(j)).payment = j BY EventNames DEF HoldRef
<1>3. QED BY <1>1, <1>2 DEF HasHold

\* The payout that a release event names is a payout of the event's payment.
LEMMA PayoutNamesJob ==
  ASSUME SettlementInv, NEW j \in Job, evStatus[ReleaseEvent(j)] # "NONE"
  PROVE  /\ payStatus[j] \in {"RELEASE_PENDING", "RELEASED"}
         /\ PayoutOf(ReleaseEvent(j)).hold # NoRef
         /\ PayoutOf(ReleaseEvent(j)).hold.payment = j
<1>1. payStatus[j] \in {"RELEASE_PENDING", "RELEASED"} /\ payload[ReleaseEvent(j)].ref = payRef[j]
  BY DEF SettlementInv, EventsMatchPayments
<1>2. payRef[j] = HoldRef(HoldEvent(j)) BY <1>1 DEF SettlementInv, BooksMatchProvider, Booked
<1>3. HoldRef(HoldEvent(j)) \in Ref /\ HoldRef(HoldEvent(j)).payment = j
  BY EventNames DEF HoldRef, Ref, SettlementInv, TypeOK, Payload
<1>4. QED BY <1>1, <1>2, <1>3 DEF PayoutOf, Ref, KeyOrNone

\* A call that takes effect at the provider takes the money of the event's job
\* from the client to escrow or, once that was approved, on to the provider; or
\* the money is there already.
LEMMA EffectMoves ==
  ASSUME SettlementInv, NEW w \in Worker, pc[w] = "call", Effect(claim[w]), UNCHANGED payStatus
  PROVE  Promise!Next \/ UNCHANGED <<MoneyOf, BookOf>>
<1> DEFINE e == claim[w]
           j == e[2]
<1>1. e \in Event /\ j \in Job /\ evStatus[e] # "NONE"
  BY WorkersEvent DEF SettlementInv, WorkersMatchEvents
<1>2. UNCHANGED BookOf BY DEF BookOf
<1>3. CASE IsHold(e)
  <2>1. held' = held \cup {HoldRef(e)} /\ paid' = paid BY <1>3 DEF Effect
  <2>2. HoldRef(e).payment = j BY DEF HoldRef
  <2>3. \A i \in Job : /\ HasPayout(i)' <=> HasPayout(i)
                       /\ HasHold(i)' <=> HasHold(i) \/ i = j
    BY <2>1, <2>2 DEF HasHold, HasPayout
  <2>4. CASE HasPayout(j) \/ HasHold(j)
    <3>1. UNCHANGED MoneyOf BY <2>3, <2>4 DEF MoneyOf
    <3>2. QED BY <1>2, <3>1
  <2>5. CASE ~HasPayout(j) /\ ~HasHold(j)
    <3>1. MoneyOf[j] = "client" BY <1>1, <2>5 DEF MoneyOf
    <3>2. MoneyOf' = [MoneyOf EXCEPT ![j] = "escrow"] BY <2>3, <2>5 DEF MoneyOf
    <3>3. QED BY <1>1, <1>2, <3>1, <3>2 DEF Promise!Next, Promise!Hold
  <2>6. QED BY <2>4, <2>5
<1>4. CASE ~IsHold(e)
  <2>1. e = ReleaseEvent(j) BY <1>4, WorkersEvent DEF SettlementInv
  <2>2. paid' = paid \cup {PayoutOf(e)} /\ held' = held BY <1>4 DEF Effect
  <2>3. /\ payStatus[j] \in {"RELEASE_PENDING", "RELEASED"}
        /\ PayoutOf(e).hold # NoRef /\ PayoutOf(e).hold.payment = j
    BY <1>1, <2>1, PayoutNamesJob
  <2>4. \A i \in Job : /\ HasPayout(i)' <=> HasPayout(i) \/ i = j
                       /\ HasHold(i)' <=> HasHold(i)
    BY <2>2, <2>3 DEF HasHold, HasPayout
  <2>5. CASE HasPayout(j)
    <3>1. UNCHANGED MoneyOf BY <2>4, <2>5 DEF MoneyOf
    <3>2. QED BY <1>2, <3>1
  <2>6. CASE ~HasPayout(j)
    <3>1. payStatus[j] # "RELEASED"
      BY <1>1, <2>1, <2>3, <2>6 DEF SettlementInv, BooksMatchProvider, HasPayout
    <3>2. BookOf[j] = "approved" BY <1>1, <2>3, <3>1, BookAt
    <3>3. MoneyOf[j] = "escrow"
      <4>1. HasHold(j) BY <1>1, <2>3, BookedIsHeld DEF Booked
      <4>2. QED BY <1>1, <2>6, <4>1 DEF MoneyOf
    <3>4. MoneyOf' = [MoneyOf EXCEPT ![j] = "provider"] BY <2>4, <2>6 DEF MoneyOf
    <3>5. QED BY <1>1, <1>2, <3>2, <3>3, <3>4 DEF Promise!Next, Promise!Pay
  <2>7. QED BY <2>5, <2>6
<1>5. QED BY <1>3, <1>4

\* The platform and its provider keep the promise of Escrow: no hold is booked
\* without money in escrow, no money leaves escrow before the owner approved,
\* and nothing is settled before it was paid.
THEOREM PlatformKeepsPromise == Spec => ImplementsEscrow
<1> DEFINE Step == Promise!Next \/ UNCHANGED <<MoneyOf, BookOf>>
<1>1. Init => Promise!Init
  BY DEF Init, MarketInit, WorkerInit, Promise!Init, MoneyOf, BookOf, HasHold, HasPayout
<1>2. SettlementInv /\ [Next]_vars => Step
  <2> SUFFICES ASSUME SettlementInv, [Next]_vars PROVE Step
    OBVIOUS
  <2>1. ASSUME UNCHANGED pspVars PROVE UNCHANGED MoneyOf
    BY <2>1 DEF pspVars, MoneyOf, HasHold, HasPayout
  <2>2. ASSUME UNCHANGED <<payStatus, pspVars>> PROVE Step
    BY <2>1, <2>2 DEF BookOf
  <2>3. ASSUME NEW j \in Job, AcceptDelivery(j), UNCHANGED pspVars PROVE Step
    <3>1. BookOf[j] = "confirmed" BY <2>3, BookAt DEF AcceptDelivery
    <3>2. BookOf' = [BookOf EXCEPT ![j] = "approved"]
      BY <2>3 DEF AcceptDelivery, BookOf, SettlementInv, TypeOK
    <3>3. QED BY <2>1, <2>3, <3>1, <3>2 DEF Promise!Next, Promise!Approve
  <2>4. ASSUME NEW c \in fundChosen, NEW k \in KeyOrNone, FundNew(c, k) \/ FundRetry(c, k), UNCHANGED pspVars
        PROVE  Step
    <3>1. c.job \in Job BY DEF SettlementInv, TypeOK, Choice
    <3>2. UNCHANGED BookOf
      BY <2>4, <3>1 DEF FundNew, FundRetry, BookOf, SettlementInv, TypeOK
    <3>3. QED BY <2>1, <2>4, <3>2
  <2>5. ASSUME NEW w \in Worker, ProviderConfirms(w) \/ ProviderFails(w) PROVE Step
    BY <2>2, <2>5, EffectMoves DEF ProviderConfirms, ProviderFails, payVars
  <2>6. ASSUME NEW w \in Worker, CompleteHold(w) PROVE Step
    <3> DEFINE e == claim[w]
               j == e[2]
    <3>1. j \in Job /\ e = HoldEvent(j) BY <2>6, WorkersEvent DEF CompleteHold, SettlementInv
    <3>2. CASE UNCHANGED payStatus BY <2>2, <2>6, <3>2 DEF CompleteHold
    <3>3. CASE payStatus[j] = "HOLD_PENDING" /\ payStatus' = [payStatus EXCEPT ![j] = "HELD"]
      <4>1. HasHold(j) BY <2>6 DEF CompleteHold, SettlementInv, WorkersMatchEvents, HasHold, HoldRef
      <4>2. MoneyOf[j] = "escrow" BY <3>1, <3>3, <4>1, PayoutIsApproved DEF MoneyOf
      <4>3. BookOf[j] = "open" BY <3>1, <3>3, BookAt
      <4>4. BookOf' = [BookOf EXCEPT ![j] = "confirmed"]
        BY <3>1, <3>3 DEF BookOf, SettlementInv, TypeOK
      <4>5. UNCHANGED MoneyOf BY <2>1, <2>6 DEF CompleteHold
      <4>6. QED BY <3>1, <4>2, <4>3, <4>4, <4>5 DEF Promise!Next, Promise!Confirm
    <3>4. QED BY <2>6, <3>2, <3>3 DEF CompleteHold, AwaitsHold
  <2>7. ASSUME NEW w \in Worker, CompleteRelease(w) PROVE Step
    <3> DEFINE e == claim[w]
               j == e[2]
    <3>1. j \in Job /\ e = ReleaseEvent(j) BY <2>7, WorkersEvent DEF CompleteRelease, SettlementInv
    <3>2. CASE UNCHANGED payStatus BY <2>2, <2>7, <3>2 DEF CompleteRelease
    <3>3. CASE payStatus[j] = "RELEASE_PENDING" /\ payStatus' = [payStatus EXCEPT ![j] = "RELEASED"]
      <4>1. PayoutOf(e) \in paid /\ evStatus[e] # "NONE"
        BY <2>7 DEF CompleteRelease, SettlementInv, WorkersMatchEvents
      <4>2. HasPayout(j) BY <3>1, <4>1, PayoutNamesJob DEF HasPayout
      <4>3. MoneyOf[j] = "provider" BY <3>1, <4>2 DEF MoneyOf
      <4>4. BookOf[j] = "approved" BY <3>1, <3>3, BookAt
      <4>5. BookOf' = [BookOf EXCEPT ![j] = "settled"]
        BY <3>1, <3>3 DEF BookOf, SettlementInv, TypeOK
      <4>6. UNCHANGED MoneyOf BY <2>1, <2>7 DEF CompleteRelease
      <4>7. QED BY <3>1, <4>3, <4>4, <4>5, <4>6 DEF Promise!Next, Promise!Settle
    <3>4. QED BY <2>7, <3>2, <3>3 DEF CompleteRelease
  <2>8. ASSUME NEW w \in Worker, Fail(w) PROVE Step
    <3>1. claim[w][2] \in Job BY <2>8, WorkersEvent DEF Fail, SettlementInv
    <3>2. UNCHANGED BookOf BY <2>8, <3>1 DEF Fail, GiveUpHold, BookOf, SettlementInv, TypeOK
    <3>3. QED BY <2>1, <2>8, <3>2 DEF Fail
  <2>9. QED
    BY <2>2, <2>3, <2>4, <2>5, <2>6, <2>7, <2>8
    DEF Next, Request, WorkerStep, Proceed, vars, payVars, pspVars, CreateJob, Publish, StartRead, StartCommit,
        Deliver, UpdateJobSimple, FundReadJob, Release, OfferReadJob, OfferInsert, AcceptOffer, FundReadOffers, Claim,
        CompleteRefused, CompleteAborts, Crash, DeadlinePasses
<1>3. QED BY <1>1, <1>2, Inductive, PTL DEF Spec, ImplementsEscrow, Promise!Spec, Promise!vars

-----------------------------------------------------------------------------
(* The money and the work. *)

\* Whatever the numbers of jobs, offers, workers and attempts, and however
\* calls to the provider are repeated or lost, money and work keep step.
THEOREM MoneyAndWorkKeepStep == Spec => []MoneyFollowsWork
<1>1. ASSUME SettlementInv, OnlyBiddersAreHired, NEW j \in Job
      PROVE  /\ jobStatus[j] \in {"IN_PROGRESS", "DELIVERED", "UNDER_REVIEW", "COMPLETED", "SETTLED"}
                  => HasHold(j)
             /\ HasPayout(j) => /\ HasHold(j)
                                /\ jobStatus[j] \in {"COMPLETED", "SETTLED"}
                                /\ HasAcceptedOffer(payee[j], j)
             /\ jobStatus[j] = "SETTLED" => HasPayout(j)
  <2>1. JobPaymentAgree /\ BooksMatchProvider /\ AssignmentMatchesStatus
    BY <1>1 DEF SettlementInv
  <2>2. ASSUME jobStatus[j] \in {"IN_PROGRESS", "DELIVERED", "UNDER_REVIEW", "COMPLETED", "SETTLED"}
        PROVE  HasHold(j)
    <3>1. payStatus[j] \in Booked BY <2>1, <2>2 DEF JobPaymentAgree, Booked
    <3>2. QED BY <1>1, <3>1, BookedIsHeld
  <2>3. ASSUME HasPayout(j)
        PROVE  /\ HasHold(j)
               /\ jobStatus[j] \in {"COMPLETED", "SETTLED"}
               /\ HasAcceptedOffer(payee[j], j)
    <3>1. payStatus[j] \in {"RELEASE_PENDING", "RELEASED"} BY <1>1, <2>3, PayoutIsApproved
    <3>2. HasHold(j) BY <1>1, <3>1, BookedIsHeld DEF Booked
    <3>3. jobStatus[j] \in {"COMPLETED", "SETTLED"} BY <2>1, <3>1 DEF JobPaymentAgree
    <3>4. payee[j] # NoUser BY <2>1, <3>1 DEF AssignmentMatchesStatus
    <3>5. HasAcceptedOffer(payee[j], j) BY <1>1, <3>4 DEF OnlyBiddersAreHired
    <3>6. QED BY <3>2, <3>3, <3>5
  <2>4. ASSUME jobStatus[j] = "SETTLED"
        PROVE  HasPayout(j)
    <3>1. payStatus[j] = "RELEASED" BY <2>1, <2>4 DEF JobPaymentAgree
    <3>2. PayoutOf(ReleaseEvent(j)) \in paid BY <2>1, <3>1 DEF BooksMatchProvider
    <3>3. evStatus[ReleaseEvent(j)] # "NONE"
      BY <1>1, <3>1 DEF SettlementInv, EventsMatchPayments
    <3>4. QED BY <1>1, <3>2, <3>3, PayoutNamesJob DEF HasPayout
  <2>5. QED BY <2>2, <2>3, <2>4
<1>2. SettlementInv /\ OnlyBiddersAreHired => MoneyFollowsWork
  BY <1>1 DEF MoneyFollowsWork
<1>3. QED BY <1>2, Inductive, HiringIsByOffer, PTL
=============================================================================
