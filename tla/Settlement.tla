----------------------------- MODULE Settlement -----------------------------
(***************************************************************************)
(* The marketplace and its outbox workers together: a job from its draft   *)
(* to the payment of its provider, with any number of requests in flight,  *)
(* several server processes, a provider whose calls may fail before or     *)
(* after they took effect, and processes that die.                         *)
(***************************************************************************)
EXTENDS OutboxWorker, FiniteSets

vars == <<jobVars, offer, payVars, eventVars, audit, requestVars, workerVars, pspVars>>

Init == MarketInit /\ WorkerInit

Next ==
  \/ Request /\ UNCHANGED <<workerVars, pspVars>>
  \/ WorkerStep

Spec == Init /\ [][Next]_vars

(***************************************************************************)
(* Fairness.  startOutboxWorker re-arms its timer after every tick, so an  *)
(* idle worker claims if something is due; processOne runs on to its end   *)
(* by itself, granted that the provider's call returns (the code sets no   *)
(* timeout on it); and clocks advance.  Nothing makes a user act, a        *)
(* transaction abort or a process die.                                     *)
(***************************************************************************)
Fairness ==
  /\ \A w \in Worker : /\ WF_vars(\E e \in Event : Claim(w, e))
                       /\ WF_vars(Proceed(w))
  /\ \A e \in Event : WF_vars(DeadlinePasses(e))

FairSpec == Spec /\ Fairness

TypeOK ==
  /\ jobStatus \in [Job -> JobState]
  /\ provider \in [Job -> User \cup {NoUser}]
  /\ offer \in [Offer -> OfferState]
  /\ payStatus \in [Job -> PayState]
  /\ payee \in [Job -> User \cup {NoUser}]
  /\ payKey \in [Job -> KeyOrNone]
  /\ payRef \in [Job -> Ref \cup {NoRef}]
  /\ evStatus \in [Event -> EventState]
  /\ attempts \in [Event -> 0..MaxAttempts]
  /\ due \in [Event -> BOOLEAN]
  /\ payload \in [Event -> Payload]
  /\ audit \in [AuditAction \X Job -> Nat]
  /\ offerRead \subseteq Offer
  /\ startRead \subseteq Job
  /\ fundRead \subseteq Job
  /\ fundChosen \subseteq Choice
  /\ pc \in [Worker -> PC]
  /\ claim \in [Worker -> Event \cup {NoEvent}]
  /\ \A w \in Worker : pc[w] = "idle" <=> claim[w] = NoEvent
  /\ held \subseteq Ref
  /\ paid \subseteq Payout

-----------------------------------------------------------------------------
(* Safety. *)

Booked == {"HELD", "RELEASE_PENDING", "RELEASED"}   \* the hold is confirmed in the books

\* The jobs table and the payments table, written by different transactions of
\* different processes, always tell the same story: no work starts, goes on or
\* is accepted on a job whose money is not confirmed, and a job is completed
\* and settled exactly when its payment is.
JobPaymentAgree ==
  \A j \in Job :
    /\ jobStatus[j] \in {"NONE", "DRAFT", "PUBLISHED", "ASSIGNED"} <=> payStatus[j] = "NONE"
    /\ jobStatus[j] \in {"IN_PROGRESS", "DELIVERED", "UNDER_REVIEW"} => payStatus[j] = "HELD"
    /\ jobStatus[j] = "COMPLETED" <=> payStatus[j] = "RELEASE_PENDING"
    /\ jobStatus[j] = "SETTLED" <=> payStatus[j] = "RELEASED"

\* No hold is forgotten: as long as a payment waits for one, an event that
\* can still be claimed is there to fetch it, whatever late or duplicate
\* workers did to the event in between.
PendingHoldIsQueued ==
  \A j \in Job :
    payStatus[j] = "HOLD_PENDING" => evStatus[HoldEvent(j)] \in {"PENDING", "PROCESSING"}

\* An event marked DONE did its work: its hold is booked, its release settled.
\* Neither a requeue by a request nor another worker can make DONE a lie.
DoneMeansBooked ==
  \A j \in Job :
    /\ evStatus[HoldEvent(j)] = "DONE" => payStatus[j] \in Booked
    /\ evStatus[ReleaseEvent(j)] = "DONE" => payStatus[j] = "RELEASED"

\* However often calls are repeated (leases that expire, requeues by requests,
\* retried fundings with other idempotency keys), the provider never makes a
\* second hold or a second release for one payment.
ProviderActsOnce ==
  \A j \in Job :
    /\ Cardinality({r \in held : r.payment = j}) <= 1
    /\ Cardinality({p \in paid : p.hold # NoRef /\ p.hold.payment = j}) <= 1

\* The audit trail records each confirmation once, when it happens and not
\* again when the same event is processed again.
AuditExactlyOnce ==
  \A j \in Job :
    /\ audit[<<"PAYMENT_FUND", j>>] = IF payStatus[j] = "NONE" THEN 0 ELSE 1
    /\ audit[<<"PAYMENT_HOLD_CONFIRMED", j>>] = IF payStatus[j] \in Booked THEN 1 ELSE 0
    /\ audit[<<"PAYMENT_RELEASE", j>>] = IF payStatus[j] = "RELEASED" THEN 1 ELSE 0

HasAcceptedOffer(u, j) ==
  \E o \in Offer : OfferJob[o] = j /\ OfferBy[o] = u /\ offer[o] = "ACCEPTED"

\* Nobody is assigned to a job, and nobody is to be paid for it, who does not
\* have an accepted offer on it, although assignment and choice of the payee
\* rest on reads made before the transactions that use them.
OnlyBiddersAreHired ==
  \A j \in Job :
    /\ provider[j] # NoUser => HasAcceptedOffer(provider[j], j)
    /\ payee[j] # NoUser => HasAcceptedOffer(payee[j], j)

HasHold(j)   == \E r \in held : r.payment = j
HasPayout(j) == \E p \in paid : p.hold # NoRef /\ p.hold.payment = j

\* Jobs, offers and payments of the platform, and the books of its provider,
\* follow one another, though no transaction sees them together: nobody works
\* without the money of the job in escrow, money leaves escrow only for a
\* delivery that the owner has accepted and to somebody whose offer was
\* accepted, and a settled job has been paid out.
MoneyFollowsWork ==
  \A j \in Job :
    /\ jobStatus[j] \in {"IN_PROGRESS", "DELIVERED", "UNDER_REVIEW", "COMPLETED", "SETTLED"}
         => HasHold(j)
    /\ HasPayout(j) => /\ HasHold(j)
                       /\ jobStatus[j] \in {"COMPLETED", "SETTLED"}
                       /\ HasAcceptedOffer(payee[j], j)
    /\ jobStatus[j] = "SETTLED" => HasPayout(j)

\* The provider of a job and the payee of its payment, once set, stay.
AssignmentIsFinal ==
  [][\A j \in Job : /\ provider[j] # NoUser => provider'[j] = provider[j]
                    /\ payee[j] # NoUser => payee'[j] = payee[j]]_vars

\* An offer that was accepted or rejected stays so: of an acceptance and a
\* funding that race for the same offers, the later finds them decided.
OfferDecisionIsFinal ==
  [][\A o \in Offer : offer[o] \in {"ACCEPTED", "REJECTED"} => offer'[o] = offer[o]]_vars

-----------------------------------------------------------------------------
(* Refinement. *)

Life == INSTANCE Lifecycle WITH status <- jobStatus

\* Every handler moves a job along an edge of the table of workflow.js.
ImplementsLifecycle == Life!Spec

\* The money is where the provider's books have it, ...
MoneyOf == [j \in Job |-> IF HasPayout(j) THEN "provider"
                          ELSE IF HasHold(j) THEN "escrow" ELSE "client"]

\* ... and the platform's books are the statuses of the payments table.
BookOf == [j \in Job |-> CASE payStatus[j] = "HELD" -> "confirmed"
                           [] payStatus[j] = "RELEASE_PENDING" -> "approved"
                           [] payStatus[j] = "RELEASED" -> "settled"
                           [] OTHER -> "open"]

Promise == INSTANCE Escrow WITH money <- MoneyOf, book <- BookOf

\* Tables, outbox, workers and provider together keep the promise of Escrow:
\* no hold is booked without money in escrow, no money leaves escrow before
\* the owner approved, and nothing is settled before it was paid.
ImplementsEscrow == Promise!Spec

-----------------------------------------------------------------------------
(***************************************************************************)
(* The inductive invariant: what the tables, the requests in flight, the   *)
(* workers and the provider's books say of each other.  It is what the     *)
(* proofs of SettlementProofs rest on.                                     *)
(***************************************************************************)

\* The step a worker is at shows in its event, and in the provider's books.
WorkersMatchEvents ==
  \A w \in Worker :
    /\ pc[w] # "idle" => evStatus[claim[w]] # "NONE"
    /\ pc[w] = "commit" => IF IsHold(claim[w]) THEN HoldRef(claim[w]) \in held
                                               ELSE PayoutOf(claim[w]) \in paid

\* Hold events exist from the payment on, release events from the approval
\* on, and a release names the hold that was booked.  Only a release event
\* settles a payment.
EventsMatchPayments ==
  \A j \in Job :
    /\ evStatus[HoldEvent(j)] = "NONE" <=> payStatus[j] = "NONE"
    /\ evStatus[ReleaseEvent(j)] # "NONE" =>
          /\ payStatus[j] \in {"RELEASE_PENDING", "RELEASED"}
          /\ payload[ReleaseEvent(j)].ref = payRef[j]
    /\ payStatus[j] = "RELEASED" => evStatus[ReleaseEvent(j)] # "NONE"

\* The provider knows of nothing that no event asked for.
ProviderMatchesEvents ==
  /\ \A r \in held : /\ evStatus[HoldEvent(r.payment)] # "NONE"
                      /\ r = HoldRef(HoldEvent(r.payment))
  /\ \A p \in paid : /\ p.hold \in Ref
                      /\ evStatus[ReleaseEvent(p.hold.payment)] # "NONE"
                      /\ p = PayoutOf(ReleaseEvent(p.hold.payment))

\* What the books say of the provider is so.
BooksMatchProvider ==
  \A j \in Job :
    /\ payStatus[j] \in Booked => payRef[j] = HoldRef(HoldEvent(j)) /\ payRef[j] \in held
    /\ payStatus[j] = "RELEASED" => PayoutOf(ReleaseEvent(j)) \in paid

\* What requests in flight have read is still true of what cannot change.
RequestsMatchTables ==
  /\ \A o \in offerRead : offer[o] = "NONE"
  /\ \A j \in startRead : payStatus[j] \in Booked
  /\ \A c \in fundChosen :
       IF c.offer = NoOffer THEN c.payee = provider[c.job]
                            ELSE OfferJob[c.offer] = c.job /\ OfferBy[c.offer] = c.payee

\* A job has a provider from its assignment on, a payment has a payee always.
AssignmentMatchesStatus ==
  \A j \in Job : /\ provider[j] = NoUser <=> jobStatus[j] \in {"NONE", "DRAFT", "PUBLISHED"}
                 /\ payee[j] = NoUser <=> payStatus[j] = "NONE"

SettlementInv ==
  /\ TypeOK
  /\ JobPaymentAgree
  /\ AssignmentMatchesStatus
  /\ RequestsMatchTables
  /\ EventsMatchPayments
  /\ ProviderMatchesEvents
  /\ WorkersMatchEvents
  /\ BooksMatchProvider

-----------------------------------------------------------------------------
(* Liveness. *)

\* The steps that may go on for ever without anything being the matter with
\* the workers: processes that die, and owners who queue an event again.
Crashes == \E w \in Worker : Crash(w)
Requeues == \/ \E c \in fundChosen, k \in KeyOrNone : FundRetry(c, k)
            \/ \E j \in Job : Release(j)

EventuallyQuiet == <>[][~Crashes /\ ~Requeues]_vars

\* A funded job does not wait for its hold for ever: if crashes and requeues
\* end, the hold is booked or given up, even if every call to the provider
\* fails and every completing transaction aborts.
HoldIsDecided ==
  EventuallyQuiet =>
    \A j \in Job : (payStatus[j] = "HOLD_PENDING") ~> (payStatus[j] # "HOLD_PENDING")

\* Nor does a provider wait for a queued release for ever: it is paid out and
\* settled, or its event has FAILED and the owner may queue it again.
ReleaseIsDecided ==
  EventuallyQuiet =>
    \A j \in Job :
      (evStatus[ReleaseEvent(j)] \in {"PENDING", "PROCESSING"})
        ~> (payStatus[j] = "RELEASED" \/ evStatus[ReleaseEvent(j)] = "FAILED")

-----------------------------------------------------------------------------
(* What the documentation says of the code and the code does not do. *)

\* Funding assigns the payee, and an assigned job is funded for its assignee:
\* whoever works on a job is the one who is paid for it.
PayeeIsProvider ==
  \A j \in Job : payee[j] # NoUser => payee[j] = provider[j]

\* A worker never takes back what another has finished: an event that is DONE
\* stays DONE.
DoneIsFinal ==
  [][\A e \in Event : evStatus[e] = "DONE" => evStatus'[e] = "DONE"]_vars
=============================================================================
