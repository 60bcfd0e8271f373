---------------------------- MODULE OutboxWorker ----------------------------
(***************************************************************************)
(* The outbox workers (outbox_worker.js with the outbox functions of       *)
(* repository.js) and the payment service provider behind them             *)
(* (payment_provider.js).                                                  *)
(*                                                                         *)
(* A worker is one server process: its timer and the requests that ask for *)
(* immediate processing share the "busy" flag, so a process runs one       *)
(* processOne at a time, and several processes run at once.  Claiming an   *)
(* event, calling the provider and writing the outcome are three separate  *)
(* steps: between them the lease may expire, another worker may take the   *)
(* event, a request may queue it again and this process may die.           *)
(***************************************************************************)
EXTENDS Marketplace

CONSTANTS Worker, NoEvent, MaxAttempts   \* MaxAttempts: config.outboxMaxAttempts

ASSUME WorkerAssumption ==
  /\ NoEvent \notin Event
  /\ MaxAttempts \in Nat \ {0}

VARIABLES
  pc,      \* pc[w]: "idle", or about to "call" the provider, "commit" its answer or "fail" the event
  claim,   \* claim[w]: the event w works on; its payload never changes, so it is not copied
  held,    \* the provider's holds
  paid     \* the provider's releases, each of a hold under a key

workerVars == <<pc, claim>>
pspVars    == <<held, paid>>

PC == {"idle", "call", "commit", "fail"}

Payout == [hold : Ref \cup {NoRef}, key : KeyOrNone]

WorkerInit ==
  /\ pc = [w \in Worker |-> "idle"]
  /\ claim = [w \in Worker |-> NoEvent]
  /\ held = {}
  /\ paid = {}

IsHold(e) == e = HoldEvent(e[2])

\* What the provider's answer to the call for e names: the same payload gets
\* the same answer, which is the idempotency the provider promises.
HoldRef(e)  == [payment |-> e[2], key |-> payload[e].key]
PayoutOf(e) == [hold |-> payload[e].ref, key |-> payload[e].key]

\* The call takes effect at the provider.
Effect(e) ==
  IF IsHold(e) THEN held' = held \cup {HoldRef(e)} /\ UNCHANGED paid
               ELSE paid' = paid \cup {PayoutOf(e)} /\ UNCHANGED held

\* Mutant: only pending events fall due, so that no lease ever expires.
DeadlinePassesNoLease(e) ==
  /\ evStatus[e] = "PENDING"
  /\ ~due[e]
  /\ due' = [due EXCEPT ![e] = TRUE]
  /\ UNCHANGED <<jobVars, offer, payVars, evStatus, attempts, payload, audit, requestVars,
                 workerVars, pspVars>>

\* due[e] compares the clock with a deadline of e: available_at of a PENDING
\* event, the end of the lease of a PROCESSING one.  Time passes for each
\* event on its own, because neither deadline is ordered with another's.
DeadlinePasses(e) ==
  /\ evStatus[e] \in {"PENDING", "PROCESSING"}
  /\ ~due[e]
  /\ due' = [due EXCEPT ![e] = TRUE]
  /\ UNCHANGED <<jobVars, offer, payVars, evStatus, attempts, payload, audit, requestVars,
                 workerVars, pspVars>>

\* Mutant: a claim does not count as an attempt.
NextAttemptSame(n) == n

\* attempts+1, counted no further than MaxAttempts, the only number the
\* attempts are compared with.
NextAttempt(n) == IF n < MaxAttempts THEN n + 1 ELSE n

\* claimOutboxEvent.  Any due event may be the one: those created earlier may
\* be locked by others at this moment and skipped (SKIP LOCKED).
Claim(w, e) ==
  /\ pc[w] = "idle"
  /\ evStatus[e] \in {"PENDING", "PROCESSING"}
  /\ due[e]
  /\ evStatus' = [evStatus EXCEPT ![e] = "PROCESSING"]
  /\ attempts' = [attempts EXCEPT ![e] = NextAttempt(@)]
  /\ due' = [due EXCEPT ![e] = FALSE]
  /\ pc' = [pc EXCEPT ![w] = "call"]
  /\ claim' = [claim EXCEPT ![w] = e]
  /\ UNCHANGED <<jobVars, offer, payVars, payload, audit, requestVars, pspVars>>

Goto(w, label) ==
  /\ pc' = [pc EXCEPT ![w] = label]
  /\ claim' = IF label = "idle" THEN [claim EXCEPT ![w] = NoEvent] ELSE claim

\* The provider confirms the hold or the release.
ProviderConfirms(w) ==
  /\ pc[w] = "call"
  /\ Effect(claim[w])
  /\ Goto(w, "commit")
  /\ UNCHANGED <<jobVars, offer, payVars, eventVars, audit, requestVars>>

\* Mutant: an answer that is not a confirmation passes for one.
ProviderFailsUnnoticed(w) ==
  /\ pc[w] = "call"
  /\ Effect(claim[w]) \/ UNCHANGED pspVars
  /\ Goto(w, "commit")
  /\ UNCHANGED <<jobVars, offer, payVars, eventVars, audit, requestVars>>

\* The call throws or its answer is not a confirmation; it may have taken
\* effect all the same.
ProviderFails(w) ==
  /\ pc[w] = "call"
  /\ Effect(claim[w]) \/ UNCHANGED pspVars
  /\ Goto(w, "fail")
  /\ UNCHANGED <<jobVars, offer, payVars, eventVars, audit, requestVars>>

\* The event is done, whatever its row says now and whoever holds its lease.
Done(e) ==
  /\ evStatus' = [evStatus EXCEPT ![e] = "DONE"]
  /\ due' = [due EXCEPT ![e] = FALSE]
  /\ UNCHANGED <<attempts, payload>>

\* Mutant: a payment that is held already is booked once more.
AwaitsHoldAgain(j) == payStatus[j] \in {"HOLD_PENDING", "HELD"}

AwaitsHold(j) == payStatus[j] = "HOLD_PENDING"

\* completePaymentCreateHoldOutbox: the answer is booked if the payment still
\* waits for it, and a payment held under the same reference needs nothing.
CompleteHold(w) ==
  LET e == claim[w]
      j == e[2]
  IN
  /\ pc[w] = "commit"
  /\ IsHold(e)
  /\ \/ /\ AwaitsHold(j)
        /\ payStatus' = [payStatus EXCEPT ![j] = "HELD"]
        /\ payRef' = [payRef EXCEPT ![j] = HoldRef(e)]
        /\ Log("PAYMENT_HOLD_CONFIRMED", j)
     \/ /\ payStatus[j] = "HELD"
        /\ payRef[j] = HoldRef(e)
        /\ UNCHANGED <<payStatus, payRef, audit>>
  /\ Done(e)
  /\ Goto(w, "idle")
  /\ UNCHANGED <<jobVars, offer, payee, payKey, requestVars, pspVars>>

\* completePaymentReleaseOutbox: likewise, and the job is settled with the
\* payment.
CompleteRelease(w) ==
  LET e == claim[w]
      j == e[2]
  IN
  /\ pc[w] = "commit"
  /\ ~IsHold(e)
  /\ \/ /\ payStatus[j] = "RELEASE_PENDING"
        /\ payStatus' = [payStatus EXCEPT ![j] = "RELEASED"]
        /\ jobStatus' = [jobStatus EXCEPT ![j] = "SETTLED"]
        /\ Log("PAYMENT_RELEASE", j)
     \/ /\ payStatus[j] = "RELEASED"
        /\ UNCHANGED <<payStatus, jobStatus, audit>>
  /\ Done(e)
  /\ Goto(w, "idle")
  /\ UNCHANGED <<provider, offer, payee, payKey, payRef, requestVars, pspVars>>

\* Mutant: the worker takes a transaction that changed nothing for a success.
CompleteRefusedSilently(w) ==
  /\ pc[w] = "commit"
  /\ payStatus[claim[w][2]] \in {"HOLD_FAILED", "RELEASE_PENDING", "RELEASED"}
  /\ Done(claim[w])
  /\ Goto(w, "idle")
  /\ UNCHANGED <<jobVars, offer, payVars, audit, requestVars, pspVars>>

\* The completing transaction finds the payment in another state and changes
\* nothing; processOne turns that into a failure of the event.
CompleteRefused(w) ==
  LET e == claim[w]
      j == e[2]
  IN
  /\ pc[w] = "commit"
  /\ IF IsHold(e)
       THEN /\ ~AwaitsHold(j)
            /\ payStatus[j] # "HELD" \/ payRef[j] # HoldRef(e)
       ELSE payStatus[j] \notin {"RELEASE_PENDING", "RELEASED"}
  /\ Goto(w, "fail")
  /\ UNCHANGED <<jobVars, offer, payVars, eventVars, audit, requestVars, pspVars>>

\* The completing transaction aborts: a deadlock victim, a lost connection.
CompleteAborts(w) ==
  /\ pc[w] = "commit"
  /\ Goto(w, "fail")
  /\ UNCHANGED <<jobVars, offer, payVars, eventVars, audit, requestVars, pspVars>>

Terminal(e) == attempts[e] >= MaxAttempts

\* Mutant: the payment goes on waiting.
GiveUpHoldNot(e) == UNCHANGED payStatus

\* When the last attempt at a hold has failed, so has a payment that waits for it.
GiveUpHold(e) ==
  payStatus' = IF Terminal(e) /\ IsHold(e) /\ payStatus[e[2]] = "HOLD_PENDING"
                 THEN [payStatus EXCEPT ![e[2]] = "HOLD_FAILED"]
                 ELSE payStatus

\* failOutboxEvent: back to the queue after a pause, or FAILED for good.
\* Nothing asks whether the event is still this worker's.
Fail(w) ==
  LET e == claim[w] IN
  /\ pc[w] = "fail"
  /\ evStatus' = [evStatus EXCEPT ![e] = IF Terminal(e) THEN "FAILED" ELSE "PENDING"]
  /\ due' = [due EXCEPT ![e] = FALSE]
  /\ GiveUpHold(e)
  /\ Goto(w, "idle")
  /\ UNCHANGED <<jobVars, offer, payee, payKey, payRef, attempts, payload, audit, requestVars,
                 pspVars>>

\* The process dies, or the failing transaction aborts: the event keeps its
\* state until its lease expires.
Crash(w) ==
  /\ pc[w] # "idle"
  /\ Goto(w, "idle")
  /\ UNCHANGED <<jobVars, offer, payVars, eventVars, audit, requestVars, pspVars>>

\* A step processOne takes by itself once it has claimed an event.
Proceed(w) ==
  \/ ProviderConfirms(w) \/ ProviderFails(w)
  \/ CompleteHold(w) \/ CompleteRelease(w) \/ CompleteRefused(w)
  \/ Fail(w)

WorkerStep ==
  \/ \E w \in Worker : \/ \E e \in Event : Claim(w, e)
                       \/ Proceed(w) \/ CompleteAborts(w) \/ Crash(w)
  \/ \E e \in Event : DeadlinePasses(e)
=============================================================================
