---------------------------- MODULE TokenFamilies ----------------------------
(***************************************************************************)
(* What the refresh tokens of an account promise, whatever requests race   *)
(* for them: a token works once, for one successor, and a family that has  *)
(* ended is never taken up again.  A revocation may take any set of tokens *)
(* here; which ones the handlers take is said in Sessions, which is shown  *)
(* to implement this module.                                               *)
(***************************************************************************)
CONSTANT Token

VARIABLES
  state,    \* refresh_tokens.revoked_at, or no row yet
  family    \* refresh_tokens.family_id, named after the family's first token

Live == {t \in Token : state[t] = "live"}

Init ==
  /\ state = [t \in Token |-> "none"]
  /\ family = [t \in Token |-> t]

\* A new session begins a family of its own.
Open(n) ==
  /\ state[n] = "none"
  /\ state' = [state EXCEPT ![n] = "live"]
  /\ family' = [family EXCEPT ![n] = n]

\* A live token gives way to its successor.
Rotate(t, n) ==
  /\ t \in Live /\ state[n] = "none"
  /\ state' = [state EXCEPT ![t] = "revoked", ![n] = "live"]
  /\ family' = [family EXCEPT ![n] = family[t]]

\* Some live tokens end.
Revoke(S) ==
  /\ S \subseteq Live
  /\ state' = [t \in Token |-> IF t \in S THEN "revoked" ELSE state[t]]
  /\ UNCHANGED family

Next ==
  \/ \E n \in Token : Open(n)
  \/ \E t, n \in Token : Rotate(t, n)
  \/ \E S \in SUBSET Token : Revoke(S)

Spec == Init /\ [][Next]_<<state, family>>

-----------------------------------------------------------------------------
TypeOK ==
  /\ state \in [Token -> {"none", "live", "revoked"}]
  /\ family \in [Token -> Token]

\* A family has one live token at most: there is never a choice of which of
\* two tokens continues a session.
OneLive ==
  \A t, u \in Live : family[t] = family[u] => t = u

\* The family has begun and has no live token.
Ended(f) == state[f] # "none" /\ \A t \in Live : family[t] # f

\* A family that has ended stays so: no token, revoked or new, revives it.
EndedForGood == [][\A f \in Token : Ended(f) => Ended(f)']_<<state, family>>
=============================================================================
