-------------------------- MODULE TokenFamiliesProofs --------------------------
(***************************************************************************)
(* What follows from the promise of TokenFamilies: a family has one live   *)
(* token at most, and one that has ended is never taken up again.          *)
(***************************************************************************)
EXTENDS TokenFamilies, TLAPS

vars == <<state, family>>

\* A token has a family of its own until it is inserted, and from then on one
\* whose first token has been inserted; a family has one live token.
FamiliesInv ==
  /\ TypeOK
  /\ \A t \in Token : IF state[t] = "none" THEN family[t] = t
                                           ELSE state[family[t]] # "none"
  /\ OneLive

LEMMA InitInv == Init => FamiliesInv
BY DEF Init, FamiliesInv, TypeOK, OneLive, Live

LEMMA NextInv == FamiliesInv /\ [Next]_vars => FamiliesInv'
<1> SUFFICES ASSUME FamiliesInv, [Next]_vars PROVE FamiliesInv'
  OBVIOUS
<1> USE DEF FamiliesInv, TypeOK, OneLive, Live
<1>1. ASSUME NEW n \in Token, Open(n) PROVE FamiliesInv'
  BY <1>1 DEF Open
<1>2. ASSUME NEW t \in Token, NEW n \in Token, Rotate(t, n) PROVE FamiliesInv'
  BY <1>2 DEF Rotate
<1>3. ASSUME NEW S \in SUBSET Token, Revoke(S) PROVE FamiliesInv'
  BY <1>3 DEF Revoke
<1>4. CASE UNCHANGED vars
  BY <1>4 DEF vars
<1> QED BY <1>1, <1>2, <1>3, <1>4 DEF Next

\* There is never a choice of which of two tokens continues a session
\* (refresh_tokens.revoked_at and replaced_by).
THEOREM OneLiveToken == Spec => []OneLive
<1>1. Init => FamiliesInv
  BY InitInv
<1>2. FamiliesInv /\ [Next]_vars => FamiliesInv'
  BY NextInv
<1>3. FamiliesInv => OneLive
  BY DEF FamiliesInv
<1> QED BY <1>1, <1>2, <1>3, PTL DEF Spec, vars

LEMMA StepKeepsEnd ==
  FamiliesInv /\ [Next]_vars => \A f \in Token : Ended(f) => Ended(f)'
<1> SUFFICES ASSUME FamiliesInv, [Next]_vars, NEW f \in Token, Ended(f) PROVE Ended(f)'
  OBVIOUS
<1> USE DEF FamiliesInv, TypeOK, Ended, Live
<1>1. ASSUME NEW n \in Token, Open(n) PROVE Ended(f)'
  BY <1>1 DEF Open
<1>2. ASSUME NEW t \in Token, NEW n \in Token, Rotate(t, n) PROVE Ended(f)'
  BY <1>2 DEF Rotate
<1>3. ASSUME NEW S \in SUBSET Token, Revoke(S) PROVE Ended(f)'
  BY <1>3 DEF Revoke
<1>4. CASE UNCHANGED vars
  BY <1>4 DEF vars
<1> QED BY <1>1, <1>2, <1>3, <1>4 DEF Next

\* A logout, a reset or a detected reuse is final: no token of an ended family
\* works again and none is added to it (rotateRefreshToken, revokeRefreshFamily).
THEOREM EndIsFinal == Spec => EndedForGood
<1>1. Init => FamiliesInv
  BY InitInv
<1>2. FamiliesInv /\ [Next]_vars => FamiliesInv'
  BY NextInv
<1>3. FamiliesInv /\ [Next]_vars => [\A f \in Token : Ended(f) => Ended(f)']_vars
  BY StepKeepsEnd
<1> QED BY <1>1, <1>2, <1>3, PTL DEF Spec, EndedForGood, vars
=============================================================================
