---------------------------- MODULE DeviceProofs ----------------------------
(***************************************************************************)
(* Proofs about Device: DeviceInv is an invariant for any numbers of calls *)
(* and tokens, and the two properties of the device follow from it.  There *)
(* is a lemma for each action, with a step for each conjunct.              *)
(***************************************************************************)
EXTENDS Device, TLAPS

USE DeviceAssumption

\* A call that goes on keeps its type.
LEMMA HandlerTurned ==
  ASSUME NEW h \in Handler, NEW label \in Place, NEW t \in TokenOrNone
  PROVE  /\ [h EXCEPT !.pc = label] \in Handler
         /\ [h EXCEPT !.pc = label, !.token = t] \in Handler
         /\ Local(label, h.kind, t, TRUE) \in Handler
         /\ Local("sent", "refresh", t, FALSE) \in Handler
         /\ Idle \in Handler
BY DEF Handler, Local, Idle, Place, TokenOrNone

\* Calls that go on one by one keep their types.
LEMMA CallTurned ==
  ASSUME TypeOK, NEW p \in Process
  PROVE  /\ \A label \in Place : Goto(p, label) => call' \in [Process -> Handler]
         /\ \A label \in Place : Answer(p, label) => call' \in [Process -> Handler]
         /\ End(p) => call' \in [Process -> Handler]
<1>1. call[p] \in Handler
  BY DEF TypeOK
<1>2. ASSUME NEW h \in Handler, call' = [call EXCEPT ![p] = h]
      PROVE  call' \in [Process -> Handler]
  BY <1>2 DEF TypeOK
<1>3. None \in TokenOrNone
  BY DEF TokenOrNone
<1>4. ASSUME NEW label \in Place
      PROVE  /\ [call[p] EXCEPT !.pc = label] \in Handler
             /\ [call[p] EXCEPT !.pc = label, !.token = None] \in Handler
             /\ Idle \in Handler
  BY <1>1, <1>3, HandlerTurned
<1>5. Idle \in Handler
  BY <1>3, <1>1, HandlerTurned DEF Place, Handler
<1>6. ASSUME NEW label \in Place, Goto(p, label)
      PROVE  call' \in [Process -> Handler]
  BY <1>2, <1>4, <1>6 DEF Goto
<1>7. ASSUME NEW label \in Place, Answer(p, label)
      PROVE  call' \in [Process -> Handler]
  BY <1>2, <1>4, <1>7 DEF Answer
<1>8. QED BY <1>2, <1>5, <1>6, <1>7 DEF End

\* A call goes out with the token that the store has; a logout disturbs.
LEMMA BeginKeeps ==
  ASSUME DeviceInv, NEW c \in Call, Begin(c)
  PROVE  DeviceInv'
<1> USE DEF DeviceInv, Begin, At, Goto, End, Idle, Local, Empty, server, Process, Live, Families!Live
<1>1. TypeOK'
  BY DEF TypeOK, Families!TypeOK, TokenOrNone, Handler, Place, PlacesMatchKinds
<1>2. PlacesMatchKinds'
  BY DEF PlacesMatchKinds, TypeOK, Families!TypeOK, TokenOrNone, Handler
<1>3. LoginsAreAlone'
  BY DEF LoginsAreAlone, PlacesMatchKinds, TypeOK, Handler
<1>4. StoreIsWhole'
  BY DEF StoreIsWhole, Whole, Refreshing, Cleared, Writing, LoginsAreAlone, PlacesMatchKinds, TypeOK, TokenOrNone, Handler
<1>5. SessionGoesOn'
  <2>1. PICK kind \in {"api", "logout"} :
          /\ call' = [call EXCEPT ![c] = Local("sent", kind, store.access, FALSE)]
          /\ disturbed' = (disturbed \/ kind = "logout")
    OBVIOUS
  <2>2. CASE kind = "logout"
    BY <2>1, <2>2 DEF SessionGoesOn
  <2>3. CASE kind = "api"
    BY <2>1, <2>3 DEF SessionGoesOn, TypeOK
  <2>4. QED BY <2>1, <2>2, <2>3
<1> QED BY <1>1, <1>2, <1>3, <1>4, <1>5

\* Nobody is signed in, so that the store is empty or about to be forgotten.
LEMMA BeginLoginKeeps ==
  ASSUME DeviceInv, NEW c \in Call, BeginLogin(c)
  PROVE  DeviceInv'
<1> USE DEF DeviceInv, BeginLogin, At, Goto, End, Idle, Local, Empty, server, Process, Live, Families!Live
<1>1. TypeOK'
  BY DEF TypeOK, Families!TypeOK, TokenOrNone, Handler, Place, PlacesMatchKinds
<1>2. PlacesMatchKinds'
  BY DEF PlacesMatchKinds, TypeOK, Families!TypeOK, TokenOrNone, Handler
<1>3. LoginsAreAlone'
  BY DEF LoginsAreAlone, PlacesMatchKinds, TypeOK, Handler
<1>4. StoreIsWhole'
  BY DEF StoreIsWhole, Whole, Refreshing, Cleared, Writing, LoginsAreAlone, PlacesMatchKinds, TypeOK, TokenOrNone, Handler
<1>5. SessionGoesOn'
  BY DEF SessionGoesOn, LoginsAreAlone, PlacesMatchKinds, TypeOK, Families!TypeOK, TokenOrNone, Handler
<1> QED BY <1>1, <1>2, <1>3, <1>4, <1>5

\* The new token is live and in the hands of the login.
LEMMA ServeLoginKeeps ==
  ASSUME DeviceInv, NEW c \in Call, ServeLogin(c)
  PROVE  DeviceInv'
<1> USE DEF DeviceInv, ServeLogin, Fresh, NewToken, Families!Open, At, Goto, End, Idle, Local, Empty, server, Process, Live, Families!Live
<1>1. TypeOK'
  <2>1. NewToken \in Token
    OBVIOUS
  <2>2. [call[c] EXCEPT !.pc = "issued", !.token = NewToken] \in Handler
    BY <2>1, HandlerTurned DEF TypeOK, TokenOrNone, Place
  <2>3. call' \in [Process -> Handler]
    BY <2>2 DEF TypeOK
  <2>4. Families!TypeOK' /\ good' \subseteq Token
    BY <2>1 DEF TypeOK, Families!TypeOK
  <2>5. QED BY <2>3, <2>4 DEF TypeOK
<1>2. PlacesMatchKinds'
  BY DEF PlacesMatchKinds, TypeOK, Families!TypeOK, TokenOrNone, Handler
<1>3. LoginsAreAlone'
  BY DEF LoginsAreAlone, PlacesMatchKinds, TypeOK, Handler
<1>4. StoreIsWhole'
  BY DEF StoreIsWhole, Whole, Refreshing, Cleared, Writing, LoginsAreAlone, PlacesMatchKinds, TypeOK, TokenOrNone, Handler
<1>5. SessionGoesOn'
  BY DEF SessionGoesOn, LoginsAreAlone, PlacesMatchKinds, TypeOK, Families!TypeOK, TokenOrNone, Handler
<1> QED BY <1>1, <1>2, <1>3, <1>4, <1>5

\* The server answers and nothing else changes.
LEMMA ServeCallKeeps ==
  ASSUME DeviceInv, NEW c \in Call, ServeCall(c)
  PROVE  DeviceInv'
<1> USE DEF DeviceInv, ServeCall, Answer, At, Goto, End, Idle, Local, Empty, server, Process, Live, Families!Live
<1>1. TypeOK'
  <2>1. call' \in [Process -> Handler]
    BY CallTurned DEF Place
  <2>2. QED BY <2>1 DEF TypeOK, Families!TypeOK, TokenOrNone
<1>2. PlacesMatchKinds'
  BY DEF PlacesMatchKinds, TypeOK, Families!TypeOK, TokenOrNone, Handler
<1>3. LoginsAreAlone'
  BY DEF LoginsAreAlone, PlacesMatchKinds, TypeOK, Handler
<1>4. StoreIsWhole'
  BY DEF StoreIsWhole, Whole, Refreshing, Cleared, Writing, LoginsAreAlone, PlacesMatchKinds, TypeOK, TokenOrNone, Handler
<1>5. SessionGoesOn'
  BY DEF SessionGoesOn, LoginsAreAlone, PlacesMatchKinds, TypeOK, Families!TypeOK, TokenOrNone, Handler
<1> QED BY <1>1, <1>2, <1>3, <1>4, <1>5

\* An undisturbed device has no logout under way.
LEMMA ServeLogoutKeeps ==
  ASSUME DeviceInv, NEW c \in Call, ServeLogout(c)
  PROVE  DeviceInv'
<1> USE DEF DeviceInv, ServeLogout, Answer, EndSessions, Families!Revoke, At, Goto, End, Idle, Local, Empty, server, Process, Live, Families!Live
<1>1. TypeOK'
  BY DEF TypeOK, Families!TypeOK, TokenOrNone, Handler, Place, PlacesMatchKinds
<1>2. PlacesMatchKinds'
  BY DEF PlacesMatchKinds, TypeOK, Families!TypeOK, TokenOrNone, Handler
<1>3. LoginsAreAlone'
  BY DEF LoginsAreAlone, PlacesMatchKinds, TypeOK, Handler
<1>4. StoreIsWhole'
  BY DEF StoreIsWhole, Whole, Refreshing, Cleared, Writing, LoginsAreAlone, PlacesMatchKinds, TypeOK, TokenOrNone, Handler
<1>5. SessionGoesOn'
  BY DEF SessionGoesOn, LoginsAreAlone, PlacesMatchKinds, TypeOK, Families!TypeOK, TokenOrNone, Handler
<1> QED BY <1>1, <1>2, <1>3, <1>4, <1>5

\* The token presented is the one of the store, hence live: its successor is too.
LEMMA ServeRefreshKeeps ==
  ASSUME DeviceInv, ServeRefresh
  PROVE  DeviceInv'
<1> USE DEF DeviceInv, ServeRefresh, Fresh, NewToken, Families!Rotate, Families!Revoke, Answer, At, Goto, End, Idle, Local, Empty, server, Process, Live, Families!Live
<1>1. TypeOK'
  <2>1. CASE call[Refresher].token \in Live
    <3>1. NewToken \in Token
      BY <2>1
    <3>2. [call[Refresher] EXCEPT !.pc = "issued", !.token = NewToken] \in Handler
      BY <3>1, HandlerTurned DEF TypeOK, TokenOrNone, Place
    <3>3. call' \in [Process -> Handler]
      BY <2>1, <3>2 DEF TypeOK
    <3>4. family[call[Refresher].token] \in Token
      BY <2>1 DEF TypeOK, Families!TypeOK
    <3>5. good' \subseteq Token
      BY <2>1, <3>1 DEF TypeOK
    <3>6. state' = [state EXCEPT ![call[Refresher].token] = "revoked", ![NewToken] = "live"]
      BY <2>1
    <3>7. state' \in [Token -> {"none", "live", "revoked"}]
      BY <3>6 DEF TypeOK, Families!TypeOK
    <3>8. family' = [family EXCEPT ![NewToken] = family[call[Refresher].token]]
      BY <2>1
    <3>9. family' \in [Token -> Token]
      BY <3>1, <3>4, <3>8 DEF TypeOK, Families!TypeOK
    <3>10. QED BY <2>1, <3>3, <3>5, <3>9, <3>7 DEF TypeOK, Families!TypeOK
  <2>2. CASE call[Refresher].token \notin Live
    <3>1. call' \in [Process -> Handler]
      BY <2>2, CallTurned DEF Place
    <3>2. QED BY <2>2, <3>1 DEF TypeOK, Families!TypeOK
  <2>3. QED BY <2>1, <2>2
<1>2. PlacesMatchKinds'
  BY DEF PlacesMatchKinds, TypeOK, Families!TypeOK, TokenOrNone, Handler
<1>3. LoginsAreAlone'
  BY DEF LoginsAreAlone, PlacesMatchKinds, TypeOK, Handler
<1>4. StoreIsWhole'
  BY DEF StoreIsWhole, Whole, Refreshing, Cleared, Writing, LoginsAreAlone, PlacesMatchKinds, TypeOK, TokenOrNone, Handler
<1>5. SessionGoesOn'
  BY DEF SessionGoesOn, LoginsAreAlone, PlacesMatchKinds, TypeOK, Families!TypeOK, TokenOrNone, Handler
<1> QED BY <1>1, <1>2, <1>3, <1>4, <1>5

\* An access token ends, no refresh token does.
LEMMA LapseKeeps ==
  ASSUME DeviceInv, NEW n \in Token, Lapse(n)
  PROVE  DeviceInv'
<1> USE DEF DeviceInv, Lapse, At, Goto, End, Idle, Local, Empty, server, Process, Live, Families!Live
<1>1. TypeOK'
  BY DEF TypeOK, Families!TypeOK, TokenOrNone, Handler, Place, PlacesMatchKinds
<1>2. PlacesMatchKinds'
  BY DEF PlacesMatchKinds, TypeOK, Families!TypeOK, TokenOrNone, Handler
<1>3. LoginsAreAlone'
  BY DEF LoginsAreAlone, PlacesMatchKinds, TypeOK, Handler
<1>4. StoreIsWhole'
  BY DEF StoreIsWhole, Whole, Refreshing, Cleared, Writing, LoginsAreAlone, PlacesMatchKinds, TypeOK, TokenOrNone, Handler
<1>5. SessionGoesOn'
  BY DEF SessionGoesOn, LoginsAreAlone, PlacesMatchKinds, TypeOK, Families!TypeOK, TokenOrNone, Handler
<1> QED BY <1>1, <1>2, <1>3, <1>4, <1>5

\* The tokens that end do so on a disturbed device.
LEMMA EndElsewhereKeeps ==
  ASSUME DeviceInv, EndElsewhere
  PROVE  DeviceInv'
<1> USE DEF DeviceInv, EndElsewhere, EndSessions, Families!Revoke, At, Goto, End, Idle, Local, Empty, server, Process, Live, Families!Live
<1>1. TypeOK'
  BY DEF TypeOK, Families!TypeOK, TokenOrNone, Handler, Place, PlacesMatchKinds
<1>2. PlacesMatchKinds'
  BY DEF PlacesMatchKinds, TypeOK, Families!TypeOK, TokenOrNone, Handler
<1>3. LoginsAreAlone'
  BY DEF LoginsAreAlone, PlacesMatchKinds, TypeOK, Handler
<1>4. StoreIsWhole'
  BY DEF StoreIsWhole, Whole, Refreshing, Cleared, Writing, LoginsAreAlone, PlacesMatchKinds, TypeOK, TokenOrNone, Handler
<1>5. SessionGoesOn'
  BY DEF SessionGoesOn, LoginsAreAlone, PlacesMatchKinds, TypeOK, Families!TypeOK, TokenOrNone, Handler
<1> QED BY <1>1, <1>2, <1>3, <1>4, <1>5

\* A refused call joins the refresh or begins it with the token of the store.
LEMMA ReceiveKeeps ==
  ASSUME DeviceInv, NEW c \in Call, Receive(c)
  PROVE  DeviceInv'
<1> USE DEF DeviceInv, Receive, Finish, Refresh, At, Goto, End, Idle, Local, Empty, server, Process, Live, Families!Live
<1>1. TypeOK'
  <2>1. call[c] \in Handler /\ call[Refresher] \in Handler
    BY DEF TypeOK
  <2>2. Idle \in Handler /\ Local("sent", "refresh", store.refresh, FALSE) \in Handler
    BY DEF TypeOK, Handler, Place, TokenOrNone
  <2>3. \A label \in Place : [call[c] EXCEPT !.pc = label] \in Handler
    BY <2>1 DEF Handler
  <2>4. {"joined", "failed", "clearing"} \subseteq Place
    BY DEF Place
  <2>5. CASE Finish(c)
    <3>1. call' \in [Process -> Handler]
      BY <2>4, <2>5, CallTurned
    <3>2. QED BY <3>1 DEF TypeOK, Families!TypeOK
  <2>6. CASE Refresh(c)
    <3>1. CASE Goto(c, "joined") \/ Goto(c, "failed")
      <4>1. call' \in [Process -> Handler]
        BY <2>4, <3>1, CallTurned
      <4>2. QED BY <4>1 DEF TypeOK, Families!TypeOK
    <3>2. CASE call' = [call EXCEPT ![Refresher] = Local("sent", "refresh", store.refresh, FALSE),
                                    ![c].pc = "joined"]
      <4>1. c # Refresher
        OBVIOUS
      <4>2. [call[c] EXCEPT !.pc = "joined"] \in Handler
        BY <2>3, <2>4
      <4>3. call' \in [Process -> Handler]
        BY <2>2, <3>2, <4>1, <4>2 DEF TypeOK
      <4>4. QED BY <4>3 DEF TypeOK, Families!TypeOK
    <3>3. QED BY <2>6, <3>1, <3>2
  <2>7. QED BY <2>5, <2>6
<1>2. PlacesMatchKinds'
  BY DEF PlacesMatchKinds, TypeOK, Families!TypeOK, TokenOrNone, Handler
<1>3. LoginsAreAlone'
  BY DEF LoginsAreAlone, PlacesMatchKinds, TypeOK, Handler
<1>4. StoreIsWhole'
  <2>1. \A d \in Call, label \in {"half", "tokens", "cleared", "expelled"} :
          call'[d].pc = label <=> call[d].pc = label
    <3>1. CASE Finish(c)
      <4>1. \A d \in Call : d # c => call'[d] = call[d]
        BY <3>1 DEF TypeOK
      <4>2. call'[c].pc \in {"idle", "clearing"}
        BY <3>1 DEF TypeOK, Handler
      <4>3. call[c].pc \in {"accepted", "refused"}
        OBVIOUS
      <4>4. QED BY <4>1, <4>2, <4>3
    <3>2. CASE Refresh(c)
      <4>1. c # Refresher
        OBVIOUS
      <4>2. \A d \in Call : d # Refresher /\ (d # c => call'[d] = call[d])
        BY <3>2 DEF TypeOK
      <4>3. call'[c].pc \in {"joined", "failed"}
        BY <3>2, <4>1 DEF TypeOK, Handler
      <4>4. QED BY <4>2, <4>3
    <3>3. QED BY <3>1, <3>2
  <2>2. Writing' = Writing /\ Cleared' = Cleared
    BY <2>1 DEF Writing, Cleared
  <2>3. /\ (\E d \in Call : At(d, "half")) => (\E d \in Call : At(d, "half"))'
        /\ (\E d \in Call : At(d, "tokens")) => (\E d \in Call : At(d, "tokens"))'
    BY <2>1
  <2>4. Refreshing' => Refreshing \/ store.refresh # None
    BY DEF Refreshing, TypeOK
  <2>5. QED BY <2>2, <2>3, <2>4 DEF StoreIsWhole, Whole
<1>5. SessionGoesOn'
  BY DEF SessionGoesOn, LoginsAreAlone, PlacesMatchKinds, TypeOK, Families!TypeOK, TokenOrNone, Handler
<1> QED BY <1>1, <1>2, <1>3, <1>4, <1>5

\* A lost answer disturbs.
LEMMA LoseKeeps ==
  ASSUME DeviceInv, NEW c \in Call, Lose(c)
  PROVE  DeviceInv'
<1> USE DEF DeviceInv, Lose, Finish, At, Goto, End, Idle, Local, Empty, server, Process, Live, Families!Live
<1>1. TypeOK'
  <2>1. call' \in [Process -> Handler]
    BY CallTurned DEF Place
  <2>2. QED BY <2>1 DEF TypeOK, Families!TypeOK, TokenOrNone
<1>2. PlacesMatchKinds'
  BY DEF PlacesMatchKinds, TypeOK, Families!TypeOK, TokenOrNone, Handler
<1>3. LoginsAreAlone'
  BY DEF LoginsAreAlone, PlacesMatchKinds, TypeOK, Handler
<1>4. StoreIsWhole'
  BY DEF StoreIsWhole, Whole, Refreshing, Cleared, Writing, LoginsAreAlone, PlacesMatchKinds, TypeOK, TokenOrNone, Handler
<1>5. SessionGoesOn'
  BY DEF SessionGoesOn, LoginsAreAlone, PlacesMatchKinds, TypeOK, Families!TypeOK, TokenOrNone, Handler
<1> QED BY <1>1, <1>2, <1>3, <1>4, <1>5

\* So does the lost answer to a refresh.
LEMMA LoseRefreshKeeps ==
  ASSUME DeviceInv, LoseRefresh
  PROVE  DeviceInv'
<1> USE DEF DeviceInv, LoseRefresh, Answer, At, Goto, End, Idle, Local, Empty, server, Process, Live, Families!Live
<1>1. TypeOK'
  <2>1. call' \in [Process -> Handler]
    BY CallTurned DEF Place
  <2>2. QED BY <2>1 DEF TypeOK, Families!TypeOK, TokenOrNone
<1>2. PlacesMatchKinds'
  BY DEF PlacesMatchKinds, TypeOK, Families!TypeOK, TokenOrNone, Handler
<1>3. LoginsAreAlone'
  BY DEF LoginsAreAlone, PlacesMatchKinds, TypeOK, Handler
<1>4. StoreIsWhole'
  BY DEF StoreIsWhole, Whole, Refreshing, Cleared, Writing, LoginsAreAlone, PlacesMatchKinds, TypeOK, TokenOrNone, Handler
<1>5. SessionGoesOn'
  BY DEF SessionGoesOn, LoginsAreAlone, PlacesMatchKinds, TypeOK, Families!TypeOK, TokenOrNone, Handler
<1> QED BY <1>1, <1>2, <1>3, <1>4, <1>5

\* A refresh that was not refused lets those who joined go on.
LEMMA RefreshEndsKeeps ==
  ASSUME DeviceInv, RefreshEnds
  PROVE  DeviceInv'
<1> USE DEF DeviceInv, RefreshEnds, At, Goto, End, Idle, Local, Empty, server, Process, Live, Families!Live
<1>1. TypeOK'
  BY DEF TypeOK, Families!TypeOK, TokenOrNone, Handler, Place, PlacesMatchKinds
<1>2. PlacesMatchKinds'
  BY DEF PlacesMatchKinds, TypeOK, Families!TypeOK, TokenOrNone, Handler
<1>3. LoginsAreAlone'
  BY DEF LoginsAreAlone, PlacesMatchKinds, TypeOK, Handler
<1>4. StoreIsWhole'
  BY DEF StoreIsWhole, Whole, Refreshing, Cleared, Writing, LoginsAreAlone, PlacesMatchKinds, TypeOK, TokenOrNone, Handler
<1>5. SessionGoesOn'
  BY DEF SessionGoesOn, LoginsAreAlone, PlacesMatchKinds, TypeOK, Families!TypeOK, TokenOrNone, Handler
<1> QED BY <1>1, <1>2, <1>3, <1>4, <1>5

\* The second attempt has the token that the store has by then.
LEMMA SendAgainKeeps ==
  ASSUME DeviceInv, NEW c \in Call, SendAgain(c)
  PROVE  DeviceInv'
<1> USE DEF DeviceInv, SendAgain, At, Goto, End, Idle, Local, Empty, server, Process, Live, Families!Live
<1>1. TypeOK'
  BY DEF TypeOK, Families!TypeOK, TokenOrNone, Handler, Place, PlacesMatchKinds
<1>2. PlacesMatchKinds'
  BY DEF PlacesMatchKinds, TypeOK, Families!TypeOK, TokenOrNone, Handler
<1>3. LoginsAreAlone'
  BY DEF LoginsAreAlone, PlacesMatchKinds, TypeOK, Handler
<1>4. StoreIsWhole'
  BY DEF StoreIsWhole, Whole, Refreshing, Cleared, Writing, LoginsAreAlone, PlacesMatchKinds, TypeOK, TokenOrNone, Handler
<1>5. SessionGoesOn'
  BY DEF SessionGoesOn, LoginsAreAlone, PlacesMatchKinds, TypeOK, Families!TypeOK, TokenOrNone, Handler
<1> QED BY <1>1, <1>2, <1>3, <1>4, <1>5

\* The three writes of a refresh replace the entries of a whole store, those of
\* a login fill an empty one in order.
LEMMA SaveAccessKeeps ==
  ASSUME DeviceInv, NEW p \in Process, SaveAccess(p)
  PROVE  DeviceInv'
<1> USE DEF DeviceInv, SaveAccess, Saves, At, Goto, End, Idle, Local, Empty, server, Process, Live, Families!Live
<1>1. TypeOK'
  BY DEF TypeOK, Families!TypeOK, TokenOrNone, Handler, Place, PlacesMatchKinds
<1>2. PlacesMatchKinds'
  BY DEF PlacesMatchKinds, TypeOK, Families!TypeOK, TokenOrNone, Handler
<1>3. LoginsAreAlone'
  BY DEF LoginsAreAlone, PlacesMatchKinds, TypeOK, Handler
<1>4. StoreIsWhole'
  BY DEF StoreIsWhole, Whole, Refreshing, Cleared, Writing, LoginsAreAlone, PlacesMatchKinds, TypeOK, TokenOrNone, Handler
<1>5. SessionGoesOn'
  BY DEF SessionGoesOn, LoginsAreAlone, PlacesMatchKinds, TypeOK, Families!TypeOK, TokenOrNone, Handler
<1> QED BY <1>1, <1>2, <1>3, <1>4, <1>5

LEMMA SaveRefreshKeeps ==
  ASSUME DeviceInv, NEW p \in Process, SaveRefresh(p)
  PROVE  DeviceInv'
<1> USE DEF DeviceInv, SaveRefresh, Saves, At, Goto, End, Idle, Local, Empty, server, Process, Live, Families!Live
<1>1. TypeOK'
  BY DEF TypeOK, Families!TypeOK, TokenOrNone, Handler, Place, PlacesMatchKinds
<1>2. PlacesMatchKinds'
  BY DEF PlacesMatchKinds, TypeOK, Families!TypeOK, TokenOrNone, Handler
<1>3. LoginsAreAlone'
  BY DEF LoginsAreAlone, PlacesMatchKinds, TypeOK, Handler
<1>4. StoreIsWhole'
  BY DEF StoreIsWhole, Whole, Refreshing, Cleared, Writing, LoginsAreAlone, PlacesMatchKinds, TypeOK, TokenOrNone, Handler
<1>5. SessionGoesOn'
  BY DEF SessionGoesOn, LoginsAreAlone, PlacesMatchKinds, TypeOK, Families!TypeOK, TokenOrNone, Handler
<1> QED BY <1>1, <1>2, <1>3, <1>4, <1>5

LEMMA SaveUserKeeps ==
  ASSUME DeviceInv, NEW p \in Process, SaveUser(p)
  PROVE  DeviceInv'
<1> USE DEF DeviceInv, SaveUser, Saves, At, Goto, End, Idle, Local, Empty, server, Process, Live, Families!Live
<1>1. TypeOK'
  <2>1. call' \in [Process -> Handler]
    BY CallTurned DEF Place
  <2>2. QED BY <2>1 DEF TypeOK, Families!TypeOK, TokenOrNone
<1>2. PlacesMatchKinds'
  BY DEF PlacesMatchKinds, TypeOK, Families!TypeOK, TokenOrNone, Handler
<1>3. LoginsAreAlone'
  BY DEF LoginsAreAlone, PlacesMatchKinds, TypeOK, Handler
<1>4. StoreIsWhole'
  BY DEF StoreIsWhole, Whole, Refreshing, Cleared, Writing, LoginsAreAlone, PlacesMatchKinds, TypeOK, TokenOrNone, Handler
<1>5. SessionGoesOn'
  BY DEF SessionGoesOn, LoginsAreAlone, PlacesMatchKinds, TypeOK, Families!TypeOK, TokenOrNone, Handler
<1> QED BY <1>1, <1>2, <1>3, <1>4, <1>5

\* Who failed is on a disturbed device.
LEMMA UnauthorizedKeeps ==
  ASSUME DeviceInv, NEW c \in Call, Unauthorized(c)
  PROVE  DeviceInv'
<1> USE DEF DeviceInv, Unauthorized, Finish, At, Goto, End, Idle, Local, Empty, server, Process, Live, Families!Live
<1>1. TypeOK'
  <2>1. call' \in [Process -> Handler]
    BY CallTurned DEF Place
  <2>2. QED BY <2>1 DEF TypeOK, Families!TypeOK, TokenOrNone
<1>2. PlacesMatchKinds'
  BY DEF PlacesMatchKinds, TypeOK, Families!TypeOK, TokenOrNone, Handler
<1>3. LoginsAreAlone'
  BY DEF LoginsAreAlone, PlacesMatchKinds, TypeOK, Handler
<1>4. StoreIsWhole'
  BY DEF StoreIsWhole, Whole, Refreshing, Cleared, Writing, LoginsAreAlone, PlacesMatchKinds, TypeOK, TokenOrNone, Handler
<1>5. SessionGoesOn'
  BY DEF SessionGoesOn, LoginsAreAlone, PlacesMatchKinds, TypeOK, Families!TypeOK, TokenOrNone, Handler
<1> QED BY <1>1, <1>2, <1>3, <1>4, <1>5

\* A clear empties the store, and is overtaken if anyone still saves.
LEMMA ClearKeeps ==
  ASSUME DeviceInv, NEW c \in Call, Clear(c)
  PROVE  DeviceInv'
<1> USE DEF DeviceInv, Clear, Saving, At, Goto, End, Idle, Local, Empty, server, Process, Live, Families!Live
<1>1. TypeOK'
  BY DEF TypeOK, Families!TypeOK, TokenOrNone, Handler, Place, PlacesMatchKinds
<1>2. PlacesMatchKinds'
  BY DEF PlacesMatchKinds, TypeOK, Families!TypeOK, TokenOrNone, Handler
<1>3. LoginsAreAlone'
  BY DEF LoginsAreAlone, PlacesMatchKinds, TypeOK, Handler
<1>4. StoreIsWhole'
  <2>1. CASE Saving
    BY <2>1 DEF StoreIsWhole
  <2>2. CASE ~Saving
    <3>1. ~Refreshing' /\ ~Writing'
      BY <2>2 DEF Refreshing, Writing, PlacesMatchKinds, TypeOK, Handler
    <3>2. Cleared'
      BY DEF Cleared, TypeOK
    <3>3. QED BY <3>1, <3>2 DEF StoreIsWhole
  <2>3. QED BY <2>1, <2>2
<1>5. SessionGoesOn'
  BY DEF SessionGoesOn, LoginsAreAlone, PlacesMatchKinds, TypeOK, Families!TypeOK, TokenOrNone, Handler
<1> QED BY <1>1, <1>2, <1>3, <1>4, <1>5

\* The store was cleared before, so that nobody is signed in to it.
LEMMA ForgetKeeps ==
  ASSUME DeviceInv, NEW c \in Call, Forget(c)
  PROVE  DeviceInv'
<1> USE DEF DeviceInv, Forget, Finish, At, Goto, End, Idle, Local, Empty, server, Process, Live, Families!Live
<1>1. TypeOK'
  <2>1. call' \in [Process -> Handler]
    BY CallTurned DEF Place
  <2>2. QED BY <2>1 DEF TypeOK, Families!TypeOK, TokenOrNone
<1>2. PlacesMatchKinds'
  BY DEF PlacesMatchKinds, TypeOK, Families!TypeOK, TokenOrNone, Handler
<1>3. LoginsAreAlone'
  BY DEF LoginsAreAlone, PlacesMatchKinds, TypeOK, Handler
<1>4. StoreIsWhole'
  BY DEF StoreIsWhole, Whole, Refreshing, Cleared, Writing, LoginsAreAlone, PlacesMatchKinds, TypeOK, TokenOrNone, Handler
<1>5. SessionGoesOn'
  BY DEF SessionGoesOn, LoginsAreAlone, PlacesMatchKinds, TypeOK, Families!TypeOK, TokenOrNone, Handler
<1> QED BY <1>1, <1>2, <1>3, <1>4, <1>5

\* What is left of the store is a session or is cleared at the start.
LEMMA KillKeeps ==
  ASSUME DeviceInv, Kill
  PROVE  DeviceInv'
<1> USE DEF DeviceInv, Kill, Restore, At, Goto, End, Idle, Local, Empty, server, Process, Live, Families!Live
<1>1. TypeOK'
  <2>1. Idle \in Handler
    BY DEF Handler, Place, TokenOrNone
  <2>2. call' \in [Process -> Handler]
    BY <2>1
  <2>3. Empty \in [access : TokenOrNone, refresh : TokenOrNone, user : BOOLEAN]
    BY DEF TokenOrNone
  <2>4. store' \in [access : TokenOrNone, refresh : TokenOrNone, user : BOOLEAN] /\ signedIn' \in BOOLEAN
    BY <2>3 DEF TypeOK
  <2>5. QED BY <2>2, <2>4 DEF TypeOK, Families!TypeOK
<1>2. PlacesMatchKinds'
  BY DEF PlacesMatchKinds, TypeOK, Families!TypeOK, TokenOrNone, Handler
<1>3. LoginsAreAlone'
  BY DEF LoginsAreAlone, PlacesMatchKinds, TypeOK, Handler
<1>4. StoreIsWhole'
  BY DEF StoreIsWhole, Whole, Refreshing, Cleared, Writing, LoginsAreAlone, PlacesMatchKinds, TypeOK, TokenOrNone, Handler
<1>5. SessionGoesOn'
  BY DEF SessionGoesOn, LoginsAreAlone, PlacesMatchKinds, TypeOK, Families!TypeOK, TokenOrNone, Handler
<1> QED BY <1>1, <1>2, <1>3, <1>4, <1>5

-----------------------------------------------------------------------------
LEMMA StutterKeeps ==
  ASSUME DeviceInv, UNCHANGED vars
  PROVE  DeviceInv'
<1> USE DEF vars, server, At, Live, Families!Live
<1>1. TypeOK'
  BY DEF DeviceInv, TypeOK, Families!TypeOK
<1>2. PlacesMatchKinds' /\ LoginsAreAlone'
  BY DEF DeviceInv, PlacesMatchKinds, LoginsAreAlone
<1>3. StoreIsWhole'
  BY DEF DeviceInv, StoreIsWhole, Whole, Refreshing, Cleared, Writing
<1>4. SessionGoesOn'
  BY DEF DeviceInv, SessionGoesOn
<1> QED BY <1>1, <1>2, <1>3, <1>4 DEF DeviceInv

LEMMA InvInit ==
  ASSUME Init
  PROVE  DeviceInv
<1> USE DEF Init, Families!Init, Idle, Local, Process, At
<1>1. TypeOK
  BY DEF TypeOK, Families!TypeOK, Handler, Place, TokenOrNone, Empty
<1>2. PlacesMatchKinds /\ LoginsAreAlone
  BY DEF PlacesMatchKinds, LoginsAreAlone
<1>3. StoreIsWhole
  BY DEF StoreIsWhole, Whole, Refreshing, Cleared, Writing
<1>4. SessionGoesOn
  BY DEF SessionGoesOn
<1> QED BY <1>1, <1>2, <1>3, <1>4 DEF DeviceInv

LEMMA InvNext ==
  ASSUME DeviceInv, [Next]_vars
  PROVE  DeviceInv'
<1>1. CASE \E c \in Call : Begin(c) \/ BeginLogin(c)
  BY <1>1, BeginKeeps, BeginLoginKeeps
<1>2. CASE \E c \in Call : Step(c)
  BY <1>2, ReceiveKeeps, SendAgainKeeps, UnauthorizedKeeps, ClearKeeps, ForgetKeeps DEF Step
<1>3. CASE \E c \in Call : Answered(c)
  BY <1>3, ServeLoginKeeps, ServeCallKeeps, ServeLogoutKeeps, LoseKeeps DEF Answered
<1>4. CASE \E p \in Process : Save(p)
  BY <1>4, SaveAccessKeeps, SaveRefreshKeeps, SaveUserKeeps DEF Save
<1>5. CASE AnsweredRefresh \/ RefreshEnds
  BY <1>5, ServeRefreshKeeps, LoseRefreshKeeps, RefreshEndsKeeps DEF AnsweredRefresh
<1>6. CASE (\E n \in Token : Lapse(n)) \/ EndElsewhere \/ Kill
  BY <1>6, LapseKeeps, EndElsewhereKeeps, KillKeeps
<1>7. CASE UNCHANGED vars
  BY <1>7, StutterKeeps
<1>8. QED BY <1>1, <1>2, <1>3, <1>4, <1>5, <1>6, <1>7 DEF Next

-----------------------------------------------------------------------------
(* The results. *)

\* Whatever the numbers of overlapping calls and of tokens, the device stays
\* in the states that DeviceInv describes: a call's place fits its kind, one
\* login runs at a time, and store, refresh and login between them hold the
\* session.
THEOREM DeviceInductive == Spec => []DeviceInv
<1>1. Init => DeviceInv
  BY InvInit
<1>2. DeviceInv /\ [Next]_vars => DeviceInv'
  BY InvNext
<1>3. QED BY <1>1, <1>2, PTL DEF Spec

\* However many calls overlap, and in whatever order their answers come, the
\* shared refresh of ApiClient presents a token once: an undisturbed device
\* is never taken for a thief, logs nobody out and keeps a live refresh token.
THEOREM ConcurrencyIsHarmless == Spec => []ConcurrencyKeepsSession
<1>1. DeviceInv => ConcurrencyKeepsSession
  BY DEF DeviceInv, SessionGoesOn, ConcurrencyKeepsSession, At
<1>2. QED BY <1>1, DeviceInductive, PTL

\* However the writes of saveTokens and saveUser interleave with calls, with
\* the clear of a logout and with the death of the app, the store of a device
\* at rest agrees with what AuthController believes, unless a refresh or a
\* login overtook a clear.
THEOREM StoreIsConsistent == Spec => []StoreMatchesSession
<1>1. ASSUME DeviceInv
      PROVE  StoreMatchesSession
  <2>1. SUFFICES ASSUME \A p \in Process : At(p, "idle"), ~overtaken
                 PROVE  IF signedIn THEN store.access # None /\ store.refresh # None /\ store.user
                                    ELSE store = Empty
    BY DEF StoreMatchesSession
  <2>2. ~Cleared /\ \A c \in Call : ~At(c, "half") /\ ~At(c, "tokens")
    BY <2>1 DEF Process, At, Cleared
  <2>3. QED BY <1>1, <2>1, <2>2 DEF DeviceInv, StoreIsWhole, Whole
<1>2. QED BY <1>1, DeviceInductive, PTL

-----------------------------------------------------------------------------
(* Waiting. *)

LEMMA JoinersInit == Init => JoinersAreServed
<1> SUFFICES ASSUME Init PROVE JoinersAreServed
  OBVIOUS
<1>1. Idle.pc = "idle"
  BY DEF Idle, Local
<1>2. \A c \in Call : ~At(c, "joined")
  BY <1>1 DEF Init, At, Process
<1>3. QED BY <1>2 DEF JoinersAreServed

\* A step of one process that neither joins the refresh nor ends it.
LEMMA OthersKeepJoiners ==
  ASSUME DeviceInv, JoinersAreServed,
         NEW p \in Process, NEW h, h.pc # "joined", p = Refresher => h.pc # "idle",
         call' = [call EXCEPT ![p] = h]
  PROVE  JoinersAreServed'
<1>1. call \in [Process -> Handler]
  BY DEF DeviceInv, TypeOK
<1>2. QED BY <1>1 DEF JoinersAreServed, At, Process

LEMMA LabelsKeepJoiners ==
  ASSUME DeviceInv, JoinersAreServed
  PROVE  /\ \A p \in Process, label \in Place \ {"joined", "idle"} :
              Goto(p, label) \/ Answer(p, label) => JoinersAreServed'
         /\ \A c \in Call : End(c) => JoinersAreServed'
         /\ \A c \in Call : Finish(c) => JoinersAreServed'
<1>0. call \in [Process -> Handler]
  BY DEF DeviceInv, TypeOK
<1>1. ASSUME NEW p \in Process
      PROVE  call[p] \in Handler
  BY DEF DeviceInv, TypeOK
<1>2. ASSUME NEW p \in Process, NEW label \in Place \ {"joined", "idle"},
             Goto(p, label) \/ Answer(p, label)
      PROVE  JoinersAreServed'
  <2>1. /\ [call[p] EXCEPT !.pc = label].pc = label
        /\ [call[p] EXCEPT !.pc = label, !.token = None].pc = label
    BY <1>1 DEF Handler
  <2>2. CASE Goto(p, label)
    <3>1. call' = [call EXCEPT ![p] = [call[p] EXCEPT !.pc = label]]
      BY <2>2 DEF Goto
    <3>2. QED BY <1>2, <2>1, <3>1, OthersKeepJoiners
  <2>3. CASE Answer(p, label)
    <3>1. call' = [call EXCEPT ![p] = [call[p] EXCEPT !.pc = label, !.token = None]]
      BY <1>0, <1>2, <2>3 DEF Answer
    <3>2. QED BY <1>2, <2>1, <3>1, OthersKeepJoiners
  <2>4. QED BY <1>2, <2>2, <2>3
<1>3. ASSUME NEW c \in Call, End(c)
      PROVE  JoinersAreServed'
  <2>1. Idle.pc = "idle" /\ c # Refresher /\ c \in Process
    BY DEF Idle, Local, Process
  <2>2. QED BY <1>3, <2>1, OthersKeepJoiners DEF End
<1>4. QED BY <1>2, <1>3 DEF Finish, Place, Process

\* Only an answer that sends a call into the refresh adds to those who wait,
\* and it finds or begins one; who ends it lets them all go.
LEMMA JoinersNext == DeviceInv /\ JoinersAreServed /\ [Next]_vars => JoinersAreServed'
<1> SUFFICES ASSUME DeviceInv, JoinersAreServed, [Next]_vars PROVE JoinersAreServed'
  OBVIOUS
<1>1. /\ call \in [Process -> Handler]
      /\ \A c \in Call : c # Refresher /\ c \in Process
      /\ Refresher \in Process /\ Idle.pc = "idle"
  BY DEF DeviceInv, TypeOK, Process, Idle, Local
<1>2. ASSUME NEW c \in Call, Begin(c) \/ BeginLogin(c) \/ SendAgain(c)
      PROVE  JoinersAreServed'
  <2>1. PICK kind, token, again : call' = [call EXCEPT ![c] = Local("sent", kind, token, again)]
    BY <1>2 DEF Begin, BeginLogin, SendAgain
  <2>2. Local("sent", kind, token, again).pc = "sent"
    BY DEF Local
  <2>3. QED BY <1>1, <2>1, <2>2, OthersKeepJoiners
<1>3. ASSUME NEW c \in Call, Receive(c)
      PROVE  JoinersAreServed'
  <2>1. CASE Finish(c)
    BY <2>1, LabelsKeepJoiners
  <2>2. CASE Refresh(c)
    <3>1. CASE ~At(Refresher, "idle") /\ Goto(c, "joined")
      BY <1>1, <3>1 DEF JoinersAreServed, At, Goto
    <3>2. CASE Goto(c, "failed")
      BY <1>1, <3>2, LabelsKeepJoiners DEF Place
    <3>3. CASE call' = [call EXCEPT ![Refresher] = Local("sent", "refresh", store.refresh, FALSE),
                                    ![c].pc = "joined"]
      <4>1. call'[Refresher] = Local("sent", "refresh", store.refresh, FALSE)
        BY <1>1, <3>3
      <4>2. Local("sent", "refresh", store.refresh, FALSE).pc = "sent"
        BY DEF Local
      <4>3. ~At(Refresher, "idle")'
        BY <4>1, <4>2 DEF At
      <4>4. QED BY <4>3 DEF JoinersAreServed
    <3>4. QED BY <2>2, <3>1, <3>2, <3>3 DEF Refresh
  <2>3. QED BY <1>3, <2>1, <2>2 DEF Receive
<1>4. ASSUME NEW c \in Call, ServeLogin(c)
      PROVE  JoinersAreServed'
  <2>1. call' = [call EXCEPT ![c].pc = "issued", ![c].token = NewToken]
    BY <1>4 DEF ServeLogin
  <2>2. [call[c] EXCEPT !.pc = "issued", !.token = NewToken].pc = "issued"
    BY <1>1 DEF Handler
  <2>3. call' = [call EXCEPT ![c] = [call[c] EXCEPT !.pc = "issued", !.token = NewToken]]
    BY <1>1, <2>1
  <2>4. QED BY <1>1, <2>2, <2>3, OthersKeepJoiners
<1>5. ASSUME NEW c \in Call, ServeCall(c) \/ ServeLogout(c)
      PROVE  JoinersAreServed'
  <2>1. Answer(c, "accepted") \/ Answer(c, "refused")
    BY <1>5 DEF ServeCall, ServeLogout
  <2>2. QED BY <1>1, <2>1, LabelsKeepJoiners DEF Place
<1>6. CASE ServeRefresh
  <2>1. CASE Answer(Refresher, "refused")
    BY <1>1, <2>1, LabelsKeepJoiners DEF Place
  <2>2. CASE call' = [call EXCEPT ![Refresher].pc = "issued", ![Refresher].token = NewToken]
    <3>1. [call[Refresher] EXCEPT !.pc = "issued", !.token = NewToken].pc = "issued"
      BY <1>1 DEF Handler
    <3>2. QED BY <1>1, <2>2, <3>1, OthersKeepJoiners
  <2>3. QED BY <1>6, <2>1, <2>2 DEF ServeRefresh
<1>7. ASSUME NEW c \in Call, Lose(c) \/ Unauthorized(c) \/ Clear(c) \/ Forget(c)
      PROVE  JoinersAreServed'
  <2>1. \/ Finish(c) \/ End(c) \/ Goto(c, "expelling")
        \/ Goto(c, "cleared") \/ Goto(c, "expelled")
    BY <1>7, Zenon DEF Lose, Unauthorized, Clear, Forget
  <2>2. QED BY <1>1, <2>1, LabelsKeepJoiners DEF Place
<1>8. CASE LoseRefresh
  BY <1>1, <1>8, LabelsKeepJoiners DEF LoseRefresh, Place
<1>9. CASE RefreshEnds
  <2>1. \A c \in Call : call'[c].pc # "joined"
    BY <1>1, <1>9 DEF RefreshEnds, At, Handler
  <2>2. QED BY <2>1 DEF JoinersAreServed, At
<1>10. ASSUME NEW p \in Process, Save(p)
       PROVE  JoinersAreServed'
  <2>1. \/ Goto(p, "half") \/ Goto(p, "tokens") \/ Goto(p, "saved")
        \/ p # Refresher /\ End(p)
    BY <1>10, Zenon DEF Save, SaveAccess, SaveRefresh, SaveUser
  <2>2. QED BY <2>1, LabelsKeepJoiners DEF Place, Process
<1>11. CASE Kill
  BY <1>1, <1>11 DEF Kill, JoinersAreServed, At
<1>12. CASE (\E n \in Token : Lapse(n)) \/ EndElsewhere \/ UNCHANGED vars
  <2>1. call' = call
    BY <1>12 DEF Lapse, EndElsewhere, vars
  <2>2. QED BY <2>1 DEF JoinersAreServed, At
<1>13. QED
  BY <1>2, <1>3, <1>4, <1>5, <1>6, <1>7, <1>8, <1>9, <1>10, <1>11, <1>12
     DEF Next, Step, Answered, AnsweredRefresh

\* However calls, answers, timeouts and the death of the app interleave, a
\* call that has joined _refreshFuture is never left behind by it.
THEOREM NobodyIsForgotten == Spec => []JoinersAreServed
<1>1. Init => JoinersAreServed
  BY JoinersInit
<1>2. DeviceInv /\ JoinersAreServed /\ [Next]_vars => JoinersAreServed'
  BY JoinersNext
<1>3. QED BY <1>1, <1>2, DeviceInductive, PTL DEF Spec

\* As long as calls or a refresh are under way, one of them is held up by
\* nobody: those who wait for the refresh, and those whose writes wait for a
\* clear, do not wait for each other.
THEOREM SomebodyGoesOn ==
  Spec => []((\E p \in Process : ~At(p, "idle")) =>
               \E p \in Process : ~At(p, "idle") /\ ~HeldUp(p))
<1>1. ASSUME DeviceInv, JoinersAreServed, NEW p \in Process, ~At(p, "idle")
      PROVE  \E q \in Process : ~At(q, "idle") /\ ~HeldUp(q)
  <2>1. CASE Cleared
    <3>1. PICK c \in Call : call[c].pc \in {"cleared", "expelled"}
      BY <2>1 DEF Cleared
    <3>2. c \in Process /\ ~At(c, "idle") /\ ~HeldUp(c)
      BY <3>1 DEF Process, At, HeldUp
    <3>3. QED BY <3>2
  <2>2. CASE ~Cleared /\ ~At(p, "joined")
    BY <1>1, <2>2 DEF HeldUp
  <2>3. CASE ~Cleared /\ At(p, "joined")
    <3>1. p \in Call /\ Refresher \in Process /\ ~At(Refresher, "joined")
      BY <1>1, <2>3 DEF Process, DeviceInv, PlacesMatchKinds, At
    <3>2. ~At(Refresher, "idle") /\ ~HeldUp(Refresher)
      BY <1>1, <2>3, <3>1 DEF JoinersAreServed, HeldUp
    <3>3. QED BY <3>1, <3>2
  <2>4. QED BY <2>1, <2>2, <2>3
<1>2. DeviceInv /\ JoinersAreServed =>
        ((\E p \in Process : ~At(p, "idle")) =>
           \E p \in Process : ~At(p, "idle") /\ ~HeldUp(p))
  BY <1>1
<1>3. QED BY <1>2, DeviceInductive, NobodyIsForgotten, PTL

-----------------------------------------------------------------------------
(* The server that the device sees. *)

LEMMA ServerStepMaps == [Next]_vars => [Families!Next]_<<state, family>>
<1> SUFFICES ASSUME [Next]_vars
             PROVE  Families!Next \/ UNCHANGED <<state, family>>
  OBVIOUS
<1> USE DEF server
<1>1. ASSUME NEW c \in Call, ServeLogin(c)
      PROVE  Families!Next
  <2>1. NewToken \in Token /\ Families!Open(NewToken)
    BY <1>1 DEF ServeLogin, NewToken, Fresh
  <2>2. QED BY <2>1 DEF Families!Next
<1>2. ASSUME EndSessions
      PROVE  Families!Next
  BY <1>2 DEF EndSessions, Families!Next, Live, Families!Live
<1>3. ASSUME ServeRefresh
      PROVE  Families!Next
  <2>1. CASE call[Refresher].token \in Live
    <3>1. NewToken \in Token /\ call[Refresher].token \in Token
      BY <1>3, <2>1 DEF ServeRefresh, NewToken, Fresh, Live, Families!Live
    <3>2. Families!Rotate(call[Refresher].token, NewToken)
      BY <1>3, <2>1 DEF ServeRefresh
    <3>3. QED BY <3>1, <3>2 DEF Families!Next
  <2>2. CASE call[Refresher].token \notin Live
    <3> DEFINE S == {t \in Live : family[t] = family[call[Refresher].token]}
    <3>1. S \in SUBSET Token /\ Families!Revoke(S)
      BY <1>3, <2>2 DEF ServeRefresh, Live, Families!Live
    <3>2. QED BY <3>1 DEF Families!Next
  <2>3. QED BY <2>1, <2>2
<1>4. ASSUME NEW c \in Call, ServeLogout(c)
      PROVE  Families!Next \/ UNCHANGED <<state, family>>
  BY <1>2, <1>4 DEF ServeLogout
<1>5. ASSUME NEW c \in Call, Begin(c) \/ BeginLogin(c) \/ Step(c) \/ ServeCall(c) \/ Lose(c)
      PROVE  UNCHANGED <<state, family>>
  BY <1>5 DEF Begin, BeginLogin, Step, Receive, SendAgain, Unauthorized, Clear, Forget, ServeCall, Lose
<1>6. ASSUME NEW p \in Process, Save(p)
      PROVE  UNCHANGED <<state, family>>
  BY <1>6 DEF Save, SaveAccess, SaveRefresh, SaveUser
<1>7. CASE LoseRefresh \/ RefreshEnds \/ (\E n \in Token : Lapse(n)) \/ Kill \/ UNCHANGED vars
  BY <1>7 DEF LoseRefresh, RefreshEnds, Lapse, Kill, vars
<1>8. QED
  BY <1>1, <1>2, <1>3, <1>4, <1>5, <1>6, <1>7
     DEF Next, Answered, AnsweredRefresh, EndElsewhere

\* The server that Device is checked against does no more than TokenFamilies
\* promises, which is what Sessions is proved to implement.
THEOREM ServerKeepsFamilies == Spec => Families!Spec
<1>1. Init => Families!Init
  BY DEF Init
<1>2. QED BY <1>1, ServerStepMaps, PTL DEF Spec, Families!Spec
=============================================================================
