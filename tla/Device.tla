------------------------------- MODULE Device -------------------------------
(***************************************************************************)
(* A mobile device and the sessions it holds: ApiClient with its shared    *)
(* token refresh, SecureStore and AuthController, against a server that    *)
(* keeps the promise of TokenFamilies.  Calls of several pages overlap;    *)
(* each one goes from one await to the next.                               *)
(*                                                                         *)
(* A refresh token and the access token issued with it have one name.  The *)
(* store is behind one platform channel, which answers in order: the       *)
(* deletes of clear, which are sent together, are one step, and the writes *)
(* of saveTokens and saveUser, each of which is awaited, are three.        *)
(*                                                                         *)
(* An operator whose comment begins with "Mutant" is not part of the       *)
(* specification: it is a plausible mistake in the operator after it.      *)
(***************************************************************************)
CONSTANTS
  Call,        \* calls of ApiClient.request or uploadFile that may overlap
  Refresher,   \* the one call behind _refreshFuture
  Token,
  None

ASSUME DeviceAssumption == Refresher \notin Call /\ None \notin Token

VARIABLES
  state, family,  \* the server: its refresh tokens
  good,           \* the server: the access tokens that pass authUser
  store,          \* SecureStore: [access, refresh, user]
  signedIn,       \* AuthController.user is not null
  call,           \* the calls under way, and the refresh
  disturbed,      \* history: an answer was lost, the app killed, the user
                  \* logged out or the session was ended elsewhere
  reused,         \* history: the server has taken a refresh for a reuse
  overtaken       \* history: the store was cleared during a refresh or a login

server == <<state, family, good>>
vars == <<server, store, signedIn, call, disturbed, reused, overtaken>>

Families == INSTANCE TokenFamilies
Live == Families!Live
Fresh == {n \in Token : state[n] = "none"}
NewToken == CHOOSE n \in Fresh : TRUE

Process == Call \cup {Refresher}
Local(label, kind, token, again) == [pc |-> label, kind |-> kind, token |-> token, again |-> again]
Idle == Local("idle", "api", None, FALSE)

\* The store without entries.
Empty == [access |-> None, refresh |-> None, user |-> FALSE]

At(p, label) == call[p].pc = label
Goto(p, label) == call' = [call EXCEPT ![p].pc = label]
Answer(p, label) == call' = [call EXCEPT ![p].pc = label, ![p].token = None]
End(p) == call' = [call EXCEPT ![p] = Idle]

Init ==
  /\ Families!Init
  /\ good = {}
  /\ store = Empty /\ signedIn = FALSE
  /\ call = [p \in Process |-> Idle]
  /\ disturbed = FALSE /\ reused = FALSE /\ overtaken = FALSE

-----------------------------------------------------------------------------
(* Requests go out. *)

\* A page calls the API with the access token of the store, or logs out.
Begin(c) ==
  /\ At(c, "idle") /\ signedIn
  /\ \E kind \in {"api", "logout"} :
       /\ call' = [call EXCEPT ![c] = Local("sent", kind, store.access, FALSE)]
       /\ disturbed' = (disturbed \/ kind = "logout")
  /\ UNCHANGED <<server, store, signedIn, reused, overtaken>>

\* AuthController.login and register: one at a time, from their pages.
BeginLogin(c) ==
  /\ At(c, "idle") /\ ~signedIn
  /\ \A p \in Call : call[p].kind # "login"
  /\ call' = [call EXCEPT ![c] = Local("sent", "login", None, FALSE)]
  /\ UNCHANGED <<server, store, signedIn, disturbed, reused, overtaken>>

-----------------------------------------------------------------------------
(* The server. *)

ServeLogin(c) ==
  /\ At(c, "sent") /\ call[c].kind = "login" /\ Fresh # {}
  /\ Families!Open(NewToken)
  /\ good' = good \cup {NewToken}
  /\ call' = [call EXCEPT ![c].pc = "issued", ![c].token = NewToken]
  /\ UNCHANGED <<store, signedIn, disturbed, reused, overtaken>>

ServeCall(c) ==
  /\ At(c, "sent") /\ call[c].kind = "api"
  /\ Answer(c, IF call[c].token \in good THEN "accepted" ELSE "refused")
  /\ UNCHANGED <<server, store, signedIn, disturbed, reused, overtaken>>

\* Tokens end and so do the access tokens; a token whose rotation overlapped
\* may escape (Sessions).
EndSessions ==
  /\ \E S \in SUBSET Live :
       /\ Live \ S \subseteq {call[Refresher].token}
       /\ Families!Revoke(S)
  /\ good' = {}

ServeLogout(c) ==
  /\ At(c, "sent") /\ call[c].kind = "logout"
  /\ IF call[c].token \in good
     THEN EndSessions /\ Answer(c, "accepted")
     ELSE UNCHANGED server /\ Answer(c, "refused")
  /\ UNCHANGED <<store, signedIn, disturbed, reused, overtaken>>

\* refresh: rotation, or the end of the family.
ServeRefresh ==
  /\ At(Refresher, "sent")
  /\ IF call[Refresher].token \in Live
     THEN /\ Fresh # {}
          /\ Families!Rotate(call[Refresher].token, NewToken)
          /\ good' = good \cup {NewToken}
          /\ call' = [call EXCEPT ![Refresher].pc = "issued", ![Refresher].token = NewToken]
          /\ UNCHANGED reused
     ELSE /\ Families!Revoke({t \in Live : family[t] = family[call[Refresher].token]})
          /\ Answer(Refresher, "refused")
          /\ reused' = TRUE
          /\ UNCHANGED good
  /\ UNCHANGED <<store, signedIn, disturbed, overtaken>>

\* The life time of an access token passes.
Lapse(n) ==
  /\ n \in good
  /\ good' = good \ {n}
  /\ UNCHANGED <<state, family, store, signedIn, call, disturbed, reused, overtaken>>

\* Another device logs out, or the password is reset.
EndElsewhere ==
  /\ Live # {}
  /\ EndSessions
  /\ disturbed' = TRUE
  /\ UNCHANGED <<store, signedIn, call, reused, overtaken>>

-----------------------------------------------------------------------------
(* Answers come in. *)

\* Mutant: every refused call refreshes on its own account; the refresh that
\* is under way goes on unheeded.
RefreshAlone(c) ==
  IF store.refresh = None
  THEN Goto(c, "failed")
  ELSE call' = [call EXCEPT ![Refresher] = Local("sent", "refresh", store.refresh, FALSE),
                            ![c].pc = "joined"]

\* _refreshAccessToken: join the refresh under way, or begin one with the
\* refresh token of the store.
Refresh(c) ==
  IF ~At(Refresher, "idle") THEN Goto(c, "joined")
  ELSE IF store.refresh = None THEN Goto(c, "failed")
  ELSE call' = [call EXCEPT ![Refresher] = Local("sent", "refresh", store.refresh, FALSE),
                            ![c].pc = "joined"]

\* What follows a call, whatever its outcome: logout goes on to clear the
\* store.
Finish(c) == IF call[c].kind = "logout" THEN Goto(c, "clearing") ELSE End(c)

\* request: an answer of 401 to the first attempt leads to a refresh.
Receive(c) ==
  /\ \/ At(c, "accepted") /\ Finish(c)
     \/ At(c, "refused") /\ call[c].again /\ Finish(c)
     \/ At(c, "refused") /\ ~call[c].again /\ Refresh(c)
  /\ UNCHANGED <<server, store, signedIn, disturbed, reused, overtaken>>

\* No answer comes, or it comes too late: a timeout throws.
Lose(c) ==
  /\ call[c].pc \in {"sent", "issued", "accepted", "refused"}
  /\ Finish(c)
  /\ disturbed' = TRUE
  /\ UNCHANGED <<server, store, signedIn, reused, overtaken>>

\* Mutant: the exception is not caught, and those who wait are forgotten.
LoseRefreshUncaught ==
  /\ call[Refresher].pc \in {"sent", "issued"}
  /\ End(Refresher)
  /\ disturbed' = TRUE
  /\ UNCHANGED <<server, store, signedIn, reused, overtaken>>

\* The same of a refresh, which catches it and has failed.
LoseRefresh ==
  /\ call[Refresher].pc \in {"sent", "issued"}
  /\ Answer(Refresher, "refused")
  /\ disturbed' = TRUE
  /\ UNCHANGED <<server, store, signedIn, reused, overtaken>>

\* _refreshFuture completes: every call that waits for it goes on, to its
\* second attempt or to the end of the session.
RefreshEnds ==
  /\ call[Refresher].pc \in {"saved", "refused"}
  /\ call' = [p \in Process |->
                IF p = Refresher THEN Idle
                ELSE IF At(p, "joined")
                THEN [call[p] EXCEPT !.pc = IF At(Refresher, "saved") THEN "again" ELSE "failed"]
                ELSE call[p]]
  /\ UNCHANGED <<server, store, signedIn, disturbed, reused, overtaken>>

\* The second attempt, with the access token that the store has now.
SendAgain(c) ==
  /\ At(c, "again")
  /\ call' = [call EXCEPT ![c] = Local("sent", call[c].kind, store.access, TRUE)]
  /\ UNCHANGED <<server, store, signedIn, disturbed, reused, overtaken>>

-----------------------------------------------------------------------------
(* The store. *)

\* saveTokens and saveUser, of a refresh or a login: a write for each entry,
\* answered after a clear that was sent before.
Saves(p, from, entry, value) ==
  /\ At(p, from)
  /\ \A c \in Call : call[c].pc \notin {"cleared", "expelled"}
  /\ store' = [store EXCEPT ![entry] = value]

SaveAccess(p) ==
  /\ Saves(p, "issued", "access", call[p].token)
  /\ Goto(p, "half")
  /\ UNCHANGED <<server, signedIn, disturbed, reused, overtaken>>

SaveRefresh(p) ==
  /\ Saves(p, "half", "refresh", call[p].token)
  /\ Goto(p, "tokens")
  /\ UNCHANGED <<server, signedIn, disturbed, reused, overtaken>>

\* Only then is a login published.
SaveUser(p) ==
  /\ Saves(p, "tokens", "user", TRUE)
  /\ IF p = Refresher THEN Goto(p, "saved") /\ UNCHANGED signedIn
                      ELSE End(p) /\ signedIn' = TRUE
  /\ UNCHANGED <<server, disturbed, reused, overtaken>>

\* _handleUnauthorized: one call at a time logs out, without telling the
\* server; the others just fail.
Unauthorized(c) ==
  /\ At(c, "failed")
  /\ IF \E p \in Call : call[p].pc \in {"expelling", "expelled"}
     THEN Finish(c)
     ELSE Goto(c, "expelling")
  /\ UNCHANGED <<server, store, signedIn, disturbed, reused, overtaken>>

\* A refresh or a login that will still write to the store.
Saving == \/ call[Refresher].pc \notin {"idle", "refused"}
          \/ \E c \in Call : call[c].kind = "login"

\* AuthController.logout: clear, then forget the user.
Clear(c) ==
  /\ call[c].pc \in {"clearing", "expelling"}
  /\ store' = Empty
  /\ overtaken' = (overtaken \/ Saving)
  /\ Goto(c, IF At(c, "clearing") THEN "cleared" ELSE "expelled")
  /\ UNCHANGED <<server, signedIn, disturbed, reused>>

Forget(c) ==
  /\ call[c].pc \in {"cleared", "expelled"}
  /\ signedIn' = FALSE
  /\ IF At(c, "cleared") THEN End(c) ELSE Finish(c)
  /\ UNCHANGED <<server, store, disturbed, reused, overtaken>>

\* Mutant: what is incomplete stays in the store.
RestoreKeeps ==
  /\ signedIn' = (store.access # None /\ store.user)
  /\ UNCHANGED store

\* restoreSession: what is there is taken for a session, or cleared.
Restore ==
  IF store.access # None /\ store.user
  THEN signedIn' = TRUE /\ UNCHANGED store
  ELSE signedIn' = FALSE /\ store' = Empty

\* The app is killed and started again.  Requests it had sent are not served
\* any more.
Kill ==
  /\ call' = [p \in Process |-> Idle]
  /\ Restore
  /\ disturbed' = TRUE
  /\ UNCHANGED <<server, reused, overtaken>>

Step(c) ==
  \/ Receive(c) \/ SendAgain(c) \/ Unauthorized(c) \/ Clear(c) \/ Forget(c)

Save(p) == SaveAccess(p) \/ SaveRefresh(p) \/ SaveUser(p)

\* A request is served, or its time out passes.
Answered(c) == ServeLogin(c) \/ ServeCall(c) \/ ServeLogout(c) \/ Lose(c)
AnsweredRefresh == ServeRefresh \/ LoseRefresh

Next ==
  \/ \E c \in Call : Begin(c) \/ BeginLogin(c) \/ Step(c) \/ Answered(c)
  \/ \E p \in Process : Save(p)
  \/ AnsweredRefresh \/ RefreshEnds
  \/ \E n \in Token : Lapse(n)
  \/ EndElsewhere \/ Kill

Spec == Init /\ [][Next]_vars
FairSpec ==
  /\ Spec
  /\ \A c \in Call : WF_vars(Step(c)) /\ WF_vars(Answered(c))
  /\ \A p \in Process : WF_vars(Save(p))
  /\ WF_vars(AnsweredRefresh) /\ WF_vars(RefreshEnds)

-----------------------------------------------------------------------------
(* Properties. *)

Place == {"idle", "sent", "issued", "accepted", "refused", "joined", "again", "half", "tokens",
          "saved", "failed", "expelling", "expelled", "clearing", "cleared"}
TokenOrNone == Token \cup {None}

Handler == [pc : Place, kind : {"api", "login", "logout", "refresh"},
            token : TokenOrNone, again : BOOLEAN]

TypeOK ==
  /\ Families!TypeOK
  /\ good \subseteq Token
  /\ store \in [access : TokenOrNone, refresh : TokenOrNone, user : BOOLEAN]
  /\ signedIn \in BOOLEAN
  /\ call \in [Process -> Handler]
  /\ {disturbed, reused, overtaken} \subseteq BOOLEAN

\* Whatever the order in which access tokens lapse and the answers to
\* overlapping calls come in, a device that nothing disturbs is not taken for
\* a thief, logs nobody out and holds the token that continues the session
\* (AUDIT-FIXES-ROUND-10: no "false logout races").
ConcurrencyKeepsSession ==
  ~disturbed =>
    /\ ~reused
    /\ \A c \in Call : call[c].pc \notin {"failed", "expelling", "expelled"}
    /\ signedIn /\ At(Refresher, "idle") => store.refresh \in Live

\* At rest the store has the whole of a session if the user is signed in, and
\* nothing if not; except after a clear that a refresh or a login overtook.
StoreMatchesSession ==
  (\A p \in Process : At(p, "idle")) /\ ~overtaken =>
    IF signedIn THEN store.access # None /\ store.refresh # None /\ store.user
                ELSE store = Empty

\* Every call ends, those that wait for a refresh included.
CallsEnd == \A c \in Call : ~At(c, "idle") ~> At(c, "idle")

-----------------------------------------------------------------------------
(***************************************************************************)
(* The inductive invariant that the proofs of DeviceProofs rest on.        *)
(***************************************************************************)

\* A place belongs to a kind of call, and who has been issued tokens holds
\* them.
PlacesMatchKinds ==
  /\ \A c \in Call :
       IF call[c].kind = "login"
       THEN call[c].pc \in {"sent", "issued", "half", "tokens"}
       ELSE call[c].pc \notin {"issued", "half", "tokens", "saved"}
  /\ call[Refresher].pc \in {"idle", "sent", "issued", "half", "tokens", "saved", "refused"}
  /\ \A p \in Process : call[p].pc \in {"issued", "half"} => call[p].token \in Token

\* One login at a time, while nobody is signed in.
LoginsAreAlone ==
  /\ \A c \in Call : call[c].kind = "login" => ~signedIn
  /\ \A c, d \in Call : call[c].kind = "login" /\ call[d].kind = "login" => c = d

Whole(s) == s.access # None /\ s.refresh # None /\ s.user
Refreshing == call[Refresher].pc \notin {"idle", "refused"}
Cleared == \E c \in Call : call[c].pc \in {"cleared", "expelled"}
Writing == \E c \in Call : call[c].pc \in {"half", "tokens"}

\* The store has a session, or nothing, or what a login has written of one.
StoreIsWhole ==
  ~overtaken =>
    \/ store = Empty /\ ~Refreshing /\ ~Writing /\ (signedIn => Cleared)
    \/ Whole(store) /\ signedIn /\ ~Cleared
    \/ /\ \E c \in Call : At(c, "half")
       /\ store.access # None /\ store.refresh = None /\ ~store.user
       /\ ~Refreshing /\ ~Cleared
    \/ /\ \E c \in Call : At(c, "tokens")
       /\ store.access # None /\ store.refresh # None /\ ~Cleared

\* Undisturbed, nobody leaves, and store or refresh or login holds the token
\* that continues the session.
SessionGoesOn ==
  ~disturbed =>
    /\ ~reused
    /\ \A c \in Call :
         /\ call[c].pc \notin {"failed", "expelling", "expelled", "clearing", "cleared"}
         /\ call[c].kind # "logout"
         /\ ~At(c, "idle") => (signedIn <=> call[c].kind # "login")
    /\ ~At(Refresher, "idle") => signedIn /\ ~At(Refresher, "refused")
    /\ At(Refresher, "sent") => call[Refresher].token = store.refresh
    /\ signedIn /\ call[Refresher].pc \notin {"issued", "half"} => store.refresh \in Live
    /\ \A p \in Process :
         /\ call[p].pc \in {"issued", "half"} => call[p].token \in Live
         /\ At(p, "tokens") => store.refresh \in Live

DeviceInv ==
  /\ TypeOK
  /\ PlacesMatchKinds
  /\ LoginsAreAlone
  /\ StoreIsWhole
  /\ SessionGoesOn

\* Who has joined a refresh finds one under way.
JoinersAreServed == \A c \in Call : At(c, "joined") => ~At(Refresher, "idle")

\* p is held up by another process: by the refresh it has joined, or by a
\* clear that was sent to the store before its own writes.
HeldUp(p) ==
  \/ At(p, "joined")
  \/ call[p].pc \in {"issued", "half", "tokens"} /\ Cleared
=============================================================================
