------------------------------ MODULE Sessions ------------------------------
(***************************************************************************)
(* The sessions of one account: registration, login, rotation of refresh   *)
(* tokens, logout and password reset, over PostgreSQL and over the file    *)
(* store.  No statement of these handlers touches rows of two accounts, so *)
(* that one account, known by its email, is enough.                        *)
(*                                                                         *)
(* A request goes from one await to the next.  Over PostgreSQL an UPDATE   *)
(* that revokes many rows takes two steps: it finds the rows that are      *)
(* committed and live, then waits for those that another transaction has   *)
(* locked and revokes the ones that are still live (READ COMMITTED).  A    *)
(* row inserted between the two steps escapes it.  Over the file store a   *)
(* handler runs without interruption between two real waits.               *)
(*                                                                         *)
(* A request that is refused and changes nothing (a wrong password, an     *)
(* unknown token) is left out unless it has read something that another    *)
(* request changes.  An operator whose comment begins with "Mutant" is not *)
(* part of the specification: it is a plausible mistake in the next one.   *)
(***************************************************************************)
EXTENDS Naturals

CONSTANTS
  Request,     \* requests that may be handled at the same time
  Token,       \* refresh tokens
  Reset,       \* password reset tokens
  Mortal,      \* bound: the tokens whose expiry may pass
  Nothing,     \* where a request holds no token
  MaxVersion   \* bound: no logout or reset begins at this session version

ASSUME SessionAssumption ==
  /\ Token \cap Reset = {}
  /\ Nothing \notin Token \cup Reset
  /\ MaxVersion \in Nat

VARIABLES
  mode,        \* "postgres" or "file"
  registered,  \* the account has its row
  version,     \* users.session_version
  state, family,  \* refresh_tokens, see TokenFamilies
  resets,      \* reset_tokens.used_at, or no row yet
  known,       \* reset tokens that have reached the user
  expired,     \* refresh and reset tokens whose expires_at has passed
  access,      \* an access token of the current version has been issued
  req,         \* the requests being handled
  ended,       \* history: tokens that an answered request has said are ended
  barred,      \* history: versions below this one were said to be ended
  changes      \* history: how often each reset token has changed the password

tables  == <<registered, version, state, family, resets>>
history == <<ended, barred, changes>>
vars == <<mode, tables, known, expired, access, req, history>>

Families == INSTANCE TokenFamilies
Live == Families!Live

\* A request: where it is, the token it presents, the one it will insert, the
\* version it has read, the rows its UPDATE has found, and the rows there were
\* when it began.
Local(label, key, new, sv, seen, before) ==
  [pc |-> label, key |-> key, new |-> new, sv |-> sv, seen |-> seen, before |-> before]
Idle == Local("idle", Nothing, Nothing, 0, {}, {})

At(r, label) == req[r].pc = label
Goto(r, label) == req' = [req EXCEPT ![r].pc = label]
End(r) == req' = [req EXCEPT ![r] = Idle]

Rows == {t \in Token : state[t] # "none"}

\* randomToken: a name that no row and no request has.  Which one makes no
\* difference.
Fresh == {n \in Token : state[n] = "none" /\ \A q \in Request : req[q].new # n}
NewToken == CHOOSE n \in Fresh : TRUE
NewResets == {x \in Reset : resets[x] = "none"}

Init ==
  /\ mode \in {"postgres", "file"}
  /\ registered = FALSE
  /\ version = 0
  /\ Families!Init
  /\ resets = [x \in Reset |-> "none"]
  /\ known = {} /\ expired = {} /\ access = FALSE
  /\ req = [r \in Request |-> Idle]
  /\ ended = {} /\ barred = 0
  /\ changes = [x \in Reset |-> 0]

-----------------------------------------------------------------------------
(* Registration and login. *)

\* register: no account has this email; then the password is hashed.
RegisterLookup(r) ==
  /\ At(r, "idle") /\ ~registered /\ Fresh # {}
  /\ req' = [req EXCEPT ![r] = Local("registering", Nothing, NewToken, 0, {}, {})]
  /\ UNCHANGED <<mode, tables, known, expired, access, history>>

\* createUserWithProvider.  If another request was first the unique index
\* refuses this one; the file store has no index and adds an account of its
\* own with the same email, which is not the one modelled.
RegisterInsert(r) ==
  /\ At(r, "registering")
  /\ registered' = TRUE
  /\ IF registered THEN End(r) ELSE Goto(r, "issuing")
  /\ UNCHANGED <<mode, version, state, family, resets, known, expired, access, history>>

\* login: the row of the user is read, then the password compared.
LoginRead(r) ==
  /\ At(r, "idle") /\ registered /\ Fresh # {}
  /\ req' = [req EXCEPT ![r] = Local("issuing", Nothing, NewToken, version, {}, {})]
  /\ UNCHANGED <<mode, tables, known, expired, access, history>>

\* The rows that the statements on refresh_tokens leave behind; none of them
\* asks what they were before.
InsertFirst(n) ==
  /\ state' = [state EXCEPT ![n] = "live"]
  /\ family' = [family EXCEPT ![n] = n]

Replace(t, n) ==
  /\ state' = [state EXCEPT ![t] = "revoked", ![n] = "live"]
  /\ family' = [family EXCEPT ![n] = family[t]]

RevokeAll(S) ==
  /\ state' = [t \in Token |-> IF t \in S THEN "revoked" ELSE state[t]]
  /\ UNCHANGED family

\* The version an access token gets: of the row that was read, or of the
\* live object.
Signed(r) == IF mode = "postgres" THEN req[r].sv ELSE version

\* issueSession: a row that begins a family, and an access token.
IssueSession(r) ==
  /\ At(r, "issuing")
  /\ InsertFirst(req[r].new)
  /\ access' = (access \/ Signed(r) = version)
  /\ End(r)
  /\ UNCHANGED <<mode, registered, version, resets, known, expired, history>>

-----------------------------------------------------------------------------
(* Rotation of refresh tokens. *)

\* Mutant: the rows that are to be revoked are read FOR SHARE first.
HoldsShared(q, t) ==
  \/ req[q].pc \in {"rotating", "signing", "reusing"} /\ req[q].key = t
  \/ req[q].pc \in {"reusing", "revoking", "changing"} /\ t \in req[q].seen

\* The transaction of q holds the row: FOR UPDATE, until its commit.
Holds(q, t) == req[q].pc \in {"rotating", "signing", "reusing"} /\ req[q].key = t

Locked(t) == \E q \in Request : Holds(q, t)

\* The transaction of r waits until nobody else holds a row of S.
Obtains(r, S) == \A t \in S, q \in Request \ {r} : ~Holds(q, t)

\* A reset holds the user's row.
UserLocked == \E q \in Request : At(q, "changing")

Kin(t) == {u \in Rows : family[u] = family[t]}

\* refresh: a new token is drawn, findRefreshTokenByHash finds a row that has
\* not expired.
RefreshFind(r) ==
  /\ mode = "postgres" /\ At(r, "idle") /\ Fresh # {}
  /\ \E t \in Rows \ expired :
       req' = [req EXCEPT ![r] = Local("found", t, NewToken, 0, {}, Kin(t))]
  /\ UNCHANGED <<mode, tables, known, expired, access, history>>

\* Mutant: SELECT without FOR UPDATE.
RotateLockUnlocked(r) ==
  /\ At(r, "found")
  /\ CASE state[req[r].key] = "revoked" ->
            req' = [req EXCEPT ![r].pc = "reusing", ![r].seen = Live \cap Kin(req[r].key)]
       [] state[req[r].key] = "live" /\ req[r].key \notin expired -> Goto(r, "rotating")
       [] OTHER -> End(r)
  /\ UNCHANGED <<mode, tables, known, expired, access, history>>

\* rotateRefreshToken: SELECT ... FOR UPDATE.  A revoked row is a reuse, and
\* the UPDATE of its family begins.
RotateLock(r) ==
  /\ At(r, "found") /\ ~Locked(req[r].key)
  /\ CASE state[req[r].key] = "revoked" ->
            req' = [req EXCEPT ![r].pc = "reusing", ![r].seen = Live \cap Kin(req[r].key)]
       [] state[req[r].key] = "live" /\ req[r].key \notin expired -> Goto(r, "rotating")
       [] OTHER -> End(r)
  /\ UNCHANGED <<mode, tables, known, expired, access, history>>

\* Mutant: the user's row is read FOR UPDATE.
RotateReadUserLocks(r) ==
  /\ At(r, "rotating") /\ ~UserLocked
  /\ req' = [req EXCEPT ![r].pc = "signing", ![r].sv = version]
  /\ UNCHANGED <<mode, tables, known, expired, access, history>>

\* The user's row is read without a lock.
RotateReadUser(r) ==
  /\ At(r, "rotating")
  /\ req' = [req EXCEPT ![r].pc = "signing", ![r].sv = version]
  /\ UNCHANGED <<mode, tables, known, expired, access, history>>

\* The old row is revoked, the new one inserted; COMMIT, and the answer.
RotateCommit(r) ==
  /\ At(r, "signing")
  /\ Replace(req[r].key, req[r].new)
  /\ access' = (access \/ req[r].sv = version)
  /\ End(r)
  /\ UNCHANGED <<mode, registered, version, resets, known, expired, history>>

\* Of the rows an UPDATE has found, those that are live when it obtains them.
RevokeSeen(r) == RevokeAll(req[r].seen \cap Live)

\* The family is revoked, COMMIT, and the answer says so.
ReuseRevoke(r) ==
  /\ At(r, "reusing") /\ Obtains(r, req[r].seen)
  /\ RevokeSeen(r)
  /\ ended' = ended \cup req[r].before
  /\ End(r)
  /\ UNCHANGED <<mode, registered, version, resets, known, expired, access, barred, changes>>

\* Over the file store the whole of it is one step.
RefreshFile(r) ==
  /\ mode = "file" /\ At(r, "idle") /\ Fresh # {}
  /\ \E t \in Rows \ expired :
       \/ /\ state[t] = "revoked"
          /\ RevokeAll(Live \cap Kin(t))
          /\ ended' = ended \cup Kin(t)
          /\ UNCHANGED access
       \/ /\ state[t] = "live"
          /\ Replace(t, NewToken)
          /\ access' = TRUE
          /\ UNCHANGED ended
  /\ UNCHANGED <<mode, registered, version, resets, known, expired, req, barred, changes>>

-----------------------------------------------------------------------------
(* Logout. *)

\* What the answer to r says has ended: the tokens there were when r began,
\* and every access token of the version it read.
Answer(r) ==
  /\ ended' = ended \cup req[r].before
  /\ barred' = IF barred <= req[r].sv THEN req[r].sv + 1 ELSE barred
  /\ End(r)

\* The access tokens that are out have a version of the past.
NextVersion == version' = version + 1 /\ access' = FALSE

\* authUser: an access token of the current version.
LogoutAuth(r) ==
  /\ At(r, "idle") /\ access /\ version < MaxVersion
  /\ req' = [req EXCEPT ![r] = Local("leaving", Nothing, Nothing, version, {}, Rows)]
  /\ UNCHANGED <<mode, tables, known, expired, access, history>>

\* revokeUserRefreshTokens, a statement and a transaction of its own.
LogoutScan(r) ==
  /\ mode = "postgres" /\ At(r, "leaving")
  /\ req' = [req EXCEPT ![r].pc = "revoking", ![r].seen = Live]
  /\ UNCHANGED <<mode, tables, known, expired, access, history>>

\* Mutant: rows that are locked are passed over.
LogoutRevokeSkips(r) ==
  /\ At(r, "revoking")
  /\ RevokeAll({t \in req[r].seen \cap Live : ~Locked(t)})
  /\ req' = [req EXCEPT ![r].pc = "bumping", ![r].seen = {}]
  /\ UNCHANGED <<mode, registered, version, resets, known, expired, access, history>>

LogoutRevoke(r) ==
  /\ At(r, "revoking") /\ Obtains(r, req[r].seen)
  /\ RevokeSeen(r)
  /\ req' = [req EXCEPT ![r].pc = "bumping", ![r].seen = {}]
  /\ UNCHANGED <<mode, registered, version, resets, known, expired, access, history>>

\* bumpUserSessionVersion, of a logout or a reset, once nobody holds the
\* user's row; then the answer.
Bump(r) ==
  /\ At(r, "bumping")
  /\ ~UserLocked
  /\ NextVersion
  /\ Answer(r)
  /\ UNCHANGED <<mode, registered, state, family, resets, known, expired, changes>>

LogoutFile(r) ==
  /\ mode = "file" /\ At(r, "leaving")
  /\ NextVersion
  /\ RevokeAll(Live)
  /\ Answer(r)
  /\ UNCHANGED <<mode, registered, resets, known, expired, changes>>

-----------------------------------------------------------------------------
(* Password reset. *)

\* password-reset/request: insertResetToken, then the delivery begins.
ResetRequest(r) ==
  /\ At(r, "idle") /\ registered /\ NewResets # {}
  /\ LET x == CHOOSE y \in NewResets : TRUE IN
       /\ resets' = [resets EXCEPT ![x] = "open"]
       /\ req' = [req EXCEPT ![r] = Local("delivering", x, Nothing, 0, {}, {})]
  /\ UNCHANGED <<mode, registered, version, state, family, known, expired, access, history>>

\* The delivery service has the token, whatever becomes of its answer.
ResetReachesUser(r) ==
  /\ At(r, "delivering")
  /\ known' = known \cup {req[r].key}
  /\ UNCHANGED <<mode, tables, expired, access, req, history>>

\* deliverPasswordReset returns.
ResetDelivered(r) ==
  /\ At(r, "delivering") /\ req[r].key \in known
  /\ End(r)
  /\ UNCHANGED <<mode, tables, known, expired, access, history>>

\* It throws (503, time out): only the file store spoils the token.
ResetUndelivered(r) ==
  /\ At(r, "delivering")
  /\ resets' = IF mode = "file" THEN [resets EXCEPT ![req[r].key] = "used"] ELSE resets
  /\ End(r)
  /\ UNCHANGED <<mode, registered, version, state, family, known, expired, access, history>>

\* A transaction holds the row of x.
ResetLocked(x) == \E q \in Request : At(q, "changing") /\ req[q].key = x

\* password-reset/confirm: the token is looked up, then the new password is
\* hashed.
ConfirmFind(r) ==
  /\ At(r, "idle") /\ version < MaxVersion
  /\ \E x \in known \ expired :
       /\ resets[x] = "open" /\ ~ResetLocked(x)
       /\ req' = [req EXCEPT ![r] = Local("hashing", x, Nothing, version, {}, Rows)]
  /\ UNCHANGED <<mode, tables, known, expired, access, history>>

\* Mutant: the UPDATE does not ask for used_at IS NULL.
ConfirmClaimTwice(r) ==
  /\ mode = "postgres" /\ At(r, "hashing") /\ ~ResetLocked(req[r].key) /\ ~UserLocked
  /\ req' = [req EXCEPT ![r].pc = "changing", ![r].seen = Live]
  /\ UNCHANGED <<mode, tables, known, expired, access, history>>

\* consumeResetTokenAndChangePassword: the token must still be unused under
\* its lock; then the user's row is locked and the UPDATE of the refresh
\* tokens begins.
ConfirmClaim(r) ==
  /\ mode = "postgres" /\ At(r, "hashing") /\ ~ResetLocked(req[r].key) /\ ~UserLocked
  /\ IF resets[req[r].key] = "open"
     THEN req' = [req EXCEPT ![r].pc = "changing", ![r].seen = Live]
     ELSE End(r)
  /\ UNCHANGED <<mode, tables, known, expired, access, history>>

\* The password, the version, the used token and the revoked rows together.
ChangePassword(x) ==
  /\ resets' = [resets EXCEPT ![x] = "used"]
  /\ changes' = [changes EXCEPT ![x] = @ + 1]
  /\ NextVersion

\* COMMIT; then bumpUserSessionVersion once more (Bump).
ConfirmCommit(r) ==
  /\ At(r, "changing") /\ Obtains(r, req[r].seen)
  /\ ChangePassword(req[r].key)
  /\ RevokeSeen(r)
  /\ req' = [req EXCEPT ![r].pc = "bumping", ![r].seen = {}]
  /\ UNCHANGED <<mode, registered, known, expired, ended, barred>>

\* Over the file store the token is not looked at again after the hashing.
ConfirmFile(r) ==
  /\ mode = "file" /\ At(r, "hashing")
  /\ ChangePassword(req[r].key)
  /\ RevokeAll(Live)
  /\ Answer(r)
  /\ UNCHANGED <<mode, registered, known, expired>>

-----------------------------------------------------------------------------
\* The expiry of a token passes.
Expire(k) ==
  /\ k \in (Mortal \cap (Rows \cup {x \in Reset : resets[x] # "none"})) \ expired
  /\ expired' = expired \cup {k}
  /\ UNCHANGED <<mode, tables, known, access, req, history>>

\* The process dies, or a statement fails: what is not committed is undone.
\* What that does to the file store is the subject of FileStore.
Die(r) ==
  /\ mode = "postgres" /\ ~At(r, "idle")
  /\ End(r)
  /\ UNCHANGED <<mode, tables, known, expired, access, history>>

Arrive(r) ==
  \/ RegisterLookup(r) \/ LoginRead(r) \/ RefreshFind(r) \/ RefreshFile(r)
  \/ LogoutAuth(r) \/ ResetRequest(r) \/ ConfirmFind(r)

\* Steps that may have to wait for a row while others take it in turns.
Queue(r) ==
  \/ RotateLock(r) \/ ReuseRevoke(r) \/ LogoutRevoke(r) \/ Bump(r)
  \/ ConfirmClaim(r) \/ ConfirmCommit(r)

Proceed(r) ==
  \/ RegisterInsert(r) \/ IssueSession(r)
  \/ RotateReadUser(r) \/ RotateCommit(r)
  \/ LogoutScan(r) \/ LogoutFile(r)
  \/ ResetDelivered(r) \/ ResetUndelivered(r) \/ ConfirmFile(r)

Next ==
  \/ \E r \in Request :
       Arrive(r) \/ Queue(r) \/ Proceed(r) \/ ResetReachesUser(r) \/ Die(r)
  \/ \E k \in Token \cup Reset : Expire(k)

Spec == Init /\ [][Next]_vars

\* Statements are carried out; PostgreSQL serves those who wait for a row in
\* their order.
FairSpec ==
  Spec /\ \A r \in Request : WF_vars(Proceed(r)) /\ SF_vars(Queue(r))

-----------------------------------------------------------------------------
(* Properties. *)

Place == {"idle", "registering", "issuing", "found", "rotating", "signing", "reusing",
          "leaving", "revoking", "bumping", "delivering", "hashing", "changing"}
Handler == [pc : Place, key : Token \cup Reset \cup {Nothing}, new : Token \cup {Nothing},
            sv : Nat, seen : SUBSET Token, before : SUBSET Token]

\* The columns, and what a request may hold.
TypeOK ==
  /\ mode \in {"postgres", "file"} /\ registered \in BOOLEAN /\ version \in Nat
  /\ Families!TypeOK
  /\ resets \in [Reset -> {"none", "open", "used"}]
  /\ known \subseteq Reset /\ expired \subseteq Token \cup Reset
  /\ access \in BOOLEAN
  /\ req \in [Request -> Handler]
  /\ ended \subseteq Token /\ barred \in Nat /\ changes \in [Reset -> Nat]

\* Whatever races for it, a refresh token works once and for one successor,
\* and a family that has ended stays ended (rotateRefreshToken against
\* itself, logout, reset and reuse).
ImplementsFamilies == Families!Spec

\* Once a logout, a reset or a detected reuse is answered, every token it was
\* meant to end is revoked, rotated ones included, and the access tokens of
\* the version it saw no longer pass authUser.  Only a token that a request
\* inserted while it was being handled may be live.
AnsweredEndIsComplete ==
  /\ \A t \in ended : state[t] = "revoked"
  /\ barred <= version

\* Over PostgreSQL a reset token changes the password once, however many
\* confirmations found it unused.
ResetChangesOnce == mode = "postgres" => \A x \in Reset : changes[x] <= 1

\* The transaction of r cannot go on before that of q has ended.  An UPDATE
\* obtains all its rows at once here, so that it holds none while it waits.
WaitsFor(r, q) ==
  /\ q # r
  /\ \/ At(r, "found") /\ Holds(q, req[r].key)
     \/ req[r].pc \in {"reusing", "revoking", "changing"} /\ \E t \in req[r].seen : Holds(q, t)
     \/ req[r].pc \in {"hashing", "bumping"} /\ At(q, "changing")

\* However rotations, detected reuses, logouts and confirmations lock rows of
\* refresh_tokens, reset_tokens and users one after the other, no two or more
\* of them wait for each other in a circle: of any requests one at least
\* waits for none of the others.
NoCircularWait ==
  \A S \in (SUBSET Request) \ {{}} : \E r \in S : \A q \in S : ~WaitsFor(r, q)

\* Every request is answered or dies: nobody waits for a row for ever.
RequestsEnd == \A r \in Request : ~At(r, "idle") ~> At(r, "idle")

-----------------------------------------------------------------------------
(***************************************************************************)
(* The inductive invariant that the proofs of SessionsProofs rest on.      *)
(***************************************************************************)

\* Names that requests have drawn are theirs alone, and name no row yet.
DrawnNamesAreFresh ==
  /\ \A r \in Request :
       /\ req[r].new # Nothing => state[req[r].new] = "none"
       /\ req[r].pc \in {"registering", "issuing", "found", "rotating", "signing"} =>
            req[r].new # Nothing
  /\ \A q, r \in Request : q # r /\ req[q].new # Nothing => req[q].new # req[r].new

\* A rotation holds the row of a live token, which is nobody else's, and a
\* reset the row of an open reset token.
LocksAreHeld ==
  /\ \A r \in Request :
       /\ req[r].pc \in {"found", "rotating", "signing", "reusing"} => req[r].key \in Rows
       /\ req[r].pc \in {"rotating", "signing"} => state[req[r].key] = "live"
       /\ req[r].pc \in {"delivering", "hashing", "changing"} => req[r].key \in Reset
       /\ At(r, "changing") => resets[req[r].key] = "open"
  /\ \A q, r \in Request :
       /\ q # r /\ {req[q].pc, req[r].pc} \subseteq {"rotating", "signing", "reusing"} =>
            req[q].key # req[r].key
       /\ At(q, "changing") /\ At(r, "changing") => q = r
  /\ mode = "file" =>
       \A r \in Request : req[r].pc \notin {"found", "rotating", "signing", "reusing",
                                           "revoking", "bumping", "changing"}

\* What a request will say has ended has ended, or is among what its UPDATE
\* has found, or is yet to be looked for.
EndIsUnderWay ==
  \A r \in Request :
    /\ req[r].before \subseteq Rows
    /\ req[r].sv <= version
    /\ At(r, "found") => \A t \in req[r].before : family[t] = family[req[r].key]
    /\ req[r].pc \in {"reusing", "revoking", "changing"} =>
         req[r].before \cap Live \subseteq req[r].seen
    /\ At(r, "bumping") => req[r].before \cap Live = {}

\* An unused reset token has changed nothing.
ChangesAreUses ==
  mode = "postgres" =>
    \A x \in Reset : changes[x] <= 1 /\ (resets[x] # "used" => changes[x] = 0)

SessionInv ==
  /\ TypeOK
  /\ DrawnNamesAreFresh
  /\ LocksAreHeld
  /\ EndIsUnderWay
  /\ ChangesAreUses
  /\ AnsweredEndIsComplete

\* What holds back a circle of reuses: a token that is presented again is
\* revoked and stays so, while an UPDATE finds only rows that are live.
ReusesAreOrdered ==
  /\ \A r \in Request : At(r, "reusing") => state[req[r].key] = "revoked"
  /\ \A S \in (SUBSET {r \in Request : At(r, "reusing")}) \ {{}} :
       \E r \in S : \A q \in S : req[q].key \notin req[r].seen
=============================================================================
