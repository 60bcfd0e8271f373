---------------------------- MODULE SessionsProofs ----------------------------
EXTENDS Sessions, TLAPS

USE SessionAssumption

(***************************************************************************)
(* Proofs about Sessions for every number of requests and tokens: the      *)
(* inductive invariant, with a lemma for each action of a request, what it *)
(* implies, and that Sessions implements TokenFamilies.                    *)
(***************************************************************************)

\* A request that goes on keeps its type.
LEMMA HandlerTurned ==
  ASSUME NEW h \in Handler, NEW label \in Place, NEW n \in Nat, NEW S \in SUBSET Token
  PROVE  /\ [h EXCEPT !.pc = label, !.sv = n] \in Handler
         /\ [h EXCEPT !.pc = label, !.seen = S] \in Handler
BY DEF Handler

-----------------------------------------------------------------------------
(* Every action of a request keeps every part of the invariant. *)

LEMMA RegisterLookupKeeps ==
  ASSUME SessionInv, NEW r \in Request, RegisterLookup(r)
  PROVE  SessionInv'
<1> USE DEF SessionInv, RegisterLookup, Local, Fresh, NewToken, At, Goto, End, Idle, Local, tables, history, Live, Families!Live, Rows
<1>1. TypeOK'
  BY DEF DrawnNamesAreFresh, LocksAreHeld, TypeOK, Families!TypeOK, Handler, Place
<1>2. DrawnNamesAreFresh'
  BY DEF DrawnNamesAreFresh, LocksAreHeld, TypeOK, Families!TypeOK, Handler, Place
<1>3. LocksAreHeld'
  BY DEF LocksAreHeld, DrawnNamesAreFresh, TypeOK, Families!TypeOK, Handler, Place
<1>4. EndIsUnderWay'
  BY DEF EndIsUnderWay, LocksAreHeld, DrawnNamesAreFresh, TypeOK, Families!TypeOK, Handler, Place
<1>5. ChangesAreUses'
  BY DEF ChangesAreUses, LocksAreHeld, TypeOK, Families!TypeOK, Handler, Place
<1>6. AnsweredEndIsComplete'
  BY DEF AnsweredEndIsComplete, EndIsUnderWay, DrawnNamesAreFresh, LocksAreHeld, TypeOK, Families!TypeOK, Handler, Place
<1> QED BY <1>1, <1>2, <1>3, <1>4, <1>5, <1>6

LEMMA RegisterInsertKeeps ==
  ASSUME SessionInv, NEW r \in Request, RegisterInsert(r)
  PROVE  SessionInv'
<1> USE DEF SessionInv, RegisterInsert, At, Goto, End, Idle, Local, tables, history, Live, Families!Live, Rows
<1>1. TypeOK'
  BY DEF DrawnNamesAreFresh, LocksAreHeld, TypeOK, Families!TypeOK, Handler, Place
<1>2. DrawnNamesAreFresh'
  BY DEF DrawnNamesAreFresh, LocksAreHeld, TypeOK, Families!TypeOK, Handler, Place
<1>3. LocksAreHeld'
  BY DEF LocksAreHeld, DrawnNamesAreFresh, TypeOK, Families!TypeOK, Handler, Place
<1>4. EndIsUnderWay'
  BY DEF EndIsUnderWay, LocksAreHeld, DrawnNamesAreFresh, TypeOK, Families!TypeOK, Handler, Place
<1>5. ChangesAreUses'
  BY DEF ChangesAreUses, LocksAreHeld, TypeOK, Families!TypeOK, Handler, Place
<1>6. AnsweredEndIsComplete'
  BY DEF AnsweredEndIsComplete, EndIsUnderWay, DrawnNamesAreFresh, LocksAreHeld, TypeOK, Families!TypeOK, Handler, Place
<1> QED BY <1>1, <1>2, <1>3, <1>4, <1>5, <1>6

LEMMA LoginReadKeeps ==
  ASSUME SessionInv, NEW r \in Request, LoginRead(r)
  PROVE  SessionInv'
<1> USE DEF SessionInv, LoginRead, Local, Fresh, NewToken, At, Goto, End, Idle, Local, tables, history, Live, Families!Live, Rows
<1>1. TypeOK'
  BY DEF DrawnNamesAreFresh, LocksAreHeld, TypeOK, Families!TypeOK, Handler, Place
<1>2. DrawnNamesAreFresh'
  BY DEF DrawnNamesAreFresh, LocksAreHeld, TypeOK, Families!TypeOK, Handler, Place
<1>3. LocksAreHeld'
  BY DEF LocksAreHeld, DrawnNamesAreFresh, TypeOK, Families!TypeOK, Handler, Place
<1>4. EndIsUnderWay'
  BY DEF EndIsUnderWay, LocksAreHeld, DrawnNamesAreFresh, TypeOK, Families!TypeOK, Handler, Place
<1>5. ChangesAreUses'
  BY DEF ChangesAreUses, LocksAreHeld, TypeOK, Families!TypeOK, Handler, Place
<1>6. AnsweredEndIsComplete'
  BY DEF AnsweredEndIsComplete, EndIsUnderWay, DrawnNamesAreFresh, LocksAreHeld, TypeOK, Families!TypeOK, Handler, Place
<1> QED BY <1>1, <1>2, <1>3, <1>4, <1>5, <1>6

LEMMA IssueSessionKeeps ==
  ASSUME SessionInv, NEW r \in Request, IssueSession(r)
  PROVE  SessionInv'
<1> USE DEF SessionInv, IssueSession, InsertFirst, At, Goto, End, Idle, Local, tables, history, Live, Families!Live, Rows
<1>1. TypeOK'
  BY DEF DrawnNamesAreFresh, LocksAreHeld, TypeOK, Families!TypeOK, Handler, Place
<1>2. DrawnNamesAreFresh'
  BY DEF DrawnNamesAreFresh, LocksAreHeld, TypeOK, Families!TypeOK, Handler, Place
<1>3. LocksAreHeld'
  BY DEF LocksAreHeld, DrawnNamesAreFresh, TypeOK, Families!TypeOK, Handler, Place
<1>4. EndIsUnderWay'
  BY DEF EndIsUnderWay, LocksAreHeld, DrawnNamesAreFresh, TypeOK, Families!TypeOK, Handler, Place
<1>5. ChangesAreUses'
  BY DEF ChangesAreUses, LocksAreHeld, TypeOK, Families!TypeOK, Handler, Place
<1>6. AnsweredEndIsComplete'
  BY DEF AnsweredEndIsComplete, EndIsUnderWay, DrawnNamesAreFresh, LocksAreHeld, TypeOK, Families!TypeOK, Handler, Place
<1> QED BY <1>1, <1>2, <1>3, <1>4, <1>5, <1>6

LEMMA RefreshFindKeeps ==
  ASSUME SessionInv, NEW r \in Request, RefreshFind(r)
  PROVE  SessionInv'
<1> USE DEF SessionInv, RefreshFind, Local, Fresh, NewToken, Kin, At, Goto, End, Idle, Local, tables, history, Live, Families!Live, Rows
<1>1. TypeOK'
  BY DEF DrawnNamesAreFresh, LocksAreHeld, TypeOK, Families!TypeOK, Handler, Place
<1>2. DrawnNamesAreFresh'
  BY DEF DrawnNamesAreFresh, LocksAreHeld, TypeOK, Families!TypeOK, Handler, Place
<1>3. LocksAreHeld'
  BY DEF LocksAreHeld, DrawnNamesAreFresh, TypeOK, Families!TypeOK, Handler, Place
<1>4. EndIsUnderWay'
  BY DEF EndIsUnderWay, LocksAreHeld, DrawnNamesAreFresh, TypeOK, Families!TypeOK, Handler, Place
<1>5. ChangesAreUses'
  BY DEF ChangesAreUses, LocksAreHeld, TypeOK, Families!TypeOK, Handler, Place
<1>6. AnsweredEndIsComplete'
  BY DEF AnsweredEndIsComplete, EndIsUnderWay, DrawnNamesAreFresh, LocksAreHeld, TypeOK, Families!TypeOK, Handler, Place
<1> QED BY <1>1, <1>2, <1>3, <1>4, <1>5, <1>6

LEMMA RotateLockKeeps ==
  ASSUME SessionInv, NEW r \in Request, RotateLock(r)
  PROVE  SessionInv'
<1> USE DEF SessionInv, RotateLock, Locked, Holds, Kin, At, Goto, End, Idle, Local, tables, history, Live, Families!Live, Rows
<1>1. TypeOK'
  BY DEF DrawnNamesAreFresh, LocksAreHeld, TypeOK, Families!TypeOK, Handler, Place
<1>2. DrawnNamesAreFresh'
  BY DEF DrawnNamesAreFresh, LocksAreHeld, TypeOK, Families!TypeOK, Handler, Place
<1>3. LocksAreHeld'
  BY DEF LocksAreHeld, DrawnNamesAreFresh, TypeOK, Families!TypeOK, Handler, Place
<1>4. EndIsUnderWay'
  BY DEF EndIsUnderWay, LocksAreHeld, DrawnNamesAreFresh, TypeOK, Families!TypeOK, Handler, Place
<1>5. ChangesAreUses'
  BY DEF ChangesAreUses, LocksAreHeld, TypeOK, Families!TypeOK, Handler, Place
<1>6. AnsweredEndIsComplete'
  BY DEF AnsweredEndIsComplete, EndIsUnderWay, DrawnNamesAreFresh, LocksAreHeld, TypeOK, Families!TypeOK, Handler, Place
<1> QED BY <1>1, <1>2, <1>3, <1>4, <1>5, <1>6

LEMMA RotateReadUserKeeps ==
  ASSUME SessionInv, NEW r \in Request, RotateReadUser(r)
  PROVE  SessionInv'
<1> USE DEF SessionInv, RotateReadUser, At, Goto, End, Idle, Local, tables, history, Live, Families!Live, Rows
<1>1. TypeOK'
  <2>1. req' \in [Request -> Handler]
    <3>1. req[r] \in Handler
      BY DEF TypeOK
    <3>2. [req[r] EXCEPT !.pc = "signing", !.sv = version] \in Handler
      BY <3>1, HandlerTurned DEF TypeOK, Place
    <3>3. QED BY <3>2 DEF TypeOK
  <2>2. Families!TypeOK'
    BY DEF TypeOK, Families!TypeOK
  <2>3. version' \in Nat /\ barred' \in Nat /\ ended' \subseteq Token
    BY DEF TypeOK, Families!TypeOK, Handler, Place
  <2>4. changes' \in [Reset -> Nat] /\ resets' \in [Reset -> {"none", "open", "used"}]
    BY DEF TypeOK, LocksAreHeld
  <2>5. QED
    BY <2>1, <2>2, <2>3, <2>4 DEF TypeOK
<1>2. DrawnNamesAreFresh'
  BY DEF DrawnNamesAreFresh, LocksAreHeld, TypeOK, Families!TypeOK, Handler, Place
<1>3. LocksAreHeld'
  BY DEF LocksAreHeld, DrawnNamesAreFresh, TypeOK, Families!TypeOK, Handler, Place
<1>4. EndIsUnderWay'
  BY DEF EndIsUnderWay, LocksAreHeld, DrawnNamesAreFresh, TypeOK, Families!TypeOK, Handler, Place
<1>5. ChangesAreUses'
  BY DEF ChangesAreUses, LocksAreHeld, TypeOK, Families!TypeOK, Handler, Place
<1>6. AnsweredEndIsComplete'
  BY DEF AnsweredEndIsComplete, EndIsUnderWay, DrawnNamesAreFresh, LocksAreHeld, TypeOK, Families!TypeOK, Handler, Place
<1> QED BY <1>1, <1>2, <1>3, <1>4, <1>5, <1>6

LEMMA RotateCommitKeeps ==
  ASSUME SessionInv, NEW r \in Request, RotateCommit(r)
  PROVE  SessionInv'
<1> USE DEF SessionInv, RotateCommit, Replace, At, Goto, End, Idle, Local, tables, history, Live, Families!Live, Rows
<1>1. TypeOK'
  BY DEF DrawnNamesAreFresh, LocksAreHeld, TypeOK, Families!TypeOK, Handler, Place
<1>2. DrawnNamesAreFresh'
  BY DEF DrawnNamesAreFresh, LocksAreHeld, TypeOK, Families!TypeOK, Handler, Place
<1>3. LocksAreHeld'
  BY DEF LocksAreHeld, DrawnNamesAreFresh, TypeOK, Families!TypeOK, Handler, Place
<1>4. EndIsUnderWay'
  BY DEF EndIsUnderWay, LocksAreHeld, DrawnNamesAreFresh, TypeOK, Families!TypeOK, Handler, Place
<1>5. ChangesAreUses'
  BY DEF ChangesAreUses, LocksAreHeld, TypeOK, Families!TypeOK, Handler, Place
<1>6. AnsweredEndIsComplete'
  BY DEF AnsweredEndIsComplete, EndIsUnderWay, DrawnNamesAreFresh, LocksAreHeld, TypeOK, Families!TypeOK, Handler, Place
<1> QED BY <1>1, <1>2, <1>3, <1>4, <1>5, <1>6

LEMMA ReuseRevokeKeeps ==
  ASSUME SessionInv, NEW r \in Request, ReuseRevoke(r)
  PROVE  SessionInv'
<1> USE DEF SessionInv, ReuseRevoke, RevokeSeen, RevokeAll, Obtains, Holds, At, Goto, End, Idle, Local, tables, history, Live, Families!Live, Rows
<1>1. TypeOK'
  BY DEF DrawnNamesAreFresh, LocksAreHeld, TypeOK, Families!TypeOK, Handler, Place
<1>2. DrawnNamesAreFresh'
  BY DEF DrawnNamesAreFresh, LocksAreHeld, TypeOK, Families!TypeOK, Handler, Place
<1>3. LocksAreHeld'
  BY DEF LocksAreHeld, DrawnNamesAreFresh, TypeOK, Families!TypeOK, Handler, Place
<1>4. EndIsUnderWay'
  BY DEF EndIsUnderWay, LocksAreHeld, DrawnNamesAreFresh, TypeOK, Families!TypeOK, Handler, Place
<1>5. ChangesAreUses'
  BY DEF ChangesAreUses, LocksAreHeld, TypeOK, Families!TypeOK, Handler, Place
<1>6. AnsweredEndIsComplete'
  BY DEF AnsweredEndIsComplete, EndIsUnderWay, DrawnNamesAreFresh, LocksAreHeld, TypeOK, Families!TypeOK, Handler, Place
<1> QED BY <1>1, <1>2, <1>3, <1>4, <1>5, <1>6

LEMMA RefreshFileKeeps ==
  ASSUME SessionInv, NEW r \in Request, RefreshFile(r)
  PROVE  SessionInv'
<1> USE DEF SessionInv, RefreshFile, Replace, RevokeAll, Kin, Fresh, NewToken, At, Goto, End, Idle, Local, tables, history, Live, Families!Live, Rows
<1>1. TypeOK'
  <2>1. req' \in [Request -> Handler]
    BY DEF TypeOK, Families!TypeOK, Handler, Place
  <2>2. Families!TypeOK'
    <3>1. PICK t \in Token : \/ state[t] = "revoked" /\ RevokeAll(Live \cap Kin(t))
                           \/ Replace(t, NewToken)
      BY DEF Live
    <3>2. NewToken \in Token
      BY DEF NewToken, Fresh
    <3>3. CASE RevokeAll(Live \cap Kin(t))
      BY <3>3 DEF TypeOK, Families!TypeOK
    <3>4. CASE Replace(t, NewToken)
      BY <3>2, <3>4 DEF TypeOK, Families!TypeOK
    <3>5. QED BY <3>1, <3>3, <3>4
  <2>3. version' \in Nat /\ barred' \in Nat /\ ended' \subseteq Token
    BY DEF TypeOK, Families!TypeOK, Handler, Place
  <2>4. changes' \in [Reset -> Nat] /\ resets' \in [Reset -> {"none", "open", "used"}]
    BY DEF TypeOK, LocksAreHeld
  <2>5. QED
    BY <2>1, <2>2, <2>3, <2>4 DEF TypeOK
<1>2. DrawnNamesAreFresh'
  BY DEF DrawnNamesAreFresh, LocksAreHeld, TypeOK, Families!TypeOK, Handler, Place
<1>3. LocksAreHeld'
  BY DEF LocksAreHeld, DrawnNamesAreFresh, TypeOK, Families!TypeOK, Handler, Place
<1>4. EndIsUnderWay'
  BY DEF EndIsUnderWay, LocksAreHeld, DrawnNamesAreFresh, TypeOK, Families!TypeOK, Handler, Place
<1>5. ChangesAreUses'
  BY DEF ChangesAreUses, LocksAreHeld, TypeOK, Families!TypeOK, Handler, Place
<1>6. AnsweredEndIsComplete'
  BY DEF AnsweredEndIsComplete, EndIsUnderWay, DrawnNamesAreFresh, LocksAreHeld, TypeOK, Families!TypeOK, Handler, Place
<1> QED BY <1>1, <1>2, <1>3, <1>4, <1>5, <1>6

LEMMA LogoutAuthKeeps ==
  ASSUME SessionInv, NEW r \in Request, LogoutAuth(r)
  PROVE  SessionInv'
<1> USE DEF SessionInv, LogoutAuth, Local, At, Goto, End, Idle, Local, tables, history, Live, Families!Live, Rows
<1>1. TypeOK'
  BY DEF DrawnNamesAreFresh, LocksAreHeld, TypeOK, Families!TypeOK, Handler, Place
<1>2. DrawnNamesAreFresh'
  BY DEF DrawnNamesAreFresh, LocksAreHeld, TypeOK, Families!TypeOK, Handler, Place
<1>3. LocksAreHeld'
  BY DEF LocksAreHeld, DrawnNamesAreFresh, TypeOK, Families!TypeOK, Handler, Place
<1>4. EndIsUnderWay'
  BY DEF EndIsUnderWay, LocksAreHeld, DrawnNamesAreFresh, TypeOK, Families!TypeOK, Handler, Place
<1>5. ChangesAreUses'
  BY DEF ChangesAreUses, LocksAreHeld, TypeOK, Families!TypeOK, Handler, Place
<1>6. AnsweredEndIsComplete'
  BY DEF AnsweredEndIsComplete, EndIsUnderWay, DrawnNamesAreFresh, LocksAreHeld, TypeOK, Families!TypeOK, Handler, Place
<1> QED BY <1>1, <1>2, <1>3, <1>4, <1>5, <1>6

LEMMA LogoutScanKeeps ==
  ASSUME SessionInv, NEW r \in Request, LogoutScan(r)
  PROVE  SessionInv'
<1> USE DEF SessionInv, LogoutScan, At, Goto, End, Idle, Local, tables, history, Live, Families!Live, Rows
<1>1. TypeOK'
  <2>1. req' \in [Request -> Handler]
    <3>1. req[r] \in Handler
      BY DEF TypeOK
    <3>2. [req[r] EXCEPT !.pc = "revoking", !.seen = {t \in Token : state[t] = "live"}] \in Handler
      BY <3>1, HandlerTurned DEF TypeOK, Place
    <3>3. QED BY <3>2 DEF TypeOK
  <2>2. Families!TypeOK'
    BY DEF TypeOK, Families!TypeOK
  <2>3. version' \in Nat /\ barred' \in Nat /\ ended' \subseteq Token
    BY DEF TypeOK, Families!TypeOK, Handler, Place
  <2>4. changes' \in [Reset -> Nat] /\ resets' \in [Reset -> {"none", "open", "used"}]
    BY DEF TypeOK, LocksAreHeld
  <2>5. QED
    BY <2>1, <2>2, <2>3, <2>4 DEF TypeOK
<1>2. DrawnNamesAreFresh'
  BY DEF DrawnNamesAreFresh, LocksAreHeld, TypeOK, Families!TypeOK, Handler, Place
<1>3. LocksAreHeld'
  BY DEF LocksAreHeld, DrawnNamesAreFresh, TypeOK, Families!TypeOK, Handler, Place
<1>4. EndIsUnderWay'
  BY DEF EndIsUnderWay, LocksAreHeld, DrawnNamesAreFresh, TypeOK, Families!TypeOK, Handler, Place
<1>5. ChangesAreUses'
  BY DEF ChangesAreUses, LocksAreHeld, TypeOK, Families!TypeOK, Handler, Place
<1>6. AnsweredEndIsComplete'
  BY DEF AnsweredEndIsComplete, EndIsUnderWay, DrawnNamesAreFresh, LocksAreHeld, TypeOK, Families!TypeOK, Handler, Place
<1> QED BY <1>1, <1>2, <1>3, <1>4, <1>5, <1>6

LEMMA LogoutRevokeKeeps ==
  ASSUME SessionInv, NEW r \in Request, LogoutRevoke(r)
  PROVE  SessionInv'
<1> USE DEF SessionInv, LogoutRevoke, RevokeSeen, RevokeAll, Obtains, Holds, At, Goto, End, Idle, Local, tables, history, Live, Families!Live, Rows
<1>1. TypeOK'
  <2>1. req' \in [Request -> Handler]
    <3>1. req[r] \in Handler
      BY DEF TypeOK
    <3>2. [req[r] EXCEPT !.pc = "bumping", !.seen = {}] \in Handler
      BY <3>1, HandlerTurned DEF TypeOK, Place
    <3>3. QED BY <3>2 DEF TypeOK
  <2>2. Families!TypeOK'
    BY DEF TypeOK, Families!TypeOK
  <2>3. version' \in Nat /\ barred' \in Nat /\ ended' \subseteq Token
    BY DEF TypeOK, Families!TypeOK, Handler, Place
  <2>4. changes' \in [Reset -> Nat] /\ resets' \in [Reset -> {"none", "open", "used"}]
    BY DEF TypeOK, LocksAreHeld
  <2>5. QED
    BY <2>1, <2>2, <2>3, <2>4 DEF TypeOK
<1>2. DrawnNamesAreFresh'
  BY DEF DrawnNamesAreFresh, LocksAreHeld, TypeOK, Families!TypeOK, Handler, Place
<1>3. LocksAreHeld'
  BY DEF LocksAreHeld, DrawnNamesAreFresh, TypeOK, Families!TypeOK, Handler, Place
<1>4. EndIsUnderWay'
  BY DEF EndIsUnderWay, LocksAreHeld, DrawnNamesAreFresh, TypeOK, Families!TypeOK, Handler, Place
<1>5. ChangesAreUses'
  BY DEF ChangesAreUses, LocksAreHeld, TypeOK, Families!TypeOK, Handler, Place
<1>6. AnsweredEndIsComplete'
  BY DEF AnsweredEndIsComplete, EndIsUnderWay, DrawnNamesAreFresh, LocksAreHeld, TypeOK, Families!TypeOK, Handler, Place
<1> QED BY <1>1, <1>2, <1>3, <1>4, <1>5, <1>6

LEMMA BumpKeeps ==
  ASSUME SessionInv, NEW r \in Request, Bump(r)
  PROVE  SessionInv'
<1> USE DEF SessionInv, Bump, NextVersion, Answer, At, Goto, End, Idle, Local, tables, history, Live, Families!Live, Rows
<1>1. TypeOK'
  <2>1. req' \in [Request -> Handler]
    BY DEF TypeOK, Families!TypeOK, Handler, Place
  <2>2. Families!TypeOK'
    BY DEF TypeOK, Families!TypeOK
  <2>3. version' \in Nat /\ barred' \in Nat /\ ended' \subseteq Token
    BY DEF TypeOK, Families!TypeOK, Handler, Place
  <2>4. changes' \in [Reset -> Nat] /\ resets' \in [Reset -> {"none", "open", "used"}]
    BY DEF TypeOK, LocksAreHeld
  <2>5. QED
    BY <2>1, <2>2, <2>3, <2>4 DEF TypeOK
<1>2. DrawnNamesAreFresh'
  BY DEF DrawnNamesAreFresh, LocksAreHeld, TypeOK, Families!TypeOK, Handler, Place
<1>3. LocksAreHeld'
  BY DEF LocksAreHeld, DrawnNamesAreFresh, TypeOK, Families!TypeOK, Handler, Place
<1>4. EndIsUnderWay'
  BY DEF EndIsUnderWay, LocksAreHeld, DrawnNamesAreFresh, TypeOK, Families!TypeOK, Handler, Place
<1>5. ChangesAreUses'
  BY DEF ChangesAreUses, LocksAreHeld, TypeOK, Families!TypeOK, Handler, Place
<1>6. AnsweredEndIsComplete'
  BY DEF AnsweredEndIsComplete, EndIsUnderWay, DrawnNamesAreFresh, LocksAreHeld, TypeOK, Families!TypeOK, Handler, Place
<1> QED BY <1>1, <1>2, <1>3, <1>4, <1>5, <1>6

LEMMA LogoutFileKeeps ==
  ASSUME SessionInv, NEW r \in Request, LogoutFile(r)
  PROVE  SessionInv'
<1> USE DEF SessionInv, LogoutFile, NextVersion, RevokeAll, Answer, At, Goto, End, Idle, Local, tables, history, Live, Families!Live, Rows
<1>1. TypeOK'
  <2>1. req' \in [Request -> Handler]
    BY DEF TypeOK, Families!TypeOK, Handler, Place
  <2>2. Families!TypeOK'
    BY DEF TypeOK, Families!TypeOK
  <2>3. version' \in Nat /\ barred' \in Nat /\ ended' \subseteq Token
    BY DEF TypeOK, Families!TypeOK, Handler, Place
  <2>4. changes' \in [Reset -> Nat] /\ resets' \in [Reset -> {"none", "open", "used"}]
    BY DEF TypeOK, LocksAreHeld
  <2>5. QED
    BY <2>1, <2>2, <2>3, <2>4 DEF TypeOK
<1>2. DrawnNamesAreFresh'
  BY DEF DrawnNamesAreFresh, LocksAreHeld, TypeOK, Families!TypeOK, Handler, Place
<1>3. LocksAreHeld'
  BY DEF LocksAreHeld, DrawnNamesAreFresh, TypeOK, Families!TypeOK, Handler, Place
<1>4. EndIsUnderWay'
  BY DEF EndIsUnderWay, LocksAreHeld, DrawnNamesAreFresh, TypeOK, Families!TypeOK, Handler, Place
<1>5. ChangesAreUses'
  BY DEF ChangesAreUses, LocksAreHeld, TypeOK, Families!TypeOK, Handler, Place
<1>6. AnsweredEndIsComplete'
  BY DEF AnsweredEndIsComplete, EndIsUnderWay, DrawnNamesAreFresh, LocksAreHeld, TypeOK, Families!TypeOK, Handler, Place
<1> QED BY <1>1, <1>2, <1>3, <1>4, <1>5, <1>6

LEMMA ResetRequestKeeps ==
  ASSUME SessionInv, NEW r \in Request, ResetRequest(r)
  PROVE  SessionInv'
<1> USE DEF SessionInv, ResetRequest, NewResets, Local, At, Goto, End, Idle, Local, tables, history, Live, Families!Live, Rows
<1>1. TypeOK'
  BY DEF DrawnNamesAreFresh, LocksAreHeld, TypeOK, Families!TypeOK, Handler, Place
<1>2. DrawnNamesAreFresh'
  BY DEF DrawnNamesAreFresh, LocksAreHeld, TypeOK, Families!TypeOK, Handler, Place
<1>3. LocksAreHeld'
  BY DEF LocksAreHeld, DrawnNamesAreFresh, TypeOK, Families!TypeOK, Handler, Place
<1>4. EndIsUnderWay'
  BY DEF EndIsUnderWay, LocksAreHeld, DrawnNamesAreFresh, TypeOK, Families!TypeOK, Handler, Place
<1>5. ChangesAreUses'
  BY DEF ChangesAreUses, LocksAreHeld, TypeOK, Families!TypeOK, Handler, Place
<1>6. AnsweredEndIsComplete'
  BY DEF AnsweredEndIsComplete, EndIsUnderWay, DrawnNamesAreFresh, LocksAreHeld, TypeOK, Families!TypeOK, Handler, Place
<1> QED BY <1>1, <1>2, <1>3, <1>4, <1>5, <1>6

LEMMA ResetReachesUserKeeps ==
  ASSUME SessionInv, NEW r \in Request, ResetReachesUser(r)
  PROVE  SessionInv'
<1> USE DEF SessionInv, ResetReachesUser, At, Goto, End, Idle, Local, tables, history, Live, Families!Live, Rows
<1>1. TypeOK'
  BY DEF DrawnNamesAreFresh, LocksAreHeld, TypeOK, Families!TypeOK, Handler, Place
<1>2. DrawnNamesAreFresh'
  BY DEF DrawnNamesAreFresh, LocksAreHeld, TypeOK, Families!TypeOK, Handler, Place
<1>3. LocksAreHeld'
  BY DEF LocksAreHeld, DrawnNamesAreFresh, TypeOK, Families!TypeOK, Handler, Place
<1>4. EndIsUnderWay'
  BY DEF EndIsUnderWay, LocksAreHeld, DrawnNamesAreFresh, TypeOK, Families!TypeOK, Handler, Place
<1>5. ChangesAreUses'
  BY DEF ChangesAreUses, LocksAreHeld, TypeOK, Families!TypeOK, Handler, Place
<1>6. AnsweredEndIsComplete'
  BY DEF AnsweredEndIsComplete, EndIsUnderWay, DrawnNamesAreFresh, LocksAreHeld, TypeOK, Families!TypeOK, Handler, Place
<1> QED BY <1>1, <1>2, <1>3, <1>4, <1>5, <1>6

LEMMA ResetDeliveredKeeps ==
  ASSUME SessionInv, NEW r \in Request, ResetDelivered(r)
  PROVE  SessionInv'
<1> USE DEF SessionInv, ResetDelivered, At, Goto, End, Idle, Local, tables, history, Live, Families!Live, Rows
<1>1. TypeOK'
  BY DEF DrawnNamesAreFresh, LocksAreHeld, TypeOK, Families!TypeOK, Handler, Place
<1>2. DrawnNamesAreFresh'
  BY DEF DrawnNamesAreFresh, LocksAreHeld, TypeOK, Families!TypeOK, Handler, Place
<1>3. LocksAreHeld'
  BY DEF LocksAreHeld, DrawnNamesAreFresh, TypeOK, Families!TypeOK, Handler, Place
<1>4. EndIsUnderWay'
  BY DEF EndIsUnderWay, LocksAreHeld, DrawnNamesAreFresh, TypeOK, Families!TypeOK, Handler, Place
<1>5. ChangesAreUses'
  BY DEF ChangesAreUses, LocksAreHeld, TypeOK, Families!TypeOK, Handler, Place
<1>6. AnsweredEndIsComplete'
  BY DEF AnsweredEndIsComplete, EndIsUnderWay, DrawnNamesAreFresh, LocksAreHeld, TypeOK, Families!TypeOK, Handler, Place
<1> QED BY <1>1, <1>2, <1>3, <1>4, <1>5, <1>6

LEMMA ResetUndeliveredKeeps ==
  ASSUME SessionInv, NEW r \in Request, ResetUndelivered(r)
  PROVE  SessionInv'
<1> USE DEF SessionInv, ResetUndelivered, At, Goto, End, Idle, Local, tables, history, Live, Families!Live, Rows
<1>1. TypeOK'
  BY DEF DrawnNamesAreFresh, LocksAreHeld, TypeOK, Families!TypeOK, Handler, Place
<1>2. DrawnNamesAreFresh'
  BY DEF DrawnNamesAreFresh, LocksAreHeld, TypeOK, Families!TypeOK, Handler, Place
<1>3. LocksAreHeld'
  BY DEF LocksAreHeld, DrawnNamesAreFresh, TypeOK, Families!TypeOK, Handler, Place
<1>4. EndIsUnderWay'
  BY DEF EndIsUnderWay, LocksAreHeld, DrawnNamesAreFresh, TypeOK, Families!TypeOK, Handler, Place
<1>5. ChangesAreUses'
  BY DEF ChangesAreUses, LocksAreHeld, TypeOK, Families!TypeOK, Handler, Place
<1>6. AnsweredEndIsComplete'
  BY DEF AnsweredEndIsComplete, EndIsUnderWay, DrawnNamesAreFresh, LocksAreHeld, TypeOK, Families!TypeOK, Handler, Place
<1> QED BY <1>1, <1>2, <1>3, <1>4, <1>5, <1>6

LEMMA ConfirmFindKeeps ==
  ASSUME SessionInv, NEW r \in Request, ConfirmFind(r)
  PROVE  SessionInv'
<1> USE DEF SessionInv, ConfirmFind, Local, At, Goto, End, Idle, Local, tables, history, Live, Families!Live, Rows
<1>1. TypeOK'
  BY DEF DrawnNamesAreFresh, LocksAreHeld, TypeOK, Families!TypeOK, Handler, Place
<1>2. DrawnNamesAreFresh'
  BY DEF DrawnNamesAreFresh, LocksAreHeld, TypeOK, Families!TypeOK, Handler, Place
<1>3. LocksAreHeld'
  BY DEF LocksAreHeld, DrawnNamesAreFresh, TypeOK, Families!TypeOK, Handler, Place
<1>4. EndIsUnderWay'
  BY DEF EndIsUnderWay, LocksAreHeld, DrawnNamesAreFresh, TypeOK, Families!TypeOK, Handler, Place
<1>5. ChangesAreUses'
  BY DEF ChangesAreUses, LocksAreHeld, TypeOK, Families!TypeOK, Handler, Place
<1>6. AnsweredEndIsComplete'
  BY DEF AnsweredEndIsComplete, EndIsUnderWay, DrawnNamesAreFresh, LocksAreHeld, TypeOK, Families!TypeOK, Handler, Place
<1> QED BY <1>1, <1>2, <1>3, <1>4, <1>5, <1>6

LEMMA ConfirmClaimKeeps ==
  ASSUME SessionInv, NEW r \in Request, ConfirmClaim(r)
  PROVE  SessionInv'
<1> USE DEF SessionInv, ConfirmClaim, UserLocked, At, Goto, End, Idle, Local, tables, history, Live, Families!Live, Rows
<1>1. TypeOK'
  BY DEF DrawnNamesAreFresh, LocksAreHeld, TypeOK, Families!TypeOK, Handler, Place
<1>2. DrawnNamesAreFresh'
  BY DEF DrawnNamesAreFresh, LocksAreHeld, TypeOK, Families!TypeOK, Handler, Place
<1>3. LocksAreHeld'
  BY DEF LocksAreHeld, DrawnNamesAreFresh, TypeOK, Families!TypeOK, Handler, Place
<1>4. EndIsUnderWay'
  BY DEF EndIsUnderWay, LocksAreHeld, DrawnNamesAreFresh, TypeOK, Families!TypeOK, Handler, Place
<1>5. ChangesAreUses'
  BY DEF ChangesAreUses, LocksAreHeld, TypeOK, Families!TypeOK, Handler, Place
<1>6. AnsweredEndIsComplete'
  BY DEF AnsweredEndIsComplete, EndIsUnderWay, DrawnNamesAreFresh, LocksAreHeld, TypeOK, Families!TypeOK, Handler, Place
<1> QED BY <1>1, <1>2, <1>3, <1>4, <1>5, <1>6

LEMMA ConfirmCommitKeeps ==
  ASSUME SessionInv, NEW r \in Request, ConfirmCommit(r)
  PROVE  SessionInv'
<1> USE DEF SessionInv, ConfirmCommit, ChangePassword, NextVersion, RevokeSeen, RevokeAll, Obtains, Holds, At, Goto, End, Idle, Local, tables, history, Live, Families!Live, Rows
<1>1. TypeOK'
  <2>1. req' \in [Request -> Handler]
    <3>1. req[r] \in Handler
      BY DEF TypeOK
    <3>2. [req[r] EXCEPT !.pc = "bumping", !.seen = {}] \in Handler
      BY <3>1, HandlerTurned DEF TypeOK, Place
    <3>3. QED BY <3>2 DEF TypeOK
  <2>2. Families!TypeOK'
    BY DEF TypeOK, Families!TypeOK
  <2>3. version' \in Nat /\ barred' \in Nat /\ ended' \subseteq Token
    BY DEF TypeOK, Families!TypeOK, Handler, Place
  <2>4. changes' \in [Reset -> Nat] /\ resets' \in [Reset -> {"none", "open", "used"}]
    BY DEF TypeOK, LocksAreHeld
  <2>5. QED
    BY <2>1, <2>2, <2>3, <2>4 DEF TypeOK
<1>2. DrawnNamesAreFresh'
  BY DEF DrawnNamesAreFresh, LocksAreHeld, TypeOK, Families!TypeOK, Handler, Place
<1>3. LocksAreHeld'
  BY DEF LocksAreHeld, DrawnNamesAreFresh, TypeOK, Families!TypeOK, Handler, Place
<1>4. EndIsUnderWay'
  BY DEF EndIsUnderWay, LocksAreHeld, DrawnNamesAreFresh, TypeOK, Families!TypeOK, Handler, Place
<1>5. ChangesAreUses'
  BY DEF ChangesAreUses, LocksAreHeld, TypeOK, Families!TypeOK, Handler, Place
<1>6. AnsweredEndIsComplete'
  BY DEF AnsweredEndIsComplete, EndIsUnderWay, DrawnNamesAreFresh, LocksAreHeld, TypeOK, Families!TypeOK, Handler, Place
<1> QED BY <1>1, <1>2, <1>3, <1>4, <1>5, <1>6

LEMMA ConfirmFileKeeps ==
  ASSUME SessionInv, NEW r \in Request, ConfirmFile(r)
  PROVE  SessionInv'
<1> USE DEF SessionInv, ConfirmFile, ChangePassword, NextVersion, RevokeAll, Answer, At, Goto, End, Idle, Local, tables, history, Live, Families!Live, Rows
<1>1. TypeOK'
  <2>1. req' \in [Request -> Handler]
    BY DEF TypeOK, Families!TypeOK, Handler, Place
  <2>2. Families!TypeOK'
    BY DEF TypeOK, Families!TypeOK
  <2>3. version' \in Nat /\ barred' \in Nat /\ ended' \subseteq Token
    BY DEF TypeOK, Families!TypeOK, Handler, Place
  <2>4. changes' \in [Reset -> Nat] /\ resets' \in [Reset -> {"none", "open", "used"}]
    BY DEF TypeOK, LocksAreHeld
  <2>5. QED
    BY <2>1, <2>2, <2>3, <2>4 DEF TypeOK
<1>2. DrawnNamesAreFresh'
  BY DEF DrawnNamesAreFresh, LocksAreHeld, TypeOK, Families!TypeOK, Handler, Place
<1>3. LocksAreHeld'
  BY DEF LocksAreHeld, DrawnNamesAreFresh, TypeOK, Families!TypeOK, Handler, Place
<1>4. EndIsUnderWay'
  BY DEF EndIsUnderWay, LocksAreHeld, DrawnNamesAreFresh, TypeOK, Families!TypeOK, Handler, Place
<1>5. ChangesAreUses'
  BY DEF ChangesAreUses, LocksAreHeld, TypeOK, Families!TypeOK, Handler, Place
<1>6. AnsweredEndIsComplete'
  BY DEF AnsweredEndIsComplete, EndIsUnderWay, DrawnNamesAreFresh, LocksAreHeld, TypeOK, Families!TypeOK, Handler, Place
<1> QED BY <1>1, <1>2, <1>3, <1>4, <1>5, <1>6

LEMMA DieKeeps ==
  ASSUME SessionInv, NEW r \in Request, Die(r)
  PROVE  SessionInv'
<1> USE DEF SessionInv, Die, At, Goto, End, Idle, Local, tables, history, Live, Families!Live, Rows
<1>1. TypeOK'
  BY DEF DrawnNamesAreFresh, LocksAreHeld, TypeOK, Families!TypeOK, Handler, Place
<1>2. DrawnNamesAreFresh'
  BY DEF DrawnNamesAreFresh, LocksAreHeld, TypeOK, Families!TypeOK, Handler, Place
<1>3. LocksAreHeld'
  BY DEF LocksAreHeld, DrawnNamesAreFresh, TypeOK, Families!TypeOK, Handler, Place
<1>4. EndIsUnderWay'
  BY DEF EndIsUnderWay, LocksAreHeld, DrawnNamesAreFresh, TypeOK, Families!TypeOK, Handler, Place
<1>5. ChangesAreUses'
  BY DEF ChangesAreUses, LocksAreHeld, TypeOK, Families!TypeOK, Handler, Place
<1>6. AnsweredEndIsComplete'
  BY DEF AnsweredEndIsComplete, EndIsUnderWay, DrawnNamesAreFresh, LocksAreHeld, TypeOK, Families!TypeOK, Handler, Place
<1> QED BY <1>1, <1>2, <1>3, <1>4, <1>5, <1>6


\* The expiry of a token is no more than a time that passes.
LEMMA ExpireKeeps ==
  ASSUME SessionInv, NEW k \in Token \cup Reset, Expire(k)
  PROVE  SessionInv'
BY DEF SessionInv, Expire, tables, history, TypeOK, Families!TypeOK, DrawnNamesAreFresh,
       LocksAreHeld, EndIsUnderWay, ChangesAreUses, AnsweredEndIsComplete, At, Live,
       Families!Live, Rows

LEMMA StutterKeeps == SessionInv /\ UNCHANGED vars => SessionInv'
BY DEF SessionInv, vars, tables, history, TypeOK, Families!TypeOK, DrawnNamesAreFresh,
       LocksAreHeld, EndIsUnderWay, ChangesAreUses, AnsweredEndIsComplete, At, Live,
       Families!Live, Rows

LEMMA InvInit == Init => SessionInv
<1> SUFFICES ASSUME Init PROVE SessionInv
  OBVIOUS
<1> USE DEF Init, Families!Init, Idle, Local
<1>1. Idle \in Handler
  BY DEF Handler, Place
<1>2. TypeOK
  BY <1>1 DEF TypeOK, Families!TypeOK
<1>3. DrawnNamesAreFresh /\ LocksAreHeld
  BY DEF DrawnNamesAreFresh, LocksAreHeld, At
<1>4. EndIsUnderWay
  <2>1. \A r \in Request : req[r].pc = "idle" /\ req[r].sv = 0 /\ req[r].before = {}
    OBVIOUS
  <2>2. ASSUME NEW r \in Request
        PROVE  /\ req[r].before \subseteq Rows
               /\ req[r].sv <= version
               /\ req[r].before \cap Live = {}
    BY <2>1
  <2>3. QED BY <2>1, <2>2 DEF EndIsUnderWay, At
<1>5. ChangesAreUses /\ AnsweredEndIsComplete
  BY DEF ChangesAreUses, AnsweredEndIsComplete
<1>6. QED BY <1>2, <1>3, <1>4, <1>5 DEF SessionInv

LEMMA InvNext == SessionInv /\ [Next]_vars => SessionInv'
<1> SUFFICES ASSUME SessionInv, [Next]_vars PROVE SessionInv'
  OBVIOUS
<1>1. ASSUME NEW r \in Request, Arrive(r) PROVE SessionInv'
  BY <1>1, RegisterLookupKeeps, LoginReadKeeps, RefreshFindKeeps, RefreshFileKeeps,
     LogoutAuthKeeps, ResetRequestKeeps, ConfirmFindKeeps DEF Arrive
<1>2. ASSUME NEW r \in Request, Queue(r) PROVE SessionInv'
  BY <1>2, RotateLockKeeps, ReuseRevokeKeeps, LogoutRevokeKeeps, BumpKeeps, ConfirmClaimKeeps,
     ConfirmCommitKeeps DEF Queue
<1>3. ASSUME NEW r \in Request, Proceed(r) PROVE SessionInv'
  BY <1>3, RegisterInsertKeeps, IssueSessionKeeps, RotateReadUserKeeps, RotateCommitKeeps,
     LogoutScanKeeps, LogoutFileKeeps, ResetDeliveredKeeps, ResetUndeliveredKeeps,
     ConfirmFileKeeps DEF Proceed
<1>4. CASE UNCHANGED vars
  BY <1>4, StutterKeeps
<1>5. QED
  BY <1>1, <1>2, <1>3, <1>4, ResetReachesUserKeeps, DieKeeps, ExpireKeeps DEF Next

\* What tokens, requests in flight and row locks say of each other is an
\* inductive invariant (authRoutes, rotateRefreshToken and the statements it
\* races with).
THEOREM SessionsInductive == Spec => []SessionInv
<1>1. Init => SessionInv
  BY InvInit
<1>2. SessionInv /\ [Next]_vars => SessionInv'
  BY InvNext
<1>3. QED BY <1>1, <1>2, PTL DEF Spec

\* Every column keeps its type.
THEOREM TypeCorrect == Spec => []TypeOK
<1>1. SessionInv => TypeOK
  BY DEF SessionInv
<1>2. QED BY <1>1, SessionsInductive, PTL

\* What an answered logout, reset or detected reuse was meant to end is
\* revoked, rotated tokens included, and its access tokens do not pass.
THEOREM EndsAreComplete == Spec => []AnsweredEndIsComplete
<1>1. SessionInv => AnsweredEndIsComplete
  BY DEF SessionInv
<1>2. QED BY <1>1, SessionsInductive, PTL

\* Over PostgreSQL a reset token changes the password once
\* (consumeResetTokenAndChangePassword).
THEOREM ResetsChangeOnce == Spec => []ResetChangesOnce
<1>1. SessionInv => ResetChangesOnce
  BY DEF SessionInv, ChangesAreUses, ResetChangesOnce
<1>2. QED BY <1>1, SessionsInductive, PTL

-----------------------------------------------------------------------------
(* Refinement. *)

LEMMA InitMaps == Init => Families!Init
BY DEF Init

\* An inserted row is an Open.
LEMMA InsertMaps ==
  ASSUME NEW n \in Token, state[n] = "none", InsertFirst(n)
  PROVE  Families!Next
BY DEF InsertFirst, Families!Next, Families!Open

\* A replaced row is a Rotate, because it is live.
LEMMA ReplaceMaps ==
  ASSUME NEW t \in Token, NEW n \in Token, state[t] = "live", state[n] = "none", Replace(t, n)
  PROVE  Families!Next
BY DEF Replace, Families!Next, Families!Rotate, Families!Live

\* Revoked rows are a Revoke, because they are live.
LEMMA RevokeMaps ==
  ASSUME NEW S \in SUBSET Live, RevokeAll(S)
  PROVE  Families!Next
<1>1. S \in SUBSET Token
  BY DEF Live, Families!Live
<1>2. Families!Revoke(S)
  BY DEF RevokeAll, Families!Revoke, Live
<1>3. QED BY <1>1, <1>2 DEF Families!Next

LEMMA RequestMaps ==
  ASSUME SessionInv, NEW r \in Request, Arrive(r) \/ Queue(r) \/ Proceed(r)
  PROVE  Families!Next \/ UNCHANGED <<state, family>>
<1> USE DEF tables, history
<1>1. CASE IssueSession(r)
  <2>1. req[r].new \in Token /\ state[req[r].new] = "none"
    BY <1>1 DEF SessionInv, DrawnNamesAreFresh, IssueSession, At, TypeOK, Handler
  <2>2. QED BY <1>1, <2>1, InsertMaps DEF IssueSession
<1>2. CASE RotateCommit(r)
  <2>1. /\ req[r].new \in Token /\ state[req[r].new] = "none"
        /\ req[r].key \in Token /\ state[req[r].key] = "live"
    BY <1>2 DEF SessionInv, DrawnNamesAreFresh, LocksAreHeld, Rows, RotateCommit, At, TypeOK, Handler
  <2>2. QED BY <1>2, <2>1, ReplaceMaps DEF RotateCommit
<1>3. CASE RefreshFile(r)
  <2>1. NewToken \in Token /\ state[NewToken] = "none"
    BY <1>3 DEF RefreshFile, NewToken, Fresh
  <2>2. PICK t \in Rows \ expired :
          \/ /\ state[t] = "revoked"
             /\ RevokeAll(Live \cap Kin(t))
             /\ ended' = ended \cup Kin(t)
             /\ UNCHANGED access
          \/ /\ state[t] = "live"
             /\ Replace(t, NewToken)
             /\ access' = TRUE
             /\ UNCHANGED ended
    BY <1>3 DEF RefreshFile
  <2>3. CASE RevokeAll(Live \cap Kin(t))
    BY <2>3, RevokeMaps
  <2>4. CASE state[t] = "live" /\ Replace(t, NewToken)
    BY <2>1, <2>4, ReplaceMaps DEF Rows
  <2>5. QED BY <2>2, <2>3, <2>4
<1>4. CASE ReuseRevoke(r) \/ LogoutRevoke(r) \/ ConfirmCommit(r)
  BY <1>4, RevokeMaps DEF ReuseRevoke, LogoutRevoke, ConfirmCommit, RevokeSeen
<1>5. CASE LogoutFile(r) \/ ConfirmFile(r)
  BY <1>5, RevokeMaps DEF LogoutFile, ConfirmFile
<1>6. CASE Arrive(r) /\ ~RefreshFile(r)
  BY <1>6 DEF Arrive, RegisterLookup, LoginRead, RefreshFind, LogoutAuth, ResetRequest, ConfirmFind
<1>7. CASE RotateLock(r) \/ Bump(r) \/ ConfirmClaim(r)
  BY <1>7 DEF RotateLock, Bump, ConfirmClaim
<1>8. CASE \/ RegisterInsert(r) \/ RotateReadUser(r) \/ LogoutScan(r)
           \/ ResetDelivered(r) \/ ResetUndelivered(r)
  BY <1>8 DEF RegisterInsert, RotateReadUser, LogoutScan, ResetDelivered, ResetUndelivered
<1>9. QED
  BY <1>1, <1>2, <1>3, <1>4, <1>5, <1>6, <1>7, <1>8 DEF Arrive, Queue, Proceed

LEMMA StepMaps ==
  SessionInv /\ [Next]_vars => [Families!Next]_<<state, family>>
<1> SUFFICES ASSUME SessionInv, [Next]_vars
             PROVE  Families!Next \/ UNCHANGED <<state, family>>
  OBVIOUS
<1>1. CASE \E r \in Request : ResetReachesUser(r) \/ Die(r)
  BY <1>1 DEF ResetReachesUser, Die, tables
<1>2. CASE \E k \in Token \cup Reset : Expire(k)
  BY <1>2 DEF Expire, tables
<1>3. CASE UNCHANGED vars
  BY <1>3 DEF vars, tables
<1>4. QED BY <1>1, <1>2, <1>3, RequestMaps DEF Next

\* Sessions implements TokenFamilies: whatever requests race for it, a token
\* works once, for one successor, and an ended family stays ended.
THEOREM SessionsImplementFamilies == Spec => ImplementsFamilies
<1>1. Init => Families!Init
  BY InitMaps
<1>2. SessionInv /\ [Next]_vars => [Families!Next]_<<state, family>>
  BY StepMaps
<1>3. QED
  BY <1>1, <1>2, SessionsInductive, PTL DEF Spec, ImplementsFamilies, Families!Spec

Promise == INSTANCE TokenFamiliesProofs

\* Of all tokens of a session one at most is live, whatever requests race.
THEOREM SessionsHaveOneLiveToken == Spec => []Families!OneLive
<1>1. Init => Promise!FamiliesInv
  BY Promise!InitInv, InitMaps DEF Families!Init, Promise!Init
<1>2. Families!Next <=> Promise!Next
  BY DEF Families!Next, Families!Open, Families!Rotate, Families!Revoke, Families!Live,
         Promise!Next, Promise!Open, Promise!Rotate, Promise!Revoke, Promise!Live
<1>3. SessionInv /\ Promise!FamiliesInv /\ [Next]_vars => Promise!FamiliesInv'
  BY <1>2, StepMaps, Promise!NextInv DEF Promise!vars
<1>4. Promise!FamiliesInv => Families!OneLive
  BY DEF Promise!FamiliesInv, Promise!OneLive, Promise!Live, Families!OneLive, Families!Live
<1>5. QED
  BY <1>1, <1>3, <1>4, SessionsInductive, PTL DEF Spec

-----------------------------------------------------------------------------
(* Waiting. *)

\* A refresh token that has been revoked stays so.
LEMMA RevokedStays ==
  ASSUME SessionInv, [Next]_vars, NEW t \in Token, state[t] = "revoked"
  PROVE  state'[t] = "revoked"
<1>1. CASE UNCHANGED state
  BY <1>1
<1>2. CASE Families!Next
  BY <1>2 DEF Families!Next, Families!Open, Families!Rotate, Families!Revoke, Families!Live,
              SessionInv, TypeOK, Families!TypeOK
<1>3. QED BY <1>1, <1>2, StepMaps

\* Who is about to revoke a family was so before, or has just locked the
\* revoked row of a token and found live ones.
LEMMA ReusesBeginWithLock ==
  ASSUME SessionInv, [Next]_vars, NEW r \in Request, At(r, "reusing")'
  PROVE  \/ req'[r] = req[r]
         \/ /\ UNCHANGED state
            /\ req'[r].key = req[r].key /\ req[r].key \in Token /\ state[req[r].key] = "revoked"
            /\ req'[r].seen \subseteq Live
<1> USE DEF At, Local, Idle
<1>1. /\ req \in [Request -> Handler]
      /\ \A q \in Request : At(q, "found") => req[q].key \in Token
  BY DEF SessionInv, TypeOK, LocksAreHeld, Rows
<1>2. /\ \A q \in Request, label \in Place \ {"reusing"} : Goto(q, label) => req'[r] = req[r]
      /\ \A q \in Request : End(q) => req'[r] = req[r]
  <2>1. ASSUME NEW q \in Request, NEW label \in Place \ {"reusing"}, Goto(q, label)
        PROVE  req'[r] = req[r]
    BY <1>1, <2>1 DEF Goto, Handler
  <2>2. ASSUME NEW q \in Request, End(q)
        PROVE  req'[r] = req[r]
    BY <1>1, <2>2 DEF End
  <2>3. QED BY <2>1, <2>2
<1>3. ASSUME NEW q \in Request, Arrive(q)
      PROVE  req'[r] = req[r]
  BY <1>1, <1>3 DEF Arrive, RegisterLookup, LoginRead, RefreshFind, RefreshFile, LogoutAuth,
                    ResetRequest, ConfirmFind
<1>4. ASSUME NEW q \in Request, Proceed(q)
      PROVE  req'[r] = req[r]
  <2>1. CASE RegisterInsert(q)
    <3>1. End(q) \/ Goto(q, "issuing")
      BY <2>1 DEF RegisterInsert
    <3>2. QED BY <1>2, <3>1 DEF Place
  <2>2. CASE IssueSession(q)
    BY <1>1, <2>2 DEF IssueSession, Answer, Goto, End
  <2>3. CASE RotateReadUser(q)
    BY <1>1, <2>3 DEF RotateReadUser, Answer, Goto, End
  <2>4. CASE RotateCommit(q)
    BY <1>1, <2>4 DEF RotateCommit, Answer, Goto, End
  <2>5. CASE LogoutScan(q)
    BY <1>1, <2>5 DEF LogoutScan, Answer, Goto, End
  <2>6. CASE LogoutFile(q)
    BY <1>1, <2>6 DEF LogoutFile, Answer, Goto, End
  <2>7. CASE ResetDelivered(q)
    BY <1>1, <2>7 DEF ResetDelivered, Answer, Goto, End
  <2>8. CASE ResetUndelivered(q)
    BY <1>1, <2>8 DEF ResetUndelivered, Answer, Goto, End
  <2>9. CASE ConfirmFile(q)
    BY <1>1, <2>9 DEF ConfirmFile, Answer, Goto, End
  <2> QED BY <1>4, <2>1, <2>2, <2>3, <2>4, <2>5, <2>6, <2>7, <2>8, <2>9 DEF Proceed
<1>5. ASSUME NEW q \in Request, Queue(q), ~RotateLock(q)
      PROVE  req'[r] = req[r]
  <2>1. CASE ReuseRevoke(q)
    BY <1>1, <2>1 DEF ReuseRevoke, Answer, Goto, End
  <2>2. CASE LogoutRevoke(q)
    BY <1>1, <2>2 DEF LogoutRevoke, Answer, Goto, End
  <2>3. CASE Bump(q)
    BY <1>1, <2>3 DEF Bump, Answer, Goto, End
  <2>4. CASE ConfirmClaim(q)
    <3>1. req' = [req EXCEPT ![q].pc = "changing", ![q].seen = Live] \/ End(q)
      BY <2>4 DEF ConfirmClaim
    <3>2. CASE req' = [req EXCEPT ![q].pc = "changing", ![q].seen = Live]
      BY <1>1, <3>2 DEF Handler
    <3>3. QED BY <1>2, <3>1, <3>2
  <2>5. CASE ConfirmCommit(q)
    BY <1>1, <2>5 DEF ConfirmCommit, Answer, Goto, End
  <2> QED BY <1>5, <2>1, <2>2, <2>3, <2>4, <2>5 DEF Queue
<1>6. ASSUME NEW q \in Request, RotateLock(q)
      PROVE  \/ req'[r] = req[r]
             \/ /\ UNCHANGED state
                /\ req'[r].key = req[r].key /\ req[r].key \in Token /\ state[req[r].key] = "revoked"
                /\ req'[r].seen \subseteq Live
  <2>1. CASE q # r
    BY <1>1, <1>6, <2>1 DEF RotateLock, Goto, End
  <2>2. CASE q = r
    <3>1. At(r, "found") /\ UNCHANGED state
      BY <1>6, <2>2 DEF RotateLock, tables
    <3>2. state[req[r].key] = "revoked"
      <4>1. state[req[r].key] # "revoked" => Goto(r, "rotating") \/ End(r)
        BY <1>6, <2>2 DEF RotateLock
      <4>2. ~Goto(r, "rotating") /\ ~End(r)
        BY <1>2, <3>1 DEF Place
      <4>3. QED BY <4>1, <4>2
    <3>3. req' = [req EXCEPT ![r].pc = "reusing", ![r].seen = Live \cap Kin(req[r].key)]
      BY <1>6, <2>2, <3>2 DEF RotateLock
    <3>4. QED BY <1>1, <3>1, <3>2, <3>3 DEF Handler
  <2>3. QED BY <2>1, <2>2
<1>7. CASE \E q \in Request : ResetReachesUser(q) \/ Die(q)
  BY <1>1, <1>7 DEF ResetReachesUser, Die, End
<1>8. CASE \E k \in Token \cup Reset : Expire(k)
  BY <1>8 DEF Expire
<1>9. CASE UNCHANGED vars
  BY <1>9 DEF vars
<1>10. QED BY <1>3, <1>4, <1>5, <1>6, <1>7, <1>8, <1>9 DEF Next

LEMMA ReusesInit == Init => ReusesAreOrdered
<1> SUFFICES ASSUME Init PROVE ReusesAreOrdered
  OBVIOUS
<1>1. Idle.pc = "idle"
  BY DEF Idle, Local
<1>2. \A r \in Request : req[r] = Idle
  BY DEF Init
<1>3. \A r \in Request : ~At(r, "reusing")
  BY <1>1, <1>2 DEF At
<1>4. QED BY <1>3 DEF ReusesAreOrdered

\* A circle of reuses cannot be closed: the one that closes it would wait for
\* a row that is live, and the others hold rows that are not.
LEMMA ReusesNext == SessionInv /\ ReusesAreOrdered /\ [Next]_vars => ReusesAreOrdered'
<1> SUFFICES ASSUME SessionInv, ReusesAreOrdered, [Next]_vars PROVE ReusesAreOrdered'
  OBVIOUS
<1>1. \A r \in Request : At(r, "reusing") => req[r].key \in Token
  BY DEF SessionInv, LocksAreHeld, Rows, At
<1>2. ASSUME NEW r \in Request, At(r, "reusing")'
      PROVE  req'[r].key \in Token /\ state'[req'[r].key] = "revoked"
  <2>1. CASE req'[r] = req[r]
    BY <1>1, <1>2, <2>1, RevokedStays DEF ReusesAreOrdered, At
  <2>2. CASE req'[r] # req[r]
    BY <1>2, <2>2, ReusesBeginWithLock
  <2>3. QED BY <2>1, <2>2
<1>3. ASSUME NEW S \in SUBSET Request, S # {}, \A r \in S : At(r, "reusing")'
      PROVE  \E r \in S : \A q \in S : req'[q].key \notin req'[r].seen
  <2>1. CASE \A r \in S : req'[r] = req[r]
    <3>1. \A r \in S : At(r, "reusing")
      BY <1>3, <2>1 DEF At
    <3>2. PICK r \in S : \A q \in S : req[q].key \notin req[r].seen
      BY <1>3, <3>1 DEF ReusesAreOrdered
    <3>3. QED BY <2>1, <3>2
  <2>2. CASE \E r \in S : req'[r] # req[r]
    <3>1. PICK r \in S : req'[r] # req[r]
      BY <2>2
    <3>2. UNCHANGED state /\ req'[r].seen \subseteq Live
      BY <1>3, <3>1, ReusesBeginWithLock
    <3>3. \A q \in S : state'[req'[q].key] = "revoked"
      BY <1>2, <1>3
    <3>4. \A q \in S : req'[q].key \notin req'[r].seen
      BY <3>2, <3>3 DEF Live, Families!Live
    <3>5. QED BY <3>4
  <2>3. QED BY <2>1, <2>2
<1>4. QED BY <1>2, <1>3 DEF ReusesAreOrdered

\* Of any requests one waits for none of the others: a rotation, which waits
\* for nobody; or else a reuse, of which one at least waits for no other; or
\* else a confirmation that holds the user's row; or else any.
LEMMA OneIsFree ==
  ASSUME ReusesAreOrdered, NEW S \in SUBSET Request, S # {}
  PROVE  \E r \in S : \A q \in S : ~WaitsFor(r, q)
<1> DEFINE Reusing == {r \in S : At(r, "reusing")}
<1>1. CASE \E r \in S : req[r].pc \in {"rotating", "signing"}
  BY <1>1 DEF WaitsFor, At
<1>2. CASE /\ \A r \in S : req[r].pc \notin {"rotating", "signing"}
           /\ Reusing # {}
  <2>1. PICK r \in Reusing : \A q \in Reusing : req[q].key \notin req[r].seen
    BY <1>2 DEF ReusesAreOrdered
  <2>2. ASSUME NEW q \in S
        PROVE  ~WaitsFor(r, q)
    BY <1>2, <2>1 DEF WaitsFor, Holds, At
  <2>3. QED BY <2>2
<1>3. CASE /\ \A r \in S : req[r].pc \notin {"rotating", "signing", "reusing"}
           /\ \E r \in S : At(r, "changing")
  BY <1>3 DEF WaitsFor, Holds, At
<1>4. CASE \A r \in S : req[r].pc \notin {"rotating", "signing", "reusing", "changing"}
  BY <1>4 DEF WaitsFor, Holds, At
<1>5. QED BY <1>1, <1>2, <1>3, <1>4 DEF At

\* However many reuses of refresh tokens are detected at the same time, of any
\* of them one waits for no row that another one holds (rotateRefreshToken).
THEOREM ReusesOrdered == Spec => []ReusesAreOrdered
<1>1. Init => ReusesAreOrdered
  BY ReusesInit
<1>2. SessionInv /\ ReusesAreOrdered /\ [Next]_vars => ReusesAreOrdered'
  BY ReusesNext
<1>3. QED BY <1>1, <1>2, SessionsInductive, PTL DEF Spec

\* However many requests rotate, detect a reuse, log out or confirm a reset at
\* the same time, no two or more of them wait for each other's rows in a
\* circle (rotateRefreshToken, revokeUserRefreshTokens,
\* consumeResetTokenAndChangePassword, bumpUserSessionVersion).
THEOREM NobodyWaitsInACircle == Spec => []NoCircularWait
<1>1. ReusesAreOrdered => NoCircularWait
  BY OneIsFree DEF NoCircularWait
<1>2. QED BY <1>1, ReusesOrdered, PTL

\* No lock that another transaction holds is in the way of r's next step.
Unobstructed(r) ==
  /\ At(r, "found") => ~Locked(req[r].key)
  /\ req[r].pc \in {"reusing", "revoking", "changing"} => Obtains(r, req[r].seen)
  /\ At(r, "bumping") => ~UserLocked
  /\ At(r, "hashing") => ~UserLocked /\ ~ResetLocked(req[r].key)
Busy == {r \in Request : ~At(r, "idle")}

\* As long as requests are being handled, one of them finds every lock free
\* that its next statement needs.
THEOREM SomebodyGoesOn == Spec => [](Busy # {} => \E r \in Busy : Unobstructed(r))
<1>1. ASSUME ReusesAreOrdered, Busy # {}
      PROVE  \E r \in Busy : Unobstructed(r)
  <2>1. PICK r \in Busy : \A q \in Busy : ~WaitsFor(r, q)
    BY <1>1, OneIsFree DEF Busy
  <2>2. ASSUME NEW q \in Request
        PROVE  ~WaitsFor(r, q)
    BY <2>1 DEF Busy, WaitsFor, Holds, At
  <2>3. Unobstructed(r)
    BY <2>1, <2>2 DEF Busy, Unobstructed, WaitsFor, Locked, Obtains, UserLocked, ResetLocked, Holds, At
  <2>4. QED BY <2>1, <2>3
<1>2. ReusesAreOrdered => (Busy # {} => \E r \in Busy : Unobstructed(r))
  BY <1>1
<1>3. QED BY <1>2, ReusesOrdered, PTL
=============================================================================
