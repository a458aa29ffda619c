------------------------ MODULE SessionRegistryProofs ------------------------
(***************************************************************************)
(* Proofs about SessionRegistry, for every value of its constants.         *)
(*                                                                         *)
(* The inductive invariant has four parts: TInv (types, and every handler  *)
(* that acts for a user has one), OwnInv (a session that has a user is     *)
(* registered, and whom it may come to stand for), ReachInv (a retired sid *)
(* that can still be used is on its way to the revoked set) and DrawnInv   *)
(* (only a sid that was drawn is retired).  The registry implements        *)
(* SessionLifecycle under the first and the last.                          *)
(***************************************************************************)
EXTENDS SessionRegistry, TLAPS

USE ConstantsAssumption

(* The handlers that act for a user on his session: both are known, and the *)
(* handler runs in the process that holds the session.                      *)
ActorPCs == LoginPCs \cup {"logout", "reauth", "erase", "setPassword", "keepCurrent"}

HandlerOK(w, h) ==
    /\ h \in Handler
    /\ h.pc \in ActorPCs =>
          h.u \in Users /\ h.b \in Browsers /\ ProcOf[w] = Home[h.b]

ReqOK == /\ req \in [Workers -> Handler]
         /\ \A w \in Workers : HandlerOK(w, req[w])

TInv == TypeOK /\ ReqOK

LEMMA IdleType == Idle \in Handler /\ Idle.pc = "idle" /\ Idle.todo = {}
BY DEF Idle, Handler, PCs, LoginPCs

LEMMA EmptyType == EmptySession \in SessionObject
BY DEF EmptySession, SessionObject

(* Moving a handler on, or ending it, keeps it a handler.                   *)
LEMMA HandlerUpdateType ==
    ASSUME ReqOK, NEW w \in Workers, NEW h, HandlerOK(w, h),
           req' = [req EXCEPT ![w] = h]
    PROVE  ReqOK'
BY DEF ReqOK, HandlerOK

LEMMA GotoType ==
    ASSUME ReqOK, NEW w \in Workers, NEW pc \in PCs,
           pc \in ActorPCs => req[w].pc \in ActorPCs, Goto(w, pc)
    PROVE  ReqOK'
<1>1. HandlerOK(w, [req[w] EXCEPT !.pc = pc])
  BY DEF ReqOK, HandlerOK, Handler
<1>2. QED
  BY <1>1, HandlerUpdateType DEF Goto

LEMMA FinishType ==
    ASSUME ReqOK, NEW w \in Workers, Finish(w)
    PROVE  ReqOK'
<1>1. HandlerOK(w, Idle)
  BY IdleType DEF HandlerOK, ActorPCs, LoginPCs
<1>2. QED
  BY <1>1, HandlerUpdateType DEF Finish

(* The session object that a step leaves behind when it empties it.         *)
Cleared(b) == [EmptySession EXCEPT !.crossed = SignInsCross(b)]

LEMMA ClearedFields ==
    ASSUME NEW b
    PROVE  /\ Cleared(b) \in SessionObject
           /\ Cleared(b).user = None /\ Cleared(b).sid = None /\ Cleared(b).pending = None
           /\ Cleared(b).crossed = SignInsCross(b)
<1>1. SignInsCross(b) \in BOOLEAN
  BY DEF SignInsCross
<1>2. QED
  BY <1>1, EmptyType DEF Cleared, EmptySession, SessionObject

LEMMA ClearType ==
    ASSUME session \in [Browsers -> SessionObject], NEW b, ClearSession(b)
    PROVE  session' \in [Browsers -> SessionObject]
<1>1. session' = [session EXCEPT ![b] = Cleared(b)]
  BY DEF ClearSession, Cleared
<1>2. QED
  BY <1>1, ClearedFields

LEMMA ClearEmpties ==
    ASSUME session \in [Browsers -> SessionObject], NEW c, ClearSession(c)
    PROVE  \A b \in Browsers : session'[b] = session[b] \/ session'[b] = Cleared(b)
<1>1. session' = [session EXCEPT ![c] = Cleared(c)]
  BY DEF ClearSession, Cleared
<1>2. QED
  BY <1>1

LEMMA SessionUpdateType ==
    ASSUME session \in [Browsers -> SessionObject], NEW b, NEW x,
           b \in Browsers => x \in SessionObject
    PROVE  [session EXCEPT ![b] = x] \in [Browsers -> SessionObject]
OBVIOUS

(* The ways a session object changes without being emptied.                 *)
LEMMA ObjectType ==
    ASSUME NEW o \in SessionObject, NEW u \in Users \cup {None},
           NEW s \in Sids \cup {None}, NEW v \in 0..MaxPassword
    PROVE  /\ [o EXCEPT !.pending = u, !.ver = v] \in SessionObject
           /\ [o EXCEPT !.user = u, !.ver = v] \in SessionObject
           /\ [o EXCEPT !.pending = u] \in SessionObject
           /\ [o EXCEPT !.sid = s] \in SessionObject
BY DEF SessionObject

LEMMA VersionType ==
    ASSUME NEW o \in SessionObject, NEW v \in 0..MaxPassword
    PROVE  [o EXCEPT !.ver = v] \in SessionObject
BY DEF SessionObject

LEMMA ObjectFields ==
    ASSUME session \in [Browsers -> SessionObject], NEW b \in Browsers
    PROVE  /\ session[b].user \in Users \cup {None} /\ session[b].sid \in Sids \cup {None}
           /\ session[b].pending \in Users \cup {None} /\ session[b].ver \in 0..MaxPassword
BY DEF SessionObject

LEMMA HandlerFields ==
    ASSUME req \in [Workers -> Handler], NEW w \in Workers
    PROVE  /\ req[w].pc \in PCs /\ req[w].b \in Browsers \cup {None}
           /\ req[w].u \in Users \cup {None} /\ req[w].sid \in Sids \cup {None}
           /\ req[w].ver \in 0..MaxPassword /\ req[w].todo \in SUBSET Sids
BY DEF Handler

(* The ways a handler's record changes besides its place.                   *)
LEMMA HandlerSid ==
    ASSUME NEW w \in Workers, NEW h, HandlerOK(w, h), NEW pc \in PCs,
           pc \in ActorPCs => h.pc \in ActorPCs, NEW s \in Sids \cup {None}
    PROVE  HandlerOK(w, [h EXCEPT !.pc = pc, !.sid = s])
BY DEF HandlerOK, Handler

LEMMA HandlerTodo ==
    ASSUME NEW w \in Workers, NEW h, HandlerOK(w, h), NEW pc \in PCs,
           pc \in ActorPCs => h.pc \in ActorPCs, NEW t \in SUBSET Sids
    PROVE  HandlerOK(w, [h EXCEPT !.pc = pc, !.todo = t])
BY DEF HandlerOK, Handler

LEMMA HandlerVer ==
    ASSUME NEW w \in Workers, NEW h, HandlerOK(w, h), NEW pc \in PCs,
           pc \in ActorPCs => h.pc \in ActorPCs, NEW v \in 0..MaxPassword
    PROVE  HandlerOK(w, [h EXCEPT !.pc = pc, !.ver = v])
BY DEF HandlerOK, Handler

LEMMA HandlerDrop ==
    ASSUME NEW w \in Workers, NEW h, HandlerOK(w, h), NEW pc \in PCs,
           pc \in ActorPCs => h.pc \in ActorPCs
    PROVE  HandlerOK(w, [h EXCEPT !.pc = pc, !.drop = TRUE])
BY DEF HandlerOK, Handler

LEMMA StartType ==
    ASSUME NEW w \in Workers, NEW pc \in PCs, NEW b \in Browsers \cup {None},
           NEW u \in Users \cup {None},
           pc \in ActorPCs => u \in Users /\ b \in Browsers /\ ProcOf[w] = Home[b]
    PROVE  HandlerOK(w, Start(pc, b, u))
BY IdleType DEF Start, HandlerOK, Handler

LEMMA HandlerFieldType ==
    ASSUME NEW w \in Workers, NEW h, HandlerOK(w, h)
    PROVE  /\ \A s \in Sids \cup {None} : HandlerOK(w, [h EXCEPT !.sid = s])
           /\ \A v \in 0..MaxPassword : HandlerOK(w, [h EXCEPT !.ver = v])
           /\ \A t \in SUBSET Sids : HandlerOK(w, [h EXCEPT !.todo = t])
BY DEF HandlerOK, Handler

LEMMA RetireType ==
    ASSUME NEW sids \in SUBSET Sids, revoked \subseteq Sids,
           notify \in [Procs -> SUBSET Sids], Retire(sids)
    PROVE  revoked' \subseteq Sids /\ notify' \in [Procs -> SUBSET Sids]
BY DEF Retire, Deafness

LEMMA AdmitType ==
    ASSUME TInv, NEW w \in Workers, NEW b \in Browsers, NEW pc \in PCs,
           NEW sid \in Sids \cup {None}, Admit(w, b, pc, sid)
    PROVE  TInv'
<1>1. session[b].user \in Users /\ ProcOf[w] = Home[b]
  BY ObjectFields DEF Admit, Live, CanServe, TInv, TypeOK
<1> DEFINE h == [Start(pc, b, session[b].user) EXCEPT !.sid = sid]
<1>2. HandlerOK(w, h)
  BY <1>1, StartType, HandlerFieldType
<1>3. req' = [req EXCEPT ![w] = h]
  BY DEF Admit
<1> HIDE DEF h
<1>4. ReqOK'
  BY <1>2, <1>3, HandlerUpdateType DEF TInv
<1>5. QED
  BY <1>4 DEF Admit, TInv, TypeOK, ReqOK, dbVars

(* Every variable keeps its type.                                           *)
LEMMA TypeStep == TInv /\ [Next]_vars => TInv'
<1> SUFFICES ASSUME TInv, [Next]_vars PROVE TInv'
  OBVIOUS
<1>pc. LoginPCs \subseteq PCs /\ ActorPCs \subseteq PCs /\ LoginPCs \subseteq ActorPCs
  BY DEF PCs, LoginPCs, ActorPCs
<1>rest. \A pc \in {"idle", "advice", "revokeOne", "revokeOthers", "mark"} :
            pc \in PCs \ ActorPCs
  BY DEF PCs, LoginPCs, ActorPCs
<1>h. ASSUME NEW w \in Workers PROVE req[w] \in Handler /\ HandlerOK(w, req[w])
  BY DEF TInv, ReqOK
<1>1. ASSUME NEW w \in Workers, Login(w) PROVE TInv'
  <2>1. ASSUME NEW b \in Browsers, NEW u \in Users, LoginVerify(w, b, u) PROVE TInv'
    <3>1. ReqOK'
      <4> DEFINE h == [Start("verified", b, u) EXCEPT !.ver = password[u]]
      <4>1. HandlerOK(w, h)
        BY <2>1, <1>pc, StartType, HandlerFieldType DEF LoginVerify, CanSignIn, CanServe, LoginPCs, TInv, TypeOK
      <4>2. req' = [req EXCEPT ![w] = h]
        BY <2>1 DEF LoginVerify
      <4> HIDE DEF h
      <4> QED
        BY <4>1, <4>2, HandlerUpdateType DEF TInv
    <3> QED
      BY <2>1, <3>1 DEF LoginVerify, TInv, TypeOK, ReqOK, dbVars, userVars
  <2>2. CASE LoginCheckErased(w)
    <3>1. ReqOK'
      BY <2>2, GotoType, FinishType, <1>pc, <1>rest DEF LoginCheckErased, TInv, ActorPCs, LoginPCs
    <3> QED
      BY <2>2, <3>1 DEF LoginCheckErased, TInv, TypeOK, ReqOK, dbVars, userVars
  <2>3. CASE LoginCheckBanned(w)
    <3>1. ReqOK'
      BY <2>3, GotoType, FinishType, <1>pc, <1>rest DEF LoginCheckBanned, TInv, ActorPCs, LoginPCs
    <3> QED
      BY <2>3, <3>1 DEF LoginCheckBanned, TInv, TypeOK, ReqOK, dbVars, userVars
  <2>4. CASE LoginClear(w)
    <3>1. ReqOK'
      BY <2>4, GotoType, <1>pc, <1>rest DEF LoginClear, TInv, ActorPCs, LoginPCs
    <3>2. session' \in [Browsers -> SessionObject]
      BY <2>4, ClearType DEF LoginClear, TInv, TypeOK
    <3> QED
      BY <2>4, <3>1, <3>2 DEF LoginClear, TInv, TypeOK, ReqOK, dbVars, userVars
  <2>5. CASE BeginPendingLogin(w)
    <3>1. ReqOK'
      BY <2>5, FinishType DEF BeginPendingLogin, TInv
    <3>2. session' \in [Browsers -> SessionObject]
      BY <2>5, SessionUpdateType, ObjectType, HandlerFields DEF BeginPendingLogin, TInv, TypeOK, ReqOK
    <3> QED
      BY <2>5, <3>1, <3>2 DEF BeginPendingLogin, TInv, TypeOK, ReqOK, dbVars, userVars
  <2>6. CASE InsertUser(w)
    <3>1. ReqOK'
      BY <2>6, GotoType, <1>pc, <1>rest DEF InsertUser, TInv, ActorPCs, LoginPCs
    <3>2. session' \in [Browsers -> SessionObject]
      BY <2>6, SessionUpdateType, ObjectType, HandlerFields DEF InsertUser, TInv, TypeOK, ReqOK
    <3> QED
      BY <2>6, <3>1, <3>2 DEF InsertUser, TInv, TypeOK, ReqOK, dbVars, userVars
  <2> QED
    BY <1>1, <2>1, <2>2, <2>3, <2>4, <2>5, <2>6 DEF Login
<1>2. ASSUME NEW w \in Workers, TwoFactor(w) PROVE TInv'
  <2>1. ASSUME NEW b \in Browsers, TwoFactorRead(w, b) PROVE TInv'
    <3>1. ReqOK'
      <4> DEFINE h == [Start("factor", b, session[b].pending) EXCEPT !.ver = session[b].ver]
      <4>1. HandlerOK(w, h)
        BY <2>1, <1>pc, StartType, HandlerFieldType, ObjectFields DEF TwoFactorRead, CanSignIn, CanServe, LoginPCs, TInv, TypeOK
      <4>2. req' = [req EXCEPT ![w] = h]
        BY <2>1 DEF TwoFactorRead
      <4> HIDE DEF h
      <4> QED
        BY <4>1, <4>2, HandlerUpdateType DEF TInv
    <3> QED
      BY <2>1, <3>1 DEF TwoFactorRead, TInv, TypeOK, ReqOK, dbVars, userVars
  <2>2. ASSUME NEW b \in Browsers, TwoFactorExpired(w, b) PROVE TInv'
    <3>1. session' \in [Browsers -> SessionObject]
      BY <2>2, SessionUpdateType, ObjectType, HandlerFields DEF TwoFactorExpired, TInv, TypeOK, ReqOK
    <3> QED
      BY <2>2, <3>1 DEF TwoFactorExpired, TInv, TypeOK, ReqOK, dbVars, userVars
  <2>3. CASE TwoFactorVerify(w)
    <3>1. ReqOK'
      BY <2>3, GotoType, FinishType, <1>pc, <1>rest DEF TwoFactorVerify, TInv, ActorPCs, LoginPCs
    <3> QED
      BY <2>3, <3>1 DEF TwoFactorVerify, TInv, TypeOK, ReqOK, dbVars, userVars
  <2>4. CASE ClearPending(w)
    <3>1. ReqOK'
      BY <2>4, GotoType, <1>pc, <1>rest DEF ClearPending, TInv, ActorPCs, LoginPCs
    <3>2. session' \in [Browsers -> SessionObject]
      BY <2>4, SessionUpdateType, ObjectType, HandlerFields DEF ClearPending, TInv, TypeOK, ReqOK
    <3> QED
      BY <2>4, <3>1, <3>2 DEF ClearPending, TInv, TypeOK, ReqOK, dbVars, userVars
  <2> QED
    BY <1>2, <2>1, <2>2, <2>3, <2>4 DEF TwoFactor
<1>3. ASSUME NEW w \in Workers, Begin(w) PROVE TInv'
  <2>1. ASSUME NEW s \in Sids, BeginInsert(w, s) PROVE TInv'
    <3>1. ReqOK'
      <4> DEFINE h == [req[w] EXCEPT !.pc = "publish", !.sid = s]
      <4>1. HandlerOK(w, h)
        BY <2>1, <1>h, <1>pc, HandlerSid DEF BeginInsert, LoginPCs
      <4>2. req' = [req EXCEPT ![w] = h]
        BY <2>1 DEF BeginInsert
      <4> HIDE DEF h
      <4> QED
        BY <4>1, <4>2, HandlerUpdateType DEF TInv
    <3>2. owner' \in [Sids -> Users \cup {None}]
      BY <2>1, HandlerFields DEF BeginInsert, TInv, TypeOK, ReqOK
    <3> QED
      BY <2>1, <3>1, <3>2 DEF BeginInsert, TInv, TypeOK, ReqOK, dbVars, userVars
  <2>2. CASE BeginFails(w)
    <3>1. ReqOK'
      BY <2>2, FinishType DEF BeginFails, TInv
    <3>2. session' \in [Browsers -> SessionObject]
      BY <2>2, ClearType DEF BeginFails, TInv, TypeOK
    <3> QED
      BY <2>2, <3>1, <3>2 DEF BeginFails, TInv, TypeOK, ReqOK, dbVars, userVars
  <2>3. CASE BeginPublish(w)
    <3>1. ReqOK'
      BY <2>3, FinishType DEF BeginPublish, TInv
    <3>2. session' \in [Browsers -> SessionObject]
      BY <2>3, SessionUpdateType, ObjectType, HandlerFields DEF BeginPublish, TInv, TypeOK, ReqOK
    <3> QED
      BY <2>3, <3>1, <3>2 DEF BeginPublish, TInv, TypeOK, ReqOK, dbVars, userVars
  <2> QED
    BY <1>3, <2>1, <2>2, <2>3 DEF Begin
<1>4. ASSUME NEW w \in Workers, Revocation(w) PROVE TInv'
  <2>1. CASE RevokeOne(w)
    <3>1. ReqOK'
      <4> DEFINE h == [req[w] EXCEPT !.pc = "mark", !.todo = {req[w].sid} \cap LiveRows(req[w].u)]
      <4>1. HandlerOK(w, h)
        BY <1>h, <1>rest, HandlerTodo DEF LiveRows
      <4>2. req' = [req EXCEPT ![w] = h]
        BY <2>1 DEF RevokeOne
      <4> HIDE DEF h
      <4> QED
        BY <4>1, <4>2, HandlerUpdateType DEF TInv
    <3>2. revoked' \subseteq Sids /\ notify' \in [Procs -> SUBSET Sids]
      BY <2>1, RetireType, HandlerFields DEF RevokeOne, TInv, TypeOK, ReqOK, LiveRows
    <3> QED
      BY <2>1, <3>1, <3>2 DEF RevokeOne, TInv, TypeOK, ReqOK, dbVars, userVars
  <2>2. CASE RevokeOthers(w)
    <3>1. ReqOK'
      <4> DEFINE h == [req[w] EXCEPT !.pc = "mark", !.todo = LiveRows(req[w].u) \ {req[w].sid}]
      <4>1. HandlerOK(w, h)
        BY <1>h, <1>rest, HandlerTodo DEF LiveRows
      <4>2. req' = [req EXCEPT ![w] = h]
        BY <2>2 DEF RevokeOthers
      <4> HIDE DEF h
      <4> QED
        BY <4>1, <4>2, HandlerUpdateType DEF TInv
    <3>2. revoked' \subseteq Sids /\ notify' \in [Procs -> SUBSET Sids]
      BY <2>2, RetireType, HandlerFields DEF RevokeOthers, TInv, TypeOK, ReqOK, LiveRows
    <3> QED
      BY <2>2, <3>1, <3>2 DEF RevokeOthers, TInv, TypeOK, ReqOK, dbVars, userVars
  <2>3. CASE RevokeFails(w)
    <3>1. ReqOK'
      BY <2>3, GotoType, <1>pc, <1>rest DEF RevokeFails, TInv, ActorPCs, LoginPCs
    <3> QED
      BY <2>3, <3>1 DEF RevokeFails, TInv, TypeOK, ReqOK, dbVars, userVars
  <2>4. CASE MarkLocal(w)
    <3>1. PICK s \in req[w].todo : req' = [req EXCEPT ![w] = [req[w] EXCEPT !.todo = @ \ {s}]]
      BY <2>4 DEF MarkLocal
    <3> DEFINE h == [req[w] EXCEPT !.todo = @ \ {s}]
    <3>2. HandlerOK(w, h)
      BY <2>4, <1>h DEF MarkLocal, HandlerOK, Handler
    <3>3. req' = [req EXCEPT ![w] = h]
      BY <3>1
    <3> HIDE DEF h
    <3>4. ReqOK'
      BY <3>2, <3>3, HandlerUpdateType DEF TInv
    <3>5. revokedMem' \in [Procs -> SUBSET Sids]
      BY <2>4, HandlerFields DEF MarkLocal, TInv, TypeOK, ReqOK
    <3> QED
      BY <2>4, <3>4, <3>5 DEF MarkLocal, TInv, TypeOK, ReqOK, dbVars, userVars
  <2>5. CASE MarkDone(w)
    <3>1. ReqOK'
      BY <2>5, FinishType DEF MarkDone, TInv
    <3>2. session' \in [Browsers -> SessionObject]
      BY <2>5, ClearType DEF MarkDone, TInv, TypeOK
    <3> QED
      BY <2>5, <3>1, <3>2 DEF MarkDone, TInv, TypeOK, ReqOK, dbVars, userVars
  <2>6. ASSUME NEW b \in Browsers, AdviceSeesRevoked(w, b) PROVE TInv'
    <3>1. ReqOK'
      <4> DEFINE h == Start("advice", b, None)
      <4>1. HandlerOK(w, h)
        BY <1>rest, StartType, HandlerFieldType
      <4>2. req' = [req EXCEPT ![w] = h]
        BY <2>6 DEF AdviceSeesRevoked
      <4> HIDE DEF h
      <4> QED
        BY <4>1, <4>2, HandlerUpdateType DEF TInv
    <3> QED
      BY <2>6, <3>1 DEF AdviceSeesRevoked, TInv, TypeOK, ReqOK, dbVars, userVars
  <2>7. CASE AdviceClears(w)
    <3>1. ReqOK'
      BY <2>7, FinishType DEF AdviceClears, TInv
    <3>2. session' \in [Browsers -> SessionObject]
      BY <2>7, ClearType DEF AdviceClears, TInv, TypeOK
    <3> QED
      BY <2>7, <3>1, <3>2 DEF AdviceClears, TInv, TypeOK, ReqOK, dbVars, userVars
  <2> QED
    BY <1>4, <2>1, <2>2, <2>3, <2>4, <2>5, <2>6, <2>7 DEF Revocation
<1>5. ASSUME NEW w \in Workers, Request(w) PROVE TInv'
  <2>1. ASSUME NEW b \in Browsers, NEW s \in Sids, RevokeSession(w, b, s) PROVE TInv'
    BY <2>1, AdmitType, <1>pc, <1>rest, ObjectFields DEF RevokeSession, ActorPCs, TInv, TypeOK
  <2>2. ASSUME NEW b \in Browsers, RevokeOtherSessions(w, b) PROVE TInv'
    BY <2>2, AdmitType, <1>pc, <1>rest, ObjectFields DEF RevokeOtherSessions, ActorPCs, TInv, TypeOK
  <2>3. ASSUME NEW b \in Browsers, ChangePassword(w, b) PROVE TInv'
    BY <2>3, AdmitType, <1>pc, <1>rest, ObjectFields DEF ChangePassword, ActorPCs, TInv, TypeOK
  <2>4. ASSUME NEW b \in Browsers, DeleteAccount(w, b) PROVE TInv'
    BY <2>4, AdmitType, <1>pc, <1>rest, ObjectFields DEF DeleteAccount, ActorPCs, TInv, TypeOK
  <2>5. ASSUME NEW b \in Browsers, LogoutRead(w, b) PROVE TInv'
    BY <2>5, AdmitType, <1>pc, <1>rest, ObjectFields DEF LogoutRead, ActorPCs, TInv, TypeOK
  <2>6. CASE LogoutClear(w)
    <3>1. ReqOK'
      BY <2>6, FinishType DEF LogoutClear, TInv
    <3>2. session' \in [Browsers -> SessionObject]
      BY <2>6, ClearType DEF LogoutClear, TInv, TypeOK
    <3>3. jobs' \in [Procs -> SUBSET [u : Users, sid : Sids]]
      BY <2>6, <1>h, HandlerFields DEF LogoutClear, TInv, TypeOK, HandlerOK, ActorPCs
    <3> QED
      BY <2>6, <3>1, <3>2, <3>3 DEF LogoutClear, TInv, TypeOK, ReqOK, dbVars, userVars
  <2>7. CASE RunLogoutJob(w)
    <3>1. PICK j \in jobs[ProcOf[w]] :
             req' = [req EXCEPT ![w] = [Start("revokeOne", None, j.u) EXCEPT !.sid = j.sid]]
      BY <2>7 DEF RunLogoutJob
    <3> DEFINE h == [Start("revokeOne", None, j.u) EXCEPT !.sid = j.sid]
    <3>2. j \in [u : Users, sid : Sids]
      BY DEF TInv, TypeOK
    <3>3. HandlerOK(w, h)
      BY <3>2, <1>rest, StartType, HandlerFieldType
    <3>4. req' = [req EXCEPT ![w] = h]
      BY <3>1
    <3> HIDE DEF h
    <3>5. ReqOK'
      BY <3>3, <3>4, HandlerUpdateType DEF TInv
    <3>6. jobs' \in [Procs -> SUBSET [u : Users, sid : Sids]]
      BY <2>7 DEF RunLogoutJob, TInv, TypeOK, ReqOK
    <3> QED
      BY <2>7, <3>5, <3>6 DEF RunLogoutJob, TInv, TypeOK, ReqOK, dbVars, userVars
  <2>8. CASE VerifyCurrent(w)
    <3>1. ReqOK'
      <4>1. CASE Finish(w)
        BY <4>1, FinishType DEF TInv
      <4>2. CASE ~Finish(w)
        <5> DEFINE h == [req[w] EXCEPT !.pc = "setPassword", !.ver = password[req[w].u]]
        <5>1. req[w].u \in Users
          BY <2>8, <1>h DEF VerifyCurrent, HandlerOK, ActorPCs
        <5>2. password[req[w].u] \in 0..MaxPassword
          BY <5>1 DEF TInv, TypeOK
        <5>3. HandlerOK(w, h)
          BY <5>2, <2>8, <1>h, <1>pc, HandlerVer DEF VerifyCurrent, ActorPCs
        <5>4. req' = [req EXCEPT ![w] = h]
          BY <2>8, <4>2 DEF VerifyCurrent
        <5> HIDE DEF h
        <5> QED
          BY <5>1, <5>3, <5>4, HandlerUpdateType DEF TInv
      <4> QED
        BY <4>1, <4>2
    <3> QED
      BY <2>8, <3>1 DEF VerifyCurrent, TInv, TypeOK, ReqOK, dbVars, userVars
  <2>9. CASE SetPassword(w)
    <3>1. ReqOK'
      BY <2>9, GotoType, <1>pc, <1>rest DEF SetPassword, TInv, ActorPCs, LoginPCs
    <3>2. session' \in [Browsers -> SessionObject]
      <4>1. req[w].u \in Users
        BY <2>9, <1>h DEF SetPassword, HandlerOK, ActorPCs
      <4>2. password[req[w].u] + 1 \in 0..MaxPassword
        BY <2>9, <4>1 DEF SetPassword, TInv, TypeOK
      <4>3. session' \in {session, [session EXCEPT ![req[w].b] =
                                       [session[req[w].b] EXCEPT !.ver = password[req[w].u] + 1]]}
        BY <2>9 DEF SetPassword
      <4>4. req[w].b \in Browsers => [session[req[w].b] EXCEPT !.ver = password[req[w].u] + 1] \in SessionObject
        BY <4>2, VersionType DEF TInv, TypeOK
      <4> QED
        BY <4>3, <4>4 DEF TInv, TypeOK
    <3>3. password' \in [Users -> 0..MaxPassword]
      BY <2>9, <1>h DEF SetPassword, HandlerOK, ActorPCs, TInv, TypeOK
    <3> QED
      BY <2>9, <3>1, <3>2, <3>3 DEF SetPassword, TInv, TypeOK, ReqOK, dbVars, userVars
  <2>10. CASE KeepCurrent(w)
    <3>1. ReqOK'
      <4> DEFINE h == [req[w] EXCEPT !.pc = "revokeOthers", !.sid = session[req[w].b].sid]
      <4>0. req[w].b \in Browsers
        BY <2>10, <1>h DEF KeepCurrent, HandlerOK, ActorPCs
      <4>1. session[req[w].b].sid \in Sids \cup {None}
        BY <4>0, ObjectFields DEF TInv, TypeOK
      <4>2. HandlerOK(w, h)
        BY <4>1, <1>h, <1>rest, HandlerSid
      <4>3. req' = [req EXCEPT ![w] = h]
        BY <2>10 DEF KeepCurrent
      <4> HIDE DEF h
      <4> QED
        BY <4>2, <4>3, HandlerUpdateType DEF TInv
    <3> QED
      BY <2>10, <3>1 DEF KeepCurrent, TInv, TypeOK, ReqOK, dbVars, userVars
  <2>11. CASE EraseAccount(w)
    <3>1. ReqOK'
      <4> DEFINE h == [req[w] EXCEPT !.pc = "revokeOthers", !.drop = TRUE]
      <4>1. HandlerOK(w, h)
        BY <1>h, <1>rest, HandlerDrop
      <4>2. req' = [req EXCEPT ![w] = h]
        BY <2>11 DEF EraseAccount
      <4> HIDE DEF h
      <4> QED
        BY <4>1, <4>2, HandlerUpdateType DEF TInv
    <3>2. erased' \subseteq Users /\ banned' \subseteq Users
      <4>1. req[w].u \in Users
        BY <2>11, <1>h DEF EraseAccount, HandlerOK, ActorPCs
      <4> QED
        BY <2>11, <4>1 DEF EraseAccount, TInv, TypeOK
    <3> QED
      BY <2>11, <3>1, <3>2 DEF EraseAccount, TInv, TypeOK, ReqOK, dbVars, userVars
  <2>12. CASE EraseRefused(w)
    <3>1. ReqOK'
      BY <2>12, FinishType DEF EraseRefused, TInv
    <3> QED
      BY <2>12, <3>1 DEF EraseRefused, TInv, TypeOK, ReqOK, dbVars, userVars
  <2>13. ASSUME NEW u \in Users, ResetPassword(w, u) PROVE TInv'
    <3>1. ReqOK'
      <4> DEFINE h == [Start("mark", None, u) EXCEPT !.todo = LiveRows(u)]
      <4>1. HandlerOK(w, h)
        BY <1>rest, StartType, HandlerFieldType DEF LiveRows
      <4>2. req' = [req EXCEPT ![w] = h]
        BY <2>13 DEF ResetPassword
      <4> HIDE DEF h
      <4> QED
        BY <4>1, <4>2, HandlerUpdateType DEF TInv
    <3>2. revoked' \subseteq Sids /\ notify' \in [Procs -> SUBSET Sids]
      BY <2>13, RetireType DEF ResetPassword, TInv, TypeOK, ReqOK, LiveRows
    <3>3. password' \in [Users -> 0..MaxPassword]
      BY <2>13 DEF ResetPassword, TInv, TypeOK, ReqOK
    <3> QED
      BY <2>13, <3>1, <3>2, <3>3 DEF ResetPassword, TInv, TypeOK, ReqOK, dbVars, userVars
  <2>14. ASSUME NEW u \in Users, BanUser(w, u) PROVE TInv'
    <3>1. ReqOK'
      <4> DEFINE h == Start("revokeOthers", None, u)
      <4>1. HandlerOK(w, h)
        BY <1>rest, StartType, HandlerFieldType
      <4>2. req' = [req EXCEPT ![w] = h]
        BY <2>14 DEF BanUser
      <4> HIDE DEF h
      <4> QED
        BY <4>1, <4>2, HandlerUpdateType DEF TInv
    <3>2. banned' \subseteq Users
      BY <2>14 DEF BanUser, TInv, TypeOK, ReqOK
    <3> QED
      BY <2>14, <3>1, <3>2 DEF BanUser, TInv, TypeOK, ReqOK, dbVars, userVars
  <2> QED
    BY <1>5, <2>1, <2>2, <2>3, <2>4, <2>5, <2>6, <2>7, <2>8, <2>9, <2>10, <2>11, <2>12, <2>13, <2>14 DEF Request
<1>6. ASSUME NEW u \in Users, UnbanUser(u) PROVE TInv'
  BY <1>6 DEF UnbanUser, TInv, TypeOK, ReqOK
<1>7. ASSUME NEW p \in Procs, Deliver(p) PROVE TInv'
  <2>1. revokedMem' \in [Procs -> SUBSET Sids] /\ notify' \in [Procs -> SUBSET Sids]
    BY <1>7 DEF Deliver, TInv, TypeOK
  <2> QED
    BY <1>7, <2>1 DEF Deliver, TInv, TypeOK, ReqOK, dbVars
<1>8. ASSUME NEW p \in Procs, Restart(p) PROVE TInv'
  <2>1. ReqOK'
    BY <1>8, <1>rest, IdleType DEF Restart, TInv, ReqOK, HandlerOK, ActorPCs
  <2>2. session' \in [Browsers -> SessionObject]
    BY <1>8, EmptyType DEF Restart, TInv, TypeOK
  <2>3. revoked' \subseteq Sids /\ notify' \in [Procs -> SUBSET Sids]
    BY <1>8 DEF Restart, Deafness, TInv, TypeOK
  <2>4. revokedMem' \in [Procs -> SUBSET Sids]
    BY <1>8 DEF Restart, TInv, TypeOK
  <2>5. jobs' \in [Procs -> SUBSET [u : Users, sid : Sids]]
    BY <1>8 DEF Restart, TInv, TypeOK
  <2> QED
    BY <1>8, <2>1, <2>2, <2>3, <2>4, <2>5 DEF Restart, TInv, TypeOK, ReqOK, userVars
<1>9. CASE UNCHANGED vars
  BY <1>9 DEF vars, dbVars, TInv, TypeOK, ReqOK
<1>10. QED
  BY <1>1, <1>2, <1>3, <1>4, <1>5, <1>6, <1>7, <1>8, <1>9 DEF Next

LEMMA TypeInit == Init => TInv
<1> SUFFICES ASSUME Init PROVE TInv
  OBVIOUS
<1>1. ReqOK
  <2>1. \A w \in Workers : HandlerOK(w, Idle)
    BY IdleType DEF HandlerOK, ActorPCs, LoginPCs
  <2> QED
    BY <2>1, IdleType DEF Init, ReqOK
<1>2. session \in [Browsers -> SessionObject]
  BY EmptyType DEF Init
<1> QED
  BY <1>1, <1>2 DEF Init, TInv, TypeOK, ReqOK

(* Every state of SessionRegistry is well typed.                            *)
THEOREM TypeCorrect == Spec => []TypeOK
<1>1. TInv => TypeOK
  BY DEF TInv
<1>2. QED
  BY <1>1, TypeInit, TypeStep, PTL DEF Spec

-----------------------------------------------------------------------------
(***************************************************************************)
(* Registration: a session that has a user carries a sid that has a row,   *)
(* or a sign-in is about to give it one; and the row is the user's own     *)
(* unless sign-ins of two users were writing to the session when it was    *)
(* last emptied.  The invariant follows every user that a session object   *)
(* may come to stand for.                                                  *)
(***************************************************************************)

(* A handler that publishes a sid drew it for its user.                     *)
PublishersDrew ==
    \A w \in Workers : req[w].pc = "publish" =>
        req[w].sid \in Sids /\ owner[req[w].sid] = req[w].u

(* The users a session object may come to stand for: who is signed in, who  *)
(* awaits the second factor, whose row the sid has, and who is writing.     *)
Writes(w, b, u) == req[w].b = b /\ req[w].pc \in WritePCs /\ req[w].u = u

StandsFor(b, u) ==
    \/ session[b].user = u \/ session[b].pending = u
    \/ session[b].sid # None /\ owner[session[b].sid] = u
    \/ \E w \in Workers : Writes(w, b, u)

OneName(b) == \A u, v \in Users : StandsFor(b, u) /\ StandsFor(b, v) => u = v

Accounted(b) ==
    /\ session[b].sid # None => owner[session[b].sid] # None
    /\ session[b].user # None => session[b].sid # None \/ Registering(b)
    /\ ~session[b].crossed => OneName(b)

OwnInv == PublishersDrew /\ \A b \in Browsers : Accounted(b)

LEMMA OwnInit == Init => OwnInv
<1> SUFFICES ASSUME Init PROVE OwnInv
  OBVIOUS
<1>1. \A w \in Workers : req[w].pc = "idle"
  BY DEF Init, Idle
<1>2. \A b \in Browsers : /\ session[b].user = None /\ session[b].sid = None
                          /\ session[b].pending = None
  BY DEF Init, EmptySession
<1>3. PublishersDrew
  BY <1>1 DEF PublishersDrew
<1>4. ASSUME NEW b \in Browsers PROVE OneName(b)
  BY <1>1, <1>2 DEF OneName, StandsFor, Writes, WritePCs, LoginPCs
<1>5. QED
  BY <1>2, <1>3, <1>4 DEF OwnInv, Accounted

(* The invariant is what the registry promises of its sessions.             *)
LEMMA OwnPromise == TInv /\ OwnInv => SessionsAreRegistered
<1> SUFFICES ASSUME TInv, OwnInv, NEW b \in Browsers, session[b].user # None
             PROVE  \/ session[b].sid = None /\ Registering(b)
                    \/ /\ session[b].sid # None
                       /\ owner[session[b].sid] # None
                       /\ ~session[b].crossed => owner[session[b].sid] = session[b].user
  BY DEF SessionsAreRegistered
<1>1. Accounted(b)
  BY DEF OwnInv
<1>2. CASE session[b].sid = None
  BY <1>1, <1>2 DEF Accounted
<1>3. CASE session[b].sid # None
  <2>1. owner[session[b].sid] # None
    BY <1>1, <1>3 DEF Accounted
  <2>2. owner[session[b].sid] \in Users /\ session[b].user \in Users
    BY <1>3, <2>1, ObjectFields DEF TInv, TypeOK
  <2>3. StandsFor(b, owner[session[b].sid]) /\ StandsFor(b, session[b].user)
    BY <1>3 DEF StandsFor
  <2>4. ~session[b].crossed => owner[session[b].sid] = session[b].user
    BY <1>1, <2>2, <2>3 DEF Accounted, OneName
  <2>5. QED
    BY <1>3, <2>1, <2>4
<1>4. QED
  BY <1>2, <1>3

-----------------------------------------------------------------------------
(* What a step leaves of a session object: emptied by the step, or standing *)
(* for nobody it did not stand for before.                                  *)
Emptied(b) == session'[b] = Cleared(b)

SameObject(b) == /\ session'[b].user = session[b].user
                 /\ session'[b].sid = session[b].sid
                 /\ session'[b].pending = session[b].pending
                 /\ session'[b].crossed = session[b].crossed

Keeps(b) ==
    /\ session'[b].crossed = session[b].crossed
    /\ session'[b].user # None =>
          StandsFor(b, session'[b].user) /\ (session'[b].sid # None \/ Registering(b)')
    /\ session'[b].pending # None => StandsFor(b, session'[b].pending)
    /\ session'[b].sid # None =>
          /\ session'[b].sid \in Sids /\ owner[session'[b].sid] # None
          /\ StandsFor(b, owner[session'[b].sid])

LEMMA Untouched ==
    ASSUME NEW b, session'[b] = session[b]
    PROVE  SameObject(b)
BY DEF SameObject

LEMMA KeepsSame ==
    ASSUME TInv, OwnInv, NEW b \in Browsers, SameObject(b),
           Registering(b) => Registering(b)'
    PROVE  Keeps(b)
<1>1. Accounted(b) /\ session[b].sid \in Sids \cup {None}
  BY ObjectFields DEF OwnInv, TInv, TypeOK
<1>2. session'[b].crossed = session[b].crossed
  BY DEF SameObject
<1>3. session'[b].user # None =>
          StandsFor(b, session'[b].user) /\ (session'[b].sid # None \/ Registering(b)')
  BY <1>1 DEF SameObject, Accounted, StandsFor
<1>4. session'[b].pending # None => StandsFor(b, session'[b].pending)
  BY DEF SameObject, StandsFor
<1>5. session'[b].sid # None =>
          /\ session'[b].sid \in Sids /\ owner[session'[b].sid] # None
          /\ StandsFor(b, owner[session'[b].sid])
  BY <1>1 DEF SameObject, Accounted, StandsFor
<1>6. QED
  BY <1>2, <1>3, <1>4, <1>5 DEF Keeps

(* A session that gains nothing but a name it already stood for.            *)
LEMMA KeepsOr ==
    ASSUME TInv, OwnInv, NEW b \in Browsers,
           session'[b].crossed = session[b].crossed,
           session'[b].sid = session[b].sid,
           \/ session'[b].user \in {session[b].user, None}
           \/ StandsFor(b, session'[b].user) /\ Registering(b)',
           \/ session'[b].pending \in {session[b].pending, None}
           \/ StandsFor(b, session'[b].pending),
           Registering(b) => Registering(b)'
    PROVE  Keeps(b)
<1>1. Accounted(b) /\ session[b].sid \in Sids \cup {None}
  BY ObjectFields DEF OwnInv, TInv, TypeOK
<1>2. session'[b].user # None =>
          StandsFor(b, session'[b].user) /\ (session'[b].sid # None \/ Registering(b)')
  BY <1>1 DEF Accounted, StandsFor
<1>3. session'[b].pending # None => StandsFor(b, session'[b].pending)
  BY DEF StandsFor
<1>4. session'[b].sid # None =>
          /\ session'[b].sid \in Sids /\ owner[session'[b].sid] # None
          /\ StandsFor(b, owner[session'[b].sid])
  BY <1>1 DEF Accounted, StandsFor
<1>5. QED
  BY <1>2, <1>3, <1>4 DEF Keeps

(* A session that gains a sid whose row it stood for.                       *)
LEMMA KeepsSid ==
    ASSUME TInv, OwnInv, NEW b \in Browsers,
           session'[b].crossed = session[b].crossed,
           session'[b].user = session[b].user,
           session'[b].pending = session[b].pending,
           session'[b].sid # None, NEW s \in Sids, owner[s] # None, StandsFor(b, owner[s]),
           session'[b].sid = session[b].sid \/ session'[b].sid = s
    PROVE  Keeps(b)
<1>1. Accounted(b) /\ session[b].sid \in Sids \cup {None}
  BY ObjectFields DEF OwnInv, TInv, TypeOK
<1>2. /\ session'[b].sid \in Sids /\ owner[session'[b].sid] # None
      /\ StandsFor(b, owner[session'[b].sid])
  BY <1>1 DEF Accounted, StandsFor
<1>3. session'[b].user # None => StandsFor(b, session'[b].user)
  BY DEF StandsFor
<1>4. session'[b].pending # None => StandsFor(b, session'[b].pending)
  BY DEF StandsFor
<1>5. QED
  BY <1>2, <1>3, <1>4 DEF Keeps

(* The step of a sign-in, or of any handler: a writer wrote before, or the  *)
(* session stood for its user, or the step empties the session.             *)
LEMMA OwnAdvance ==
    ASSUME TInv, OwnInv, PublishersDrew', req' \in [Workers -> Handler],
           \A s \in Sids : owner[s] # None => owner'[s] = owner[s],
           \A b \in Browsers : Emptied(b) \/ Keeps(b),
           \A w \in Workers, b \in Browsers :
              req'[w].b = b /\ req'[w].pc \in WritePCs =>
                 Emptied(b) \/ StandsFor(b, req'[w].u)
    PROVE  OwnInv'
<1> SUFFICES ASSUME NEW b \in Browsers PROVE Accounted(b)'
  BY DEF OwnInv
<1>1. CASE Emptied(b)
  <2>1. /\ session'[b].user = None /\ session'[b].sid = None /\ session'[b].pending = None
        /\ session'[b].crossed = SignInsCross(b)
    BY <1>1, ClearedFields DEF Emptied
  <2>2. ASSUME ~session'[b].crossed, NEW u \in Users, NEW v \in Users,
               StandsFor(b, u)', StandsFor(b, v)'
        PROVE  u = v
    <3>1. ~SignInsCross(b)
      BY <2>1, <2>2
    <3>2. (\E w \in Workers : Writes(w, b, u))' /\ (\E w \in Workers : Writes(w, b, v))'
      BY <2>1, <2>2 DEF StandsFor
    <3>3. QED
      BY <3>1, <3>2 DEF SignInsCross, Writes
  <2>3. QED
    BY <2>1, <2>2 DEF Accounted, OneName
<1>2. CASE Keeps(b) /\ ~Emptied(b)
  <2>1. ASSUME NEW u \in Users, StandsFor(b, u)' PROVE StandsFor(b, u)
    <3>1. CASE session'[b].user = u \/ session'[b].pending = u
      BY <1>2, <3>1 DEF Keeps
    <3>2. CASE session'[b].sid # None /\ owner'[session'[b].sid] = u
      BY <1>2, <3>2 DEF Keeps
    <3>3. CASE (\E w \in Workers : Writes(w, b, u))'
      BY <1>2, <3>3 DEF Writes
    <3>4. QED
      BY <2>1, <3>1, <3>2, <3>3 DEF StandsFor
  <2>2. ~session'[b].crossed => OneName(b)'
    <3>1. session'[b].crossed = session[b].crossed
      BY <1>2 DEF Keeps
    <3>2. ~session[b].crossed => OneName(b)
      BY DEF OwnInv, Accounted
    <3>3. OneName(b) => OneName(b)'
      BY <2>1 DEF OneName
    <3>4. QED
      BY <3>1, <3>2, <3>3
  <2>3. session'[b].sid # None => owner'[session'[b].sid] # None
    BY <1>2 DEF Keeps
  <2>4. session'[b].user # None => session'[b].sid # None \/ Registering(b)'
    BY <1>2 DEF Keeps
  <2>5. QED
    BY <2>2, <2>3, <2>4 DEF Accounted
<1>3. QED
  BY <1>1, <1>2

(* A step of one handler that leaves the rows alone, touches no session but *)
(* its own and publishes no sid afterwards.                                 *)
LEMMA OwnHandler ==
    ASSUME TInv, OwnInv, TInv', owner' = owner, NEW w \in Workers,
           \A v \in Workers \ {w} : req'[v] = req[v],
           req'[w].pc # "publish", NEW b, req[w].b = b,
           \A c \in Browsers \ {b} : session'[c] = session[c],
           b \in Browsers => Emptied(b) \/ Keeps(b),
           \A c \in Browsers : req'[w].b = c /\ req'[w].pc \in WritePCs =>
                                  Emptied(c) \/ StandsFor(c, req'[w].u)
    PROVE  OwnInv'
<1>1. PublishersDrew'
  BY DEF OwnInv, PublishersDrew
<1>2. ASSUME NEW c \in Browsers PROVE Emptied(c) \/ Keeps(c)
  <2>1. CASE c = b
    BY <2>1
  <2>2. CASE c # b
    <3>1. Registering(c) => Registering(c)'
      BY <2>2 DEF Registering
    <3>2. QED
      BY <2>2, <3>1, KeepsSame, Untouched
  <2>3. QED
    BY <2>1, <2>2
<1>3. ASSUME NEW v \in Workers, NEW c \in Browsers,
             req'[v].b = c, req'[v].pc \in WritePCs
      PROVE  Emptied(c) \/ StandsFor(c, req'[v].u)
  <2>1. CASE v = w
    BY <1>3, <2>1
  <2>2. CASE v # w
    BY <1>3, <2>2 DEF StandsFor, Writes
  <2>3. QED
    BY <2>1, <2>2
<1>4. QED
  BY <1>1, <1>2, <1>3, OwnAdvance DEF TInv, TypeOK

(* A step of one handler that touches no session: it starts to write only   *)
(* for a user the session stands for, and is not registering when it ends.  *)
LEMMA OwnMove ==
    ASSUME TInv, OwnInv, TInv', UNCHANGED <<owner, session>>, NEW w \in Workers,
           \A v \in Workers \ {w} : req'[v] = req[v],
           req[w].pc \notin {"register", "publish"}, req'[w].pc # "publish",
           req'[w].pc \in WritePCs => StandsFor(req'[w].b, req'[w].u)
    PROVE  OwnInv'
<1>1. PICK b : req[w].b = b
  OBVIOUS
<1>2. ASSUME b \in Browsers PROVE Keeps(b)
  <2>1. Registering(b) => Registering(b)'
    BY DEF Registering
  <2>2. QED
    BY <1>2, <2>1, KeepsSame, Untouched
<1>3. QED
  BY <1>1, <1>2, OwnHandler

(* A step that is not part of a sign-in may end handlers and empty          *)
(* sessions; it writes nothing else that the invariant reads.               *)
NotASignIn ==
    /\ owner' = owner
    /\ \A v \in Workers :
          \/ req'[v] = req[v]
          \/ req[v].pc \notin LoginPCs /\ req'[v].pc \notin LoginPCs
    /\ \A b \in Browsers : Emptied(b) \/ SameObject(b)

LEMMA OwnWeaken ==
    ASSUME TInv, OwnInv, TInv', NotASignIn
    PROVE  OwnInv'
<1> USE DEF NotASignIn
<1>p. {"register", "publish"} \cup WritePCs \subseteq LoginPCs
  BY DEF LoginPCs, WritePCs
<1>1. PublishersDrew'
  BY <1>p DEF OwnInv, PublishersDrew
<1>2. ASSUME NEW b \in Browsers PROVE Emptied(b) \/ Keeps(b)
  <2>1. Registering(b) => Registering(b)'
    BY <1>p DEF Registering
  <2>2. QED
    BY <2>1, KeepsSame
<1>3. ASSUME NEW w \in Workers, NEW b \in Browsers,
             req'[w].b = b, req'[w].pc \in WritePCs
      PROVE  StandsFor(b, req'[w].u)
  BY <1>3, <1>p DEF StandsFor, Writes
<1>4. QED
  BY <1>1, <1>2, <1>3, OwnAdvance DEF TInv, TypeOK

(* A step of one handler outside sign-ins.                                  *)
LEMMA AsideHandler ==
    ASSUME owner' = owner, NEW w \in Workers,
           req[w].pc \notin LoginPCs, req'[w].pc \notin LoginPCs,
           \A v \in Workers \ {w} : req'[v] = req[v],
           \A b \in Browsers : session'[b] = session[b] \/ session'[b] = Cleared(b)
    PROVE  NotASignIn
<1>1. \A b \in Browsers : Emptied(b) \/ SameObject(b)
  BY Untouched DEF Emptied
<1>2. QED
  BY <1>1 DEF NotASignIn

-----------------------------------------------------------------------------
LEMMA OwnLogin ==
    ASSUME TInv, OwnInv, TInv', NEW w \in Workers, Login(w)
    PROVE  OwnInv'
<1>h. /\ req \in [Workers -> Handler] /\ HandlerOK(w, req[w])
      /\ session \in [Browsers -> SessionObject]
  BY DEF TInv, TypeOK, ReqOK
<1>1. ASSUME NEW b \in Browsers, NEW u \in Users, LoginVerify(w, b, u) PROVE OwnInv'
  <2>1. /\ req'[w].pc = "verified" /\ req[w].pc = "idle"
        /\ \A v \in Workers \ {w} : req'[v] = req[v]
    BY <1>1, <1>h, IdleType DEF LoginVerify, CanSignIn, CanServe, Start, Handler
  <2>2. UNCHANGED <<owner, session>>
    BY <1>1 DEF LoginVerify, dbVars
  <2>3. QED
    BY <2>1, <2>2, OwnMove DEF WritePCs
<1>2. CASE LoginCheckErased(w) \/ LoginCheckBanned(w)
  <2>1. /\ req'[w].pc \in {"notErased", "admitted", "idle"}
        /\ req[w].pc \in {"verified", "notErased"}
        /\ \A v \in Workers \ {w} : req'[v] = req[v]
    BY <1>2, <1>h, IdleType DEF LoginCheckErased, LoginCheckBanned, Goto, Finish, Handler
  <2>2. UNCHANGED <<owner, session>>
    BY <1>2 DEF LoginCheckErased, LoginCheckBanned, dbVars
  <2>3. QED
    BY <2>1, <2>2, OwnMove DEF WritePCs, LoginPCs
<1>3. CASE LoginClear(w)
  <2>1. /\ req'[w].pc = "cleared" /\ req'[w].b = req[w].b /\ req[w].pc = "admitted"
        /\ \A v \in Workers \ {w} : req'[v] = req[v]
    BY <1>3, <1>h DEF LoginClear, Goto, Handler
  <2>2. owner' = owner
    BY <1>3 DEF LoginClear, dbVars
  <2>3. PICK b \in Browsers : req[w].b = b
    BY <1>h, <2>1 DEF HandlerOK, ActorPCs, LoginPCs
  <2>4. \A c \in Browsers : session'[c] = IF c = b THEN Cleared(c) ELSE session[c]
    BY <1>3, <1>h, <2>3 DEF LoginClear, ClearSession, Cleared
  <2>5. Emptied(b)
    BY <2>4 DEF Emptied
  <2>6. QED
    BY <2>1, <2>2, <2>3, <2>4, <2>5, OwnHandler
<1>4. CASE BeginPendingLogin(w)
  <2>1. /\ req'[w].pc = "idle" /\ req[w].pc = "cleared"
        /\ \A v \in Workers \ {w} : req'[v] = req[v]
    BY <1>4, <1>h, IdleType DEF BeginPendingLogin, Finish
  <2>2. owner' = owner
    BY <1>4 DEF BeginPendingLogin, dbVars
  <2>3. PICK b \in Browsers : req[w].b = b
    BY <1>h, <2>1 DEF HandlerOK, ActorPCs, LoginPCs
  <2>4. /\ session'[b].user = session[b].user /\ session'[b].sid = session[b].sid
        /\ session'[b].crossed = session[b].crossed /\ session'[b].pending = req[w].u
        /\ \A c \in Browsers \ {b} : session'[c] = session[c]
    BY <1>4, <1>h, <2>3 DEF BeginPendingLogin, SessionObject
  <2>5. StandsFor(b, req[w].u)
    BY <2>1, <2>3 DEF StandsFor, Writes, WritePCs, LoginPCs
  <2>6. Registering(b) => Registering(b)'
    BY <2>1 DEF Registering
  <2>7. Keeps(b)
    BY <2>4, <2>5, <2>6, KeepsOr
  <2>8. QED
    BY <2>1, <2>2, <2>3, <2>4, <2>7, OwnHandler DEF WritePCs, LoginPCs
<1>5. CASE InsertUser(w)
  <2>1. /\ req'[w].pc = "register" /\ req[w].pc \in {"cleared", "secondStep"}
        /\ req'[w].b = req[w].b /\ req'[w].u = req[w].u
        /\ \A v \in Workers \ {w} : req'[v] = req[v]
    BY <1>5, <1>h DEF InsertUser, Goto, Handler
  <2>2. PICK b \in Browsers : req[w].b = b
    BY <1>h, <2>1 DEF HandlerOK, ActorPCs, LoginPCs
  <2>3. /\ session'[b].user \in {session[b].user, req[w].u}
        /\ session'[b].sid = session[b].sid
        /\ session'[b].crossed = session[b].crossed
        /\ session'[b].pending = session[b].pending
        /\ \A c \in Browsers \ {b} : session'[c] = session[c]
        /\ owner' = owner
    BY <1>5, <1>h, <2>2 DEF InsertUser, SessionObject, dbVars
  <2>4. StandsFor(b, req[w].u)
    BY <2>1, <2>2 DEF StandsFor, Writes, WritePCs, LoginPCs
  <2>5. Registering(b)'
    BY <2>1, <2>2 DEF Registering
  <2>6. Keeps(b)
    BY <2>3, <2>4, <2>5, KeepsOr
  <2>7. QED
    BY <2>1, <2>2, <2>3, <2>4, <2>6, OwnHandler
<1>6. QED
  BY <1>1, <1>2, <1>3, <1>4, <1>5 DEF Login

LEMMA OwnTwoFactor ==
    ASSUME TInv, OwnInv, TInv', NEW w \in Workers, TwoFactor(w)
    PROVE  OwnInv'
<1>h. /\ req \in [Workers -> Handler] /\ HandlerOK(w, req[w])
      /\ session \in [Browsers -> SessionObject]
  BY DEF TInv, TypeOK, ReqOK
<1>1. ASSUME NEW b \in Browsers, TwoFactorRead(w, b) PROVE OwnInv'
  <2>1. /\ req'[w].pc = "factor" /\ req'[w].b = b /\ req'[w].u = session[b].pending
        /\ req[w].pc = "idle" /\ \A v \in Workers \ {w} : req'[v] = req[v]
    BY <1>1, <1>h, IdleType DEF TwoFactorRead, CanSignIn, CanServe, Start, Handler, Idle
  <2>2. UNCHANGED <<owner, session>> /\ StandsFor(b, session[b].pending)
    BY <1>1 DEF TwoFactorRead, dbVars, StandsFor
  <2>3. QED
    BY <2>1, <2>2, OwnMove
<1>2. ASSUME NEW b \in Browsers, TwoFactorExpired(w, b) PROVE OwnInv'
  <2>1. /\ session'[b].user = session[b].user /\ session'[b].sid = session[b].sid
        /\ session'[b].pending = None /\ session'[b].crossed = session[b].crossed
        /\ \A c \in Browsers \ {b} : session'[c] = session[c]
    BY <1>2, <1>h DEF TwoFactorExpired, SessionObject
  <2>2. UNCHANGED <<owner, req>>
    BY <1>2 DEF TwoFactorExpired, dbVars
  <2>3. ASSUME NEW c \in Browsers PROVE Keeps(c)
    <3>1. Registering(c) => Registering(c)'
      BY <2>2 DEF Registering
    <3>2. CASE c = b
      BY <2>1, <3>1, <3>2, KeepsOr
    <3>3. CASE c # b
      BY <2>1, <3>1, <3>3, KeepsSame, Untouched
    <3>4. QED
      BY <3>2, <3>3
  <2>4. PublishersDrew'
    BY <2>2 DEF OwnInv, PublishersDrew
  <2>5. \A v \in Workers, c \in Browsers :
           req'[v].b = c /\ req'[v].pc \in WritePCs => StandsFor(c, req'[v].u)
    BY <2>2 DEF StandsFor, Writes
  <2>6. QED
    BY <2>2, <2>3, <2>4, <2>5, OwnAdvance DEF TInv, TypeOK
<1>3. CASE TwoFactorVerify(w)
  <2>1. /\ req[w].pc = "factor"
        /\ \/ req'[w].pc = "factorOk" /\ req'[w].b = req[w].b /\ req'[w].u = req[w].u
           \/ req'[w].pc = "idle"
        /\ \A v \in Workers \ {w} : req'[v] = req[v]
    BY <1>3, <1>h, IdleType DEF TwoFactorVerify, Goto, Finish, Handler
  <2>2. UNCHANGED <<owner, session>>
    BY <1>3 DEF TwoFactorVerify, dbVars
  <2>3. StandsFor(req[w].b, req[w].u)
    BY <2>1 DEF StandsFor, Writes, WritePCs, LoginPCs
  <2>4. QED
    BY <2>1, <2>2, <2>3, OwnMove DEF WritePCs, LoginPCs
<1>4. CASE ClearPending(w)
  <2>1. /\ req'[w].pc = "secondStep" /\ req[w].pc = "factorOk"
        /\ req'[w].b = req[w].b /\ req'[w].u = req[w].u
        /\ \A v \in Workers \ {w} : req'[v] = req[v]
    BY <1>4, <1>h DEF ClearPending, Goto, Handler
  <2>2. PICK b \in Browsers : req[w].b = b
    BY <1>h, <2>1 DEF HandlerOK, ActorPCs, LoginPCs
  <2>3. /\ session'[b].user = session[b].user
        /\ session'[b].sid = session[b].sid
        /\ session'[b].pending = None
        /\ session'[b].crossed = session[b].crossed
        /\ \A c \in Browsers \ {b} : session'[c] = session[c]
        /\ owner' = owner
    BY <1>4, <1>h, <2>2 DEF ClearPending, SessionObject, dbVars
  <2>4. StandsFor(b, req[w].u)
    BY <2>1, <2>2 DEF StandsFor, Writes, WritePCs, LoginPCs
  <2>5. Registering(b) => Registering(b)'
    BY <2>1 DEF Registering
  <2>6. Keeps(b)
    BY <2>3, <2>5, KeepsOr
  <2>7. QED
    BY <2>1, <2>2, <2>3, <2>4, <2>6, OwnHandler
<1>5. QED
  BY <1>1, <1>2, <1>3, <1>4 DEF TwoFactor

LEMMA OwnBegin ==
    ASSUME TInv, OwnInv, TInv', NEW w \in Workers, Begin(w)
    PROVE  OwnInv'
<1>h. /\ req \in [Workers -> Handler] /\ HandlerOK(w, req[w])
      /\ session \in [Browsers -> SessionObject]
      /\ owner \in [Sids -> Users \cup {None}]
  BY DEF TInv, TypeOK, ReqOK
<1>1. ASSUME NEW s \in Sids, BeginInsert(w, s) PROVE OwnInv'
  <2>1. /\ req'[w].pc = "publish" /\ req'[w].b = req[w].b
        /\ req'[w].u = req[w].u /\ req'[w].sid = s
        /\ \A v \in Workers \ {w} : req'[v] = req[v]
        /\ req[w].pc = "register" /\ session' = session
    BY <1>1, <1>h DEF BeginInsert, Handler
  (* The sid was free, so no other publisher and no session has it.         *)
  <2>2. owner'[s] = req[w].u /\ owner[s] = None /\ \A r \in Sids \ {s} : owner'[r] = owner[r]
    BY <1>1, <1>h DEF BeginInsert
  <2>3. PublishersDrew'
    <3> SUFFICES ASSUME NEW v \in Workers, req'[v].pc = "publish"
                 PROVE  req'[v].sid \in Sids /\ owner'[req'[v].sid] = req'[v].u
      BY DEF PublishersDrew
    <3>1. CASE v = w
      BY <2>1, <2>2, <3>1
    <3>2. CASE v # w
      <4>1. req'[v] = req[v] /\ req[v].sid \in Sids /\ owner[req[v].sid] = req[v].u
        BY <2>1, <3>2 DEF OwnInv, PublishersDrew
      <4>2. req[v].u \in Users
        BY <3>2, <4>1 DEF TInv, ReqOK, HandlerOK, ActorPCs, LoginPCs
      <4>3. QED
        BY <2>2, <4>1, <4>2
    <3>3. QED
      BY <3>1, <3>2
  <2>4. ASSUME NEW b \in Browsers PROVE Keeps(b)
    <3>1. Registering(b) => Registering(b)'
      BY <2>1 DEF Registering
    <3>2. QED
      BY <2>1, <3>1, KeepsSame, Untouched
  <2>5. \A v \in Workers, b \in Browsers :
           req'[v].b = b /\ req'[v].pc \in WritePCs => StandsFor(b, req'[v].u)
    BY <2>1 DEF StandsFor, Writes, WritePCs, LoginPCs
  <2>6. QED
    BY <2>2, <2>3, <2>4, <2>5, OwnAdvance DEF TInv, TypeOK
<1>2. CASE BeginFails(w)
  <2>1. /\ req'[w].pc = "idle" /\ req[w].pc = "register"
        /\ \A v \in Workers \ {w} : req'[v] = req[v]
    BY <1>2, <1>h, IdleType DEF BeginFails, Finish
  <2>2. owner' = owner
    BY <1>2 DEF BeginFails, dbVars
  <2>3. PICK b \in Browsers : req[w].b = b
    BY <1>h, <2>1 DEF HandlerOK, ActorPCs, LoginPCs
  <2>4. \A c \in Browsers : session'[c] = IF c = b THEN Cleared(c) ELSE session[c]
    BY <1>2, <1>h, <2>3 DEF BeginFails, ClearSession, Cleared
  <2>5. Emptied(b)
    BY <2>4 DEF Emptied
  <2>6. QED
    BY <2>1, <2>2, <2>3, <2>4, <2>5, OwnHandler DEF WritePCs, LoginPCs
<1>3. CASE BeginPublish(w)
  <2>1. /\ req'[w].pc = "idle" /\ req[w].pc = "publish"
        /\ \A v \in Workers \ {w} : req'[v] = req[v]
    BY <1>3, <1>h, IdleType DEF BeginPublish, Finish
  <2>2. PICK b \in Browsers : req[w].b = b
    BY <1>h, <2>1 DEF HandlerOK, ActorPCs, LoginPCs
  <2>3. req[w].sid \in Sids /\ owner[req[w].sid] = req[w].u /\ req[w].u \in Users
    BY <1>h, <2>1 DEF OwnInv, PublishersDrew, HandlerOK, ActorPCs, LoginPCs
  <2>4. /\ session'[b].user = session[b].user
        /\ session'[b].pending = session[b].pending
        /\ session'[b].crossed = session[b].crossed
        /\ session'[b].sid = IF session[b].sid = None THEN req[w].sid ELSE session[b].sid
        /\ \A c \in Browsers \ {b} : session'[c] = session[c]
        /\ owner' = owner
    BY <1>3, <1>h, <2>2 DEF BeginPublish, SessionObject, dbVars
  <2>5. StandsFor(b, req[w].u)
    BY <2>1, <2>2 DEF StandsFor, Writes, WritePCs, LoginPCs
  <2>6. session'[b].sid # None /\ session'[b].sid \in {session[b].sid, req[w].sid}
    BY <2>3, <2>4
  <2>7. PICK s \in Sids : s = req[w].sid
    BY <2>3
  <2>8. Keeps(b)
    BY <2>3, <2>4, <2>5, <2>6, <2>7, KeepsSid
  <2>9. QED
    BY <2>1, <2>2, <2>4, <2>8, OwnHandler DEF WritePCs, LoginPCs
<1>4. QED
  BY <1>1, <1>2, <1>3 DEF Begin

(* No other handler gives a session an identity, a sid or a pending user.   *)
LEMMA RevocationIsNoSignIn ==
    ASSUME TInv, NEW w \in Workers, Revocation(w)
    PROVE  NotASignIn
<1>h. /\ req \in [Workers -> Handler] /\ HandlerOK(w, req[w])
      /\ session \in [Browsers -> SessionObject]
  BY DEF TInv, TypeOK, ReqOK
<1>1. CASE RevokeOne(w)
  <2>1. req[w].pc \notin LoginPCs /\ req'[w].pc \notin LoginPCs /\ \A v \in Workers \ {w} : req'[v] = req[v]
    BY <1>1, <1>h, IdleType DEF RevokeOne, LoginPCs, Handler
  <2>2. \A b \in Browsers : session'[b] = session[b]
    BY <1>1, <1>h DEF RevokeOne
  <2>3. QED
    BY <1>1, <2>1, <2>2, AsideHandler DEF RevokeOne, dbVars
<1>2. CASE RevokeOthers(w)
  <2>1. req[w].pc \notin LoginPCs /\ req'[w].pc \notin LoginPCs /\ \A v \in Workers \ {w} : req'[v] = req[v]
    BY <1>2, <1>h, IdleType DEF RevokeOthers, LoginPCs, Handler
  <2>2. \A b \in Browsers : session'[b] = session[b]
    BY <1>2, <1>h DEF RevokeOthers
  <2>3. QED
    BY <1>2, <2>1, <2>2, AsideHandler DEF RevokeOthers, dbVars
<1>3. CASE RevokeFails(w)
  <2>1. req[w].pc \notin LoginPCs /\ req'[w].pc \notin LoginPCs /\ \A v \in Workers \ {w} : req'[v] = req[v]
    BY <1>3, <1>h, IdleType DEF RevokeFails, Goto, LoginPCs, Handler
  <2>2. \A b \in Browsers : session'[b] = session[b]
    BY <1>3, <1>h DEF RevokeFails
  <2>3. QED
    BY <1>3, <2>1, <2>2, AsideHandler DEF RevokeFails, dbVars
<1>4. CASE MarkLocal(w)
  <2>1. req[w].pc \notin LoginPCs /\ req'[w].pc \notin LoginPCs /\ \A v \in Workers \ {w} : req'[v] = req[v]
    BY <1>4, <1>h, IdleType DEF MarkLocal, LoginPCs, Handler
  <2>2. \A b \in Browsers : session'[b] = session[b]
    BY <1>4, <1>h DEF MarkLocal
  <2>3. QED
    BY <1>4, <2>1, <2>2, AsideHandler DEF MarkLocal, dbVars
<1>5. CASE MarkDone(w)
  <2>1. req[w].pc \notin LoginPCs /\ req'[w].pc \notin LoginPCs /\ \A v \in Workers \ {w} : req'[v] = req[v]
    BY <1>5, <1>h, IdleType DEF MarkDone, Finish, LoginPCs
  <2>2. \A b \in Browsers : session'[b] \in {session[b], Cleared(b)}
    BY <1>5, <1>h, ClearEmpties DEF MarkDone
  <2>3. QED
    BY <1>5, <2>1, <2>2, AsideHandler DEF MarkDone, dbVars
<1>6. ASSUME NEW b \in Browsers, AdviceSeesRevoked(w, b) PROVE NotASignIn
  <2>1. req[w].pc \notin LoginPCs /\ req'[w].pc \notin LoginPCs /\ \A v \in Workers \ {w} : req'[v] = req[v]
    BY <1>6, <1>h, IdleType DEF AdviceSeesRevoked, CanServe, Start, LoginPCs, Handler
  <2>2. session' = session
    BY <1>6, <1>h DEF AdviceSeesRevoked
  <2>3. QED
    BY <1>6, <2>1, <2>2, AsideHandler DEF AdviceSeesRevoked, dbVars
<1>7. CASE AdviceClears(w)
  <2>1. req[w].pc \notin LoginPCs /\ req'[w].pc \notin LoginPCs /\ \A v \in Workers \ {w} : req'[v] = req[v]
    BY <1>7, <1>h, IdleType DEF AdviceClears, Finish, LoginPCs
  <2>2. \A b \in Browsers : session'[b] \in {session[b], Cleared(b)}
    BY <1>7, <1>h, ClearEmpties DEF AdviceClears
  <2>3. QED
    BY <1>7, <2>1, <2>2, AsideHandler DEF AdviceClears, dbVars
<1>8. QED
  BY <1>1, <1>2, <1>3, <1>4, <1>5, <1>6, <1>7 DEF Revocation

LEMMA RequestIsNoSignIn ==
    ASSUME TInv, NEW w \in Workers, Request(w)
    PROVE  NotASignIn
<1>h. /\ req \in [Workers -> Handler] /\ HandlerOK(w, req[w])
      /\ session \in [Browsers -> SessionObject]
  BY DEF TInv, TypeOK, ReqOK
<1>a. ASSUME NEW b, NEW pc, NEW sid, Admit(w, b, pc, sid), pc \notin LoginPCs PROVE NotASignIn
  <2>1. req[w].pc \notin LoginPCs /\ req'[w].pc \notin LoginPCs /\ \A v \in Workers \ {w} : req'[v] = req[v]
    BY <1>a, <1>h, IdleType DEF Admit, CanServe, Start, Handler, LoginPCs
  <2>2. QED
    BY <1>a, <2>1, AsideHandler DEF Admit, dbVars
<1>b. \A pc \in {"revokeOne", "revokeOthers", "reauth", "erase", "logout"} : pc \notin LoginPCs
  BY DEF LoginPCs
<1>1. ASSUME NEW b \in Browsers, NEW s \in Sids, RevokeSession(w, b, s) PROVE NotASignIn
  BY <1>1, <1>a, <1>b DEF RevokeSession
<1>2. ASSUME NEW b \in Browsers, RevokeOtherSessions(w, b) PROVE NotASignIn
  BY <1>2, <1>a, <1>b DEF RevokeOtherSessions
<1>3. ASSUME NEW b \in Browsers, ChangePassword(w, b) PROVE NotASignIn
  BY <1>3, <1>a, <1>b DEF ChangePassword
<1>4. ASSUME NEW b \in Browsers, DeleteAccount(w, b) PROVE NotASignIn
  BY <1>4, <1>a, <1>b DEF DeleteAccount
<1>5. ASSUME NEW b \in Browsers, LogoutRead(w, b) PROVE NotASignIn
  BY <1>5, <1>a, <1>b DEF LogoutRead
<1>6. CASE LogoutClear(w)
  <2>1. req[w].pc \notin LoginPCs /\ req'[w].pc \notin LoginPCs /\ \A v \in Workers \ {w} : req'[v] = req[v]
    BY <1>6, <1>h, IdleType DEF LogoutClear, Finish, LoginPCs
  <2>2. \A b \in Browsers : session'[b] \in {session[b], Cleared(b)}
    BY <1>6, <1>h, ClearEmpties DEF LogoutClear
  <2>3. QED
    BY <1>6, <2>1, <2>2, AsideHandler DEF LogoutClear, dbVars
<1>7. CASE RunLogoutJob(w)
  <2>1. req[w].pc \notin LoginPCs /\ req'[w].pc \notin LoginPCs /\ \A v \in Workers \ {w} : req'[v] = req[v]
    BY <1>7, <1>h, IdleType DEF RunLogoutJob, Start, LoginPCs, Handler
  <2>2. \A b \in Browsers : session'[b] = session[b]
    BY <1>7, <1>h DEF RunLogoutJob
  <2>3. QED
    BY <1>7, <2>1, <2>2, AsideHandler DEF RunLogoutJob, dbVars
<1>8. CASE VerifyCurrent(w)
  <2>1. req[w].pc \notin LoginPCs /\ req'[w].pc \notin LoginPCs /\ \A v \in Workers \ {w} : req'[v] = req[v]
    <3>1. CASE req[w].u \in erased
      BY <1>8, <1>h, <3>1, IdleType DEF VerifyCurrent, Finish, LoginPCs
    <3>2. CASE req[w].u \notin erased
      <4>1. \A v : [req[w] EXCEPT !.pc = "setPassword", !.ver = v].pc = "setPassword"
        BY <1>h DEF Handler
      <4>2. PICK v : req' = [req EXCEPT ![w] = [req[w] EXCEPT !.pc = "setPassword", !.ver = v]]
        BY <1>8, <3>2 DEF VerifyCurrent
      <4>3. QED
        BY <1>8, <4>1, <4>2, <1>h DEF VerifyCurrent, LoginPCs
    <3>3. QED
      BY <3>1, <3>2
  <2>2. \A b \in Browsers : session'[b] = session[b]
    BY <1>8, <1>h DEF VerifyCurrent
  <2>3. QED
    BY <1>8, <2>1, <2>2, AsideHandler DEF VerifyCurrent, dbVars
<1>9. CASE KeepCurrent(w)
  <2>1. req[w].pc \notin LoginPCs /\ req'[w].pc \notin LoginPCs /\ \A v \in Workers \ {w} : req'[v] = req[v]
    BY <1>9, <1>h, IdleType DEF KeepCurrent, LoginPCs, Handler
  <2>2. \A b \in Browsers : session'[b] = session[b]
    BY <1>9, <1>h DEF KeepCurrent
  <2>3. QED
    BY <1>9, <2>1, <2>2, AsideHandler DEF KeepCurrent, dbVars
<1>10. CASE EraseAccount(w)
  <2>1. req[w].pc \notin LoginPCs /\ req'[w].pc \notin LoginPCs /\ \A v \in Workers \ {w} : req'[v] = req[v]
    BY <1>10, <1>h, IdleType DEF EraseAccount, LoginPCs, Handler
  <2>2. \A b \in Browsers : session'[b] = session[b]
    BY <1>10, <1>h DEF EraseAccount
  <2>3. QED
    BY <1>10, <2>1, <2>2, AsideHandler DEF EraseAccount, dbVars
<1>11. CASE EraseRefused(w)
  <2>1. req[w].pc \notin LoginPCs /\ req'[w].pc \notin LoginPCs /\ \A v \in Workers \ {w} : req'[v] = req[v]
    BY <1>11, <1>h, IdleType DEF EraseRefused, Finish, LoginPCs
  <2>2. \A b \in Browsers : session'[b] = session[b]
    BY <1>11, <1>h DEF EraseRefused
  <2>3. QED
    BY <1>11, <2>1, <2>2, AsideHandler DEF EraseRefused, dbVars
<1>12. ASSUME NEW u \in Users, ResetPassword(w, u) PROVE NotASignIn
  <2>1. req[w].pc \notin LoginPCs /\ req'[w].pc \notin LoginPCs /\ \A v \in Workers \ {w} : req'[v] = req[v]
    BY <1>12, <1>h, IdleType DEF ResetPassword, Start, LoginPCs, Handler
  <2>2. \A b \in Browsers : session'[b] = session[b]
    BY <1>12, <1>h DEF ResetPassword
  <2>3. QED
    BY <1>12, <2>1, <2>2, AsideHandler DEF ResetPassword, dbVars
<1>13. ASSUME NEW u \in Users, BanUser(w, u) PROVE NotASignIn
  <2>1. req[w].pc \notin LoginPCs /\ req'[w].pc \notin LoginPCs /\ \A v \in Workers \ {w} : req'[v] = req[v]
    BY <1>13, <1>h, IdleType DEF BanUser, Start, LoginPCs, Handler
  <2>2. \A b \in Browsers : session'[b] = session[b]
    BY <1>13, <1>h DEF BanUser
  <2>3. QED
    BY <1>13, <2>1, <2>2, AsideHandler DEF BanUser, dbVars
<1>14. CASE SetPassword(w)
  <2>1. req[w].pc \notin LoginPCs /\ req'[w].pc \notin LoginPCs /\ \A v \in Workers \ {w} : req'[v] = req[v]
    BY <1>14, <1>h DEF SetPassword, Goto, LoginPCs, Handler
  <2>2. \A b \in Browsers : /\ session'[b].user = session[b].user
                            /\ session'[b].sid = session[b].sid
                            /\ session'[b].pending = session[b].pending
                            /\ session'[b].crossed = session[b].crossed
    BY <1>14, <1>h DEF SetPassword, SessionObject
  <2>3. QED
    BY <1>14, <2>1, <2>2 DEF SetPassword, NotASignIn, SameObject
<1>15. QED
  BY <1>1, <1>2, <1>3, <1>4, <1>5, <1>6, <1>7, <1>8, <1>9, <1>10, <1>11, <1>12, <1>13, <1>14 DEF Request

(* A process dies with its sign-ins and the sessions they were writing to.  *)
LEMMA OwnRestart ==
    ASSUME TInv, OwnInv, TInv', NEW p \in Procs, Restart(p)
    PROVE  OwnInv'
<1>1. /\ \A w \in Workers : IF ProcOf[w] = p THEN req'[w] = Idle ELSE req'[w] = req[w]
      /\ \A b \in Browsers : IF Home[b] = p THEN session'[b] = EmptySession
                             ELSE session'[b] = session[b]
      /\ owner' = owner
  BY DEF Restart
<1>l. {"register", "publish"} \cup WritePCs \subseteq ActorPCs
  BY DEF ActorPCs, LoginPCs, WritePCs
<1>p. "idle" \notin {"register", "publish"} \cup WritePCs
  BY DEF WritePCs, LoginPCs
<1>2. PublishersDrew'
  BY <1>1, IdleType DEF OwnInv, PublishersDrew
<1>3. ASSUME NEW w \in Workers, req'[w].pc \in {"register", "publish"} \cup WritePCs
      PROVE  req'[w] = req[w] /\ req[w].b \in Browsers /\ Home[req[w].b] # p
  <2>1. req'[w] = req[w] /\ ProcOf[w] # p
    BY <1>1, <1>3, <1>p, IdleType
  <2>2. req[w].b \in Browsers /\ ProcOf[w] = Home[req[w].b]
    BY <1>3, <1>l, <2>1 DEF TInv, ReqOK, HandlerOK
  <2>3. QED
    BY <2>1, <2>2
<1>4. ASSUME NEW b \in Browsers PROVE Emptied(b) \/ Keeps(b)
  <2>1. CASE Home[b] = p
    <3>1. ~SignInsCross(b)
      BY <1>3, <2>1 DEF SignInsCross
    <3>2. Cleared(b) = [EmptySession EXCEPT !.crossed = FALSE]
      <4>1. SignInsCross(b) = FALSE
        BY <3>1
      <4>2. QED
        BY <4>1 DEF Cleared
    <3>3. Cleared(b) = EmptySession
      BY <3>2 DEF EmptySession
    <3>4. QED
      BY <1>1, <2>1, <3>3 DEF Emptied
  <2>2. CASE Home[b] # p
    <3>1. SameObject(b)
      BY <1>1, <2>2, Untouched
    <3>2. Registering(b) => Registering(b)'
      <4> SUFFICES ASSUME NEW w \in Workers, req[w].b = b, req[w].pc \in {"register", "publish"}
                   PROVE  Registering(b)'
        BY DEF Registering
      <4>1. ProcOf[w] = Home[b]
        BY <1>l DEF TInv, ReqOK, HandlerOK
      <4>2. req'[w] = req[w]
        BY <1>1, <2>2, <4>1
      <4>3. QED
        BY <4>2 DEF Registering
    <3>3. QED
      BY <3>1, <3>2, KeepsSame
  <2>3. QED
    BY <2>1, <2>2
<1>5. ASSUME NEW w \in Workers, NEW b \in Browsers,
             req'[w].b = b, req'[w].pc \in WritePCs
      PROVE  StandsFor(b, req'[w].u)
  BY <1>3, <1>5 DEF StandsFor, Writes
<1>6. QED
  BY <1>1, <1>2, <1>4, <1>5, OwnAdvance DEF TInv, TypeOK

LEMMA OwnStep == TInv /\ OwnInv /\ [Next]_vars => OwnInv'
<1> SUFFICES ASSUME TInv, OwnInv, [Next]_vars PROVE OwnInv'
  OBVIOUS
<1>t. TInv'
  BY TypeStep
<1>1. ASSUME NEW w \in Workers,
             Login(w) \/ TwoFactor(w) \/ Begin(w) \/ Revocation(w) \/ Request(w)
      PROVE  OwnInv'
  BY <1>1, <1>t, OwnLogin, OwnTwoFactor, OwnBegin, RevocationIsNoSignIn, RequestIsNoSignIn, OwnWeaken
<1>2. ASSUME NEW u \in Users, UnbanUser(u) PROVE OwnInv'
  BY <1>2, <1>t, OwnWeaken, Untouched DEF NotASignIn, UnbanUser
<1>3. ASSUME NEW p \in Procs, Deliver(p) PROVE OwnInv'
  BY <1>3, <1>t, OwnWeaken, Untouched DEF NotASignIn, Deliver, dbVars
<1>4. ASSUME NEW p \in Procs, Restart(p) PROVE OwnInv'
  BY <1>4, <1>t, OwnRestart
<1>5. CASE UNCHANGED vars
  BY <1>5, <1>t, OwnWeaken, Untouched DEF NotASignIn, vars, dbVars
<1>6. QED
  BY <1>1, <1>2, <1>3, <1>4, <1>5 DEF Next

(* However sign-ins, sign-outs and failures of a browser overlap, a session *)
(* that has a user carries a sid that has a row or is being registered; the *)
(* row is the user's own unless sign-ins of two users were writing to the   *)
(* session when it was last emptied.                                        *)
THEOREM SessionsStayRegistered == Spec => []SessionsAreRegistered
<1>1. TInv /\ OwnInv /\ [Next]_vars => TInv' /\ OwnInv'
  BY TypeStep, OwnStep
<1>2. QED
  BY <1>1, OwnPromise, TypeInit, OwnInit, PTL DEF Spec

-----------------------------------------------------------------------------
(***************************************************************************)
(* Revocation reaches the process that holds the session, provided no      *)
(* notification is lost or there is only one process.  The invariant also  *)
(* covers the window in which begin() has inserted a row and not published *)
(* its sid yet: a revocation may retire the row in between.                *)
(***************************************************************************)

(* One process tells itself; several rely on the notifications.             *)
Reliable == ~ListenerLossy \/ \A p, q \in Procs : p = q
(* A sid is covered in a process once it is in the revoked set there, or a  *)
(* handler or a notification is about to put it there.                      *)
Covered(p, s) == s \in revokedMem[p] \/ BeingRevoked(p, s)

(* A retired sid is covered wherever it can still be used: where a session  *)
(* carries it, and where begin() is about to publish it.                    *)
SessionsCovered ==
    \A b \in Browsers : session[b].sid \in revoked => Covered(Home[b], session[b].sid)

PublishersCovered ==
    \A w \in Workers : req[w].pc = "publish" /\ req[w].sid \in revoked =>
                          Covered(ProcOf[w], req[w].sid)

(* Only a marking handler has sids to mark, and a revoking one has a user,  *)
(* so that it retires rows and never a sid that was not drawn yet.          *)
RevokePCs == {"revokeOne", "revokeOthers"}
HandlerQuiet(h) == /\ h.todo # {} => h.pc = "mark"
                   /\ h.pc \in RevokePCs => h.u \in Users

ReachInv ==
    /\ SessionsCovered
    /\ PublishersCovered
    /\ \A w \in Workers : HandlerQuiet(req[w])
    /\ \A s \in revoked : owner[s] # None

LEMMA ReachInit == Init => ReachInv
BY DEF Init, ReachInv, SessionsCovered, PublishersCovered, HandlerQuiet,
       RevokePCs, Idle, EmptySession

(* Most steps retire nothing, uncover nothing and publish nothing.          *)
LEMMA ReachQuiet ==
    ASSUME TInv, ReachInv, UNCHANGED <<owner, revoked, revokedMem, notify>>,
           \A b \in Browsers : session'[b].sid \in {session[b].sid, None},
           \A v \in Workers :
              \/ req'[v] = req[v]
              \/ /\ req'[v].pc # "publish" /\ req'[v].todo = req[v].todo
                 /\ HandlerQuiet(req'[v])
    PROVE  ReachInv'
<1>1. \A p, s : Covered(p, s) => Covered(p, s)'
  BY DEF Covered, BeingRevoked
<1>2. None \notin revoked
  BY DEF TInv, TypeOK
<1>3. SessionsCovered'
  BY <1>1, <1>2 DEF ReachInv, SessionsCovered
<1>4. PublishersCovered'
  BY <1>1 DEF ReachInv, PublishersCovered
<1>5. (\A w \in Workers : HandlerQuiet(req[w]))'
  BY DEF ReachInv, HandlerQuiet
<1>6. QED
  BY <1>3, <1>4, <1>5 DEF ReachInv

(* A step of one handler that only moves it on.                             *)
LEMMA ReachMove ==
    ASSUME TInv, ReachInv, NEW w \in Workers,
           UNCHANGED <<owner, revoked, revokedMem, notify>>,
           \A b \in Browsers : session'[b].sid \in {session[b].sid, None},
           \A v \in Workers \ {w} : req'[v] = req[v],
           req'[w].pc # "publish", req'[w].todo = {},
           req[w].pc # "mark" \/ req[w].todo = {},
           req'[w].pc \in RevokePCs => req'[w].u \in Users
    PROVE  ReachInv'
<1>1. req[w].todo = {}
  BY DEF ReachInv, HandlerQuiet
<1>2. HandlerQuiet(req'[w])
  BY DEF HandlerQuiet
<1>3. QED
  BY <1>1, <1>2, ReachQuiet

(* A statement that retires rows covers what it retires in every process:   *)
(* by the trigger, or by the marking that follows in the only process.      *)
LEMMA ReachRetire ==
    ASSUME TInv, ReachInv, Reliable, NEW w \in Workers, NEW sids \in SUBSET Sids,
           Retire(sids), UNCHANGED <<owner, session, revokedMem>>,
           \A s \in sids : owner[s] # None,
           \A v \in Workers \ {w} : req'[v] = req[v],
           req'[w].pc = "mark", req'[w].todo = sids, req[w].pc # "mark"
    PROVE  ReachInv'
<1>1. revoked' = revoked \cup sids /\ \A p \in Procs : notify[p] \subseteq notify'[p]
  BY DEF Retire, Deafness, TInv, TypeOK
<1>2. req[w].todo = {}
  BY DEF ReachInv, HandlerQuiet
<1>3. ASSUME NEW p \in Procs, NEW s, Covered(p, s) PROVE Covered(p, s)'
  <2>1. CASE \E v \in Workers : ProcOf[v] = p /\ s \in req[v].todo
    BY <1>2, <2>1 DEF Covered, BeingRevoked
  <2>2. CASE s \in revokedMem[p] \/ s \in notify[p]
    BY <1>1, <2>2 DEF Covered, BeingRevoked
  <2>3. QED
    BY <1>3, <2>1, <2>2 DEF Covered, BeingRevoked
<1>4. ASSUME NEW p \in Procs, NEW s \in sids PROVE Covered(p, s)'
  <2>1. CASE ~ListenerLossy
    <3>1. notify'[p] = notify[p] \cup sids
      BY <2>1 DEF Retire, Deafness
    <3>2. QED
      BY <3>1 DEF Covered, BeingRevoked
  <2>2. CASE \A q, r \in Procs : q = r
    BY <2>2 DEF Covered, BeingRevoked
  <2>3. QED
    BY <2>1, <2>2 DEF Reliable
<1>5. SessionsCovered'
  BY <1>1, <1>3, <1>4 DEF ReachInv, SessionsCovered
<1>6. PublishersCovered'
  BY <1>1, <1>3, <1>4 DEF ReachInv, PublishersCovered
<1>7. (\A v \in Workers : HandlerQuiet(req[v]))'
  BY DEF ReachInv, HandlerQuiet, RevokePCs
<1>8. (\A s \in revoked : owner[s] # None)'
  BY <1>1 DEF ReachInv
<1>9. QED
  BY <1>5, <1>6, <1>7, <1>8 DEF ReachInv

(* A sid moves from the notifications or a handler's list to the revoked    *)
(* set of the same process.                                                 *)
LEMMA ReachMark ==
    ASSUME TInv, ReachInv, NEW p \in Procs, NEW s,
           UNCHANGED <<owner, revoked, session>>,
           \A q \in Procs : /\ notify[q] \subseteq notify'[q] \cup (IF q = p THEN {s} ELSE {})
                            /\ revokedMem[q] \subseteq revokedMem'[q],
           s \in revokedMem'[p],
           \A v \in Workers :
              \/ req'[v] = req[v]
              \/ /\ ProcOf[v] = p /\ req[v].todo \subseteq req'[v].todo \cup {s}
                 /\ req[v].pc = "mark" /\ req'[v].pc = "mark"
    PROVE  ReachInv'
<1>1. ASSUME NEW q \in Procs, NEW r, Covered(q, r) PROVE Covered(q, r)'
  <2>1. CASE q = p /\ r = s
    BY <2>1 DEF Covered
  <2>2. CASE ~(q = p /\ r = s)
    BY <1>1, <2>2 DEF Covered, BeingRevoked
  <2>3. QED
    BY <2>1, <2>2
<1>2. SessionsCovered'
  BY <1>1 DEF ReachInv, SessionsCovered
<1>3. PublishersCovered'
  BY <1>1 DEF ReachInv, PublishersCovered
<1>4. (\A v \in Workers : HandlerQuiet(req[v]))'
  BY DEF ReachInv, HandlerQuiet, RevokePCs
<1>5. QED
  BY <1>2, <1>3, <1>4 DEF ReachInv

-----------------------------------------------------------------------------
(* The steps of a sign-in retire nothing.                                   *)
LEMMA ReachLogin ==
    ASSUME TInv, ReachInv, NEW w \in Workers, Login(w)
    PROVE  ReachInv'
<1>h. /\ req \in [Workers -> Handler] /\ HandlerOK(w, req[w])
      /\ session \in [Browsers -> SessionObject]
      /\ req[w].pc # "mark" => req[w].todo = {}
  BY DEF TInv, TypeOK, ReqOK, ReachInv, HandlerQuiet
<1>1. ASSUME NEW b \in Browsers, NEW u \in Users, LoginVerify(w, b, u) PROVE ReachInv'
  <2>1. /\ req'[w].pc \notin RevokePCs \cup {"publish"} /\ req'[w].todo = {}
        /\ \A v \in Workers \ {w} : req'[v] = req[v]
    BY <1>1, <1>h, IdleType DEF LoginVerify, RevokePCs, CanSignIn, CanServe, Start, Handler
  <2>2. /\ UNCHANGED <<owner, revoked, revokedMem, notify>> /\ req[w].pc # "mark"
        /\ \A c \in Browsers : session'[c].sid \in {session[c].sid, None}
    BY <1>1, <1>h DEF LoginVerify, dbVars, CanSignIn, CanServe
  <2>3. QED
    BY <2>1, <2>2, ReachMove
<1>2. CASE LoginCheckErased(w)
  <2>1. /\ req'[w].pc \notin RevokePCs \cup {"publish"} /\ req'[w].todo = {}
        /\ \A v \in Workers \ {w} : req'[v] = req[v]
    BY <1>2, <1>h, IdleType DEF LoginCheckErased, RevokePCs, Goto, Finish, Handler
  <2>2. /\ UNCHANGED <<owner, revoked, revokedMem, notify>> /\ req[w].pc # "mark"
        /\ session' = session
    BY <1>2, <1>h DEF LoginCheckErased, dbVars
  <2>3. QED
    BY <2>1, <2>2, ReachMove
<1>3. CASE LoginCheckBanned(w)
  <2>1. /\ req'[w].pc \notin RevokePCs \cup {"publish"} /\ req'[w].todo = {}
        /\ \A v \in Workers \ {w} : req'[v] = req[v]
    BY <1>3, <1>h, IdleType DEF LoginCheckBanned, RevokePCs, Goto, Finish, Handler
  <2>2. /\ UNCHANGED <<owner, revoked, revokedMem, notify>> /\ req[w].pc # "mark"
        /\ session' = session
    BY <1>3, <1>h DEF LoginCheckBanned, dbVars
  <2>3. QED
    BY <2>1, <2>2, ReachMove
<1>4. CASE LoginClear(w)
  <2>1. /\ req'[w].pc \notin RevokePCs \cup {"publish"} /\ req'[w].todo = {}
        /\ \A v \in Workers \ {w} : req'[v] = req[v]
    BY <1>4, <1>h, IdleType DEF LoginClear, RevokePCs, Goto, Handler
  <2>2. /\ UNCHANGED <<owner, revoked, revokedMem, notify>> /\ req[w].pc # "mark"
        /\ \A b \in Browsers : session'[b].sid \in {session[b].sid, None}
    BY <1>4, <1>h, ClearEmpties, ClearedFields DEF LoginClear, dbVars
  <2>3. QED
    BY <2>1, <2>2, ReachMove
<1>5. CASE BeginPendingLogin(w)
  <2>1. /\ req'[w].pc \notin RevokePCs \cup {"publish"} /\ req'[w].todo = {}
        /\ \A v \in Workers \ {w} : req'[v] = req[v]
    BY <1>5, <1>h, IdleType DEF BeginPendingLogin, RevokePCs, Finish
  <2>2. /\ UNCHANGED <<owner, revoked, revokedMem, notify>> /\ req[w].pc # "mark"
        /\ \A b \in Browsers : session'[b].sid \in {session[b].sid, None}
    BY <1>5, <1>h DEF BeginPendingLogin, dbVars, SessionObject
  <2>3. QED
    BY <2>1, <2>2, ReachMove
<1>6. CASE InsertUser(w)
  <2>1. /\ req'[w].pc \notin RevokePCs \cup {"publish"} /\ req'[w].todo = {}
        /\ \A v \in Workers \ {w} : req'[v] = req[v]
    BY <1>6, <1>h, IdleType DEF InsertUser, RevokePCs, Goto, Handler
  <2>2. /\ UNCHANGED <<owner, revoked, revokedMem, notify>> /\ req[w].pc # "mark"
        /\ \A b \in Browsers : session'[b].sid \in {session[b].sid, None}
    BY <1>6, <1>h DEF InsertUser, dbVars, SessionObject
  <2>3. QED
    BY <2>1, <2>2, ReachMove
<1>7. QED
  BY <1>1, <1>2, <1>3, <1>4, <1>5, <1>6 DEF Login

LEMMA ReachTwoFactor ==
    ASSUME TInv, ReachInv, NEW w \in Workers, TwoFactor(w)
    PROVE  ReachInv'
<1>h. /\ req \in [Workers -> Handler] /\ HandlerOK(w, req[w])
      /\ session \in [Browsers -> SessionObject]
      /\ req[w].pc # "mark" => req[w].todo = {}
  BY DEF TInv, TypeOK, ReqOK, ReachInv, HandlerQuiet
<1>1. ASSUME NEW b \in Browsers, TwoFactorRead(w, b) PROVE ReachInv'
  <2>1. /\ req'[w].pc \notin RevokePCs \cup {"publish"} /\ req'[w].todo = {}
        /\ \A v \in Workers \ {w} : req'[v] = req[v]
    BY <1>1, <1>h, IdleType DEF TwoFactorRead, RevokePCs, CanSignIn, CanServe, Start, Handler
  <2>2. /\ UNCHANGED <<owner, revoked, revokedMem, notify>> /\ req[w].pc # "mark"
        /\ \A c \in Browsers : session'[c].sid \in {session[c].sid, None}
    BY <1>1, <1>h DEF TwoFactorRead, dbVars, CanSignIn, CanServe
  <2>3. QED
    BY <2>1, <2>2, ReachMove
<1>2. CASE TwoFactorVerify(w)
  <2>1. /\ req'[w].pc \notin RevokePCs \cup {"publish"} /\ req'[w].todo = {}
        /\ \A v \in Workers \ {w} : req'[v] = req[v]
    BY <1>2, <1>h, IdleType DEF TwoFactorVerify, RevokePCs, Goto, Finish, Handler
  <2>2. /\ UNCHANGED <<owner, revoked, revokedMem, notify>> /\ req[w].pc # "mark"
        /\ session' = session
    BY <1>2, <1>h DEF TwoFactorVerify, dbVars
  <2>3. QED
    BY <2>1, <2>2, ReachMove
<1>3. CASE ClearPending(w)
  <2>1. /\ req'[w].pc \notin RevokePCs \cup {"publish"} /\ req'[w].todo = {}
        /\ \A v \in Workers \ {w} : req'[v] = req[v]
    BY <1>3, <1>h, IdleType DEF ClearPending, RevokePCs, Goto, Handler
  <2>2. /\ UNCHANGED <<owner, revoked, revokedMem, notify>> /\ req[w].pc # "mark"
        /\ \A b \in Browsers : session'[b].sid \in {session[b].sid, None}
    BY <1>3, <1>h DEF ClearPending, dbVars, SessionObject
  <2>3. QED
    BY <2>1, <2>2, ReachMove
<1>4. ASSUME NEW b \in Browsers, TwoFactorExpired(w, b) PROVE ReachInv'
  <2>1. \A c \in Browsers : session'[c].sid = session[c].sid
    BY <1>4, <1>h DEF TwoFactorExpired, SessionObject
  <2>2. QED
    BY <1>4, <2>1, ReachQuiet DEF TwoFactorExpired, dbVars
<1>5. QED
  BY <1>1, <1>2, <1>3, <1>4 DEF TwoFactor

(* begin() publishes a row that may have been retired since it was inserted. *)
LEMMA ReachBegin ==
    ASSUME TInv, ReachInv, NEW w \in Workers, Begin(w)
    PROVE  ReachInv'
<1>h. /\ req \in [Workers -> Handler] /\ HandlerOK(w, req[w])
      /\ session \in [Browsers -> SessionObject]
      /\ req[w].pc # "mark" => req[w].todo = {}
  BY DEF TInv, TypeOK, ReqOK, ReachInv, HandlerQuiet
<1>1. ASSUME NEW s \in Sids, BeginInsert(w, s) PROVE ReachInv'
  <2>1. /\ req'[w].pc = "publish" /\ req'[w].sid = s /\ req'[w].todo = {}
        /\ \A v \in Workers \ {w} : req'[v] = req[v]
        /\ req[w].pc = "register" /\ UNCHANGED <<revoked, revokedMem, notify, session>>
    BY <1>1, <1>h DEF BeginInsert, Handler
  <2>2. req[w].u \in Users /\ owner[s] = None /\ owner' = [owner EXCEPT ![s] = req[w].u]
    BY <1>1, <1>h, <2>1 DEF BeginInsert, HandlerOK, ActorPCs, LoginPCs
  <2>3. s \notin revoked /\ \A r \in revoked : owner'[r] # None
    BY <2>2 DEF ReachInv, TInv, TypeOK
  <2>4. \A p, r : Covered(p, r) => Covered(p, r)'
    BY <2>1, <1>h DEF Covered, BeingRevoked
  <2>5. SessionsCovered' /\ PublishersCovered'
    BY <2>1, <2>3, <2>4 DEF ReachInv, SessionsCovered, PublishersCovered
  <2>6. (\A v \in Workers : HandlerQuiet(req[v]))'
    BY <2>1 DEF ReachInv, HandlerQuiet, RevokePCs
  <2>7. QED
    BY <2>1, <2>3, <2>5, <2>6 DEF ReachInv
<1>2. CASE BeginFails(w)
  <2>1. /\ req'[w].pc \notin RevokePCs \cup {"publish"} /\ req'[w].todo = {}
        /\ \A v \in Workers \ {w} : req'[v] = req[v]
    BY <1>2, <1>h, IdleType DEF BeginFails, RevokePCs, Finish
  <2>2. /\ UNCHANGED <<owner, revoked, revokedMem, notify>> /\ req[w].pc # "mark"
        /\ \A b \in Browsers : session'[b].sid \in {session[b].sid, None}
    BY <1>2, <1>h, ClearEmpties, ClearedFields DEF BeginFails, dbVars
  <2>3. QED
    BY <2>1, <2>2, ReachMove
<1>3. CASE BeginPublish(w)
  <2>1. /\ req'[w] = Idle /\ req[w].pc = "publish"
        /\ \A v \in Workers \ {w} : req'[v] = req[v]
        /\ UNCHANGED <<owner, revoked, revokedMem, notify>>
    BY <1>3, <1>h DEF BeginPublish, Finish, dbVars
  <2>2. req[w].b \in Browsers /\ ProcOf[w] = Home[req[w].b]
    BY <1>h, <2>1 DEF HandlerOK, ActorPCs, LoginPCs
  <2>3. \A b \in Browsers : \/ session'[b].sid = session[b].sid
                            \/ b = req[w].b /\ session'[b].sid = req[w].sid
    BY <1>3, <1>h DEF BeginPublish, SessionObject
  <2>4. \A p, r : Covered(p, r) => Covered(p, r)'
    BY <2>1, <1>h DEF Covered, BeingRevoked
  <2>5. SessionsCovered'
    BY <2>1, <2>2, <2>3, <2>4 DEF ReachInv, SessionsCovered, PublishersCovered
  <2>6. PublishersCovered' /\ (\A v \in Workers : HandlerQuiet(req[v]))'
    BY <2>1, <2>4, IdleType DEF ReachInv, PublishersCovered, HandlerQuiet, RevokePCs
  <2>7. QED
    BY <2>1, <2>5, <2>6 DEF ReachInv
<1>4. QED
  BY <1>1, <1>2, <1>3 DEF Begin

LEMMA ReachRevocation ==
    ASSUME TInv, ReachInv, Reliable, NEW w \in Workers, Revocation(w)
    PROVE  ReachInv'
<1>h. /\ req \in [Workers -> Handler] /\ HandlerOK(w, req[w])
      /\ session \in [Browsers -> SessionObject]
      /\ req[w].pc # "mark" => req[w].todo = {}
  BY DEF TInv, TypeOK, ReqOK, ReachInv, HandlerQuiet
<1>1. CASE RevokeOne(w)
  <2> DEFINE hit == {req[w].sid} \cap LiveRows(req[w].u)
  <2>1. /\ req' = [req EXCEPT ![w] = [req[w] EXCEPT !.pc = "mark", !.todo = hit]]
        /\ Retire(hit) /\ UNCHANGED <<owner, session, revokedMem>>
        /\ req[w].pc \in RevokePCs
    BY <1>1 DEF RevokeOne, RevokePCs
  <2>2. req[w].u \in Users
    BY <2>1 DEF ReachInv, HandlerQuiet
  <2>3. hit \in SUBSET Sids /\ \A s \in hit : owner[s] # None
    BY <2>2 DEF LiveRows
  <2> HIDE DEF hit
  <2>4. /\ req'[w].pc = "mark" /\ req'[w].todo = hit
        /\ \A v \in Workers \ {w} : req'[v] = req[v]
    BY <1>h, <2>1 DEF Handler
  <2>5. QED
    BY <2>1, <2>3, <2>4, ReachRetire DEF RevokePCs
<1>2. CASE RevokeOthers(w)
  <2> DEFINE hit == LiveRows(req[w].u) \ {req[w].sid}
  <2>1. /\ req' = [req EXCEPT ![w] = [req[w] EXCEPT !.pc = "mark", !.todo = hit]]
        /\ Retire(hit) /\ UNCHANGED <<owner, session, revokedMem>>
        /\ req[w].pc \in RevokePCs
    BY <1>2 DEF RevokeOthers, RevokePCs
  <2>2. req[w].u \in Users
    BY <2>1 DEF ReachInv, HandlerQuiet
  <2>3. hit \in SUBSET Sids /\ \A s \in hit : owner[s] # None
    BY <2>2 DEF LiveRows
  <2> HIDE DEF hit
  <2>4. /\ req'[w].pc = "mark" /\ req'[w].todo = hit
        /\ \A v \in Workers \ {w} : req'[v] = req[v]
    BY <1>h, <2>1 DEF Handler
  <2>5. QED
    BY <2>1, <2>3, <2>4, ReachRetire DEF RevokePCs
<1>3. CASE RevokeFails(w)
  <2>1. /\ req'[w].pc \notin RevokePCs \cup {"publish"} /\ req'[w].todo = {}
        /\ \A v \in Workers \ {w} : req'[v] = req[v]
    BY <1>3, <1>h, IdleType DEF RevokeFails, RevokePCs, Goto, Handler
  <2>2. /\ UNCHANGED <<owner, revoked, revokedMem, notify>> /\ req[w].pc # "mark"
        /\ session' = session
    BY <1>3, <1>h DEF RevokeFails, dbVars
  <2>3. QED
    BY <2>1, <2>2, ReachMove
<1>4. CASE MarkLocal(w)
  <2>1. PICK s \in req[w].todo :
           /\ revokedMem' = [revokedMem EXCEPT ![ProcOf[w]] = @ \cup {s}]
           /\ req' = [req EXCEPT ![w] = [req[w] EXCEPT !.todo = @ \ {s}]]
    BY <1>4 DEF MarkLocal
  <2>2. /\ req[w].pc = "mark" /\ req'[w].pc = "mark" /\ req'[w].todo = req[w].todo \ {s}
        /\ \A v \in Workers \ {w} : req'[v] = req[v]
    BY <1>4, <1>h, <2>1 DEF MarkLocal, Handler
  <2>3. /\ s \in revokedMem'[ProcOf[w]] /\ ProcOf[w] \in Procs
        /\ \A q \in Procs : revokedMem[q] \subseteq revokedMem'[q]
    BY <2>1 DEF TInv, TypeOK
  <2>4. UNCHANGED <<owner, revoked, session, notify>>
    BY <1>4 DEF MarkLocal, dbVars
  <2>5. QED
    BY <2>2, <2>3, <2>4, ReachMark
<1>5. CASE MarkDone(w)
  <2>1. /\ req'[w].pc = "idle" /\ req'[w].todo = {}
        /\ \A v \in Workers \ {w} : req'[v] = req[v]
        /\ req[w].todo = {}
    BY <1>5, <1>h, IdleType DEF MarkDone, Finish
  <2>2. /\ UNCHANGED <<owner, revoked, revokedMem, notify>>
        /\ \A b \in Browsers : session'[b].sid \in {session[b].sid, None}
    BY <1>5, <1>h, ClearEmpties, ClearedFields DEF MarkDone, dbVars
  <2>3. QED
    BY <2>1, <2>2, ReachMove DEF RevokePCs
<1>6. ASSUME NEW b \in Browsers, AdviceSeesRevoked(w, b) PROVE ReachInv'
  <2>1. /\ req'[w].pc \notin RevokePCs \cup {"publish"} /\ req'[w].todo = {}
        /\ \A v \in Workers \ {w} : req'[v] = req[v]
    BY <1>6, <1>h, IdleType DEF AdviceSeesRevoked, RevokePCs, CanServe, Start, Handler
  <2>2. /\ UNCHANGED <<owner, revoked, revokedMem, notify>> /\ req[w].pc # "mark"
        /\ \A c \in Browsers : session'[c].sid \in {session[c].sid, None}
    BY <1>6, <1>h DEF AdviceSeesRevoked, dbVars, CanServe
  <2>3. QED
    BY <2>1, <2>2, ReachMove
<1>7. CASE AdviceClears(w)
  <2>1. /\ req'[w].pc \notin RevokePCs \cup {"publish"} /\ req'[w].todo = {}
        /\ \A v \in Workers \ {w} : req'[v] = req[v]
    BY <1>7, <1>h, IdleType DEF AdviceClears, RevokePCs, Finish
  <2>2. /\ UNCHANGED <<owner, revoked, revokedMem, notify>> /\ req[w].pc # "mark"
        /\ \A b \in Browsers : session'[b].sid \in {session[b].sid, None}
    BY <1>7, <1>h, ClearEmpties, ClearedFields DEF AdviceClears, dbVars
  <2>3. QED
    BY <2>1, <2>2, ReachMove
<1>8. QED
  BY <1>1, <1>2, <1>3, <1>4, <1>5, <1>6, <1>7 DEF Revocation

LEMMA ReachRequest ==
    ASSUME TInv, ReachInv, Reliable, NEW w \in Workers, Request(w)
    PROVE  ReachInv'
<1>h. /\ req \in [Workers -> Handler] /\ HandlerOK(w, req[w])
      /\ session \in [Browsers -> SessionObject]
      /\ req[w].pc # "mark" => req[w].todo = {}
  BY DEF TInv, TypeOK, ReqOK, ReachInv, HandlerQuiet
<1>a. ASSUME NEW b \in Browsers, NEW pc, NEW sid, Admit(w, b, pc, sid), pc # "publish"
      PROVE  ReachInv'
  <2>1. session[b].user \in Users
    BY <1>a, ObjectFields DEF Admit, Live, TInv, TypeOK
  <2>2. /\ req'[w].pc # "publish" /\ req'[w].u \in Users /\ req'[w].todo = {}
        /\ \A v \in Workers \ {w} : req'[v] = req[v]
    BY <1>a, <1>h, <2>1, IdleType DEF Admit, Start, Handler
  <2>3. /\ UNCHANGED <<owner, revoked, revokedMem, notify>> /\ req[w].pc # "mark"
        /\ session' = session
    BY <1>a DEF Admit, CanServe, dbVars
  <2>4. QED
    BY <2>2, <2>3, ReachMove
<1>1. ASSUME NEW b \in Browsers, NEW s \in Sids, RevokeSession(w, b, s) PROVE ReachInv'
  BY <1>1, <1>a DEF RevokeSession
<1>2. ASSUME NEW b \in Browsers, RevokeOtherSessions(w, b) PROVE ReachInv'
  BY <1>2, <1>a DEF RevokeOtherSessions
<1>3. ASSUME NEW b \in Browsers, ChangePassword(w, b) PROVE ReachInv'
  BY <1>3, <1>a DEF ChangePassword
<1>4. ASSUME NEW b \in Browsers, DeleteAccount(w, b) PROVE ReachInv'
  BY <1>4, <1>a DEF DeleteAccount
<1>5. ASSUME NEW b \in Browsers, LogoutRead(w, b) PROVE ReachInv'
  BY <1>5, <1>a DEF LogoutRead
<1>6. CASE LogoutClear(w)
  <2>1. /\ req'[w].pc \notin RevokePCs \cup {"publish"} /\ req'[w].todo = {}
        /\ \A v \in Workers \ {w} : req'[v] = req[v]
    BY <1>6, <1>h, IdleType DEF LogoutClear, RevokePCs, Finish
  <2>2. /\ UNCHANGED <<owner, revoked, revokedMem, notify>> /\ req[w].pc # "mark"
        /\ \A b \in Browsers : session'[b].sid \in {session[b].sid, None}
    BY <1>6, <1>h, ClearEmpties, ClearedFields DEF LogoutClear, dbVars
  <2>3. QED
    BY <2>1, <2>2, ReachMove
<1>7. CASE RunLogoutJob(w)
  <2>1. PICK j \in jobs[ProcOf[w]] :
           req' = [req EXCEPT ![w] = [Start("revokeOne", None, j.u) EXCEPT !.sid = j.sid]]
    BY <1>7 DEF RunLogoutJob
  <2>2. j.u \in Users
    BY DEF TInv, TypeOK
  <2>3. /\ req'[w].pc # "publish" /\ req'[w].u \in Users /\ req'[w].todo = {}
        /\ \A v \in Workers \ {w} : req'[v] = req[v]
    BY <1>h, <2>1, <2>2, IdleType DEF Start, Handler
  <2>4. /\ UNCHANGED <<owner, revoked, revokedMem, notify>> /\ req[w].pc # "mark"
        /\ session' = session
    BY <1>7 DEF RunLogoutJob, dbVars
  <2>5. QED
    BY <2>3, <2>4, ReachMove
<1>8. CASE VerifyCurrent(w)
  <2>1. \A v : /\ [req[w] EXCEPT !.pc = "setPassword", !.ver = v].pc = "setPassword"
              /\ [req[w] EXCEPT !.pc = "setPassword", !.ver = v].todo = req[w].todo
    BY <1>h DEF Handler
  <2>2. PICK v : \/ Finish(w)
                 \/ req' = [req EXCEPT ![w] = [req[w] EXCEPT !.pc = "setPassword", !.ver = v]]
    BY <1>8 DEF VerifyCurrent
  <2>3. /\ UNCHANGED <<owner, revoked, revokedMem, notify, session>> /\ req[w].pc = "reauth"
    BY <1>8 DEF VerifyCurrent, dbVars
  <2>4. /\ req'[w].pc \in {"idle", "setPassword"} /\ req'[w].todo = {}
        /\ \A x \in Workers \ {w} : req'[x] = req[x]
    <3>1. CASE Finish(w)
      BY <1>h, <3>1, IdleType DEF Finish
    <3>2. CASE ~Finish(w)
      <4> DEFINE h == [req[w] EXCEPT !.pc = "setPassword", !.ver = v]
      <4>1. h.pc = "setPassword" /\ h.todo = {}
        BY <1>h, <2>1, <2>3
      <4>2. req' = [req EXCEPT ![w] = h]
        BY <2>2, <3>2
      <4> HIDE DEF h
      <4>3. QED
        BY <1>h, <4>1, <4>2
    <3>3. QED
      BY <3>1, <3>2
  <2>5. QED
    BY <2>3, <2>4, ReachMove DEF RevokePCs
<1>9. CASE SetPassword(w)
  <2>1. /\ req'[w].pc \notin RevokePCs \cup {"publish"} /\ req'[w].todo = {}
        /\ \A v \in Workers \ {w} : req'[v] = req[v]
    BY <1>9, <1>h, IdleType DEF SetPassword, RevokePCs, Goto, Handler
  <2>2. /\ UNCHANGED <<owner, revoked, revokedMem, notify>> /\ req[w].pc # "mark"
        /\ \A b \in Browsers : session'[b].sid \in {session[b].sid, None}
    BY <1>9, <1>h DEF SetPassword, dbVars, SessionObject
  <2>3. QED
    BY <2>1, <2>2, ReachMove
<1>10. CASE KeepCurrent(w) \/ EraseAccount(w)
  <2>1. /\ req'[w].pc = "revokeOthers" /\ req'[w].todo = req[w].todo
        /\ req'[w].u = req[w].u /\ req[w].pc \in {"keepCurrent", "erase"}
        /\ \A v \in Workers \ {w} : req'[v] = req[v]
    <3>1. CASE KeepCurrent(w)
      BY <3>1, <1>h DEF KeepCurrent, Handler
    <3>2. CASE EraseAccount(w)
      BY <3>2, <1>h DEF EraseAccount, Handler
    <3>3. QED
      BY <1>10, <3>1, <3>2
  <2>2. req[w].u \in Users
    BY <1>h, <2>1 DEF HandlerOK, ActorPCs
  <2>3. UNCHANGED <<owner, revoked, revokedMem, notify, session>>
    BY <1>10 DEF KeepCurrent, EraseAccount, dbVars
  <2>4. QED
    BY <1>h, <2>1, <2>2, <2>3, ReachMove
<1>11. CASE EraseRefused(w)
  <2>1. /\ req'[w].pc \notin RevokePCs \cup {"publish"} /\ req'[w].todo = {}
        /\ \A v \in Workers \ {w} : req'[v] = req[v]
    BY <1>11, <1>h, IdleType DEF EraseRefused, RevokePCs, Finish
  <2>2. /\ UNCHANGED <<owner, revoked, revokedMem, notify>> /\ req[w].pc # "mark"
        /\ session' = session
    BY <1>11, <1>h DEF EraseRefused, dbVars
  <2>3. QED
    BY <2>1, <2>2, ReachMove
<1>12. ASSUME NEW u \in Users, ResetPassword(w, u) PROVE ReachInv'
  <2>1. /\ LiveRows(u) \in SUBSET Sids /\ \A s \in LiveRows(u) : owner[s] # None
    BY DEF LiveRows
  <2>2. /\ req'[w].pc = "mark" /\ req'[w].todo = LiveRows(u)
        /\ \A v \in Workers \ {w} : req'[v] = req[v]
    BY <1>12, <1>h, IdleType DEF ResetPassword, Start, Handler
  <2>3. /\ UNCHANGED <<owner, session, revokedMem>> /\ req[w].pc # "mark"
        /\ Retire(LiveRows(u))
    BY <1>12 DEF ResetPassword
  <2>4. QED
    BY <2>1, <2>2, <2>3, ReachRetire
<1>13. ASSUME NEW u \in Users, BanUser(w, u) PROVE ReachInv'
  <2>1. /\ req'[w].pc # "publish" /\ req'[w].u \in Users /\ req'[w].todo = {}
        /\ \A v \in Workers \ {w} : req'[v] = req[v]
    BY <1>13, <1>h, IdleType DEF BanUser, RevokePCs, Start, Handler
  <2>2. /\ UNCHANGED <<owner, revoked, revokedMem, notify>> /\ req[w].pc # "mark"
        /\ session' = session
    BY <1>13, <1>h DEF BanUser, dbVars
  <2>3. QED
    BY <2>1, <2>2, ReachMove
<1>14. QED
  BY <1>1, <1>2, <1>3, <1>4, <1>5, <1>6, <1>7, <1>8, <1>9, <1>10, <1>11, <1>12, <1>13 DEF Request

LEMMA ReachRestart ==
    ASSUME TInv, ReachInv, Reliable, NEW p \in Procs, Restart(p)
    PROVE  ReachInv'
<1>1. /\ \A w \in Workers : IF ProcOf[w] = p THEN req'[w] = Idle ELSE req'[w] = req[w]
      /\ \A b \in Browsers : IF Home[b] = p THEN session'[b] = EmptySession
                             ELSE session'[b] = session[b]
      /\ \A q \in Procs \ {p} : revokedMem'[q] = revokedMem[q]
      /\ owner' = owner
  BY DEF Restart, TInv, TypeOK
<1>2. PICK rows \in SUBSET {s \in Sids : owner[s] # None} :
         /\ revoked' = revoked \cup rows
         /\ \A q \in Procs \ {p} :
               /\ notify[q] \subseteq notify'[q]
               /\ ~ListenerLossy => rows \subseteq notify'[q]
  <2>1. PICK rows \in {{}, {s \in Sids : owner[s] # None} \ revoked}, deaf \in Deafness :
           /\ revoked' = revoked \cup rows
           /\ notify' = [q \in Procs |-> IF q = p THEN {}
                                         ELSE IF q \in deaf THEN notify[q]
                                         ELSE notify[q] \cup rows]
    BY DEF Restart
  <2>2. ~ListenerLossy => deaf = {}
    BY DEF Deafness
  <2>3. \A q \in Procs \ {p} :
               /\ notify[q] \subseteq notify'[q]
               /\ ~ListenerLossy => rows \subseteq notify'[q]
    BY <2>1, <2>2
  <2>4. rows \in SUBSET {s \in Sids : owner[s] # None}
    OBVIOUS
  <2>5. QED
    BY <2>1, <2>3, <2>4
<1>3. ASSUME NEW q \in Procs, q # p, NEW s, Covered(q, s) \/ s \in rows
      PROVE  Covered(q, s)'
  BY <1>1, <1>2, <1>3 DEF Covered, BeingRevoked, Reliable
<1>4. None \notin revoked'
  BY <1>2 DEF TInv, TypeOK
<1>5. SessionsCovered'
  BY <1>1, <1>2, <1>3, <1>4 DEF ReachInv, SessionsCovered, EmptySession
<1>6. PublishersCovered' /\ (\A w \in Workers : HandlerQuiet(req[w]))'
  BY <1>1, <1>2, <1>3, IdleType DEF ReachInv, PublishersCovered, HandlerQuiet, RevokePCs
<1>7. (\A s \in revoked : owner[s] # None)'
  BY <1>1, <1>2 DEF ReachInv
<1>8. QED
  BY <1>5, <1>6, <1>7 DEF ReachInv

LEMMA ReachStep == TInv /\ ReachInv /\ Reliable /\ [Next]_vars => ReachInv'
<1> SUFFICES ASSUME TInv, ReachInv, Reliable, [Next]_vars PROVE ReachInv'
  OBVIOUS
<1>1. ASSUME NEW w \in Workers,
             Login(w) \/ TwoFactor(w) \/ Begin(w) \/ Revocation(w) \/ Request(w)
      PROVE  ReachInv'
  BY <1>1, ReachLogin, ReachTwoFactor, ReachBegin, ReachRevocation, ReachRequest
<1>2. ASSUME NEW u \in Users, UnbanUser(u) PROVE ReachInv'
  BY <1>2, ReachQuiet DEF UnbanUser
<1>3. ASSUME NEW p \in Procs, Deliver(p) PROVE ReachInv'
  <2>1. PICK s \in notify[p] :
           /\ revokedMem' = [revokedMem EXCEPT ![p] = @ \cup {s}]
           /\ notify' = [notify EXCEPT ![p] = @ \ {s}]
    BY <1>3 DEF Deliver
  <2>2. /\ s \in revokedMem'[p]
        /\ \A q \in Procs : /\ notify[q] \subseteq notify'[q] \cup (IF q = p THEN {s} ELSE {})
                            /\ revokedMem[q] \subseteq revokedMem'[q]
    BY <2>1 DEF TInv, TypeOK
  <2>3. UNCHANGED <<owner, revoked, session, req>>
    BY <1>3 DEF Deliver, dbVars
  <2>4. QED
    BY <2>2, <2>3, ReachMark
<1>4. ASSUME NEW p \in Procs, Restart(p) PROVE ReachInv'
  BY <1>4, ReachRestart
<1>5. CASE UNCHANGED vars
  BY <1>5, ReachQuiet DEF vars, dbVars
<1>6. QED
  BY <1>1, <1>2, <1>3, <1>4, <1>5 DEF Next

(* A revocation is never lost: a session that carries a retired sid is in   *)
(* the revoked set of its process, or on its way there.                     *)
THEOREM RevocationReaches ==
    ASSUME Reliable
    PROVE  Spec => []RevocationReachesSession
<1>1. TInv /\ ReachInv /\ [Next]_vars => TInv' /\ ReachInv'
  BY TypeStep, ReachStep
<1>2. ReachInv => RevocationReachesSession
  BY DEF ReachInv, SessionsCovered, Covered, RevocationReachesSession
<1>3. QED
  BY <1>1, <1>2, TypeInit, ReachInit, PTL DEF Spec

-----------------------------------------------------------------------------
(***************************************************************************)
(* Refinement: the registry implements SessionLifecycle, however sign-ins  *)
(* overlap and whatever notifications are lost.  What needs an argument is *)
(* that a closed sid stays closed: no step may let a retired sid be        *)
(* honoured that no session and no handler honours any more.               *)
(***************************************************************************)

(* Only rows are retired, because a revoking handler acts for a user and    *)
(* not for the owner of the sids that were never drawn.                     *)
DrawnInv ==
    /\ \A s \in revoked : owner[s] # None
    /\ \A w \in Workers : req[w].pc \in RevokePCs => req[w].u \in Users

LEMMA DrawnInit == Init => DrawnInv
BY DEF Init, DrawnInv, Idle, RevokePCs

Carries(b, s) == session[b].sid = s
Publishes(w, s) == req[w].pc = "publish" /\ req[w].sid = s

(* A step that draws sids retires none, and drawn rows stay their user's.   *)
Draws ==
    \A s \in Sids :
        \/ /\ owner'[s] = owner[s]
           /\ s \in revoked => s \in revoked'
           /\ s \in revoked' => s \in revoked \/ owner[s] # None
        \/ owner[s] = None /\ owner'[s] # None /\ s \notin revoked'

(* A step that may let a sid be honoured anew in no process: who carries or *)
(* publishes it did so before, unless a publication turns into a session,   *)
(* and a process forgets what it marked only with all its sessions.         *)
Continues(s) ==
    /\ \A b \in Browsers : Carries(b, s)' =>
          Carries(b, s) \/ \E w \in Workers : Publishes(w, s) /\ ProcOf[w] = Home[b]
    /\ \A w \in Workers : Publishes(w, s)' => Publishes(w, s)
    /\ \A p \in Procs :
          \/ revokedMem[p] \subseteq revokedMem'[p]
          \/ /\ \A b \in Browsers : Home[b] = p => ~Carries(b, s)'
             /\ \A w \in Workers : ProcOf[w] = p => ~Publishes(w, s)'

KeepsLives == /\ Draws /\ DrawnInv'
              /\ \A s \in revoked : Continues(s)

LEMMA NeverAgain ==
    ASSUME NEW s \in Sids, Continues(s), Honoured(s)'
    PROVE  Honoured(s)
<1>p. /\ \A b \in Browsers : Home[b] \in Procs
      /\ \A w \in Workers : ProcOf[w] \in Procs
  OBVIOUS
<1>1. CASE \E b \in Browsers : (session[b].sid = s /\ s \notin revokedMem[Home[b]])'
  <2>1. PICK b \in Browsers : Carries(b, s)' /\ s \notin revokedMem'[Home[b]]
    BY <1>1 DEF Carries
  <2>2. s \notin revokedMem[Home[b]]
    BY <1>p, <2>1 DEF Continues
  <2>3. CASE Carries(b, s)
    BY <2>2, <2>3 DEF Carries, Honoured
  <2>4. CASE \E w \in Workers : Publishes(w, s) /\ ProcOf[w] = Home[b]
    BY <2>2, <2>4 DEF Publishes, Honoured
  <2>5. QED
    BY <2>1, <2>3, <2>4 DEF Continues
<1>2. CASE \E w \in Workers : Publishes(w, s)' /\ s \notin revokedMem'[ProcOf[w]]
  <2>1. PICK w \in Workers : Publishes(w, s)' /\ s \notin revokedMem'[ProcOf[w]]
    BY <1>2
  <2>2. Publishes(w, s) /\ s \notin revokedMem[ProcOf[w]]
    BY <1>p, <2>1 DEF Continues
  <2>3. QED
    BY <2>2 DEF Publishes, Honoured
<1>3. QED
  BY <1>1, <1>2 DEF Honoured, Publishes

(* The step of one sid's life that such a step is.                          *)
LEMMA LivesOn ==
    ASSUME DrawnInv, KeepsLives, NEW s \in Sids
    PROVE  \/ Life'[s] = Life[s]
           \/ <<Life[s], Life'[s]>> \in
                 {<<"fresh", "open">>, <<"open", "closing">>, <<"open", "closed">>,
                  <<"closing", "closed">>}
<1>1. CASE owner[s] = None
  <2>1. s \notin revoked /\ s \notin revoked'
    BY <1>1 DEF DrawnInv, KeepsLives, Draws
  <2>2. QED
    BY <1>1, <2>1 DEF Life
<1>2. CASE owner[s] # None /\ s \notin revoked
  <2>1. owner'[s] # None
    BY <1>2 DEF KeepsLives, Draws
  <2>2. QED
    BY <1>2, <2>1 DEF Life
<1>3. CASE owner[s] # None /\ s \in revoked
  <2>1. owner'[s] # None /\ s \in revoked'
    BY <1>3 DEF KeepsLives, Draws
  <2>2. Honoured(s)' => Honoured(s)
    BY <1>3, NeverAgain DEF KeepsLives
  <2>3. QED
    BY <1>3, <2>1, <2>2 DEF Life
<1>4. QED
  BY <1>1, <1>2, <1>3

(* A step outside sign-ins, which retires at most rows.                     *)
LEMMA LivesAside ==
    ASSUME TInv, DrawnInv, NotASignIn,
           \A p \in Procs : revokedMem[p] \subseteq revokedMem'[p],
           revoked \subseteq revoked', \A s \in revoked' : s \in revoked \/ owner[s] # None,
           \A v \in Workers :
              req'[v] = req[v] \/ (req'[v].pc \in RevokePCs => req'[v].u \in Users)
    PROVE  KeepsLives
<1>1. Draws
  BY DEF Draws, NotASignIn
<1>2. DrawnInv'
  BY DEF DrawnInv, NotASignIn
<1>3. ASSUME NEW s \in revoked PROVE Continues(s)
  <2>1. s # None
    BY DEF TInv, TypeOK
  <2>2. \A b \in Browsers : Carries(b, s)' => Carries(b, s)
    BY <2>1, ClearedFields DEF NotASignIn, Emptied, SameObject, Carries
  <2>3. \A w \in Workers : Publishes(w, s)' => Publishes(w, s)
    BY DEF NotASignIn, Publishes, LoginPCs
  <2>4. QED
    BY <2>2, <2>3 DEF Continues
<1>4. QED
  BY <1>1, <1>2, <1>3 DEF KeepsLives

(* A step of a sign-in that draws nothing.                                  *)
LEMMA LivesThrough ==
    ASSUME TInv, DrawnInv, UNCHANGED <<owner, revoked, revokedMem>>,
           \A v \in Workers :
              req'[v] = req[v] \/ req'[v].pc \notin RevokePCs \cup {"publish"},
           \A b \in Browsers :
              \/ session'[b].sid = None
              \/ session'[b].sid = session[b].sid
              \/ \E w \in Workers : /\ Publishes(w, session'[b].sid)
                                    /\ ProcOf[w] = Home[b]
    PROVE  KeepsLives
<1>1. Draws
  BY DEF Draws
<1>2. DrawnInv'
  BY DEF DrawnInv
<1>3. ASSUME NEW s \in revoked PROVE Continues(s)
  <2>1. s # None
    BY DEF TInv, TypeOK
  <2>2. \A b \in Browsers : Carries(b, s)' =>
           Carries(b, s) \/ \E w \in Workers : Publishes(w, s) /\ ProcOf[w] = Home[b]
    BY <2>1 DEF Carries
  <2>3. \A w \in Workers : Publishes(w, s)' => Publishes(w, s)
    BY DEF Publishes
  <2>4. QED
    BY <2>2, <2>3 DEF Continues
<1>4. QED
  BY <1>1, <1>2, <1>3 DEF KeepsLives

-----------------------------------------------------------------------------
LEMMA LivesLogin ==
    ASSUME TInv, DrawnInv, NEW w \in Workers, Login(w)
    PROVE  KeepsLives
<1>h. /\ req \in [Workers -> Handler] /\ HandlerOK(w, req[w])
      /\ session \in [Browsers -> SessionObject]
  BY DEF TInv, TypeOK, ReqOK
<1>q. ASSUME UNCHANGED <<owner, revoked, revokedMem>>,
             req'[w].pc \notin RevokePCs \cup {"publish"},
             \A v \in Workers \ {w} : req'[v] = req[v],
             \A b \in Browsers : session'[b].sid \in {session[b].sid, None}
      PROVE  KeepsLives
  BY <1>q, LivesThrough
<1>1. ASSUME NEW b \in Browsers, NEW u \in Users, LoginVerify(w, b, u) PROVE KeepsLives
  <2>1. /\ req'[w].pc = "verified" /\ \A v \in Workers \ {w} : req'[v] = req[v]
        /\ UNCHANGED <<owner, revoked, revokedMem, session>>
    BY <1>1, <1>h, IdleType DEF LoginVerify, Start, Handler, dbVars
  <2>2. QED
    BY <2>1, <1>q DEF RevokePCs
<1>2. CASE LoginCheckErased(w) \/ LoginCheckBanned(w)
  <2>1. /\ req'[w].pc \in {"notErased", "admitted", "idle"}
        /\ \A v \in Workers \ {w} : req'[v] = req[v]
        /\ UNCHANGED <<owner, revoked, revokedMem, session>>
    BY <1>2, <1>h, IdleType DEF LoginCheckErased, LoginCheckBanned, Goto, Finish, Handler, dbVars
  <2>2. QED
    BY <2>1, <1>q DEF RevokePCs
<1>3. CASE LoginClear(w)
  <2>1. /\ req'[w].pc = "cleared" /\ \A v \in Workers \ {w} : req'[v] = req[v]
        /\ UNCHANGED <<owner, revoked, revokedMem>>
        /\ \A b \in Browsers : session'[b] \in {session[b], Cleared(b)}
    BY <1>3, <1>h, ClearEmpties DEF LoginClear, Goto, Handler, dbVars
  <2>2. QED
    BY <2>1, <1>q, ClearedFields DEF RevokePCs
<1>4. CASE BeginPendingLogin(w)
  <2>1. /\ req'[w].pc = "idle" /\ \A v \in Workers \ {w} : req'[v] = req[v]
        /\ UNCHANGED <<owner, revoked, revokedMem>>
        /\ \A b \in Browsers : session'[b].sid = session[b].sid
    BY <1>4, <1>h, IdleType DEF BeginPendingLogin, Finish, SessionObject, dbVars
  <2>2. QED
    BY <2>1, <1>q DEF RevokePCs
<1>5. CASE InsertUser(w)
  <2>1. /\ req'[w].pc = "register" /\ req[w].pc \in {"cleared", "secondStep"}
        /\ \A v \in Workers \ {w} : req'[v] = req[v]
        /\ UNCHANGED <<owner, revoked, revokedMem>>
        /\ \A b \in Browsers : session'[b].sid = session[b].sid
    BY <1>5, <1>h DEF InsertUser, Goto, Handler, SessionObject, dbVars
  <2>2. QED
    BY <2>1, <1>q DEF RevokePCs
<1>6. QED
  BY <1>1, <1>2, <1>3, <1>4, <1>5 DEF Login

LEMMA LivesTwoFactor ==
    ASSUME TInv, DrawnInv, NEW w \in Workers, TwoFactor(w)
    PROVE  KeepsLives
<1>h. /\ req \in [Workers -> Handler] /\ HandlerOK(w, req[w])
      /\ session \in [Browsers -> SessionObject]
  BY DEF TInv, TypeOK, ReqOK
<1>1. ASSUME NEW b \in Browsers, TwoFactorRead(w, b) PROVE KeepsLives
  <2>1. /\ req'[w].pc = "factor" /\ \A v \in Workers \ {w} : req'[v] = req[v]
        /\ UNCHANGED <<owner, revoked, revokedMem, session>>
    BY <1>1, <1>h, IdleType DEF TwoFactorRead, Start, Handler, dbVars
  <2>2. QED
    BY <2>1, LivesThrough DEF RevokePCs
<1>2. ASSUME NEW b \in Browsers, TwoFactorExpired(w, b) PROVE KeepsLives
  <2>1. \A c \in Browsers : session'[c].sid = session[c].sid
    BY <1>2, <1>h DEF TwoFactorExpired, SessionObject
  <2>2. QED
    BY <1>2, <2>1, LivesThrough DEF TwoFactorExpired, dbVars
<1>3. CASE TwoFactorVerify(w)
  <2>1. /\ req'[w].pc \in {"factorOk", "idle"} /\ \A v \in Workers \ {w} : req'[v] = req[v]
        /\ UNCHANGED <<owner, revoked, revokedMem, session>>
    BY <1>3, <1>h, IdleType DEF TwoFactorVerify, Goto, Finish, Handler, dbVars
  <2>2. QED
    BY <2>1, LivesThrough DEF RevokePCs
<1>4. CASE ClearPending(w)
  <2>1. /\ req'[w].pc = "secondStep" /\ \A v \in Workers \ {w} : req'[v] = req[v]
        /\ UNCHANGED <<owner, revoked, revokedMem>>
        /\ \A c \in Browsers : session'[c].sid = session[c].sid
    BY <1>4, <1>h DEF ClearPending, Goto, Handler, SessionObject, dbVars
  <2>2. QED
    BY <2>1, LivesThrough DEF RevokePCs
<1>5. QED
  BY <1>1, <1>2, <1>3, <1>4 DEF TwoFactor

LEMMA LivesBegin ==
    ASSUME TInv, DrawnInv, NEW w \in Workers, Begin(w)
    PROVE  KeepsLives
<1>h. /\ req \in [Workers -> Handler] /\ HandlerOK(w, req[w])
      /\ session \in [Browsers -> SessionObject]
      /\ owner \in [Sids -> Users \cup {None}]
  BY DEF TInv, TypeOK, ReqOK
<1>1. ASSUME NEW r \in Sids, BeginInsert(w, r) PROVE KeepsLives
  <2>1. /\ req'[w].pc = "publish" /\ req'[w].sid = r
        /\ \A v \in Workers \ {w} : req'[v] = req[v]
        /\ req[w].pc = "register" /\ owner[r] = None
        /\ UNCHANGED <<session, revoked, revokedMem>>
    BY <1>1, <1>h DEF BeginInsert, Handler
  <2>2. req[w].u \in Users
    BY <1>h, <2>1 DEF HandlerOK, ActorPCs, LoginPCs
  <2>3. owner'[r] # None /\ \A s \in Sids \ {r} : owner'[s] = owner[s]
    BY <1>1, <1>h, <2>2 DEF BeginInsert
  (* What is drawn was not retired.                                         *)
  <2>4. r \notin revoked
    BY <2>1 DEF DrawnInv
  <2>5. Draws
    BY <2>1, <2>3, <2>4 DEF Draws
  <2>6. DrawnInv'
    BY <2>1, <2>3, <2>4 DEF DrawnInv, RevokePCs, TInv, TypeOK
  <2>7. \A s \in revoked : Continues(s)
    BY <2>1, <2>4 DEF Continues, Carries, Publishes
  <2>8. QED
    BY <2>5, <2>6, <2>7 DEF KeepsLives
<1>2. CASE BeginFails(w)
  <2>1. /\ req'[w].pc = "idle" /\ \A v \in Workers \ {w} : req'[v] = req[v]
        /\ UNCHANGED <<owner, revoked, revokedMem>>
        /\ \A b \in Browsers : session'[b] \in {session[b], Cleared(b)}
    BY <1>2, <1>h, IdleType, ClearEmpties DEF BeginFails, Finish, dbVars
  <2>2. QED
    BY <2>1, LivesThrough, ClearedFields DEF RevokePCs
<1>3. CASE BeginPublish(w)
  <2>1. /\ req'[w].pc = "idle" /\ req[w].pc = "publish"
        /\ \A v \in Workers \ {w} : req'[v] = req[v]
        /\ UNCHANGED <<owner, revoked, revokedMem>>
    BY <1>3, <1>h, IdleType DEF BeginPublish, Finish, dbVars
  <2>2. req[w].b \in Browsers /\ ProcOf[w] = Home[req[w].b]
    BY <1>h, <2>1 DEF HandlerOK, ActorPCs, LoginPCs
  <2>3. \A b \in Browsers :
           \/ session'[b] = session[b]
           \/ session'[b].sid = req[w].sid /\ b = req[w].b
    BY <1>3, <1>h, <2>2 DEF BeginPublish, SessionObject
  <2>4. QED
    BY <2>1, <2>2, <2>3, LivesThrough DEF RevokePCs, Publishes
<1>4. QED
  BY <1>1, <1>2, <1>3 DEF Begin

LEMMA LivesRevocation ==
    ASSUME TInv, DrawnInv, NEW w \in Workers, Revocation(w)
    PROVE  KeepsLives
<1>h. /\ req \in [Workers -> Handler] /\ HandlerOK(w, req[w])
  BY DEF TInv, TypeOK, ReqOK
<1>n. NotASignIn
  BY RevocationIsNoSignIn
<1>1. CASE RevokeOne(w) \/ RevokeOthers(w)
  <2>1. req[w].pc \in RevokePCs
    BY <1>1 DEF RevokeOne, RevokeOthers, RevokePCs
  <2>2. req[w].u \in Users
    BY <2>1 DEF DrawnInv
  <2>3. PICK hit \in SUBSET LiveRows(req[w].u) :
           Retire(hit) /\ req' = [req EXCEPT ![w] = [req[w] EXCEPT !.pc = "mark", !.todo = hit]]
    BY <1>1 DEF RevokeOne, RevokeOthers
  <2>4. \A s \in hit : owner[s] # None
    BY <2>2, <2>3 DEF LiveRows
  <2>5. revoked' = revoked \cup hit
    BY <2>3 DEF Retire
  <2>6. req'[w].pc = "mark" /\ \A v \in Workers \ {w} : req'[v] = req[v]
    BY <1>h, <2>3 DEF Handler
  <2>7. revokedMem' = revokedMem
    BY <1>1 DEF RevokeOne, RevokeOthers
  <2>8. QED
    BY <1>n, <2>4, <2>5, <2>6, <2>7, LivesAside DEF RevokePCs
<1>2. CASE RevokeFails(w) \/ MarkDone(w) \/ AdviceClears(w)
  <2>1. req'[w].pc \in {"mark", "idle"} /\ \A v \in Workers \ {w} : req'[v] = req[v]
    BY <1>2, <1>h, IdleType DEF RevokeFails, MarkDone, AdviceClears, Goto, Finish, Handler
  <2>2. UNCHANGED <<revoked, revokedMem>>
    BY <1>2 DEF RevokeFails, MarkDone, AdviceClears, dbVars
  <2>3. QED
    BY <1>n, <2>1, <2>2, LivesAside DEF RevokePCs, DrawnInv
<1>3. CASE MarkLocal(w)
  <2>1. PICK s \in req[w].todo :
           /\ revokedMem' = [revokedMem EXCEPT ![ProcOf[w]] = @ \cup {s}]
           /\ req' = [req EXCEPT ![w] = [req[w] EXCEPT !.todo = @ \ {s}]]
    BY <1>3 DEF MarkLocal
  <2>2. req'[w].pc = "mark" /\ \A v \in Workers \ {w} : req'[v] = req[v]
    BY <1>3, <1>h, <2>1 DEF MarkLocal, Handler
  <2>3. \A p \in Procs : revokedMem[p] \subseteq revokedMem'[p]
    BY <2>1 DEF TInv, TypeOK
  <2>4. UNCHANGED revoked
    BY <1>3 DEF MarkLocal, dbVars
  <2>5. QED
    BY <1>n, <2>2, <2>3, <2>4, LivesAside DEF RevokePCs, DrawnInv
<1>4. ASSUME NEW b \in Browsers, AdviceSeesRevoked(w, b) PROVE KeepsLives
  <2>1. req'[w].pc = "advice" /\ \A v \in Workers \ {w} : req'[v] = req[v]
    BY <1>4, <1>h, IdleType DEF AdviceSeesRevoked, Start, Handler
  <2>2. UNCHANGED <<revoked, revokedMem>>
    BY <1>4 DEF AdviceSeesRevoked, dbVars
  <2>3. QED
    BY <1>n, <2>1, <2>2, LivesAside DEF RevokePCs, DrawnInv
<1>5. QED
  BY <1>1, <1>2, <1>3, <1>4 DEF Revocation

LEMMA LivesRequest ==
    ASSUME TInv, DrawnInv, NEW w \in Workers, Request(w)
    PROVE  KeepsLives
<1>h. /\ req \in [Workers -> Handler] /\ HandlerOK(w, req[w])
  BY DEF TInv, TypeOK, ReqOK
<1>n. NotASignIn
  BY RequestIsNoSignIn
<1>q. ASSUME UNCHANGED <<revoked, revokedMem>>,
             \A v \in Workers \ {w} : req'[v] = req[v],
             req'[w].pc \in RevokePCs => req'[w].u \in Users
      PROVE  KeepsLives
  BY <1>n, <1>q, LivesAside DEF DrawnInv
<1>a. ASSUME NEW b \in Browsers, NEW pc, NEW sid, Admit(w, b, pc, sid) PROVE KeepsLives
  <2>1. session[b].user \in Users
    BY <1>a, ObjectFields DEF Admit, Live, TInv, TypeOK
  <2>2. req'[w].u \in Users /\ \A v \in Workers \ {w} : req'[v] = req[v]
    BY <1>a, <1>h, <2>1, IdleType DEF Admit, Start, Handler
  <2>3. UNCHANGED <<revoked, revokedMem>>
    BY <1>a DEF Admit, dbVars
  <2>4. QED
    BY <2>2, <2>3, <1>q
<1>1. ASSUME NEW b \in Browsers,
             \/ \E s \in Sids : RevokeSession(w, b, s)
             \/ RevokeOtherSessions(w, b) \/ ChangePassword(w, b)
             \/ DeleteAccount(w, b) \/ LogoutRead(w, b)
      PROVE  KeepsLives
  BY <1>1, <1>a DEF RevokeSession, RevokeOtherSessions, ChangePassword, DeleteAccount, LogoutRead
<1>2. CASE LogoutClear(w) \/ EraseRefused(w)
  <2>1. req'[w].pc = "idle" /\ \A v \in Workers \ {w} : req'[v] = req[v]
    BY <1>2, <1>h, IdleType DEF LogoutClear, EraseRefused, Finish
  <2>2. UNCHANGED <<revoked, revokedMem>>
    BY <1>2 DEF LogoutClear, EraseRefused, dbVars
  <2>3. QED
    BY <2>1, <2>2, <1>q DEF RevokePCs
(* A queued logout names the user it read.                                  *)
<1>3. CASE RunLogoutJob(w)
  <2>1. PICK j \in jobs[ProcOf[w]] :
           req' = [req EXCEPT ![w] = [Start("revokeOne", None, j.u) EXCEPT !.sid = j.sid]]
    BY <1>3 DEF RunLogoutJob
  <2>2. j.u \in Users
    BY DEF TInv, TypeOK
  <2>3. req'[w].u \in Users /\ \A v \in Workers \ {w} : req'[v] = req[v]
    BY <1>h, <2>1, <2>2, IdleType DEF Start, Handler
  <2>4. UNCHANGED <<revoked, revokedMem>>
    BY <1>3 DEF RunLogoutJob, dbVars
  <2>5. QED
    BY <2>3, <2>4, <1>q
<1>4. CASE VerifyCurrent(w)
  <2>1. /\ req[w].pc = "reauth"
        /\ \/ req' = [req EXCEPT ![w] = Idle]
           \/ \E v : req' = [req EXCEPT ![w] = [req[w] EXCEPT !.pc = "setPassword", !.ver = v]]
    BY <1>4 DEF VerifyCurrent, Finish
  <2>2. \A v : [req[w] EXCEPT !.pc = "setPassword", !.ver = v].pc = "setPassword"
    BY <1>h DEF Handler
  <2>3. req'[w].pc \in {"idle", "setPassword"} /\ \A v \in Workers \ {w} : req'[v] = req[v]
    BY <1>h, <2>1, <2>2, IdleType, ZenonT(60)
  <2>4. UNCHANGED <<revoked, revokedMem>>
    BY <1>4 DEF VerifyCurrent, dbVars
  <2>5. QED
    BY <2>3, <2>4, <1>q DEF RevokePCs
<1>5. CASE SetPassword(w)
  <2>1. req'[w].pc = "keepCurrent" /\ \A v \in Workers \ {w} : req'[v] = req[v]
    BY <1>5, <1>h DEF SetPassword, Goto, Handler
  <2>2. UNCHANGED <<revoked, revokedMem>>
    BY <1>5 DEF SetPassword
  <2>3. QED
    BY <2>1, <2>2, <1>q DEF RevokePCs
<1>6. CASE KeepCurrent(w) \/ EraseAccount(w)
  <2>1. req[w].pc \in {"keepCurrent", "erase"}
    BY <1>6 DEF KeepCurrent, EraseAccount
  <2>2. req[w].u \in Users
    BY <1>h, <2>1 DEF HandlerOK, ActorPCs
  <2>3. req'[w].u = req[w].u /\ \A v \in Workers \ {w} : req'[v] = req[v]
    <3>1. CASE KeepCurrent(w)
      BY <1>h, <3>1 DEF KeepCurrent, Handler
    <3>2. CASE EraseAccount(w)
      BY <1>h, <3>2 DEF EraseAccount, Handler
    <3>3. QED
      BY <1>6, <3>1, <3>2
  <2>4. UNCHANGED <<revoked, revokedMem>>
    BY <1>6 DEF KeepCurrent, EraseAccount, dbVars
  <2>5. QED
    BY <2>2, <2>3, <2>4, <1>q
<1>7. ASSUME NEW u \in Users, ResetPassword(w, u) PROVE KeepsLives
  <2>1. req'[w].pc = "mark" /\ \A v \in Workers \ {w} : req'[v] = req[v]
    BY <1>7, <1>h, IdleType DEF ResetPassword, Start, Handler
  <2>2. revoked' = revoked \cup LiveRows(u) /\ revokedMem' = revokedMem
    BY <1>7 DEF ResetPassword, Retire
  <2>3. \A s \in LiveRows(u) : owner[s] # None
    BY DEF LiveRows
  <2>4. QED
    BY <1>n, <2>1, <2>2, <2>3, LivesAside DEF RevokePCs
<1>8. ASSUME NEW u \in Users, BanUser(w, u) PROVE KeepsLives
  <2>1. req'[w].u = u /\ \A v \in Workers \ {w} : req'[v] = req[v]
    BY <1>8, <1>h, IdleType DEF BanUser, Start, Handler
  <2>2. UNCHANGED <<revoked, revokedMem>>
    BY <1>8 DEF BanUser
  <2>3. QED
    BY <2>1, <2>2, <1>q
<1>9. QED
  BY <1>1, <1>2, <1>3, <1>4, <1>5, <1>6, <1>7, <1>8 DEF Request

(* The process that forgets what it marked has no session and no handler.   *)
LEMMA LivesRestart ==
    ASSUME TInv, DrawnInv, NEW p \in Procs, Restart(p)
    PROVE  KeepsLives
<1>1. /\ \A w \in Workers : IF ProcOf[w] = p THEN req'[w] = Idle ELSE req'[w] = req[w]
      /\ \A b \in Browsers : IF Home[b] = p THEN session'[b] = EmptySession
                             ELSE session'[b] = session[b]
      /\ \A q \in Procs \ {p} : revokedMem'[q] = revokedMem[q]
      /\ owner' = owner
  BY DEF Restart, TInv, TypeOK
<1>2. PICK rows \in SUBSET {s \in Sids : owner[s] # None} : revoked' = revoked \cup rows
  BY DEF Restart
<1>3. Draws
  BY <1>1, <1>2 DEF Draws
<1>4. DrawnInv'
  BY <1>1, <1>2, IdleType DEF DrawnInv, RevokePCs
<1>5. ASSUME NEW s \in revoked PROVE Continues(s)
  <2>1. s # None
    BY DEF TInv, TypeOK
  <2>2. \A b \in Browsers : Carries(b, s)' => Home[b] # p /\ Carries(b, s)
    BY <1>1, <2>1 DEF Carries, EmptySession
  <2>3. \A w \in Workers : Publishes(w, s)' => ProcOf[w] # p /\ Publishes(w, s)
    BY <1>1, IdleType DEF Publishes
  <2>4. QED
    BY <1>1, <2>2, <2>3 DEF Continues
<1>6. QED
  BY <1>3, <1>4, <1>5 DEF KeepsLives

LEMMA LivesStep == TInv /\ DrawnInv /\ [Next]_vars => KeepsLives
<1> SUFFICES ASSUME TInv, DrawnInv, [Next]_vars PROVE KeepsLives
  OBVIOUS
<1>1. ASSUME NEW w \in Workers,
             Login(w) \/ TwoFactor(w) \/ Begin(w) \/ Revocation(w) \/ Request(w)
      PROVE  KeepsLives
  BY <1>1, LivesLogin, LivesTwoFactor, LivesBegin, LivesRevocation, LivesRequest
<1>2. ASSUME NEW u \in Users, UnbanUser(u) PROVE KeepsLives
  BY <1>2, LivesThrough DEF UnbanUser
<1>3. ASSUME NEW p \in Procs, Deliver(p) PROVE KeepsLives
  <2>1. \A q \in Procs : revokedMem[q] \subseteq revokedMem'[q]
    BY <1>3 DEF Deliver, TInv, TypeOK
  <2>2. NotASignIn /\ UNCHANGED <<revoked, req>>
    BY <1>3, Untouched DEF Deliver, NotASignIn, dbVars
  <2>3. QED
    BY <2>1, <2>2, LivesAside DEF DrawnInv
<1>4. ASSUME NEW p \in Procs, Restart(p) PROVE KeepsLives
  BY <1>4, LivesRestart
<1>5. CASE UNCHANGED vars
  BY <1>5, LivesThrough DEF vars, dbVars
<1>6. QED
  BY <1>1, <1>2, <1>3, <1>4, <1>5 DEF Next

(* Every step of the registry is a step of the life of the sids, or none:   *)
(* a sid is drawn once, is retired once, and once nothing honours a retired *)
(* sid nothing ever does again -- no late publication, no second sign-in,   *)
(* no restart and no lost notification brings it back.                      *)
THEOREM RegistryImplementsLifecycle == Spec => ImplementsLifecycle
<1>1. Init => Lifecycle!Init
  BY DEF Init, Life, Lifecycle!Init
<1>2. TInv /\ DrawnInv /\ [Next]_vars => [Lifecycle!Next]_Life
  <2> SUFFICES ASSUME TInv, DrawnInv, [Next]_vars
               PROVE  Lifecycle!Next
    OBVIOUS
  <2>1. KeepsLives
    BY LivesStep
  <2>2. \A s \in Sids : Life'[s] = Life[s] \/ <<Life[s], Life'[s]>> \in Lifecycle!Edges
    BY <2>1, LivesOn DEF Lifecycle!Edges
  <2>3. Life' \in [Sids -> Lifecycle!Phases]
    BY DEF Life, Lifecycle!Phases
  <2>4. QED
    BY <2>2, <2>3 DEF Lifecycle!Next
<1>3. TInv /\ DrawnInv /\ [Next]_vars => TInv' /\ DrawnInv'
  BY TypeStep, LivesStep DEF KeepsLives
<1>4. QED
  BY <1>1, <1>2, <1>3, TypeInit, DrawnInit, PTL
     DEF Spec, ImplementsLifecycle, Lifecycle!Spec

=============================================================================
