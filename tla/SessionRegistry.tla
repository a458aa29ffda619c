--------------------------- MODULE SessionRegistry ---------------------------
(***************************************************************************)
(* Sign-in, the session registry and revocation.                           *)
(*                                                                         *)
(* A Drogon session is an object in the memory of one process, found by    *)
(* its cookie.  helpers/Sessions.cc shadows it with a row of the table     *)
(* user_sessions, so that it can be listed and revoked: begin() inserts    *)
(* the row and then publishes its sid into the session object, a           *)
(* revocation updates the row and adds the sid to the revoked set of the   *)
(* process (g_revoked), a trigger tells the other processes, and the       *)
(* pre-routing advice empties a session whose sid is in that set.          *)
(*                                                                         *)
(* Every database statement, every operation on a session object and every *)
(* insertion in g_revoked is a step of its own: handlers run on several    *)
(* worker threads and share all three.                                     *)
(***************************************************************************)
EXTENDS Integers, FiniteSets

CONSTANTS
    Procs,           \* server processes (two only while a rolling update overlaps)
    Browsers,        \* cookie jars; each has one session object in one process
    Users,
    Sids,            \* tokens begin() may draw
    Workers,         \* handler threads of the auth pool
    None,            \* "no user", "no sid", "no browser"
    Home,            \* the process that holds the session object of a browser
    ProcOf,          \* the process a worker belongs to
    TwoFactorUsers,  \* users with an enrolled second factor
    MaxPassword,     \* bound on the number of password changes
    ListenerLossy,   \* may a listener be reconnecting when a NOTIFY is sent
    LookupsFail      \* may the ban look-up fail (it then admits)

ASSUME ConstantsAssumption ==
    /\ None \notin Procs \cup Browsers \cup Users \cup Sids
    /\ Home \in [Browsers -> Procs]
    /\ ProcOf \in [Workers -> Procs]
    /\ TwoFactorUsers \subseteq Users
    /\ MaxPassword \in Nat
    /\ ListenerLossy \in BOOLEAN
    /\ LookupsFail \in BOOLEAN

VARIABLES
    owner,       \* user_sessions.user_id of each row, None while there is no row
    revoked,     \* sids whose row has revoked_at set
    password,    \* version of users.password_hash
    banned,      \* users with banned_until in the future
    erased,      \* users with deleted_at set
    session,     \* the Drogon session object of each browser
    revokedMem,  \* g_revoked of each process
    notify,      \* session_revoked notifications not yet handled, per process
    jobs,        \* accepted logout jobs, per process
    req          \* the handler each worker is running

dbVars == <<owner, revoked, password, banned, erased>>
userVars == <<password, banned, erased>>
vars == <<dbVars, session, revokedMem, notify, jobs, req>>

(* The session map: user_id, session_sid and the pending 2FA identity.  Two *)
(* fields are history, not in the code: the password version the holder     *)
(* proved, and whether sign-ins of two users were writing to the session    *)
(* when it was last emptied.                                                *)
EmptySession == [user |-> None, sid |-> None, pending |-> None, ver |-> 0,
                 crossed |-> FALSE]

(* A handler: where it is, the session it serves, and the locals it carries *)
(* from one statement to the next.  "sid" is the one it mints, keeps or     *)
(* retires, "todo" the sids still to be marked, "drop" whether it empties   *)
(* its own session at the end (account deletion).                           *)
Idle == [pc |-> "idle", b |-> None, u |-> None, sid |-> None, ver |-> 0,
         todo |-> {}, drop |-> FALSE]

LoginPCs == {"verified", "notErased", "admitted", "cleared", "factor",
             "factorOk", "secondStep", "register", "publish"}
(* A sign-in writes to its session once it has emptied it or read its       *)
(* pending identity.                                                        *)
WritePCs == LoginPCs \ {"verified", "notErased", "admitted"}
PCs == LoginPCs \cup
       {"idle", "advice", "logout", "revokeOne", "revokeOthers", "reauth",
        "erase", "setPassword", "keepCurrent", "mark"}

Init ==
    /\ owner = [s \in Sids |-> None]
    /\ revoked = {}
    /\ password = [u \in Users |-> 0]
    /\ banned = {}
    /\ erased = {}
    /\ session = [b \in Browsers |-> EmptySession]
    /\ revokedMem = [p \in Procs |-> {}]
    /\ notify = [p \in Procs |-> {}]
    /\ jobs = [p \in Procs |-> {}]
    /\ req = [w \in Workers |-> Idle]

-----------------------------------------------------------------------------
(* The request passes the pre-routing advice and is authenticated.          *)
Live(b) == /\ session[b].user # None
           /\ session[b].sid \notin revokedMem[Home[b]]

CanServe(w, b) == req[w].pc = "idle" /\ ProcOf[w] = Home[b]

CanSignIn(w, b) ==
    /\ CanServe(w, b)
    /\ session[b].sid \notin revokedMem[Home[b]]

(* A handler starts at pc, for the session of b and the user u.             *)
Start(pc, b, u) == [Idle EXCEPT !.pc = pc, !.b = b, !.u = u]

Goto(w, pc) == req' = [req EXCEPT ![w].pc = pc]
Finish(w) == req' = [req EXCEPT ![w] = Idle]

(* Sign-ins of two users, after the step, write to the session of b.        *)
SignInsCross(b) ==
    \E v, w \in Workers :
        /\ req'[v].b = b /\ req'[v].pc \in WritePCs
        /\ req'[w].b = b /\ req'[w].pc \in WritePCs
        /\ req'[v].u # req'[w].u

(* session->clear(); the history says who will write to it all the same.    *)
ClearSession(b) ==
    session' = [session EXCEPT ![b] = [EmptySession EXCEPT !.crossed = SignInsCross(b)]]

-----------------------------------------------------------------------------
(* Signing in with a password: AuthController::loginUser.                   *)

(* Reads the row and verifies the password against the hash it read.  The   *)
(* hash of an erased account verifies nothing.                              *)
LoginVerify(w, b, u) ==
    /\ CanSignIn(w, b)
    /\ u \notin erased
    /\ req' = [req EXCEPT ![w] = [Start("verified", b, u) EXCEPT !.ver = password[u]]]
    /\ UNCHANGED <<dbVars, session, revokedMem, notify, jobs>>

(* isErased fails closed, banStateOf fails open.                            *)
LoginCheckErased(w) ==
    /\ req[w].pc = "verified"
    /\ \/ Finish(w)
       \/ req[w].u \notin erased /\ Goto(w, "notErased")
    /\ UNCHANGED <<dbVars, session, revokedMem, notify, jobs>>

LoginCheckBanned(w) ==
    /\ req[w].pc = "notErased"
    /\ \/ req[w].u \in banned /\ Finish(w)
       \/ (req[w].u \notin banned \/ LookupsFail) /\ Goto(w, "admitted")
    /\ UNCHANGED <<dbVars, session, revokedMem, notify, jobs>>

(* Mutant: the sign-in drops the old identity but keeps the old sid.        *)
LoginClearKeepsSid(w) ==
    /\ req[w].pc = "admitted"
    /\ session' = [session EXCEPT ![req[w].b].user = None]
    /\ Goto(w, "cleared")
    /\ UNCHANGED <<dbVars, revokedMem, notify, jobs>>

LoginClear(w) ==
    /\ req[w].pc = "admitted"
    /\ Goto(w, "cleared")
    /\ ClearSession(req[w].b)
    /\ UNCHANGED <<dbVars, revokedMem, notify, jobs>>

(* With a second factor the session only holds a pending identity.          *)
BeginPendingLogin(w) ==
    /\ req[w].pc = "cleared"
    /\ req[w].u \in TwoFactorUsers
    /\ session' = [session EXCEPT ![req[w].b] =
                      [@ EXCEPT !.pending = req[w].u, !.ver = req[w].ver]]
    /\ Finish(w)
    /\ UNCHANGED <<dbVars, revokedMem, notify, jobs>>

(* Session::insert leaves a key that is already there alone.                *)
InsertUser(w) ==
    /\ \/ req[w].pc = "cleared" /\ req[w].u \notin TwoFactorUsers
       \/ req[w].pc = "secondStep"
    /\ LET b == req[w].b IN
       session' = IF session[b].user = None
                  THEN [session EXCEPT ![b] =
                           [@ EXCEPT !.user = req[w].u, !.ver = req[w].ver]]
                  ELSE session
    /\ Goto(w, "register")
    /\ UNCHANGED <<dbVars, revokedMem, notify, jobs>>

-----------------------------------------------------------------------------
(* The second step: AuthController2fa.cc.                                   *)

TwoFactorRead(w, b) ==
    /\ CanSignIn(w, b)
    /\ session[b].pending # None
    /\ req' = [req EXCEPT ![w] = [Start("factor", b, session[b].pending) EXCEPT
                                    !.ver = session[b].ver]]
    /\ UNCHANGED <<dbVars, session, revokedMem, notify, jobs>>

(* Ten minutes after the password step the pending identity is erased.      *)
TwoFactorExpired(w, b) ==
    /\ CanServe(w, b)
    /\ session[b].pending # None
    /\ session' = [session EXCEPT ![b].pending = None]
    /\ UNCHANGED <<dbVars, revokedMem, notify, jobs, req>>

(* The factor is checked against the database; erasure deletes the factors. *)
TwoFactorVerify(w) ==
    /\ req[w].pc = "factor"
    /\ \/ Finish(w)
       \/ req[w].u \notin erased /\ Goto(w, "factorOk")
    /\ UNCHANGED <<dbVars, session, revokedMem, notify, jobs>>

(* completeTwoStepLogin drops the pending identity before inserting the     *)
(* user (InsertUser).                                                       *)
ClearPending(w) ==
    /\ req[w].pc = "factorOk"
    /\ session' = [session EXCEPT ![req[w].b].pending = None]
    /\ Goto(w, "secondStep")
    /\ UNCHANGED <<dbVars, revokedMem, notify, jobs>>

-----------------------------------------------------------------------------
(* sessions::begin                                                          *)

(* Mutant: the columns sid and user_id are swapped.                         *)
BeginInsertSwapped(w, s) ==
    /\ req[w].pc = "register"
    /\ owner[s] = None
    /\ owner' = [owner EXCEPT ![s] = s]
    /\ req' = [req EXCEPT ![w] = [@ EXCEPT !.pc = "publish", !.sid = s]]
    /\ UNCHANGED <<revoked, userVars, session, revokedMem, notify, jobs>>

BeginInsert(w, s) ==
    /\ req[w].pc = "register"
    /\ owner[s] = None
    /\ owner' = [owner EXCEPT ![s] = req[w].u]
    /\ req' = [req EXCEPT ![w] = [@ EXCEPT !.pc = "publish", !.sid = s]]
    /\ UNCHANGED <<revoked, userVars, session, revokedMem, notify, jobs>>

(* The INSERT failed: the caller empties the session and answers 503.       *)
BeginFails(w) ==
    /\ req[w].pc = "register"
    /\ Finish(w)
    /\ ClearSession(req[w].b)
    /\ UNCHANGED <<dbVars, revokedMem, notify, jobs>>

BeginPublish(w) ==
    /\ req[w].pc = "publish"
    /\ LET b == req[w].b IN
       session' = IF session[b].sid = None
                  THEN [session EXCEPT ![b].sid = req[w].sid]
                  ELSE session
    /\ Finish(w)
    /\ UNCHANGED <<dbVars, revokedMem, notify, jobs>>

-----------------------------------------------------------------------------
(* Retiring sids.  The trigger announces each row the statement retired to  *)
(* every process; a listener that is reconnecting never hears of it.        *)
Deafness == IF ListenerLossy THEN SUBSET Procs ELSE {{}}

(* Mutant: the trigger fires once per statement and announces one row.      *)
RetireOneNotice(sids) ==
    /\ revoked' = revoked \cup sids
    /\ \E told \in (IF sids = {} THEN {{}} ELSE {{s} : s \in sids}) :
          notify' = [p \in Procs |-> notify[p] \cup told]

Retire(sids) ==
    /\ revoked' = revoked \cup sids
    /\ \E deaf \in Deafness :
          notify' = [p \in Procs |-> IF p \in deaf THEN notify[p]
                                     ELSE notify[p] \cup sids]

LiveRows(u) == {s \in Sids : owner[s] = u} \ revoked

(* sessions::revoke: one row, and only if it belongs to the caller.         *)
RevokeOne(w) ==
    /\ req[w].pc = "revokeOne"
    /\ LET hit == {req[w].sid} \cap LiveRows(req[w].u) IN
       /\ Retire(hit)
       /\ req' = [req EXCEPT ![w] = [@ EXCEPT !.pc = "mark", !.todo = hit]]
    /\ UNCHANGED <<owner, userVars, session, revokedMem, jobs>>

(* sessions::revokeOthers; a failed statement only returns 0.               *)
RevokeOthers(w) ==
    /\ req[w].pc = "revokeOthers"
    /\ LET hit == LiveRows(req[w].u) \ {req[w].sid} IN
       /\ Retire(hit)
       /\ req' = [req EXCEPT ![w] = [@ EXCEPT !.pc = "mark", !.todo = hit]]
    /\ UNCHANGED <<owner, userVars, session, revokedMem, jobs>>

RevokeFails(w) ==
    /\ req[w].pc \in {"revokeOne", "revokeOthers"}
    /\ Goto(w, "mark")
    /\ UNCHANGED <<dbVars, session, revokedMem, notify, jobs>>

(* markRevokedLocally, row by row.                                          *)
MarkLocal(w) ==
    /\ req[w].pc = "mark"
    /\ \E s \in req[w].todo :
          /\ revokedMem' = [revokedMem EXCEPT ![ProcOf[w]] = @ \cup {s}]
          /\ req' = [req EXCEPT ![w].todo = @ \ {s}]
    /\ UNCHANGED <<dbVars, session, notify, jobs>>

(* The handler answers; account deletion empties its own session first.     *)
MarkDone(w) ==
    /\ req[w].pc = "mark"
    /\ req[w].todo = {}
    /\ Finish(w)
    /\ IF req[w].drop THEN ClearSession(req[w].b) ELSE UNCHANGED session
    /\ UNCHANGED <<dbVars, revokedMem, notify, jobs>>

(* Mutant: the dispatcher drops session_revoked.                            *)
DeliverDrops(p) ==
    /\ \E s \in notify[p] : notify' = [notify EXCEPT ![p] = @ \ {s}]
    /\ UNCHANGED <<dbVars, session, revokedMem, jobs, req>>

(* onRevokedNotification.                                                   *)
Deliver(p) ==
    /\ \E s \in notify[p] :
          /\ revokedMem' = [revokedMem EXCEPT ![p] = @ \cup {s}]
          /\ notify' = [notify EXCEPT ![p] = @ \ {s}]
    /\ UNCHANGED <<dbVars, session, jobs, req>>

(* The pre-routing advice found the sid in g_revoked, then empties the      *)
(* session: two operations on two structures.                               *)
AdviceSeesRevoked(w, b) ==
    /\ CanServe(w, b)
    /\ session[b].sid \in revokedMem[Home[b]]
    /\ req' = [req EXCEPT ![w] = Start("advice", b, None)]
    /\ UNCHANGED <<dbVars, session, revokedMem, notify, jobs>>

AdviceClears(w) ==
    /\ req[w].pc = "advice"
    /\ Finish(w)
    /\ ClearSession(req[w].b)
    /\ UNCHANGED <<dbVars, revokedMem, notify, jobs>>

-----------------------------------------------------------------------------
(* The operations that revoke.                                              *)

(* An authenticated request is admitted: user_id and sid are read now and   *)
(* used by a worker later.                                                  *)
Admit(w, b, pc, sid) ==
    /\ CanServe(w, b)
    /\ Live(b)
    /\ req' = [req EXCEPT ![w] = [Start(pc, b, session[b].user) EXCEPT !.sid = sid]]
    /\ UNCHANGED <<dbVars, session, revokedMem, notify, jobs>>

RevokeSession(w, b, s) == Admit(w, b, "revokeOne", s)
RevokeOtherSessions(w, b) == Admit(w, b, "revokeOthers", session[b].sid)
ChangePassword(w, b) == Admit(w, b, "reauth", None)
DeleteAccount(w, b) == Admit(w, b, "erase", None)

(* logoutUser runs on the IO loop: reads user and sid, ...                  *)
LogoutRead(w, b) == Admit(w, b, "logout", session[b].sid)

(* ... empties the session and hands the revocation to the pool, which may  *)
(* refuse it (workers::submit; the result is not looked at).                *)
LogoutClear(w) ==
    /\ req[w].pc = "logout"
    /\ Finish(w)
    /\ ClearSession(req[w].b)
    /\ \/ UNCHANGED jobs
       \/ /\ req[w].sid # None
          /\ jobs' = [jobs EXCEPT ![ProcOf[w]] =
                                @ \cup {[u |-> req[w].u, sid |-> req[w].sid]}]
    /\ UNCHANGED <<dbVars, revokedMem, notify>>

RunLogoutJob(w) ==
    /\ req[w].pc = "idle"
    /\ \E j \in jobs[ProcOf[w]] :
          /\ jobs' = [jobs EXCEPT ![ProcOf[w]] = @ \ {j}]
          /\ req' = [req EXCEPT ![w] = [Start("revokeOne", None, j.u) EXCEPT !.sid = j.sid]]
    /\ UNCHANGED <<dbVars, session, revokedMem, notify>>

(* changePassword verifies the current password, ...                        *)
VerifyCurrent(w) ==
    /\ req[w].pc = "reauth"
    /\ IF req[w].u \in erased
       THEN Finish(w)
       ELSE req' = [req EXCEPT ![w] = [@ EXCEPT !.pc = "setPassword",
                                               !.ver = password[req[w].u]]]
    /\ UNCHANGED <<dbVars, session, revokedMem, notify, jobs>>

(* ... stores the new one unconditionally (whoever types it has proved it,  *)
(* so this session's history moves on with it), ...                         *)
SetPassword(w) ==
    /\ req[w].pc = "setPassword"
    /\ LET u == req[w].u  b == req[w].b IN
       /\ password[u] < MaxPassword
       /\ password' = [password EXCEPT ![u] = @ + 1]
       /\ session' = IF session[b].user = u
                     THEN [session EXCEPT ![b].ver = password[u] + 1]
                     ELSE session
    /\ Goto(w, "keepCurrent")
    /\ UNCHANGED <<owner, revoked, banned, erased, revokedMem, notify, jobs>>

(* ... and only then reads which session to spare.                          *)
KeepCurrent(w) ==
    /\ req[w].pc = "keepCurrent"
    /\ req' = [req EXCEPT ![w] = [@ EXCEPT !.pc = "revokeOthers",
                                        !.sid = session[req[w].b].sid]]
    /\ UNCHANGED <<dbVars, session, revokedMem, notify, jobs>>

(* resetPassword: one statement consumes a token (any user may have asked   *)
(* for one; erasure deletes them), stores the hash and retires every        *)
(* session of the user.                                                     *)
ResetPassword(w, u) ==
    /\ req[w].pc = "idle"
    /\ u \notin erased
    /\ password[u] < MaxPassword
    /\ password' = [password EXCEPT ![u] = @ + 1]
    /\ Retire(LiveRows(u))
    /\ req' = [req EXCEPT ![w] = [Start("mark", None, u) EXCEPT !.todo = LiveRows(u)]]
    /\ UNCHANGED <<owner, banned, erased, session, revokedMem, jobs>>

(* banUser: the UPDATE, then revokeOthers with nothing to spare.            *)
BanUser(w, u) ==
    /\ req[w].pc = "idle"
    /\ banned' = banned \cup {u}
    /\ req' = [req EXCEPT ![w] = Start("revokeOthers", None, u)]
    /\ UNCHANGED <<owner, revoked, password, erased, session,
                   revokedMem, notify, jobs>>

(* unbanUser, or banned_until passing.                                      *)
UnbanUser(u) ==
    /\ u \in banned
    /\ banned' = banned \ {u}
    /\ UNCHANGED <<owner, revoked, password, erased, session,
                   revokedMem, notify, jobs, req>>

(* deleteAccount commits the erasure, then revokes everything.              *)
EraseAccount(w) ==
    /\ req[w].pc = "erase"
    /\ LET u == req[w].u IN
       /\ u \notin erased
       /\ erased' = erased \cup {u}
       /\ banned' = banned \ {u}
       /\ req' = [req EXCEPT ![w] = [@ EXCEPT !.pc = "revokeOthers", !.drop = TRUE]]
    /\ UNCHANGED <<owner, revoked, password, session, revokedMem, notify, jobs>>

(* reauthenticate refuses: a second deletion, or a wrong password.          *)
EraseRefused(w) ==
    /\ req[w].pc = "erase"
    /\ Finish(w)
    /\ UNCHANGED <<dbVars, session, revokedMem, notify, jobs>>

-----------------------------------------------------------------------------
(* Mutant: sessions outlive the process, the revoked set does not.          *)
RestartKeepsSessions(p) ==
    /\ revokedMem' = [revokedMem EXCEPT ![p] = {}]
    /\ notify' = [notify EXCEPT ![p] = {}]
    /\ jobs' = [jobs EXCEPT ![p] = {}]
    /\ req' = [w \in Workers |-> IF ProcOf[w] = p THEN Idle ELSE req[w]]
    /\ UNCHANGED <<dbVars, session>>

(* A process dies with its sessions, and the next boot retires every row    *)
(* still marked live (sessions::install), unless that statement fails.      *)
Restart(p) ==
    /\ session' = [b \in Browsers |-> IF Home[b] = p THEN EmptySession ELSE session[b]]
    /\ revokedMem' = [revokedMem EXCEPT ![p] = {}]
    /\ jobs' = [jobs EXCEPT ![p] = {}]
    /\ req' = [w \in Workers |-> IF ProcOf[w] = p THEN Idle ELSE req[w]]
    /\ \E rows \in {{}, {s \in Sids : owner[s] # None} \ revoked}, deaf \in Deafness :
          /\ revoked' = revoked \cup rows
          /\ notify' = [q \in Procs |-> IF q = p THEN {}
                                        ELSE IF q \in deaf THEN notify[q]
                                        ELSE notify[q] \cup rows]
    /\ UNCHANGED <<owner, userVars>>

Login(w) ==
    \/ \E b \in Browsers, u \in Users : LoginVerify(w, b, u)
    \/ LoginCheckErased(w) \/ LoginCheckBanned(w) \/ LoginClear(w)
    \/ BeginPendingLogin(w) \/ InsertUser(w)

TwoFactor(w) ==
    \/ \E b \in Browsers : TwoFactorRead(w, b) \/ TwoFactorExpired(w, b)
    \/ TwoFactorVerify(w) \/ ClearPending(w)

Begin(w) ==
    (\E s \in Sids : BeginInsert(w, s)) \/ BeginFails(w) \/ BeginPublish(w)

Revocation(w) ==
    \/ RevokeOne(w) \/ RevokeOthers(w) \/ RevokeFails(w)
    \/ MarkLocal(w) \/ MarkDone(w)
    \/ (\E b \in Browsers : AdviceSeesRevoked(w, b)) \/ AdviceClears(w)

Request(w) ==
    \/ \E b \in Browsers :
          \/ \E s \in Sids : RevokeSession(w, b, s)
          \/ RevokeOtherSessions(w, b) \/ ChangePassword(w, b)
          \/ DeleteAccount(w, b) \/ LogoutRead(w, b)
    \/ LogoutClear(w) \/ RunLogoutJob(w)
    \/ VerifyCurrent(w) \/ SetPassword(w) \/ KeepCurrent(w)
    \/ EraseAccount(w) \/ EraseRefused(w)
    \/ \E u \in Users : ResetPassword(w, u) \/ BanUser(w, u)

Next ==
    \/ \E w \in Workers :
          Login(w) \/ TwoFactor(w) \/ Begin(w) \/ Revocation(w) \/ Request(w)
    \/ \E u \in Users : UnbanUser(u)
    \/ \E p \in Procs : Deliver(p) \/ Restart(p)

Spec == Init /\ [][Next]_vars

(* A worker runs its handler to the end, and a connected listener handles   *)
(* what it is sent.  Nobody has to send a request.                          *)
Fairness ==
    /\ \A w \in Workers : WF_vars(MarkLocal(w))
    /\ \A p \in Procs : WF_vars(Deliver(p))

FairSpec == Spec /\ Fairness

-----------------------------------------------------------------------------
SessionObject == [user : Users \cup {None}, sid : Sids \cup {None},
                  pending : Users \cup {None}, ver : 0..MaxPassword,
                  crossed : BOOLEAN]

Handler == [pc : PCs, b : Browsers \cup {None}, u : Users \cup {None},
            sid : Sids \cup {None}, ver : 0..MaxPassword, todo : SUBSET Sids,
            drop : BOOLEAN]

TypeOK ==
    /\ owner \in [Sids -> Users \cup {None}]
    /\ revoked \subseteq Sids
    /\ password \in [Users -> 0..MaxPassword]
    /\ banned \subseteq Users
    /\ erased \subseteq Users
    /\ session \in [Browsers -> SessionObject]
    /\ revokedMem \in [Procs -> SUBSET Sids]
    /\ notify \in [Procs -> SUBSET Sids]
    /\ jobs \in [Procs -> SUBSET [u : Users, sid : Sids]]
    /\ req \in [Workers -> Handler]

(* A user is signed in on a session object only while its registration is   *)
(* under way, or under a sid that has a row (Sessions.cc:201-204,           *)
(* AuthController.cc:434-437), whatever sign-ins, sign-outs and failures    *)
(* meet in that object.  The row is his own unless, when the object was     *)
(* last emptied, sign-ins of two users were writing to it.                  *)
Registering(b) ==
    \E w \in Workers : req[w].b = b /\ req[w].pc \in {"register", "publish"}

SessionsAreRegistered ==
    \A b \in Browsers :
        session[b].user # None =>
            \/ session[b].sid = None /\ Registering(b)
            \/ /\ session[b].sid # None
               /\ owner[session[b].sid] # None
               /\ ~session[b].crossed => owner[session[b].sid] = session[b].user

(* 0010_user_sessions.sql:55-59: a revocation reaches the process that      *)
(* holds the session.  While a session with a retired row is still served,  *)
(* a handler of its process is about to mark the sid or a notification is   *)
(* on its way there.                                                        *)
BeingRevoked(p, s) ==
    \/ s \in notify[p]
    \/ \E w \in Workers : ProcOf[w] = p /\ s \in req[w].todo

RevocationReachesSession ==
    \A b \in Browsers :
        session[b].sid \in revoked =>
            \/ session[b].sid \in revokedMem[Home[b]]
            \/ BeingRevoked(Home[b], session[b].sid)

(* The registry implements the life cycle of a sid.  It is honoured while a *)
(* session object carries it or a handler is about to publish it, in a      *)
(* process that has not marked it.  The object counts before it has a user: *)
(* a sign-in that overlapped another may still give it one.                 *)
Honoured(s) ==
    \/ \E b \in Browsers : session[b].sid = s /\ s \notin revokedMem[Home[b]]
    \/ \E w \in Workers : /\ req[w].pc = "publish" /\ req[w].sid = s
                          /\ s \notin revokedMem[ProcOf[w]]

Life == [s \in Sids |-> IF owner[s] = None THEN "fresh"
                        ELSE IF s \notin revoked THEN "open"
                        ELSE IF Honoured(s) THEN "closing" ELSE "closed"]

Lifecycle == INSTANCE SessionLifecycle WITH life <- Life

(* A retired sid is never honoured again once it has stopped being so.      *)
ImplementsLifecycle == Lifecycle!Spec

(* A revocation takes effect: sessions of a retired row stop being served.  *)
RevocationSettles == Lifecycle!Settled

-----------------------------------------------------------------------------
(* What comments of the code promise and the interleavings do not keep.     *)

(* Sessions.cc:201-204: every live session is visible to the revocation     *)
(* paths of its user, because the row that carries its sid is his.          *)
RegistryOwnsSession ==
    \A b \in Browsers :
        session[b].user # None /\ session[b].sid # None =>
            owner[session[b].sid] = session[b].user

Busy(u) == \E w \in Workers : req[w].u = u

(* AuthController.cc:370 "A suspended account gets no session."             *)
SuspendedAccountGetsNoSession ==
    [][\A b \in Browsers :
         session[b].user = None /\ session'[b].user # None =>
            session'[b].user \notin banned]_vars

(* ModerationController.cc:429-430: a ban cuts every session the account    *)
(* holds.  Once no handler works for the user any more, he has none.        *)
BanCutsEverySession ==
    \A b \in Browsers :
        Live(b) /\ session[b].user \in banned => Busy(session[b].user)

(* AuthController.cc:744-746: once a reset has consumed its token, no       *)
(* session opened with the password it replaced stays usable.               *)
OldPasswordSessionDies ==
    \A b \in Browsers :
        Live(b) /\ session[b].ver < password[session[b].user] =>
            Busy(session[b].user)

(* AuthControllerAccount.cc:91-93: a change is authorised by the password   *)
(* it replaces.                                                             *)
ChangeProvesCurrentPassword ==
    [][\A w \in Workers :
         req[w].pc = "setPassword" /\ req'[w].pc = "keepCurrent" =>
            req[w].ver = password[req[w].u]]_vars

=============================================================================
