---------------------------- MODULE AccountTokens ----------------------------
(***************************************************************************)
(* Accounts and the links that are mailed about them: registration,        *)
(* verification of an address, reset of a password.  The pages are         *)
(* RegisterView, VerifyEmailView, ForgotPasswordView and ResetPasswordView *)
(* in one tab; the handlers of AuthController.cc (and the change of an     *)
(* address, UserController.cc) are cut where they wait for the database.   *)
(*                                                                         *)
(* Abstracted: a token is the number of the mail it went out in; an        *)
(* expired token is gone; passwords satisfy the policy.                    *)
(***************************************************************************)
EXTENDS Naturals, Sequences, FiniteSets, Functions

CONSTANTS
    Names, Addresses,
    NoUser,
    MaxPresses,  \* bound: forms sent and links opened
    MaxAsks,     \* bound: requests in flight at once
    MaxMails     \* bound: links mailed

VARIABLES
    route,    \* the view, "elsewhere" for those that are not of this module
    visit,    \* which view this is, since the tab was opened
    token,    \* of the reset view's address
    busy, done,
    timers,   \* views whose redirectTimer is set
    late,     \* a registration was answered after its view was left
    presses,
    asks,     \* requests in flight
    users,    \* the table: address, whether it is verified, its token (0: NULL)
    resets,   \* password_reset_tokens
    mails,    \* links that were mailed
    proven,   \* addresses whose link was used, by account
    changes,  \* tokens that have changed a password, in order
    straddled,   \* a resend was written over a change of the address
    overlapped   \* two resets were requested at once

tokenVars == <<route, visit, token, busy, done, timers, late, presses, asks, users, resets, mails, proven, changes,
               straddled, overlapped>>

tab == <<route, visit, token, busy, done, timers, late>>

Ask(kind, name, to, t, v) ==
    [n |-> presses, kind |-> kind, name |-> name, to |-> to, token |-> t, visit |-> v, stage |-> "asked"]

\* Nobody is registered yet.
Unregistered ==
    /\ route = "register" /\ token = 0
    /\ users = [u \in Names |-> NoUser] /\ proven = [u \in Names |-> {}]
    /\ resets = {} /\ mails = <<>>

\* One account is verified, and has been mailed a reset link.
Registered ==
    /\ \/ route = "forgot" /\ token = 0
       \/ route = "reset" /\ token = 1
    /\ \E u \in Names, to \in Addresses :
        /\ users = [n \in Names |-> IF n = u THEN [email |-> to, verified |-> TRUE, token |-> 0] ELSE NoUser]
        /\ proven = [n \in Names |-> IF n = u THEN {to} ELSE {}]
        /\ mails = <<[kind |-> "reset", to |-> to, name |-> u]>>
        /\ resets = {[token |-> 1, name |-> u]}

Init ==
    /\ Unregistered \/ Registered
    /\ visit = 1 /\ busy = FALSE /\ done = FALSE
    /\ timers = {} /\ late = FALSE
    /\ presses = 0 /\ asks = {}
    /\ changes = <<>>
    /\ straddled = FALSE /\ overlapped = FALSE

-----------------------------------------------------------------------------
(* The tab.                                                                *)

Press == presses < MaxPresses /\ presses' = presses + 1

Send(r) == Cardinality(asks) < MaxAsks /\ asks' = asks \cup {r}

Unsent == UNCHANGED <<users, resets, mails, proven, changes, straddled, overlapped>>

\* Mutant: the timer is not cancelled.
UnmountKeepsTimer(to) ==
    /\ route' = to /\ visit' = visit + 1 /\ busy' = FALSE /\ done' = FALSE
    /\ UNCHANGED timers

\* onBeforeUnmount cancels the redirect of the view that goes.
Unmount(to) ==
    /\ route' = to /\ visit' = visit + 1 /\ busy' = FALSE /\ done' = FALSE
    /\ timers' = timers \ {visit}

GoTo(to) ==
    /\ Press /\ to # route
    /\ Unmount(to) /\ token' = 0
    /\ UNCHANGED <<late, asks>> /\ Unsent

SubmitRegister(name, to) ==
    /\ Press /\ route = "register" /\ ~done /\ ~busy
    /\ busy' = TRUE /\ Send(Ask("register", name, to, 0, visit))
    /\ UNCHANGED <<route, visit, token, done, timers, late>> /\ Unsent

SubmitForgot(to) ==
    /\ Press /\ route = "forgot" /\ ~busy
    /\ busy' = TRUE /\ Send(Ask("forgot", NoUser, to, 0, visit))
    /\ UNCHANGED <<route, visit, token, done, timers, late>> /\ Unsent

SubmitReset ==
    /\ Press /\ route = "reset" /\ ~busy
    /\ busy' = TRUE /\ Send(Ask("reset", NoUser, NoUser, token, visit))
    /\ UNCHANGED <<route, visit, token, done, timers, late>> /\ Unsent

\* A mailed link opens in a new document: nothing of the one before lands in it.
Orphans == {[r EXCEPT !.visit = 0] : r \in asks}

OpenVerification(t) ==
    /\ Press /\ mails[t].kind = "verify"
    /\ route' = "verify" /\ visit' = visit + 1 /\ token' = 0 /\ busy' = TRUE /\ done' = FALSE /\ timers' = {}
    /\ Cardinality(asks) < MaxAsks /\ asks' = Orphans \cup {Ask("verify", NoUser, NoUser, t, visit')}
    /\ UNCHANGED late /\ Unsent

OpenReset(t) ==
    /\ Press /\ mails[t].kind = "reset"
    /\ route' = "reset" /\ visit' = visit + 1 /\ token' = t /\ busy' = FALSE /\ done' = FALSE /\ timers' = {}
    /\ asks' = Orphans
    /\ UNCHANGED late /\ Unsent

\* The profile page changes the address; other clients ask for the mail again.
ChangeAddress(u, to) ==
    /\ Press /\ users[u] # NoUser /\ users[u].email # to
    /\ Send(Ask("change", u, to, 0, 0))
    /\ UNCHANGED tab /\ Unsent

AskResend(to) == Press /\ Send(Ask("resend", NoUser, to, 0, 0)) /\ UNCHANGED tab /\ Unsent

FireTimer(v) ==
    /\ v \in timers
    /\ IF route = "login" THEN timers' = timers \ {v} /\ UNCHANGED <<route, visit, busy, done>>
       ELSE route' = "login" /\ visit' = visit + 1 /\ busy' = FALSE /\ done' = FALSE /\ timers' = timers \ {v, visit}
    /\ token' = 0
    /\ UNCHANGED <<late, presses, asks>> /\ Unsent

-----------------------------------------------------------------------------
(* The handlers.                                                           *)

Becomes(r, s) == asks' = (asks \ {r}) \cup {s}

Steps(r, kind, stage) == r.kind = kind /\ r.stage = stage /\ UNCHANGED <<tab, presses>>

Owner(to) == {u \in Names : users[u] # NoUser /\ users[u].email = to}

Mailed(kind, to, u) == Len(mails) < MaxMails /\ mails' = Append(mails, [kind |-> kind, to |-> to, name |-> u])

NewToken == Len(mails) + 1

\* An address that has an account is answered as if it had none.
RegisterCheck(r) ==
    /\ Steps(r, "register", "asked")
    /\ Becomes(r, [r EXCEPT !.stage = IF users[r.name] # NoUser THEN "refused"
                                      ELSE IF Owner(r.to) # {} THEN "done" ELSE "free"])
    /\ Unsent

RegisterInsert(r) ==
    /\ Steps(r, "register", "free")
    /\ IF users[r.name] = NoUser /\ Owner(r.to) = {}
       THEN /\ Mailed("verify", r.to, r.name)
            /\ users' = [users EXCEPT ![r.name] = [email |-> r.to, verified |-> FALSE, token |-> NewToken]]
            /\ Becomes(r, [r EXCEPT !.stage = "done"])
       ELSE Becomes(r, [r EXCEPT !.stage = "refused"]) /\ UNCHANGED <<users, mails>>
    /\ UNCHANGED <<resets, proven, changes, straddled, overlapped>>

\* One statement consumes the token.
ServeVerify(r) ==
    /\ Steps(r, "verify", "asked")
    /\ LET whose == {u \in Names : users[u] # NoUser /\ users[u].token = r.token}
       IN /\ users' = [u \in Names |-> IF u \in whose THEN [users[u] EXCEPT !.verified = TRUE, !.token = 0] ELSE users[u]]
          /\ proven' = [u \in Names |-> proven[u] \cup IF u \in whose THEN {mails[r.token].to} ELSE {}]
          /\ Becomes(r, [r EXCEPT !.stage = IF whose = {} THEN "refused" ELSE "done"])
    /\ UNCHANGED <<resets, mails, changes, straddled, overlapped>>

\* The account is read, and written later.
ResendRead(r) ==
    /\ Steps(r, "resend", "asked")
    /\ LET whose == {u \in Owner(r.to) : ~users[u].verified}
       IN IF whose = {} THEN Becomes(r, [r EXCEPT !.stage = "done"])
          ELSE \E u \in whose : Becomes(r, [r EXCEPT !.stage = "read", !.name = u])
    /\ Unsent

ResendWrite(r) ==
    /\ Steps(r, "resend", "read")
    /\ Mailed("verify", r.to, r.name)
    /\ users' = [users EXCEPT ![r.name].token = NewToken]
    /\ straddled' = (straddled \/ users[r.name].email # r.to)
    /\ Becomes(r, [r EXCEPT !.stage = "done"])
    /\ UNCHANGED <<resets, proven, changes, overlapped>>

\* The mail leaves before the row is written.
ChangeMails(r) ==
    /\ Steps(r, "change", "asked")
    /\ IF users[r.name].email = r.to THEN Becomes(r, [r EXCEPT !.stage = "done"]) /\ UNCHANGED mails
       ELSE Mailed("verify", r.to, r.name) /\ Becomes(r, [r EXCEPT !.stage = "mailed", !.token = NewToken])
    /\ UNCHANGED <<users, resets, proven, changes, straddled, overlapped>>

\* Mutant: the link that was mailed to the address before stays good.
ChangeWriteKeepsToken(r) ==
    /\ Steps(r, "change", "mailed")
    /\ IF Owner(r.to) \subseteq {r.name}
       THEN /\ users' = [users EXCEPT ![r.name].email = r.to, ![r.name].verified = FALSE]
            /\ Becomes(r, [r EXCEPT !.stage = "done"])
       ELSE Becomes(r, [r EXCEPT !.stage = "refused"]) /\ UNCHANGED users
    /\ UNCHANGED <<resets, mails, proven, changes, straddled, overlapped>>

ChangeWrite(r) ==
    /\ Steps(r, "change", "mailed")
    /\ IF Owner(r.to) \subseteq {r.name}
       THEN /\ users' = [users EXCEPT ![r.name] = [email |-> r.to, verified |-> FALSE, token |-> r.token]]
            /\ Becomes(r, [r EXCEPT !.stage = "done"])
       ELSE Becomes(r, [r EXCEPT !.stage = "refused"]) /\ UNCHANGED users
    /\ UNCHANGED <<resets, mails, proven, changes, straddled, overlapped>>

\* Mutant: the links that are out are left alone.
ForgotWipeNothing(r) ==
    /\ Steps(r, "forgot", "asked")
    /\ IF Owner(r.to) = {} THEN Becomes(r, [r EXCEPT !.stage = "done"])
       ELSE \E u \in Owner(r.to) : Becomes(r, [r EXCEPT !.stage = "wiped", !.name = u])
    /\ overlapped' = (overlapped \/ \E o \in asks : o.kind = "forgot" /\ o.stage = "wiped")
    /\ UNCHANGED <<resets, users, mails, proven, changes, straddled>>

\* DELETE the links that are out, then INSERT the new one.
ForgotWipe(r) ==
    /\ Steps(r, "forgot", "asked")
    /\ IF Owner(r.to) = {} THEN Becomes(r, [r EXCEPT !.stage = "done"]) /\ UNCHANGED resets
       ELSE \E u \in Owner(r.to) :
            /\ resets' = {t \in resets : t.name # u}
            /\ Becomes(r, [r EXCEPT !.stage = "wiped", !.name = u])
    /\ overlapped' = (overlapped \/ \E o \in asks : o.kind = "forgot" /\ o.stage = "wiped")
    /\ UNCHANGED <<users, mails, proven, changes, straddled>>

ForgotInsert(r) ==
    /\ Steps(r, "forgot", "wiped")
    /\ Mailed("reset", r.to, r.name)
    /\ resets' = resets \cup {[token |-> NewToken, name |-> r.name]}
    /\ Becomes(r, [r EXCEPT !.stage = "done"])
    /\ UNCHANGED <<users, proven, changes, straddled, overlapped>>

Valid(t) == \E row \in resets : row.token = t

ResetProbe(r) ==
    /\ Steps(r, "reset", "asked")
    /\ Becomes(r, [r EXCEPT !.stage = IF Valid(r.token) THEN "probed" ELSE "refused"])
    /\ Unsent

\* Mutant: what the probe said is trusted.
ResetTrustsProbe(r) ==
    /\ Steps(r, "reset", "probed")
    /\ resets' = {row \in resets : row.token # r.token}
    /\ changes' = Append(changes, r.token)
    /\ Becomes(r, [r EXCEPT !.stage = "done"])
    /\ UNCHANGED <<users, mails, proven, straddled, overlapped>>

\* After the hash: one statement consumes the token and changes the password.
ResetConsume(r) ==
    /\ Steps(r, "reset", "probed")
    /\ IF Valid(r.token)
       THEN /\ resets' = {row \in resets : row.token # r.token}
            /\ changes' = Append(changes, r.token)
            /\ Becomes(r, [r EXCEPT !.stage = "done"])
       ELSE Becomes(r, [r EXCEPT !.stage = "refused"]) /\ UNCHANGED <<resets, changes>>
    /\ UNCHANGED <<users, mails, proven, straddled, overlapped>>

Expire(t) ==
    /\ Valid(t) \/ \E u \in Names : users[u] # NoUser /\ users[u].token = t
    /\ resets' = {row \in resets : row.token # t}
    /\ users' = [u \in Names |-> IF users[u] # NoUser /\ users[u].token = t THEN [users[u] EXCEPT !.token = 0] ELSE users[u]]
    /\ UNCHANGED <<tab, presses, asks, mails, proven, changes, straddled, overlapped>>

-----------------------------------------------------------------------------
(* The answers.                                                            *)

Land(r) == asks' = asks \ {r} /\ busy' = (busy /\ r.visit # visit) /\ UNCHANGED presses /\ Unsent

\* Of a view that was left only the timer is new.
LandRegistered(r) ==
    /\ r.kind = "register" /\ r.stage = "done" /\ r.visit # 0 /\ Land(r)
    /\ done' = (done \/ r.visit = visit)
    /\ timers' = timers \cup {r.visit}
    /\ late' = (late \/ r.visit # visit)
    /\ UNCHANGED <<route, visit, token>>

LandReset(r) ==
    /\ r.kind = "reset" /\ r.stage = "done" /\ r.visit # 0
    /\ asks' = asks \ {r}
    /\ Unmount("login") /\ token' = 0
    /\ UNCHANGED <<late, presses>> /\ Unsent

\* The answer is a line of text, or there is nobody to read it.
LandOther(r) ==
    /\ r.stage \in {"done", "refused"}
    /\ r.stage = "done" /\ r.kind \in {"register", "reset"} => r.visit = 0
    /\ Land(r)
    /\ UNCHANGED <<route, visit, token, done, timers, late>>

\* A statement of the handler, or the connection, failed.
LandError(r) == Land(r) /\ UNCHANGED <<route, visit, token, done, timers, late>>

-----------------------------------------------------------------------------

Next ==
    \/ \E to \in {"register", "forgot", "elsewhere"} : GoTo(to)
    \/ \E u \in Names, to \in Addresses : SubmitRegister(u, to) \/ ChangeAddress(u, to)
    \/ \E to \in Addresses : SubmitForgot(to) \/ AskResend(to)
    \/ SubmitReset
    \/ \E t \in DOMAIN mails : OpenVerification(t) \/ OpenReset(t) \/ Expire(t)
    \/ \E v \in timers : FireTimer(v)
    \/ \E r \in asks :
        \/ RegisterCheck(r) \/ RegisterInsert(r) \/ ServeVerify(r) \/ ResendRead(r) \/ ResendWrite(r)
        \/ ChangeMails(r) \/ ChangeWrite(r) \/ ForgotWipe(r) \/ ForgotInsert(r) \/ ResetProbe(r) \/ ResetConsume(r)
        \/ LandRegistered(r) \/ LandReset(r) \/ LandOther(r) \/ LandError(r)

Spec == Init /\ [][Next]_tokenVars

-----------------------------------------------------------------------------
(* Properties.                                                             *)

\* A token is that of a mail to the account; a timer is that of a view that
\* was there; a form is busy only while it is asked about.
TypeOK ==
    /\ \A u \in Names : users[u] # NoUser /\ users[u].token # 0 => mails[users[u].token].name = u
    /\ \A row \in resets : mails[row.token].name = row.name
    /\ timers \subseteq 1 .. visit
    /\ busy => \E r \in asks : r.visit = visit

\* A verified address has used a link of its own, whatever address the
\* account had before and however the mails crossed (ServeVerify looks at the
\* token alone, so a change of the address must replace it).
VerifiedIsProven ==
    \A u \in Names : users[u] # NoUser /\ users[u].verified /\ ~straddled => users[u].email \in proven[u]

\* A reset link changes a password once, also when two forms that carry it
\* pass the probe together (resetPassword's last statement).
ResetOnce == IsInjective(changes)

\* A fresh request supersedes the links that are out (requestPasswordReset),
\* if no two are served at once.
OneLinkPerUser ==
    ~overlapped => \A row, other \in resets : row.name = other.name => row = other

\* A redirect finds the view that asked for it (RegisterView's
\* onBeforeUnmount), if that was there when its answer came.
RedirectIsOwn == [][\A v \in timers \ timers' : ~late => v = visit]_tokenVars

\* The same whenever the answer comes.  Does not hold: a timer that is set
\* after the view was left is cancelled by nobody (RegisterView.vue:18).
NeverKickedOff == [][\A v \in timers \ timers' : v = visit]_tokenVars

\* A user has one reset link at a time.  Does not hold: two requests delete
\* before either inserts (AuthController.cc:655).
NewestLinkOnly == \A row, other \in resets : row.name = other.name => row = other

\* The address of a verified account is proven.  Does not hold: a resend that
\* has read the row mails its token to the address before
\* (AuthController.cc:875).
AddressIsProven == \A u \in Names : users[u] # NoUser /\ users[u].verified => users[u].email \in proven[u]

\* "The email branch keeps masking" (AuthController.cc:219): only a name that
\* is taken is refused.  Does not hold: the insert refuses both.
RefusedNameIsTaken == \A r \in asks : r.kind = "register" /\ r.stage = "refused" => users[r.name] # NoUser

=============================================================================
