--------------------------- MODULE AccountSecurity ---------------------------
(***************************************************************************)
(* The account security page (views/Security2FAView.vue): the password,    *)
(* the sessions, and the second factors with their one-time recovery       *)
(* codes.  Every handler is a request, and after one that went through a   *)
(* second request that reads the lists again; what keeps two handlers      *)
(* apart is a flag some of them share (`loading`), and some have none.     *)
(*                                                                         *)
(* Abstracted: a request has a number, and what it makes (a secret, a key, *)
(* a batch of codes) bears it; an entry of the password is a number too.   *)
(* The three reads of refresh() are served at one moment.  Codes typed     *)
(* from an authenticator are those of the secret that was on screen.       *)
(***************************************************************************)
EXTENDS Naturals, FiniteSets

CONSTANTS
    Others,     \* the account's sessions on other devices
    MaxPresses, \* bound: buttons pressed
    MaxEntries, \* bound: entries of the management password
    MaxAsks     \* bound: requests in flight at once

VARIABLES
    account,  \* the account as the backend has it
    sheet,    \* the refs of the page
    asks,     \* requests in flight
    count,    \* how many buttons were pressed
    entries,  \* how often managementPw was filled in
    spent,    \* entries whose action the page knows to be done
    unseen    \* batches of codes whose answer was lost

securityVars == <<account, sheet, asks, count, entries, spent, unseen>>

Guarded   == {"confirm", "register", "regenerate", "disable"}   \* `loading`
Sessional == {"revoke", "others"}                               \* `sessionsBusy`
Makes     == {"confirm", "register", "regenerate"}              \* recovery codes
Reads     == {"refresh", "sessions"}
Kinds     == Guarded \cup Sessional \cup {"setup", "remove", "password"}

Ask(n, kind, arg, pw, by) == [n |-> n, kind |-> kind, arg |-> arg, pw |-> pw, by |-> by, stage |-> "asked",
                              totp |-> FALSE, keys |-> {}, codes |-> 0, sessions |-> {}]

HasRoom == Cardinality(asks) < MaxAsks

(* An account with nothing, or one with an authenticator app.              *)
Init ==
    /\ \E on \in BOOLEAN : account = [secret |-> 0, totp |-> on, keys |-> {}, codes |-> 0, sessions |-> Others]
    /\ sheet = [known |-> FALSE, totp |-> FALSE, keys |-> {}, sessions |-> {}, secret |-> 0, codes |-> 0,
                accepted |-> FALSE, pw |-> 0, loading |-> FALSE, pwBusy |-> FALSE, sessionsBusy |-> FALSE]
    /\ asks = {Ask(0, "refresh", 0, 0, "mount")}
    /\ count = 0
    /\ entries = 0
    /\ spent = {}
    /\ unseen = {}

-----------------------------------------------------------------------------
(* What the template lets the reader press.                                *)

EnterPassword ==
    /\ entries < MaxEntries
    /\ entries' = entries + 1
    /\ sheet' = [sheet EXCEPT !.pw = entries + 1]
    /\ UNCHANGED <<account, asks, count, spent, unseen>>

Press(kind, arg, pw) ==
    /\ count < MaxPresses /\ HasRoom
    /\ count' = count + 1
    /\ asks' = asks \cup {Ask(count + 1, kind, arg, pw, kind)}
    /\ UNCHANGED <<account, entries, spent, unseen>>

\* Mutant: the button is not disabled by `loading`.
PressAnyTime(kind, arg, pw) == Press(kind, arg, pw) /\ sheet' = [sheet EXCEPT !.loading = TRUE]

PressGuarded(kind, arg, pw) ==
    /\ ~sheet.loading /\ Press(kind, arg, pw)
    /\ sheet' = [sheet EXCEPT !.loading = TRUE]

HasFactor == sheet.known /\ (sheet.totp \/ sheet.keys # {})

StartTotp == sheet.known /\ ~sheet.totp /\ sheet.secret = 0 /\ sheet.pw # 0 /\ Press("setup", 0, sheet.pw) /\ UNCHANGED sheet

ConfirmTotp == sheet.known /\ ~sheet.totp /\ sheet.secret # 0 /\ PressGuarded("confirm", sheet.secret, 0)

AddPasskey == sheet.pw # 0 /\ PressGuarded("register", 0, sheet.pw)

RemovePasskey(k) == k \in sheet.keys /\ sheet.pw # 0 /\ Press("remove", k, sheet.pw) /\ UNCHANGED sheet

RegenerateCodes == HasFactor /\ PressGuarded("regenerate", 0, 0)

DisableAll == HasFactor /\ PressGuarded("disable", 0, 0)

SubmitPasswordChange ==
    /\ ~sheet.pwBusy /\ Press("password", 0, 0)
    /\ sheet' = [sheet EXCEPT !.pwBusy = TRUE]

RevokeOne(s) ==
    /\ s \in sheet.sessions /\ ~sheet.sessionsBusy /\ Press("revoke", s, 0)
    /\ sheet' = [sheet EXCEPT !.sessionsBusy = TRUE]

RevokeOthers ==
    /\ sheet.sessions # {} /\ ~sheet.sessionsBusy /\ Press("others", 0, 0)
    /\ sheet' = [sheet EXCEPT !.sessionsBusy = TRUE]

AcceptCodes ==
    /\ sheet.codes # 0 /\ ~sheet.accepted
    /\ sheet' = [sheet EXCEPT !.accepted = TRUE]
    /\ UNCHANGED <<account, asks, count, entries, spent, unseen>>

DismissCodes ==
    /\ sheet.codes # 0 /\ sheet.accepted
    /\ sheet' = [sheet EXCEPT !.codes = 0]
    /\ UNCHANGED <<account, asks, count, entries, spent, unseen>>

-----------------------------------------------------------------------------
(* The backend serves a request.                                           *)

Secured == account.totp \/ account.keys # {}

Becomes(r, q) == asks' = (asks \ {r}) \cup {q} /\ UNCHANGED <<sheet, count, entries, spent, unseen>>

Serve(r, kind, stage, after) == r.kind = kind /\ r.stage = stage /\ account' = after /\ Becomes(r, [r EXCEPT !.stage = "done"])

ServeRead(r) ==
    /\ r.kind \in Reads /\ r.stage = "asked"
    /\ Becomes(r, [r EXCEPT !.stage = "done", !.totp = account.totp, !.keys = account.keys, !.sessions = account.sessions])
    /\ UNCHANGED account

ServeSetup(r) == ~account.totp /\ Serve(r, "setup", "asked", [account EXCEPT !.secret = r.n])

ServeConfirm(r) ==
    /\ ~account.totp /\ account.secret = r.arg
    /\ Serve(r, "confirm", "asked", [account EXCEPT !.totp = TRUE, !.codes = r.n])

\* The options of the ceremony; then the authenticator makes a key of them.
ServeRegisterBegin(r) ==
    /\ r.kind = "register" /\ r.stage = "asked"
    /\ Becomes(r, [r EXCEPT !.stage = "ceremony"])
    /\ UNCHANGED account

\* The first factor comes with recovery codes.
ServeRegister(r) ==
    /\ r.kind = "register" /\ r.stage = "ceremony"
    /\ account' = [account EXCEPT !.keys = @ \cup {r.n}, !.codes = IF Secured THEN @ ELSE r.n]
    /\ Becomes(r, [r EXCEPT !.stage = "done", !.codes = IF Secured THEN 0 ELSE r.n])

ServeRemove(r) == r.arg \in account.keys /\ Serve(r, "remove", "asked", [account EXCEPT !.keys = @ \ {r.arg}])

ServeRegenerate(r) == Serve(r, "regenerate", "asked", [account EXCEPT !.codes = r.n])

ServeDisable(r) ==
    account.totp /\ Serve(r, "disable", "asked", [account EXCEPT !.totp = FALSE, !.secret = 0, !.keys = {}, !.codes = 0])

ServeSessions(r) ==
    \/ Serve(r, "password", "asked", [account EXCEPT !.sessions = {}])
    \/ Serve(r, "others", "asked", [account EXCEPT !.sessions = {}])
    \/ r.arg \in account.sessions /\ Serve(r, "revoke", "asked", [account EXCEPT !.sessions = @ \ {r.arg}])

-----------------------------------------------------------------------------
(* The handlers go on when their answers land.                             *)

Released(s, by) ==
    [s EXCEPT !.loading = @ /\ by \notin Guarded, !.sessionsBusy = @ /\ by \notin Sessional, !.pwBusy = @ /\ by # "password"]

\* allSettled: each of the three answers is used, or is not.
LandRefresh(r) ==
    /\ r.kind = "refresh" /\ r.stage = "done"
    /\ \E status, list, open \in BOOLEAN :
        sheet' = Released([sheet EXCEPT !.known = @ \/ status, !.totp = IF status THEN r.totp ELSE @,
                                        !.keys = IF list THEN r.keys ELSE @,
                                        !.sessions = IF open THEN r.sessions ELSE {}], r.by)
    /\ asks' = asks \ {r}
    /\ UNCHANGED <<account, count, entries, spent, unseen>>

LandSessions(r) ==
    /\ r.kind = "sessions" /\ r.stage = "done"
    /\ \E open \in BOOLEAN : sheet' = Released([sheet EXCEPT !.sessions = IF open THEN r.sessions ELSE {}], r.by)
    /\ asks' = asks \ {r}
    /\ UNCHANGED <<account, count, entries, spent, unseen>>

Then(r, kind) == asks' = (asks \ {r}) \cup {Ask(r.n, kind, 0, 0, r.by)}

LandSetup(r) ==
    /\ r.kind = "setup" /\ r.stage = "done"
    /\ sheet' = [sheet EXCEPT !.pw = 0, !.secret = r.n]
    /\ spent' = spent \cup {r.pw}
    /\ asks' = asks \ {r}
    /\ UNCHANGED <<account, count, entries, unseen>>

LandConfirm(r) ==
    /\ r.kind = "confirm" /\ r.stage = "done"
    /\ sheet' = [sheet EXCEPT !.codes = r.n, !.secret = 0]
    /\ Then(r, "refresh")
    /\ UNCHANGED <<account, count, entries, spent, unseen>>

LandRegister(r) ==
    /\ r.kind = "register" /\ r.stage = "done"
    /\ sheet' = [sheet EXCEPT !.pw = 0, !.codes = IF r.codes # 0 THEN r.codes ELSE @]
    /\ spent' = spent \cup {r.pw}
    /\ Then(r, "refresh")
    /\ UNCHANGED <<account, count, entries, unseen>>

\* Mutant: the password stays in its box.
LandRemoveKeepsPassword(r) ==
    /\ r.kind = "remove" /\ r.stage = "done"
    /\ spent' = spent \cup {r.pw}
    /\ Then(r, "refresh")
    /\ UNCHANGED <<account, sheet, count, entries, unseen>>

LandRemove(r) ==
    /\ r.kind = "remove" /\ r.stage = "done"
    /\ sheet' = [sheet EXCEPT !.pw = 0]
    /\ spent' = spent \cup {r.pw}
    /\ Then(r, "refresh")
    /\ UNCHANGED <<account, count, entries, unseen>>

LandRegenerate(r) ==
    /\ r.kind = "regenerate" /\ r.stage = "done"
    /\ sheet' = [sheet EXCEPT !.codes = r.n]
    /\ Then(r, "refresh")
    /\ UNCHANGED <<account, count, entries, spent, unseen>>

\* The codes stay on the page, though the account has none any more.
LandDisable(r) ==
    /\ r.kind = "disable" /\ r.stage = "done"
    /\ Then(r, "refresh")
    /\ UNCHANGED <<account, sheet, count, entries, spent, unseen>>

LandRevoked(r) ==
    /\ r.kind \in Sessional \cup {"password"} /\ r.stage = "done"
    /\ Then(r, "sessions")
    /\ UNCHANGED <<account, sheet, count, entries, spent, unseen>>

\* Refused or lost, or its answer is: the password stays in its box.
LandFailed(r) ==
    /\ r.kind \in Kinds
    /\ sheet' = Released(sheet, r.by)
    /\ unseen' = IF r.kind \in Makes /\ r.stage = "done" THEN unseen \cup {r.n} ELSE unseen
    /\ asks' = asks \ {r}
    /\ UNCHANGED <<account, count, entries, spent>>

-----------------------------------------------------------------------------

Next ==
    \/ EnterPassword \/ StartTotp \/ ConfirmTotp \/ AddPasskey \/ RegenerateCodes \/ DisableAll
    \/ SubmitPasswordChange \/ RevokeOthers \/ AcceptCodes \/ DismissCodes
    \/ \E k \in sheet.keys : RemovePasskey(k)
    \/ \E s \in Others : RevokeOne(s)
    \/ \E r \in asks :
        \/ ServeRead(r) \/ ServeSetup(r) \/ ServeConfirm(r) \/ ServeRegisterBegin(r) \/ ServeRegister(r)
        \/ ServeRemove(r) \/ ServeRegenerate(r) \/ ServeDisable(r) \/ ServeSessions(r)
        \/ LandRefresh(r) \/ LandSessions(r) \/ LandSetup(r) \/ LandConfirm(r) \/ LandRegister(r)
        \/ LandRemove(r) \/ LandRegenerate(r) \/ LandDisable(r) \/ LandRevoked(r) \/ LandFailed(r)

Spec == Init /\ [][Next]_securityVars

-----------------------------------------------------------------------------
(* Properties.                                                             *)

\* A flag is not up longer than a handler that owns it is under way.
TypeOK ==
    /\ sheet.loading => (\E r \in asks : r.by \in Guarded)
    /\ sheet.sessionsBusy = (\E r \in asks : r.by \in Sessional)
    /\ sheet.pwBusy = (\E r \in asks : r.by = "password")
    /\ sheet.sessions \subseteq Others /\ sheet.pw \in 0 .. entries /\ sheet.codes \in 0 .. count

\* The codes the reader is told to save are not already replaced, unless the
\* answer with the newer ones is still to come or was lost: `loading` keeps
\* apart all that make codes.
NewestCodesShown ==
    sheet.codes # 0 /\ account.codes > sheet.codes =>
        account.codes \in unseen \/ \E r \in asks : r.n = account.codes /\ r.stage = "done"

\* The password of an action that is done is not sent with a later one
\* (managementPw is emptied by every handler that went through).
SpentPasswordNotSent == [][\A r \in asks' \ asks : r.stage = "asked" => r.pw \notin spent]_securityVars

\* "It is used only for the next action" (Security2FAView.vue:331).  Does not
\* hold: two removals or two setups are pressed before the first is answered.
PasswordForOneAction == \A q, r \in asks : q.pw = r.pw /\ q.pw # 0 => q = r

\* With nothing in flight, the secret on screen is the one the backend would
\* confirm.  Does not hold: the answers of two setups land in the other order.
SecretCanBeConfirmed == asks = {} /\ sheet.secret # 0 => sheet.secret = account.secret \/ account.totp

\* With nothing in flight, no key is listed that the account does not have.
\* Does not hold: the lists of two refreshes land in the other order.
ListsSettle == asks = {} => sheet.keys \subseteq account.keys

\* Codes leave the card only after the box beside them was ticked for them.
\* Does not hold: the tick stays when new codes take the place of the old.
CodesAcknowledged == [][sheet'.codes > sheet.codes => ~sheet'.accepted]_securityVars

=============================================================================
