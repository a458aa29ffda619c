---------------------------- MODULE ClientSession ----------------------------
(***************************************************************************)
(* Who the single-page application believes is signed in: stores/auth.ts,  *)
(* the guard of router/index.ts, main.ts, LoginView and Verify2FAView, the *)
(* sign-out of App.vue and the deletion of AccountDataView.  The cookie    *)
(* belongs to the browser and changes when the backend serves a request;   *)
(* the store learns of it when the answer lands, and requests overtake     *)
(* each other.                                                             *)
(*                                                                         *)
(* Abstracted: passwords and codes are right or the request fails; the     *)
(* methods of the second factor, and a passkey's two requests, are one.    *)
(* What runs in one task of the event loop (an answer, the lines up to the *)
(* next await, the watchers) is one step.  A navigation takes two: the     *)
(* code of its view is loaded in between.  Verify2FAView without a pending *)
(* sign-in, which goes on to /login once it is up, is taken for /login.    *)
(***************************************************************************)
EXTENDS Naturals, FiniteSets

CONSTANTS
    Users,
    TwoFactor,   \* users with a second factor
    MaxPresses,  \* bound: forms sent
    MaxAsks,     \* bound: requests in flight
    MayFail      \* whether requests get lost

ASSUME SessionAssumption == TwoFactor \subseteq Users /\ MaxPresses \in Nat

VARIABLES
    user,     \* auth.user
    ready,    \* auth.ready
    pending,  \* auth.pending2fa
    mounted,  \* whether main.ts has mounted the application
    view,     \* the view that is up; "boot" before the first
    heading,  \* where the newest navigation goes: `view`, when none is under way
    busy,     \* the `loading` of the view
    asks,     \* requests in flight
    presses,
    cookie    \* what the browser's session is to the backend

sessionVars == <<user, ready, pending, mounted, view, heading, busy, asks, presses, cookie>>

Nobody  == "nobody"
NoLogin == [who |-> Nobody, signed |-> FALSE]
Public  == {"home", "post", "login"}
Private == {"messages", "account"}

\* `to`: where the guard that waits for a probe wants to go.
Ask(kind, who, to) == [kind |-> kind, who |-> who, to |-> to, stage |-> "asked"]

(* A page load: with a session or without, on a public or a private route. *)
(* The guard of a private one sends a probe of its own.                    *)
Init ==
    /\ user = Nobody /\ ready = FALSE /\ pending = Nobody
    /\ mounted = FALSE /\ busy = FALSE /\ presses = 0
    /\ cookie \in {NoLogin} \cup {[who |-> u, signed |-> TRUE] : u \in Users}
    /\ \/ view \in {"home", "post"} /\ asks = {Ask("me", Nobody, "mount")}
       \/ /\ view = "boot"
          /\ \E to \in Private : asks = {Ask("me", Nobody, "mount"), Ask("me", Nobody, to)}
    /\ heading = view

-----------------------------------------------------------------------------
(* The reader.                                                             *)

\* /login/2fa without a pending sign-in goes on to /login as soon as it is up.
Settled(to) == IF to = "verify" /\ pending = Nobody THEN "login" ELSE to

Guarded(to, u) == IF to \in Private /\ u = Nobody THEN "login" ELSE to

\* The guard answers at once; the code of the view is still to be loaded.
\* To go where one is gives up a navigation that is under way.
Go(to) ==
    /\ mounted /\ to # heading
    /\ heading' = Settled(Guarded(to, user))
    /\ UNCHANGED <<user, ready, pending, mounted, view, busy, asks, presses, cookie>>

\* A navigation that no later one has overtaken.
Arrive ==
    /\ view # heading /\ heading # "boot"
    /\ view' = Settled(heading) /\ heading' = view'
    /\ busy' = FALSE
    /\ UNCHANGED <<user, ready, pending, mounted, asks, presses, cookie>>

Press(r) ==
    /\ mounted /\ presses < MaxPresses /\ Cardinality(asks) < MaxAsks /\ r \notin asks
    /\ presses' = presses + 1
    /\ asks' = asks \cup {r}
    /\ UNCHANGED <<user, ready, pending, mounted, view, heading, cookie>>

SubmitLogin(u) == view = "login" /\ ~busy /\ Press(Ask("login", u, "home")) /\ busy' = TRUE

SubmitCode == view = "verify" /\ ~busy /\ Press(Ask("verify", Nobody, "home")) /\ busy' = TRUE

DoLogout == user # Nobody /\ Press(Ask("logout", Nobody, "home")) /\ UNCHANGED busy

DoDelete == view = "account" /\ ~busy /\ user # Nobody /\ Press(Ask("delete", user, "home")) /\ busy' = TRUE

-----------------------------------------------------------------------------
(* The backend.                                                            *)

Serve(r, answer, session) ==
    /\ r.stage = "asked"
    /\ asks' = (asks \ {r}) \cup {[r EXCEPT !.stage = "done", !.who = answer]}
    /\ cookie' = session
    /\ UNCHANGED <<user, ready, pending, mounted, view, heading, busy, presses>>

ServeMe(r) == r.kind = "me" /\ Serve(r, IF cookie.signed THEN cookie.who ELSE Nobody, cookie)

ServeLogin(r) == r.kind = "login" /\ Serve(r, r.who, [who |-> r.who, signed |-> r.who \notin TwoFactor])

ServeCode(r) ==
    /\ r.kind = "verify" /\ cookie.who # Nobody /\ ~cookie.signed
    /\ Serve(r, cookie.who, [cookie EXCEPT !.signed = TRUE])

ServeLogout(r) == r.kind = "logout" /\ Serve(r, Nobody, NoLogin)

ServeDelete(r) == r.kind = "delete" /\ cookie = [who |-> r.who, signed |-> TRUE] /\ Serve(r, r.who, NoLogin)

\* Signed out on another device, expired, or banned.
RevokedElsewhere ==
    /\ cookie # NoLogin
    /\ cookie' = NoLogin
    /\ UNCHANGED <<user, ready, pending, mounted, view, heading, busy, asks, presses>>

-----------------------------------------------------------------------------
(* The answers.  A handler navigates whether or not its view is still up.  *)

Answered(r) == asks' = asks \ {r} /\ UNCHANGED <<presses, cookie>>

Refused(r) ==
    r.stage = "asked" /\ \/ MayFail
                         \/ r.kind = "verify" /\ (cookie.who = Nobody \/ cookie.signed)
                         \/ r.kind = "delete" /\ cookie # [who |-> r.who, signed |-> TRUE]

Failed(r) == Refused(r) \/ MayFail

\* router.push, which overtakes whatever navigation is under way.
Push(to) == heading' = to /\ UNCHANGED view

\* Mutant: `ready` is set on success only.
LandMeReadyIfSignedIn(r) ==
    /\ r.kind = "me" /\ Answered(r)
    /\ user' \in (IF r.stage = "done" THEN {r.who} ELSE {}) \cup (IF Failed(r) THEN {Nobody} ELSE {})
    /\ ready' = (ready \/ user' # Nobody)
    /\ mounted' = (mounted \/ r.to = "mount")
    /\ heading' = IF r.to # "mount" /\ heading = "boot" THEN Guarded(r.to, user') ELSE heading
    /\ UNCHANGED <<pending, view, busy>>

\* fetchMe: any error is a sign-out.  The probe of main.ts mounts the
\* application, that of the guard lets the navigation it holds go on.
LandMe(r) ==
    /\ r.kind = "me" /\ Answered(r)
    /\ user' \in (IF r.stage = "done" THEN {r.who} ELSE {}) \cup (IF Failed(r) THEN {Nobody} ELSE {})
    /\ ready' = TRUE
    /\ mounted' = (mounted \/ r.to = "mount")
    /\ heading' = IF r.to # "mount" /\ heading = "boot" THEN Guarded(r.to, user') ELSE heading
    /\ UNCHANGED <<pending, view, busy>>

LandLogin(r) ==
    /\ r.kind = "login" /\ r.stage = "done" /\ r.who \notin TwoFactor /\ Answered(r)
    /\ user' = r.who
    /\ pending' = Nobody
    /\ Push(r.to) /\ busy' = FALSE
    /\ UNCHANGED <<ready, mounted>>

\* Mutant: the view does not move on.
LandPendingStays(r) ==
    /\ r.kind = "login" /\ r.stage = "done" /\ r.who \in TwoFactor /\ Answered(r)
    /\ user' = Nobody
    /\ pending' = r.who
    /\ busy' = FALSE
    /\ UNCHANGED <<ready, mounted, view, heading>>

LandPending(r) ==
    /\ r.kind = "login" /\ r.stage = "done" /\ r.who \in TwoFactor /\ Answered(r)
    /\ user' = Nobody
    /\ pending' = r.who
    /\ Push("verify") /\ busy' = FALSE
    /\ UNCHANGED <<ready, mounted>>

LandCode(r) ==
    /\ r.kind = "verify" /\ r.stage = "done" /\ Answered(r)
    /\ user' = r.who
    /\ pending' = Nobody
    /\ Push(r.to) /\ busy' = FALSE
    /\ UNCHANGED <<ready, mounted>>

\* Errors are ignored: the store is emptied though the session may go on.
LandLogout(r) ==
    /\ r.kind = "logout" /\ (r.stage = "done" \/ Failed(r)) /\ Answered(r)
    /\ user' = Nobody
    /\ pending' = Nobody
    /\ Push(r.to)
    /\ UNCHANGED <<ready, mounted, busy>>

LandDelete(r) ==
    /\ r.kind = "delete" /\ r.stage = "done" /\ Answered(r)
    /\ user' = Nobody
    /\ pending' = Nobody
    /\ Push(r.to) /\ busy' = FALSE
    /\ UNCHANGED <<ready, mounted>>

LandRefusal(r) ==
    /\ r.kind \in {"login", "verify", "delete"} /\ Failed(r) /\ Answered(r)
    /\ busy' = FALSE
    /\ UNCHANGED <<user, ready, pending, mounted, view, heading>>

-----------------------------------------------------------------------------

Reader ==
    \/ \E to \in Public \cup Private \cup {"verify"} : Go(to)
    \/ \E u \in Users : SubmitLogin(u)
    \/ Arrive \/ SubmitCode \/ DoDelete

Backend ==
    \/ RevokedElsewhere
    \/ \E r \in asks : ServeMe(r) \/ ServeLogin(r) \/ ServeCode(r) \/ ServeLogout(r) \/ ServeDelete(r)

Answers ==
    \E r \in asks :
        LandMe(r) \/ LandLogin(r) \/ LandPending(r) \/ LandCode(r) \/ LandLogout(r) \/ LandDelete(r) \/ LandRefusal(r)

SessionNext == Reader \/ DoLogout \/ Backend \/ Answers

SessionSpec == Init /\ [][SessionNext]_sessionVars

-----------------------------------------------------------------------------
(* Properties.                                                             *)

\* The store is what the refs hold; the first view waits for its probe.
SessionTypeOK ==
    /\ {user, pending, cookie.who} \subseteq Users \cup {Nobody}
    /\ {view, heading} \subseteq Public \cup Private \cup {"verify", "boot"}
    /\ heading = "boot" => \E r \in asks : r.kind = "me" /\ r.to \in Private
    /\ mounted => ready

\* A reader who stops being signed in goes off a private view, whichever
\* handler ends the session, from wherever it was sent and whatever private
\* navigation was under way; only a probe that fails leaves the view up
\* (doLogout, doDelete and the second factor's push; router/index.ts).
PrivateNeedsUser ==
    [][heading' \in Private /\ user' = Nobody =>
            (heading \in Private /\ user = Nobody) \/ \E r \in asks \ asks' : r.kind = "me"]_sessionVars

\* With nothing in flight, the store agrees with the cookie.  Does not hold:
\* a probe answered before the sign-in lands after it, and a sign-out whose
\* request was lost leaves the session behind (auth.ts:59).
StoreKnowsCookie == asks = {} /\ cookie.signed => user = cookie.who

=============================================================================
