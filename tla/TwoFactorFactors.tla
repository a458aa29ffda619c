--------------------------- MODULE TwoFactorFactors ---------------------------
(* The second factors of one account (AuthController2fa.cc with             *)
(* TwoFactorSession.cc): a TOTP secret, recovery codes and passkeys, the    *)
(* requests that enrol, confirm, remove and spend them, and the sessions    *)
(* that hold the pending sign-in, challenges and authorisations.            *)
(*                                                                          *)
(* A request serves once; what it makes (a secret, a batch of codes, a      *)
(* passkey, a challenge) has its name.  A batch of ten codes stands as one  *)
(* code.  One action is one statement or one operation on a session, except *)
(* that a statement that deletes and inserts in one go takes its snapshot   *)
(* (Snapshot) before it lands.  Passwords are right, and a request that is  *)
(* refused without having changed anything takes no step.                   *)
EXTENDS Naturals

CONSTANTS
    Requests,
    Browsers,
    Old,         \* names what was there before
    None,
    Steps,       \* 30-second steps whose codes are presented
    MaxCount     \* bound on the counter a passkey reports

Ids == Requests \cup {Old}

ASSUME FactorsAssumption ==
    /\ Old \notin Requests /\ None \notin Ids \cup Browsers
    /\ Steps \subseteq Nat \ {0} /\ MaxCount \in Nat

VARIABLES
    totp,      \* the row of user_totp_secrets
    codes,     \* batches with a row in user_recovery_codes
    used,      \* those of them with used_at set
    keys,      \* rows of user_webauthn_credentials
    count,     \* their sign_count
    browser,   \* the session objects of the account
    request

factors == <<totp, codes, used, keys, count>>
vars == <<factors, browser, request>>

NoTotp == [row |-> None, secret |-> None, enabled |-> FALSE, last |-> 0]

Anonymous == [signed |-> FALSE, setup |-> FALSE, reg |-> None,
              pending |-> FALSE, challenge |-> None]

New == [kind |-> "none", pc |-> "new", b |-> None, row |-> None, secret |-> None, step |-> 0,
        codes |-> {}, keys |-> {}, item |-> None, ch |-> None, count |-> 0]

(* A request that is over and leaves nothing that tells what it was.        *)
Ended == [New EXCEPT !.pc = "done"]

HasFactor == totp.enabled \/ keys # {}

(* Any mix of factors an account can have; recovery codes came with them.   *)
Init ==
    /\ totp \in {NoTotp} \cup {[row |-> Old, secret |-> Old, enabled |-> e, last |-> 0] : e \in BOOLEAN}
    /\ codes \in SUBSET {Old} /\ keys \in SUBSET {Old}
    /\ HasFactor => codes = {Old}
    /\ used = {} /\ count = [k \in Ids |-> 0]
    /\ browser \in [Browsers -> {Anonymous, [Anonymous EXCEPT !.signed = TRUE]}
                                   \cup {s \in {[Anonymous EXCEPT !.pending = TRUE]} : HasFactor}]
    /\ request = [r \in Requests |-> New]

At(r, pc) == request[r].pc = pc
Becomes(r, q) == request' = [request EXCEPT ![r] = q]
Begin(r, q) == request[r] = New /\ Becomes(r, q)
Goto(r, pc) == Becomes(r, [request[r] EXCEPT !.pc = pc])
End(r) == Becomes(r, Ended)
Session(b, s) == browser' = [browser EXCEPT ![b] = s]

-----------------------------------------------------------------------------
(* setupTotp: the password, then whether TOTP is enabled (409 if it is).    *)
SetupRead(r, b) ==
    /\ browser[b].signed /\ ~totp.enabled
    /\ Begin(r, [New EXCEPT !.kind = "setup", !.pc = "upsert", !.b = b])
    /\ UNCHANGED <<factors, browser>>

(* The upsert looks at nothing again: a fresh secret, not enabled; the step *)
(* that was used last stays with the row.                                   *)
SetupUpsert(r) ==
    /\ At(r, "upsert")
    /\ totp' = [totp EXCEPT !.row = IF @ = None THEN r ELSE @, !.secret = r, !.enabled = FALSE]
    /\ Goto(r, "authorize")
    /\ UNCHANGED <<codes, used, keys, count, browser>>

SetupAuthorize(r) ==
    /\ At(r, "authorize") /\ End(r)
    /\ Session(request[r].b, [browser[request[r].b] EXCEPT !.setup = TRUE])
    /\ UNCHANGED factors

(* confirmTotp: an authorised session, then the secret, not enabled yet,    *)
(* and a code of it.                                                        *)
ConfirmCheck(r, b) ==
    /\ browser[b].signed /\ browser[b].setup
    /\ Begin(r, [New EXCEPT !.kind = "confirm", !.pc = "verify", !.b = b])
    /\ UNCHANGED <<factors, browser>>

ConfirmVerify(r) ==
    /\ At(r, "verify") /\ totp.secret # None /\ ~totp.enabled
    /\ Becomes(r, [request[r] EXCEPT !.pc = "enable", !.secret = totp.secret])
    /\ UNCHANGED <<factors, browser>>

(* enableTotpWithRecoveryCodes: WHERE secret_b32 = $2 AND enabled = FALSE.  *)
AnySecret(r) == request[r].secret # None /\ ~totp.enabled
Confirmable(r) == totp.secret = request[r].secret /\ ~totp.enabled

(* A statement that deletes and inserts in one go deletes what it sees when *)
(* it starts.                                                               *)
Running(pc) == CASE pc = "enable" -> "enabling"
                 [] pc = "disable" -> "disabling"
                 [] OTHER -> "replacing"

Snapshot(r) ==
    /\ request[r].pc \in {"enable", "disable", "replace"}
    /\ At(r, "enable") => Confirmable(r)
    /\ Becomes(r, [request[r] EXCEPT !.pc = Running(@), !.row = totp.row,
                                     !.codes = codes, !.keys = keys])
    /\ UNCHANGED <<factors, browser>>

NoBatch(r) == codes' = codes \ request[r].codes /\ used' = used \ request[r].codes
NewBatch(r) == codes' = (codes \ request[r].codes) \cup {r} /\ used' = used \ request[r].codes

(* It waits for whoever holds the row and looks at the conditions again.    *)
EnableTotp(r) ==
    /\ At(r, "enabling") /\ Confirmable(r) /\ totp.row = request[r].row
    /\ totp' = [totp EXCEPT !.enabled = TRUE]
    /\ NewBatch(r)
    /\ Becomes(r, [request[r] EXCEPT !.pc = "clear", !.row = None, !.codes = {}, !.keys = {}])
    /\ UNCHANGED <<keys, count, browser>>

EnableRefused(r) ==
    /\ At(r, "enabling") /\ ~(Confirmable(r) /\ totp.row = request[r].row)
    /\ End(r) /\ UNCHANGED <<factors, browser>>

ConfirmClear(r) ==
    /\ At(r, "clear") /\ Goto(r, "done")
    /\ Session(request[r].b, [browser[request[r].b] EXCEPT !.setup = FALSE])
    /\ UNCHANGED factors

(* disable2fa: password and a code of the enabled secret, then one          *)
(* statement that removes every factor.                                     *)
DisableVerify(r, b) ==
    /\ browser[b].signed /\ totp.enabled
    /\ Begin(r, [New EXCEPT !.kind = "disable", !.pc = "disable", !.b = b])
    /\ UNCHANGED <<factors, browser>>

Disable(r) ==
    /\ At(r, "disabling") /\ End(r)
    /\ totp' = IF totp.row = request[r].row THEN NoTotp ELSE totp
    /\ codes' = codes \ request[r].codes /\ used' = used \ request[r].codes
    /\ keys' = keys \ request[r].keys
    /\ UNCHANGED <<count, browser>>

(* regenerateRecoveryCodes *)
Regenerate(r, b) ==
    /\ browser[b].signed
    /\ Begin(r, [New EXCEPT !.kind = "regenerate", !.pc = "replace", !.b = b])
    /\ UNCHANGED <<factors, browser>>

ReplaceRecoveryCodes(r) ==
    /\ At(r, "replacing") /\ NewBatch(r)
    /\ End(r) /\ UNCHANGED <<totp, keys, count, browser>>

-----------------------------------------------------------------------------
(* webauthnRegisterBegin: authorisation and challenge in one modify().      *)
RegisterBegin(r, b) ==
    /\ browser[b].signed
    /\ Begin(r, [New EXCEPT !.kind = "begin", !.pc = "done", !.b = b])
    /\ Session(b, [browser[b] EXCEPT !.reg = r])
    /\ UNCHANGED factors

ClaimsEnrolment(b) == Session(b, [browser[b] EXCEPT !.reg = None])

(* webauthnRegisterFinish claims both before anything else.                 *)
RegisterClaim(r, b) ==
    /\ browser[b].signed /\ browser[b].reg # None
    /\ Begin(r, [New EXCEPT !.kind = "register", !.pc = "count", !.b = b, !.ch = browser[b].reg])
    /\ ClaimsEnrolment(b)
    /\ UNCHANGED factors

(* Whether the account has codes is read before the insertion.              *)
RegisterCount(r) ==
    /\ At(r, "count") /\ Goto(r, IF codes = {} THEN "first" ELSE "another")
    /\ UNCHANGED <<factors, browser>>

RegisterInsert(r) ==
    /\ request[r].pc \in {"first", "another"}
    /\ keys' = keys \cup {r}
    /\ \E n \in 0 .. MaxCount : count' = [count EXCEPT ![r] = n]
    /\ codes' = IF At(r, "first") THEN codes \cup {r} ELSE codes
    /\ Goto(r, "done") /\ UNCHANGED <<totp, used, browser>>

(* webauthnRemove: one statement, after the password.                       *)
Remove(b, k) ==
    /\ browser[b].signed /\ k \in keys
    /\ keys' = keys \ {k}
    /\ UNCHANGED <<totp, codes, used, count, browser, request>>

-----------------------------------------------------------------------------
(* login: two statements find out whether there is a second factor; then    *)
(* the session is cleared and becomes pending, or signed in.  The steps on  *)
(* the session are those of SessionRegistry, taken as one here.             *)
LoginTotp(r, b) ==
    /\ Begin(r, [New EXCEPT !.kind = "login", !.b = b,
                            !.pc = IF totp.enabled THEN "pend" ELSE "passkeys"])
    /\ UNCHANGED <<factors, browser>>

LoginPasskeys(r) ==
    /\ At(r, "passkeys") /\ Goto(r, IF keys = {} THEN "sign" ELSE "pend")
    /\ UNCHANGED <<factors, browser>>

LoginSession(r) ==
    \/ /\ At(r, "pend") /\ End(r)
       /\ Session(request[r].b, [Anonymous EXCEPT !.pending = TRUE])
       /\ UNCHANGED factors
    \/ /\ At(r, "sign") /\ Goto(r, "in")
       /\ Session(request[r].b, [Anonymous EXCEPT !.signed = TRUE])
       /\ UNCHANGED factors

(* verifyLoginTotp: a code of the enabled secret matches a step, which one  *)
(* UPDATE claims if it is newer than the last.                              *)
TotpVerify(r, b) ==
    /\ browser[b].pending /\ totp.enabled
    /\ \E s \in Steps :
         Begin(r, [New EXCEPT !.kind = "totp", !.pc = "claim", !.b = b, !.step = s,
                              !.secret = totp.secret])
    /\ UNCHANGED <<factors, browser>>

ClaimsUnlessEqual(r, old) == totp.enabled /\ old # request[r].step
Claims(r, old) == totp.enabled /\ old < request[r].step

TotpClaim(r) ==
    /\ At(r, "claim") /\ Claims(r, totp.last)
    /\ totp' = [totp EXCEPT !.last = request[r].step]
    /\ Becomes(r, [request[r] EXCEPT !.pc = "complete", !.row = totp.row])
    /\ UNCHANGED <<codes, used, keys, count, browser>>

TotpReplay(r) ==
    /\ At(r, "claim") /\ ~Claims(r, totp.last)
    /\ End(r) /\ UNCHANGED <<factors, browser>>

(* verifyLoginRecovery: a code that is not used matches, and one UPDATE     *)
(* uses it unless somebody did.                                             *)
RecoveryMatch(r, b) ==
    /\ browser[b].pending
    /\ \E c \in codes \ used :
         Begin(r, [New EXCEPT !.kind = "code", !.pc = "consume", !.b = b, !.item = c])
    /\ UNCHANGED <<factors, browser>>

NotYetUsed(r) == request[r].item \notin used
Unused(r) == request[r].item \in codes \ used

RecoveryConsume(r) ==
    /\ At(r, "consume")
    /\ \/ /\ Unused(r) /\ used' = used \cup {request[r].item}
          /\ Goto(r, "complete")
       \/ /\ ~Unused(r) /\ End(r)
          /\ UNCHANGED used
    /\ UNCHANGED <<totp, codes, keys, count, browser>>

(* webauthnLoginBegin: pending, passkeys to offer, a challenge.             *)
PasskeyBegin(r, b) ==
    /\ browser[b].pending /\ keys # {}
    /\ Begin(r, [New EXCEPT !.kind = "begin", !.pc = "store", !.b = b])
    /\ UNCHANGED <<factors, browser>>

StoreChallenge(r) ==
    /\ At(r, "store") /\ Goto(r, "done")
    /\ Session(request[r].b, [browser[request[r].b] EXCEPT !.challenge = r])
    /\ UNCHANGED factors

ClaimsChallenge(b) == Session(b, [browser[b] EXCEPT !.challenge = None])

(* webauthnLoginFinish: claim the challenge, read the passkey, verify the   *)
(* assertion (its counter too), and store the counter unless it has moved.  *)
PasskeyClaim(r, b) ==
    /\ browser[b].pending /\ browser[b].challenge # None
    /\ Begin(r, [New EXCEPT !.kind = "passkey", !.pc = "assert", !.b = b, !.ch = browser[b].challenge])
    /\ ClaimsChallenge(b)
    /\ UNCHANGED factors

AdvancesOrZero(n, old) == n > old \/ n = 0
Advances(n, old) == n > old \/ (n = 0 /\ old = 0)

PasskeyVerify(r) ==
    /\ At(r, "assert")
    /\ \E k \in keys, n \in 0 .. MaxCount :
         /\ Advances(n, count[k])
         /\ Becomes(r, [request[r] EXCEPT !.pc = "advance", !.item = k, !.count = n])
    /\ UNCHANGED <<factors, browser>>

PasskeyAdvance(r) ==
    LET k == request[r].item  ok == k \in keys /\ Advances(request[r].count, count[k])
    IN  /\ At(r, "advance")
        /\ Goto(r, IF ok THEN "complete" ELSE "done")
        /\ count' = IF ok THEN [count EXCEPT ![k] = request[r].count] ELSE count
        /\ UNCHANGED <<totp, codes, used, keys, browser>>

(* completeTwoStepLogin, whose steps are those of SessionRegistry.          *)
Complete(r) ==
    /\ At(r, "complete") /\ Goto(r, "in")
    /\ Session(request[r].b, [browser[request[r].b] EXCEPT !.signed = TRUE, !.pending = FALSE,
                                                            !.challenge = None])
    /\ UNCHANGED factors

-----------------------------------------------------------------------------
(* freshTimestamp no longer holds: what is stale is erased by its next      *)
(* reader, and authorises nothing meanwhile.                                *)
Expire(b) ==
    /\ \/ browser[b].setup /\ Session(b, [browser[b] EXCEPT !.setup = FALSE])
       \/ browser[b].reg # None /\ Session(b, [browser[b] EXCEPT !.reg = None])
       \/ browser[b].pending /\ Session(b, [browser[b] EXCEPT !.pending = FALSE, !.challenge = None])
    /\ UNCHANGED <<factors, request>>

(* getPendingLogin erases a challenge that has no sign-in.                  *)
EraseOrphan(b) ==
    /\ ~browser[b].pending /\ browser[b].challenge # None
    /\ Session(b, [browser[b] EXCEPT !.challenge = None])
    /\ UNCHANGED <<factors, request>>

Enrol(r) ==
    \/ \E b \in Browsers : SetupRead(r, b) \/ ConfirmCheck(r, b) \/ RegisterBegin(r, b) \/ RegisterClaim(r, b)
    \/ SetupUpsert(r) \/ SetupAuthorize(r)
    \/ ConfirmVerify(r) \/ EnableTotp(r) \/ EnableRefused(r) \/ ConfirmClear(r)
    \/ RegisterCount(r) \/ RegisterInsert(r)

Withdraw(r) ==
    \/ \E b \in Browsers : DisableVerify(r, b) \/ Regenerate(r, b)
    \/ Snapshot(r) \/ Disable(r) \/ ReplaceRecoveryCodes(r)

SignIn(r) ==
    \/ \E b \in Browsers : \/ LoginTotp(r, b) \/ TotpVerify(r, b) \/ RecoveryMatch(r, b)
                           \/ PasskeyBegin(r, b) \/ PasskeyClaim(r, b)
    \/ LoginPasskeys(r) \/ LoginSession(r)
    \/ TotpClaim(r) \/ TotpReplay(r) \/ RecoveryConsume(r)
    \/ StoreChallenge(r) \/ PasskeyVerify(r) \/ PasskeyAdvance(r)
    \/ Complete(r)

Next ==
    \/ \E r \in Requests : Enrol(r) \/ Withdraw(r) \/ SignIn(r)
    \/ \E b \in Browsers : \/ Expire(b) \/ EraseOrphan(b)
                           \/ \E k \in keys : Remove(b, k)

Spec == Init /\ [][Next]_vars

-----------------------------------------------------------------------------
PCs == {"new", "upsert", "authorize", "verify", "enable", "enabling", "clear", "disable",
        "disabling", "replace", "replacing", "count", "first", "another", "passkeys", "pend",
        "sign", "claim", "consume", "store", "assert", "advance", "complete", "in", "done"}

Kinds == {"none", "setup", "confirm", "disable", "regenerate", "begin", "register", "login",
          "totp", "code", "passkey"}

Request == [kind : Kinds, pc : PCs, b : Browsers \cup {None}, row : Ids \cup {None},
            secret : Ids \cup {None}, step : Steps \cup {0}, codes : SUBSET Ids,
            keys : SUBSET Ids, item : Ids \cup {None}, ch : Requests \cup {None},
            count : 0 .. MaxCount]

(* Rows, sessions and requests keep their types, and a used code is there.  *)
TypeOK ==
    /\ totp \in [row : Ids \cup {None}, secret : Ids \cup {None}, enabled : BOOLEAN,
                 last : Steps \cup {0}]
    /\ codes \subseteq Ids /\ used \subseteq codes /\ keys \subseteq Ids
    /\ count \in [Ids -> 0 .. MaxCount]
    /\ browser \in [Browsers -> [signed : BOOLEAN, setup : BOOLEAN, reg : Requests \cup {None},
                                 pending : BOOLEAN, challenge : Requests \cup {None}]]
    /\ request \in [Requests -> Request]

(* A request that was let in, or is about to be, by a proof of some kind.   *)
InBy(r, kind) == request[r].kind = kind /\ request[r].pc \in {"complete", "in"}
Claimant(r) == request[r].kind \in {"passkey", "register"}

(* Each proof is accepted once: no two sign-ins rest on one recovery code   *)
(* or on one step of one TOTP row, and no two requests (a sign-in or an     *)
(* enrolment) on one challenge, however they overlap.                       *)
ProofUsedOnce ==
    \A r, q \in Requests : r # q =>
        /\ InBy(r, "totp") /\ InBy(q, "totp") /\ request[r].row = request[q].row =>
               request[r].step # request[q].step
        /\ InBy(r, "code") /\ InBy(q, "code") => request[r].item # request[q].item
        /\ Claimant(r) /\ Claimant(q) => request[r].ch # request[q].ch

(* TOTP is never enabled with a secret nobody has shown a code of, though a *)
(* setup may replace the secret while a confirmation runs.                  *)
EnabledSecretIsProven ==
    totp.enabled => \/ totp.secret = Old
                    \/ \E r \in Requests : request[r].kind = "confirm" /\ request[r].secret = totp.secret

(* Who has TOTP enabled has recovery codes, used or not: a batch goes only  *)
(* together with the factor or when another has taken its place.            *)
EnabledHasCodes == totp.enabled => codes # {}

(* The counter of a passkey never falls (AuthController2fa.cc:1319-1320,    *)
(* "never lowers a counter that has moved").                                *)
CounterNeverFalls ==
    [][\A k \in keys \cap keys' : count'[k] >= count[k]]_vars

(* "A current TOTP code is required so a hijacked session alone cannot rip  *)
(* every factor back off" (AuthController2fa.cc:622-623): TOTP that is on   *)
(* goes only by disable2fa.                                                 *)
TotpFallsOnlyByDisable ==
    [][totp.enabled /\ ~totp'.enabled =>
         \E r \in Requests : At(r, "disabling") /\ request'[r].pc = "done"]_vars

(* A fresh batch "invalidates the previous one" (AuthController2fa.cc:680-681). *)
OneBatch == \A c, d \in codes : c = d

(* "Issue recovery codes the first time any factor is enrolled"             *)
(* (AuthController2fa.cc:894).                                              *)
PasskeyHasCodes == keys # {} => codes # {}

(* "A code is accepted at most once" (AuthController2fa.cc:1099-1100): the  *)
(* same step of the same secret, whatever happens to the row.               *)
CodeAcceptedOnce ==
    \A r, q \in Requests :
        r # q /\ InBy(r, "totp") /\ InBy(q, "totp") /\ request[r].secret = request[q].secret =>
            request[r].step # request[q].step

PasswordAlone == \E r \in Requests : request[r].kind = "login" /\ At(r, "in")

(* Who has a second factor at every moment is asked for it.                 *)
SecondFactorIsAsked == []HasFactor => []~PasswordAlone

=============================================================================
