--------------------------- MODULE TwoFactorProofs ---------------------------
(* Proofs about TwoFactorFactors, for any number of requests and browsers.  *)
EXTENDS TwoFactorFactors, TLAPS

(* The place a request has reached tells what it is for.                    *)
Place(q) ==
    /\ q.pc = "new" => q.kind = "none"
    /\ q.pc \in {"upsert", "authorize"} => q.kind = "setup"
    /\ q.pc \in {"verify", "enable", "enabling", "clear"} => q.kind = "confirm"
    /\ q.pc \in {"enable", "enabling"} => q.secret # None
    /\ q.pc \in {"disable", "disabling"} => q.kind = "disable"
    /\ q.pc \in {"replace", "replacing"} => q.kind = "regenerate"
    /\ q.pc \in {"count", "first", "another"} => q.kind = "register"
    /\ q.pc \in {"passkeys", "pend", "sign"} => q.kind = "login"
    /\ q.pc = "store" => q.kind = "begin"
    /\ q.pc = "claim" => q.kind = "totp"
    /\ q.pc = "consume" => q.kind = "code"
    /\ q.pc \in {"assert", "advance"} => q.kind = "passkey"
    /\ q.pc \in {"complete", "in"} => q.kind # "none"
Belongs == \A r \in Requests : Place(request[r])

(* A batch, a passkey or a row bears the name of a request that has already *)
(* inserted it, so that what is inserted later is new.                      *)
MadeBatch(c) == c \in Requests => request[c].pc \in {"clear", "done"}
BatchesMade ==
    /\ \A c \in codes : MadeBatch(c)
    /\ \A r \in Requests : /\ \A c \in request[r].codes : MadeBatch(c)
                           /\ (request[r].kind = "code" => MadeBatch(request[r].item))

KeysMade == \A k \in keys : k \in Requests => request[k].pc = "done"

MadeRow(w) == w # None /\ (w \in Requests => request[w].pc \in {"authorize", "done"})
RowsMade ==
    /\ totp.row # None => MadeRow(totp.row)
    /\ totp.row = None <=> totp.secret = None
    /\ totp.enabled => totp.row # None
    /\ \A r \in Requests : InBy(r, "totp") => MadeRow(request[r].row)

(* A step that was accepted is not newer than the last of its row.          *)
StepsClaimed ==
    \A r \in Requests :
        InBy(r, "totp") /\ request[r].row = totp.row => request[r].step <= totp.last

StepsDistinct ==
    \A r, q \in Requests :
        r # q /\ InBy(r, "totp") /\ InBy(q, "totp") /\ request[r].row = request[q].row =>
            request[r].step # request[q].step

(* A code that was accepted is used, or gone for good.                      *)
CodesSpent ==
    /\ \A r \in Requests :
         InBy(r, "code") => request[r].item \notin codes \ used
    /\ \A r, q \in Requests :
         r # q /\ InBy(r, "code") /\ InBy(q, "code") => request[r].item # request[q].item

(* A challenge is in one session at most, and in none once it is claimed.   *)
Stored(c) == c \in Requests /\ request[c].kind = "begin" /\ request[c].pc = "done"
Holds(b, c) == browser[b].reg = c \/ browser[b].challenge = c
ChallengesApart ==
    /\ \A b \in Browsers, c \in Requests : Holds(b, c) => Stored(c)
    /\ \A b \in Browsers, c \in Requests : ~(browser[b].reg = c /\ browser[b].challenge = c)
    /\ \A a, b \in Browsers, c \in Requests : Holds(a, c) /\ Holds(b, c) => a = b
ChallengesClaimed ==
    /\ \A r \in Requests : Claimant(r) => Stored(request[r].ch)
    /\ \A r \in Requests, b \in Browsers : Claimant(r) => ~Holds(b, request[r].ch)
    /\ \A r, q \in Requests : r # q /\ Claimant(r) /\ Claimant(q) => request[r].ch # request[q].ch

(* Some batch is younger than every removal that will spare the row.        *)
BatchStays ==
    totp.enabled =>
        \E c \in codes : \A r \in Requests :
            At(r, "disabling") /\ request[r].row # totp.row => c \notin request[r].codes

(* The confirmation that enabled the secret is not forgotten.               *)
SecretProven ==
    totp.enabled => \/ totp.secret = Old
                    \/ \E r \in Requests : /\ request[r].pc \in {"clear", "done"}
                                           /\ request[r].kind = "confirm"
                                           /\ request[r].secret = totp.secret

FactorInv ==
    /\ TypeOK /\ Belongs
    /\ BatchesMade /\ KeysMade /\ RowsMade
    /\ StepsClaimed /\ StepsDistinct /\ CodesSpent
    /\ ChallengesApart /\ ChallengesClaimed
    /\ SecretProven /\ BatchStays

-----------------------------------------------------------------------------
(* Types.                                                                   *)
LEMMA NewIsTyped == New \in Request
BY FactorsAssumption DEF New, Request, Ids, PCs, Kinds

SessionType == [signed : BOOLEAN, setup : BOOLEAN, reg : Requests \cup {None},
                pending : BOOLEAN, challenge : Requests \cup {None}]
TotpType == [row : Ids \cup {None}, secret : Ids \cup {None}, enabled : BOOLEAN,
             last : Steps \cup {0}]

LEMMA TypeInitial == Init => TypeOK
<1> SUFFICES ASSUME Init PROVE TypeOK
    OBVIOUS
<1>1. request \in [Requests -> Request]
    BY NewIsTyped DEF Init
<1>2. browser \in [Browsers -> SessionType]
  <2>1. Anonymous \in SessionType
      BY DEF SessionType, Anonymous
  <2>2. [Anonymous EXCEPT !.signed = TRUE] \in SessionType
      BY <2>1 DEF SessionType
  <2>3. [Anonymous EXCEPT !.pending = TRUE] \in SessionType
      BY <2>1 DEF SessionType
  <2> QED
      BY <2>1, <2>2, <2>3 DEF Init
<1>3. totp \in TotpType
  <2>1. /\ NoTotp \in TotpType
        /\ \A e \in BOOLEAN : [row |-> Old, secret |-> Old, enabled |-> e, last |-> 0] \in TotpType
      BY DEF NoTotp, TotpType, Ids
  <2> QED
      BY <2>1 DEF Init
<1>4. count \in [Ids -> 0 .. MaxCount]
    BY FactorsAssumption DEF Init
<1>5. codes \subseteq Ids /\ used \subseteq codes /\ keys \subseteq Ids
    BY DEF Init, Ids
<1> QED
    BY <1>1, <1>2, <1>3, <1>4, <1>5 DEF TypeOK, SessionType, TotpType

LEMMA EndedIsTyped == Ended \in Request
BY NewIsTyped DEF Ended, Request, PCs

LEMMA BecomesIsTyped ==
    ASSUME request \in [Requests -> Request], NEW r \in Requests, NEW q \in Request, Becomes(r, q)
    PROVE  /\ request' \in [Requests -> Request]
           /\ request'[r] = q /\ \A p \in Requests : p # r => request'[p] = request[p]
BY DEF Becomes

LEMMA GotoIsTyped ==
    ASSUME request \in [Requests -> Request], NEW r \in Requests, NEW pc \in PCs, Goto(r, pc)
    PROVE  /\ request' \in [Requests -> Request]
           /\ request'[r] = [request[r] EXCEPT !.pc = pc]
           /\ \A p \in Requests : p # r => request'[p] = request[p]
<1>1. [request[r] EXCEPT !.pc = pc] \in Request
    BY DEF Request
<1> QED
    BY <1>1, BecomesIsTyped DEF Goto

(* Every request stays one, whatever step is taken.                         *)
LEMMA RequestsTyped == TypeOK /\ [Next]_vars => request' \in [Requests -> Request]
<1> SUFFICES ASSUME TypeOK, [Next]_vars PROVE request' \in [Requests -> Request]
    OBVIOUS
<1> DEFINE Goal == request' \in [Requests -> Request]
<1>0. request \in [Requests -> Request] /\ New \in Request /\ Ended \in Request
    BY NewIsTyped, EndedIsTyped DEF TypeOK
<1>1. ASSUME NEW r \in Requests, NEW b \in Browsers, SetupRead(r, b) PROVE Goal
  <2>1. [New EXCEPT !.kind = "setup", !.pc = "upsert", !.b = b]
          \in Request
      BY <1>0 DEF Request, PCs, Kinds
  <2> QED
      BY <1>0, <1>1, <2>1, BecomesIsTyped DEF SetupRead, Begin
<1>2. ASSUME NEW r \in Requests, NEW b \in Browsers, ConfirmCheck(r, b) PROVE Goal
  <2>1. [New EXCEPT !.kind = "confirm", !.pc = "verify", !.b = b]
          \in Request
      BY <1>0 DEF Request, PCs, Kinds
  <2> QED
      BY <1>0, <1>2, <2>1, BecomesIsTyped DEF ConfirmCheck, Begin
<1>3. ASSUME NEW r \in Requests, NEW b \in Browsers, RegisterBegin(r, b) PROVE Goal
  <2>1. [New EXCEPT !.kind = "begin", !.pc = "done", !.b = b]
          \in Request
      BY <1>0 DEF Request, PCs, Kinds
  <2> QED
      BY <1>0, <1>3, <2>1, BecomesIsTyped DEF RegisterBegin, Begin
<1>4. ASSUME NEW r \in Requests, NEW b \in Browsers, RegisterClaim(r, b) PROVE Goal
  <2>0. browser[b].reg \in Requests \cup {None}
      BY DEF TypeOK
  <2>1. [New EXCEPT !.kind = "register", !.pc = "count", !.b = b, !.ch = browser[b].reg]
          \in Request
      BY <1>0, <2>0 DEF Request, PCs, Kinds
  <2> QED
      BY <1>0, <1>4, <2>1, BecomesIsTyped DEF RegisterClaim, Begin
<1>5. ASSUME NEW r \in Requests, SetupUpsert(r) PROVE Goal
    BY <1>0, <1>5, GotoIsTyped DEF SetupUpsert, PCs
<1>6. ASSUME NEW r \in Requests, SetupAuthorize(r) PROVE Goal
    BY <1>0, <1>6, BecomesIsTyped DEF SetupAuthorize, End
<1>7. ASSUME NEW r \in Requests, ConfirmVerify(r) PROVE Goal
  <2>1. totp.secret \in Ids \cup {None}
      BY DEF TypeOK
  <2>2. [request[r] EXCEPT !.pc = "enable", !.secret = totp.secret] \in Request
      BY <1>0, <2>1, ZenonT(60) DEF Request, PCs
  <2> QED
      BY <1>0, <1>7, <2>2, BecomesIsTyped DEF ConfirmVerify
<1>8. ASSUME NEW r \in Requests, EnableTotp(r) PROVE Goal
  <2>0. "clear" \in PCs
      BY DEF PCs
  <2>1. [request[r] EXCEPT !.pc = "clear", !.row = None, !.codes = {}, !.keys = {}]
          \in Request
      BY <1>0, <2>0 DEF Request
  <2> QED
      BY <1>0, <1>8, <2>1, BecomesIsTyped DEF EnableTotp
<1>9. ASSUME NEW r \in Requests, EnableRefused(r) PROVE Goal
    BY <1>0, <1>9, BecomesIsTyped DEF EnableRefused, End
<1>10. ASSUME NEW r \in Requests, ConfirmClear(r) PROVE Goal
    BY <1>0, <1>10, GotoIsTyped DEF ConfirmClear, PCs
<1>11. ASSUME NEW r \in Requests, RegisterCount(r) PROVE Goal
  <2>1. (IF codes = {} THEN "first" ELSE "another") \in PCs
      BY DEF PCs
  <2> QED
      BY <1>0, <1>11, <2>1, GotoIsTyped DEF RegisterCount
<1>12. ASSUME NEW r \in Requests, RegisterInsert(r) PROVE Goal
    BY <1>0, <1>12, GotoIsTyped DEF RegisterInsert, PCs
<1>13. ASSUME NEW r \in Requests, NEW b \in Browsers, DisableVerify(r, b) PROVE Goal
  <2>1. [New EXCEPT !.kind = "disable", !.pc = "disable", !.b = b]
          \in Request
      BY <1>0 DEF Request, PCs, Kinds
  <2> QED
      BY <1>0, <1>13, <2>1, BecomesIsTyped DEF DisableVerify, Begin
<1>14. ASSUME NEW r \in Requests, NEW b \in Browsers, Regenerate(r, b) PROVE Goal
  <2>1. [New EXCEPT !.kind = "regenerate", !.pc = "replace", !.b = b]
          \in Request
      BY <1>0 DEF Request, PCs, Kinds
  <2> QED
      BY <1>0, <1>14, <2>1, BecomesIsTyped DEF Regenerate, Begin
<1>15. ASSUME NEW r \in Requests, Snapshot(r) PROVE Goal
  <2>1. totp.row \in Ids \cup {None} /\ codes \in SUBSET Ids /\ keys \in SUBSET Ids
      BY DEF TypeOK
  <2>3. Running(request[r].pc) \in PCs
      BY DEF Running, PCs
  <2>2. [request[r] EXCEPT !.pc = Running(@), !.row = totp.row, !.codes = codes,
                           !.keys = keys] \in Request
      BY <1>0, <2>1, <2>3 DEF Request
  <2> QED
      BY <1>0, <1>15, <2>2, BecomesIsTyped DEF Snapshot
<1>16. ASSUME NEW r \in Requests, Disable(r) PROVE Goal
    BY <1>0, <1>16, BecomesIsTyped DEF Disable, End
<1>17. ASSUME NEW r \in Requests, ReplaceRecoveryCodes(r) PROVE Goal
    BY <1>0, <1>17, BecomesIsTyped DEF ReplaceRecoveryCodes, End
<1>18. ASSUME NEW r \in Requests, NEW b \in Browsers, LoginTotp(r, b) PROVE Goal
  <2>0. (IF totp.enabled THEN "pend" ELSE "passkeys") \in PCs
      BY DEF PCs
  <2>1. \A pc \in PCs : [New EXCEPT !.kind = "login", !.b = b, !.pc = pc] \in Request
      BY <1>0 DEF Request, Kinds
  <2> QED
      BY <1>0, <1>18, <2>0, <2>1, BecomesIsTyped DEF LoginTotp, Begin
<1>19. ASSUME NEW r \in Requests, NEW b \in Browsers, TotpVerify(r, b) PROVE Goal
  <2>1. PICK s \in Steps :
          Begin(r, [New EXCEPT !.kind = "totp", !.pc = "claim", !.b = b, !.step = s,
                               !.secret = totp.secret])
      BY <1>19 DEF TotpVerify
  <2>2. totp.secret \in Ids \cup {None}
      BY DEF TypeOK
  <2>3. [New EXCEPT !.kind = "totp", !.pc = "claim", !.b = b, !.step = s,
                    !.secret = totp.secret] \in Request
      BY <1>0, <2>2 DEF Request, PCs, Kinds
  <2> QED
      BY <1>0, <2>1, <2>3, BecomesIsTyped DEF Begin
<1>20. ASSUME NEW r \in Requests, NEW b \in Browsers, RecoveryMatch(r, b) PROVE Goal
  <2>1. PICK c \in codes \ used :
          Begin(r, [New EXCEPT !.kind = "code", !.pc = "consume", !.b = b, !.item = c])
      BY <1>20 DEF RecoveryMatch
  <2>2. c \in Ids
      BY DEF TypeOK
  <2>3. [New EXCEPT !.kind = "code", !.pc = "consume", !.b = b, !.item = c] \in Request
      BY <1>0, <2>2 DEF Request, PCs, Kinds
  <2> QED
      BY <1>0, <2>1, <2>3, BecomesIsTyped DEF Begin
<1>21. ASSUME NEW r \in Requests, NEW b \in Browsers, PasskeyBegin(r, b) PROVE Goal
  <2>1. [New EXCEPT !.kind = "begin", !.pc = "store", !.b = b]
          \in Request
      BY <1>0 DEF Request, PCs, Kinds
  <2> QED
      BY <1>0, <1>21, <2>1, BecomesIsTyped DEF PasskeyBegin, Begin
<1>22. ASSUME NEW r \in Requests, NEW b \in Browsers, PasskeyClaim(r, b) PROVE Goal
  <2>0. browser[b].challenge \in Requests \cup {None}
      BY DEF TypeOK
  <2>1. [New EXCEPT !.kind = "passkey", !.pc = "assert", !.b = b, !.ch = browser[b].challenge]
          \in Request
      BY <1>0, <2>0 DEF Request, PCs, Kinds
  <2> QED
      BY <1>0, <1>22, <2>1, BecomesIsTyped DEF PasskeyClaim, Begin
<1>23. ASSUME NEW r \in Requests, LoginPasskeys(r) PROVE Goal
  <2>1. (IF keys = {} THEN "sign" ELSE "pend") \in PCs
      BY DEF PCs
  <2> QED
      BY <1>0, <1>23, <2>1, GotoIsTyped DEF LoginPasskeys
<1>24. ASSUME NEW r \in Requests, LoginSession(r) PROVE Goal
  <2>1. "in" \in PCs
      BY DEF PCs
  <2>2. CASE End(r)
      BY <1>0, <2>2, BecomesIsTyped DEF End
  <2>3. CASE Goto(r, "in")
      BY <1>0, <2>1, <2>3, GotoIsTyped
  <2> QED
      BY <1>24, <2>2, <2>3 DEF LoginSession
<1>25. ASSUME NEW r \in Requests, TotpClaim(r) PROVE Goal
  <2>1. totp.row \in Ids \cup {None}
      BY DEF TypeOK
  <2>2. [request[r] EXCEPT !.pc = "complete", !.row = totp.row] \in Request
      BY <1>0, <2>1, ZenonT(60) DEF Request, PCs
  <2> QED
      BY <1>0, <1>25, <2>2, BecomesIsTyped DEF TotpClaim
<1>26. ASSUME NEW r \in Requests, TotpReplay(r) PROVE Goal
    BY <1>0, <1>26, BecomesIsTyped DEF TotpReplay, End
<1>27. ASSUME NEW r \in Requests, RecoveryConsume(r) PROVE Goal
  <2>1. "complete" \in PCs
      BY DEF PCs
  <2>2. CASE End(r)
      BY <1>0, <2>2, BecomesIsTyped DEF End
  <2>3. CASE Goto(r, "complete")
      BY <1>0, <2>1, <2>3, GotoIsTyped
  <2> QED
      BY <1>27, <2>2, <2>3 DEF RecoveryConsume
<1>28. ASSUME NEW r \in Requests, StoreChallenge(r) PROVE Goal
    BY <1>0, <1>28, GotoIsTyped DEF StoreChallenge, PCs
<1>29. ASSUME NEW r \in Requests, PasskeyVerify(r) PROVE Goal
  <2>1. PICK k \in keys, i \in 0 .. MaxCount :
          Becomes(r, [request[r] EXCEPT !.pc = "advance", !.item = k, !.count = i])
      BY <1>29 DEF PasskeyVerify
  <2>2. k \in Ids
      BY DEF TypeOK
  <2>3. [request[r] EXCEPT !.pc = "advance", !.item = k, !.count = i] \in Request
      BY <1>0, <2>2, ZenonT(60) DEF Request, PCs
  <2> QED
      BY <1>0, <2>1, <2>3, BecomesIsTyped
<1>30. ASSUME NEW r \in Requests, PasskeyAdvance(r) PROVE Goal
  <2>1. PICK pc \in {"complete", "done"} : Goto(r, pc)
      BY <1>30 DEF PasskeyAdvance
  <2> QED
      BY <1>0, <2>1, GotoIsTyped DEF PCs
<1>31. ASSUME NEW r \in Requests, Complete(r) PROVE Goal
    BY <1>0, <1>31, GotoIsTyped DEF Complete, PCs
<1>32. CASE UNCHANGED request
    BY <1>0, <1>32
<1> QED
    BY <1>1, <1>2, <1>3, <1>4, <1>5, <1>6, <1>7, <1>8, <1>9, <1>10, <1>11, <1>12, <1>13, <1>14, <1>15, <1>16, <1>17, <1>18, <1>19, <1>20, <1>21, <1>22, <1>23, <1>24, <1>25, <1>26, <1>27, <1>28, <1>29, <1>30, <1>31, <1>32
       DEF Next, Enrol, Withdraw, SignIn, Expire, EraseOrphan, Remove, vars

-----------------------------------------------------------------------------
(* What a step may do to one request, whichever action it is.               *)
Moves(p) ==
    LET q == request[p]  n == request'[p]
    IN  /\ Place(n)
        /\ q.pc = "done" => n = q
        /\ q.pc = "clear" => /\ n.pc \in {"clear", "done"}
                             /\ n.kind = q.kind /\ n.secret = q.secret
        /\ q.pc = "authorize" => n.pc \in {"authorize", "done"}
        /\ q.kind # "none" => \/ n.pc = "done" /\ n.kind = "none"
                              \/ n.kind = q.kind /\ n.step = q.step /\ n.ch = q.ch
        /\ n.codes \in {q.codes, codes, {}}
        /\ n.kind = "code" => (n.item = q.item /\ q.kind = "code") \/ n.item \in codes
        /\ n.pc = "disabling" => n = q \/ n.row = totp.row
        /\ InBy(p, "totp")' => (InBy(p, "totp") /\ n.row = q.row) \/ TotpClaim(p)
        /\ InBy(p, "code")' => \/ InBy(p, "code") /\ n.item = q.item
                               \/ RecoveryConsume(p) /\ Unused(p)
        /\ Claimant(p)' => \/ Claimant(p)
                           \/ \E b \in Browsers : RegisterClaim(p, b) \/ PasskeyClaim(p, b)

LEMMA StillMoves ==
    ASSUME TypeOK, Belongs, NEW p \in Requests, request'[p] = request[p]
    PROVE  Moves(p)
BY DEF TypeOK, Belongs, Moves, InBy, Claimant

LEMMA RequestsMove == TypeOK /\ Belongs /\ [Next]_vars => \A p \in Requests : Moves(p)
<1> SUFFICES ASSUME TypeOK, Belongs, [Next]_vars, NEW p \in Requests PROVE Moves(p)
    OBVIOUS
<1> DEFINE Goal == Moves(p)
<1>0. /\ request \in [Requests -> Request] /\ request[p] \in Request
      /\ Place(request[p])
    BY DEF TypeOK, Belongs
<1>1. ASSUME NEW r \in Requests, NEW b \in Browsers, SetupRead(r, b) PROVE Goal
  <2>1. CASE p # r
      BY <1>0, <1>1, <2>1, StillMoves DEF SetupRead, Begin, Becomes
  <2>2. CASE p = r
      BY <1>0, <1>1, <2>2
         DEF SetupRead, Begin, Becomes, New, Moves, Place, InBy, Claimant,
         Request
  <2> QED
      BY <2>1, <2>2
<1>2. ASSUME NEW r \in Requests, NEW b \in Browsers, ConfirmCheck(r, b) PROVE Goal
  <2>1. CASE p # r
      BY <1>0, <1>2, <2>1, StillMoves DEF ConfirmCheck, Begin, Becomes
  <2>2. CASE p = r
      BY <1>0, <1>2, <2>2
         DEF ConfirmCheck, Begin, Becomes, New, Moves, Place, InBy, Claimant,
         Request
  <2> QED
      BY <2>1, <2>2
<1>3. ASSUME NEW r \in Requests, NEW b \in Browsers, RegisterBegin(r, b) PROVE Goal
  <2>1. CASE p # r
      BY <1>0, <1>3, <2>1, StillMoves DEF RegisterBegin, Begin, Becomes
  <2>2. CASE p = r
      BY <1>0, <1>3, <2>2
         DEF RegisterBegin, Begin, Becomes, New, Moves, Place, InBy,
         Claimant, Request
  <2> QED
      BY <2>1, <2>2
<1>4. ASSUME NEW r \in Requests, NEW b \in Browsers, RegisterClaim(r, b) PROVE Goal
  <2>1. CASE p # r
      BY <1>0, <1>4, <2>1, StillMoves DEF RegisterClaim, Begin, Becomes
  <2>2. CASE p = r
    <3>1. \E c \in Browsers : RegisterClaim(p, c) \/ PasskeyClaim(p, c)
        BY <1>4, <2>2
    <3>2. request[p] = New /\ request'[p] =
            [New EXCEPT !.kind = "register", !.pc = "count", !.b = b, !.ch = browser[b].reg]
        BY <1>0, <1>4, <2>2 DEF RegisterClaim, Begin, Becomes
    <3> QED
        BY <3>1, <3>2 DEF New, Moves, Place, InBy, Claimant
  <2> QED
      BY <2>1, <2>2
<1>5. ASSUME NEW r \in Requests, SetupUpsert(r) PROVE Goal
  <2>1. CASE p # r
      BY <1>0, <1>5, <2>1, StillMoves DEF SetupUpsert, Goto, Becomes
  <2>2. CASE p = r
      BY <1>0, <1>5, <2>2
         DEF SetupUpsert, At, Goto, Becomes, New, Moves, Place, InBy,
         Claimant, Request
  <2> QED
      BY <2>1, <2>2
<1>6. ASSUME NEW r \in Requests, SetupAuthorize(r) PROVE Goal
  <2>1. CASE p # r
      BY <1>0, <1>6, <2>1, StillMoves DEF SetupAuthorize, Goto, End, Becomes
  <2>2. CASE p = r
      BY <1>0, <1>6, <2>2
         DEF SetupAuthorize, At, Goto, End, Ended, Becomes, New, Moves,
         Place, InBy, Claimant, Request
  <2> QED
      BY <2>1, <2>2
<1>7. ASSUME NEW r \in Requests, ConfirmVerify(r) PROVE Goal
  <2>1. CASE p # r
      BY <1>0, <1>7, <2>1, StillMoves DEF ConfirmVerify, Goto, Becomes
  <2>2. CASE p = r
      BY <1>0, <1>7, <2>2
         DEF ConfirmVerify, At, Goto, Becomes, New, Moves, Place, InBy,
         Claimant, Request
  <2> QED
      BY <2>1, <2>2
<1>8. ASSUME NEW r \in Requests, EnableTotp(r) PROVE Goal
  <2>1. CASE p # r
      BY <1>0, <1>8, <2>1, StillMoves DEF EnableTotp, Goto, Becomes
  <2>2. CASE p = r
      BY <1>0, <1>8, <2>2
         DEF EnableTotp, At, Goto, Becomes, New, Moves, Place, InBy,
         Claimant, Request
  <2> QED
      BY <2>1, <2>2
<1>9. ASSUME NEW r \in Requests, EnableRefused(r) PROVE Goal
  <2>1. CASE p # r
      BY <1>0, <1>9, <2>1, StillMoves DEF EnableRefused, Goto, End, Becomes
  <2>2. CASE p = r
      BY <1>0, <1>9, <2>2
         DEF EnableRefused, At, Goto, End, Ended, Becomes, New, Moves, Place,
         InBy, Claimant, Request
  <2> QED
      BY <2>1, <2>2
<1>10. ASSUME NEW r \in Requests, ConfirmClear(r) PROVE Goal
  <2>1. CASE p # r
      BY <1>0, <1>10, <2>1, StillMoves DEF ConfirmClear, Goto, Becomes
  <2>2. CASE p = r
      BY <1>0, <1>10, <2>2
         DEF ConfirmClear, At, Goto, Becomes, New, Moves, Place, InBy,
         Claimant, Request
  <2> QED
      BY <2>1, <2>2
<1>11. ASSUME NEW r \in Requests, RegisterCount(r) PROVE Goal
  <2>1. CASE p # r
      BY <1>0, <1>11, <2>1, StillMoves DEF RegisterCount, Goto, Becomes
  <2>2. CASE p = r
      BY <1>0, <1>11, <2>2
         DEF RegisterCount, At, Goto, Becomes, New, Moves, Place, InBy,
         Claimant, Request
  <2> QED
      BY <2>1, <2>2
<1>12. ASSUME NEW r \in Requests, RegisterInsert(r) PROVE Goal
  <2>1. CASE p # r
      BY <1>0, <1>12, <2>1, StillMoves DEF RegisterInsert, Goto, Becomes
  <2>2. CASE p = r
      BY <1>0, <1>12, <2>2
         DEF RegisterInsert, At, Goto, Becomes, New, Moves, Place, InBy,
         Claimant, Request
  <2> QED
      BY <2>1, <2>2
<1>13. ASSUME NEW r \in Requests, NEW b \in Browsers, DisableVerify(r, b) PROVE Goal
  <2>1. CASE p # r
      BY <1>0, <1>13, <2>1, StillMoves DEF DisableVerify, Begin, Becomes
  <2>2. CASE p = r
      BY <1>0, <1>13, <2>2
         DEF DisableVerify, Begin, Becomes, New, Moves, Place, InBy,
         Claimant, Request
  <2> QED
      BY <2>1, <2>2
<1>14. ASSUME NEW r \in Requests, NEW b \in Browsers, Regenerate(r, b) PROVE Goal
  <2>1. CASE p # r
      BY <1>0, <1>14, <2>1, StillMoves DEF Regenerate, Begin, Becomes
  <2>2. CASE p = r
      BY <1>0, <1>14, <2>2
         DEF Regenerate, Begin, Becomes, New, Moves, Place, InBy, Claimant,
         Request
  <2> QED
      BY <2>1, <2>2
<1>15. ASSUME NEW r \in Requests, Snapshot(r) PROVE Goal
  <2>1. CASE p # r
      BY <1>0, <1>15, <2>1, StillMoves DEF Snapshot, Goto, Becomes
  <2>2. CASE p = r
      BY <1>0, <1>15, <2>2
         DEF Snapshot, At, Goto, Becomes, New, Moves, Place, InBy, Claimant,
         Request, Running
  <2> QED
      BY <2>1, <2>2
<1>16. ASSUME NEW r \in Requests, Disable(r) PROVE Goal
  <2>1. CASE p # r
      BY <1>0, <1>16, <2>1, StillMoves DEF Disable, Goto, End, Becomes
  <2>2. CASE p = r
      BY <1>0, <1>16, <2>2
         DEF Disable, At, Goto, End, Ended, Becomes, New, Moves, Place, InBy,
         Claimant, Request
  <2> QED
      BY <2>1, <2>2
<1>17. ASSUME NEW r \in Requests, ReplaceRecoveryCodes(r) PROVE Goal
  <2>1. CASE p # r
      BY <1>0, <1>17, <2>1, StillMoves
         DEF ReplaceRecoveryCodes, Goto, End, Becomes
  <2>2. CASE p = r
      BY <1>0, <1>17, <2>2
         DEF ReplaceRecoveryCodes, At, Goto, End, Ended, Becomes, New, Moves,
         Place, InBy, Claimant, Request
  <2> QED
      BY <2>1, <2>2
<1>18. ASSUME NEW r \in Requests, NEW b \in Browsers, LoginTotp(r, b) PROVE Goal
  <2>1. CASE p # r
      BY <1>0, <1>18, <2>1, StillMoves DEF LoginTotp, Begin, Becomes
  <2>2. CASE p = r
      BY <1>0, <1>18, <2>2
         DEF LoginTotp, Begin, Becomes, New, Moves, Place, InBy, Claimant,
         Request
  <2> QED
      BY <2>1, <2>2
<1>19. ASSUME NEW r \in Requests, NEW b \in Browsers, TotpVerify(r, b) PROVE Goal
  <2>1. CASE p # r
      BY <1>0, <1>19, <2>1, StillMoves DEF TotpVerify, Begin, Becomes
  <2>2. CASE p = r
      BY <1>0, <1>19, <2>2
         DEF TotpVerify, Begin, Becomes, New, Moves, Place, InBy, Claimant,
         Request
  <2> QED
      BY <2>1, <2>2
<1>20. ASSUME NEW r \in Requests, NEW b \in Browsers, RecoveryMatch(r, b) PROVE Goal
  <2>1. CASE p # r
      BY <1>0, <1>20, <2>1, StillMoves DEF RecoveryMatch, Begin, Becomes
  <2>2. CASE p = r
      BY <1>0, <1>20, <2>2
         DEF RecoveryMatch, Begin, Becomes, New, Moves, Place, InBy,
         Claimant, Request
  <2> QED
      BY <2>1, <2>2
<1>21. ASSUME NEW r \in Requests, NEW b \in Browsers, PasskeyBegin(r, b) PROVE Goal
  <2>1. CASE p # r
      BY <1>0, <1>21, <2>1, StillMoves DEF PasskeyBegin, Begin, Becomes
  <2>2. CASE p = r
      BY <1>0, <1>21, <2>2
         DEF PasskeyBegin, Begin, Becomes, New, Moves, Place, InBy, Claimant,
         Request
  <2> QED
      BY <2>1, <2>2
<1>22. ASSUME NEW r \in Requests, NEW b \in Browsers, PasskeyClaim(r, b) PROVE Goal
  <2>1. CASE p # r
      BY <1>0, <1>22, <2>1, StillMoves DEF PasskeyClaim, Begin, Becomes
  <2>2. CASE p = r
    <3>1. \E c \in Browsers : RegisterClaim(p, c) \/ PasskeyClaim(p, c)
        BY <1>22, <2>2
    <3>2. request[p] = New /\ request'[p] =
            [New EXCEPT !.kind = "passkey", !.pc = "assert", !.b = b, !.ch = browser[b].challenge]
        BY <1>0, <1>22, <2>2 DEF PasskeyClaim, Begin, Becomes
    <3> QED
        BY <3>1, <3>2 DEF New, Moves, Place, InBy, Claimant
  <2> QED
      BY <2>1, <2>2
<1>23. ASSUME NEW r \in Requests, LoginPasskeys(r) PROVE Goal
  <2>1. CASE p # r
      BY <1>0, <1>23, <2>1, StillMoves DEF LoginPasskeys, Goto, Becomes
  <2>2. CASE p = r
      BY <1>0, <1>23, <2>2
         DEF LoginPasskeys, At, Goto, Becomes, New, Moves, Place, InBy,
         Claimant, Request
  <2> QED
      BY <2>1, <2>2
<1>24. ASSUME NEW r \in Requests, LoginSession(r) PROVE Goal
  <2>1. CASE p # r
      BY <1>0, <1>24, <2>1, StillMoves DEF LoginSession, Goto, End, Becomes
  <2>2. CASE p = r
      BY <1>0, <1>24, <2>2
         DEF LoginSession, At, Goto, End, Ended, Becomes, New, Moves, Place,
         InBy, Claimant, Request
  <2> QED
      BY <2>1, <2>2
<1>25. ASSUME NEW r \in Requests, TotpClaim(r) PROVE Goal
  <2>1. CASE p # r
      BY <1>0, <1>25, <2>1, StillMoves DEF TotpClaim, Goto, Becomes
  <2>2. CASE p = r
      BY <1>0, <1>25, <2>2
         DEF TotpClaim, At, Goto, Becomes, New, Moves, Place, InBy, Claimant,
         Request
  <2> QED
      BY <2>1, <2>2
<1>26. ASSUME NEW r \in Requests, TotpReplay(r) PROVE Goal
  <2>1. CASE p # r
      BY <1>0, <1>26, <2>1, StillMoves DEF TotpReplay, Goto, End, Becomes
  <2>2. CASE p = r
      BY <1>0, <1>26, <2>2
         DEF TotpReplay, At, Goto, End, Ended, Becomes, New, Moves, Place,
         InBy, Claimant, Request
  <2> QED
      BY <2>1, <2>2
<1>27. ASSUME NEW r \in Requests, RecoveryConsume(r) PROVE Goal
  <2>1. CASE p # r
      BY <1>0, <1>27, <2>1, StillMoves DEF RecoveryConsume, Goto, End, Becomes
  <2>2. CASE p = r
      BY <1>0, <1>27, <2>2
         DEF RecoveryConsume, At, Goto, End, Ended, Becomes, New, Moves,
         Place, InBy, Claimant, Request, Unused
  <2> QED
      BY <2>1, <2>2
<1>28. ASSUME NEW r \in Requests, StoreChallenge(r) PROVE Goal
  <2>1. CASE p # r
      BY <1>0, <1>28, <2>1, StillMoves DEF StoreChallenge, Goto, Becomes
  <2>2. CASE p = r
      BY <1>0, <1>28, <2>2
         DEF StoreChallenge, At, Goto, Becomes, New, Moves, Place, InBy,
         Claimant, Request
  <2> QED
      BY <2>1, <2>2
<1>29. ASSUME NEW r \in Requests, PasskeyVerify(r) PROVE Goal
  <2>1. CASE p # r
      BY <1>0, <1>29, <2>1, StillMoves DEF PasskeyVerify, Goto, Becomes
  <2>2. CASE p = r
      BY <1>0, <1>29, <2>2
         DEF PasskeyVerify, At, Goto, Becomes, New, Moves, Place, InBy,
         Claimant, Request
  <2> QED
      BY <2>1, <2>2
<1>30. ASSUME NEW r \in Requests, PasskeyAdvance(r) PROVE Goal
  <2>1. CASE p # r
      BY <1>0, <1>30, <2>1, StillMoves DEF PasskeyAdvance, Goto, Becomes
  <2>2. CASE p = r
      BY <1>0, <1>30, <2>2
         DEF PasskeyAdvance, At, Goto, Becomes, New, Moves, Place, InBy,
         Claimant, Request
  <2> QED
      BY <2>1, <2>2
<1>31. ASSUME NEW r \in Requests, Complete(r) PROVE Goal
  <2>1. CASE p # r
      BY <1>0, <1>31, <2>1, StillMoves DEF Complete, Goto, Becomes
  <2>2. CASE p = r
      BY <1>0, <1>31, <2>2
         DEF Complete, At, Goto, Becomes, New, Moves, Place, InBy, Claimant,
         Request
  <2> QED
      BY <2>1, <2>2
<1>32. CASE UNCHANGED request
    BY <1>32, StillMoves
<1> QED
    BY <1>1, <1>2, <1>3, <1>4, <1>5, <1>6, <1>7, <1>8, <1>9, <1>10, <1>11, <1>12, <1>13, <1>14, <1>15, <1>16, <1>17, <1>18, <1>19, <1>20, <1>21, <1>22, <1>23, <1>24, <1>25, <1>26, <1>27, <1>28, <1>29, <1>30, <1>31, <1>32
       DEF Next, Enrol, Withdraw, SignIn, Expire, EraseOrphan, Remove, vars

(* What a step may do to the rows: these actions, or nothing.               *)
Changes ==
    \/ \E r \in Requests : \/ SetupUpsert(r) \/ EnableTotp(r) \/ Disable(r)
                           \/ ReplaceRecoveryCodes(r) \/ RegisterInsert(r)
                           \/ TotpClaim(r) \/ RecoveryConsume(r) \/ PasskeyAdvance(r)
    \/ \E b \in Browsers, k \in keys : Remove(b, k)

LEMMA FactorsMove == [Next]_vars => UNCHANGED factors \/ Changes
<1> SUFFICES ASSUME [Next]_vars PROVE UNCHANGED factors \/ Changes
    OBVIOUS
<1>1. ASSUME NEW r \in Requests, Enrol(r) PROVE UNCHANGED factors \/ Changes
  <2>1. ASSUME NEW b \in Browsers, SetupRead(r, b) PROVE UNCHANGED factors
      BY <2>1 DEF SetupRead, factors
  <2>2. ASSUME NEW b \in Browsers, ConfirmCheck(r, b) PROVE UNCHANGED factors
      BY <2>2 DEF ConfirmCheck, factors
  <2>3. ASSUME NEW b \in Browsers, RegisterBegin(r, b) PROVE UNCHANGED factors
      BY <2>3 DEF RegisterBegin, factors
  <2>4. ASSUME NEW b \in Browsers, RegisterClaim(r, b) PROVE UNCHANGED factors
      BY <2>4 DEF RegisterClaim, factors
  <2>5. ASSUME SetupAuthorize(r) PROVE UNCHANGED factors
      BY <2>5 DEF SetupAuthorize, factors
  <2>6. ASSUME ConfirmVerify(r) PROVE UNCHANGED factors
      BY <2>6 DEF ConfirmVerify, factors
  <2>7. ASSUME EnableRefused(r) PROVE UNCHANGED factors
      BY <2>7 DEF EnableRefused, factors
  <2>8. ASSUME ConfirmClear(r) PROVE UNCHANGED factors
      BY <2>8 DEF ConfirmClear, factors
  <2>9. ASSUME RegisterCount(r) PROVE UNCHANGED factors
      BY <2>9 DEF RegisterCount, factors
  <2> QED
      BY <1>1, <2>1, <2>2, <2>3, <2>4, <2>5, <2>6, <2>7, <2>8, <2>9
         DEF Enrol, Changes
<1>2. ASSUME NEW r \in Requests, Withdraw(r) PROVE UNCHANGED factors \/ Changes
  <2>1. ASSUME NEW b \in Browsers, DisableVerify(r, b) PROVE UNCHANGED factors
      BY <2>1 DEF DisableVerify, factors
  <2>2. ASSUME NEW b \in Browsers, Regenerate(r, b) PROVE UNCHANGED factors
      BY <2>2 DEF Regenerate, factors
  <2>3. ASSUME Snapshot(r) PROVE UNCHANGED factors
      BY <2>3 DEF Snapshot, factors
  <2> QED
      BY <1>2, <2>1, <2>2, <2>3 DEF Withdraw, Changes
<1>3. ASSUME NEW r \in Requests, SignIn(r) PROVE UNCHANGED factors \/ Changes
  <2>1. ASSUME NEW b \in Browsers, LoginTotp(r, b) PROVE UNCHANGED factors
      BY <2>1 DEF LoginTotp, factors
  <2>2. ASSUME NEW b \in Browsers, TotpVerify(r, b) PROVE UNCHANGED factors
      BY <2>2 DEF TotpVerify, factors
  <2>3. ASSUME NEW b \in Browsers, RecoveryMatch(r, b) PROVE UNCHANGED factors
      BY <2>3 DEF RecoveryMatch, factors
  <2>4. ASSUME NEW b \in Browsers, PasskeyBegin(r, b) PROVE UNCHANGED factors
      BY <2>4 DEF PasskeyBegin, factors
  <2>5. ASSUME NEW b \in Browsers, PasskeyClaim(r, b) PROVE UNCHANGED factors
      BY <2>5 DEF PasskeyClaim, factors
  <2>6. ASSUME LoginPasskeys(r) PROVE UNCHANGED factors
      BY <2>6 DEF LoginPasskeys, factors
  <2>7. ASSUME LoginSession(r) PROVE UNCHANGED factors
      BY <2>7 DEF LoginSession, factors
  <2>8. ASSUME TotpReplay(r) PROVE UNCHANGED factors
      BY <2>8 DEF TotpReplay, factors
  <2>9. ASSUME StoreChallenge(r) PROVE UNCHANGED factors
      BY <2>9 DEF StoreChallenge, factors
  <2>10. ASSUME PasskeyVerify(r) PROVE UNCHANGED factors
      BY <2>10 DEF PasskeyVerify, factors
  <2>11. ASSUME Complete(r) PROVE UNCHANGED factors
      BY <2>11 DEF Complete, factors
  <2> QED
      BY <1>3, <2>1, <2>2, <2>3, <2>4, <2>5, <2>6, <2>7, <2>8, <2>9, <2>10, <2>11
         DEF SignIn, Changes
<1>4. ASSUME NEW b \in Browsers, Expire(b) \/ EraseOrphan(b) PROVE UNCHANGED factors
    BY <1>4 DEF Expire, EraseOrphan
<1> QED
    BY <1>1, <1>2, <1>3, <1>4 DEF Next, Changes, vars

(* What a step may do to a session: what is there goes, and what comes is   *)
(* stored by the request whose name it bears.                               *)
SessionMoves(b) ==
    /\ browser'[b] \in SessionType
    /\ \/ browser'[b].reg \in {browser[b].reg, None}
       \/ \E r \in Requests : RegisterBegin(r, b) /\ browser'[b].reg = r
    /\ \/ browser'[b].challenge \in {browser[b].challenge, None}
       \/ \E r \in Requests : StoreChallenge(r) /\ browser'[b].challenge = r /\ request[r].b = b

LEMMA SessionsMove ==
    TypeOK /\ [Next]_vars => /\ browser' \in [Browsers -> SessionType]
                             /\ \A b \in Browsers : SessionMoves(b)
<1> SUFFICES ASSUME TypeOK, [Next]_vars
             PROVE  /\ browser' \in [Browsers -> SessionType]
                    /\ \A b \in Browsers : SessionMoves(b)
    OBVIOUS
<1> DEFINE Goal == /\ browser' \in [Browsers -> SessionType]
                   /\ \A b \in Browsers : SessionMoves(b)
<1>0. browser \in [Browsers -> SessionType] /\ Anonymous \in SessionType
    BY DEF TypeOK, SessionType, Anonymous
<1>100. ASSUME UNCHANGED browser PROVE Goal
    BY <1>0, <1>100 DEF SessionMoves
<1>1. ASSUME NEW r \in Requests, NEW b \in Browsers, SetupRead(r, b) PROVE Goal
    BY <1>1, <1>100 DEF SetupRead
<1>2. ASSUME NEW r \in Requests, NEW b \in Browsers, ConfirmCheck(r, b) PROVE Goal
    BY <1>2, <1>100 DEF ConfirmCheck
<1>3. ASSUME NEW r \in Requests, NEW b \in Browsers, RegisterBegin(r, b) PROVE Goal
    BY <1>0, <1>3
       DEF RegisterBegin, Session, Anonymous, SessionMoves, SessionType
<1>4. ASSUME NEW r \in Requests, NEW b \in Browsers, RegisterClaim(r, b) PROVE Goal
    BY <1>0, <1>4
       DEF RegisterClaim, Session, ClaimsEnrolment, Anonymous, SessionMoves,
       SessionType
<1>5. ASSUME NEW r \in Requests, SetupUpsert(r) PROVE Goal
    BY <1>5, <1>100 DEF SetupUpsert
<1>6. ASSUME NEW r \in Requests, SetupAuthorize(r) PROVE Goal
    BY <1>0, <1>6
       DEF SetupAuthorize, Session, Anonymous, SessionMoves, SessionType
<1>7. ASSUME NEW r \in Requests, ConfirmVerify(r) PROVE Goal
    BY <1>7, <1>100 DEF ConfirmVerify
<1>8. ASSUME NEW r \in Requests, EnableTotp(r) PROVE Goal
    BY <1>8, <1>100 DEF EnableTotp
<1>9. ASSUME NEW r \in Requests, EnableRefused(r) PROVE Goal
    BY <1>9, <1>100 DEF EnableRefused
<1>10. ASSUME NEW r \in Requests, ConfirmClear(r) PROVE Goal
    BY <1>0, <1>10
       DEF ConfirmClear, Session, Anonymous, SessionMoves, SessionType
<1>11. ASSUME NEW r \in Requests, RegisterCount(r) PROVE Goal
    BY <1>11, <1>100 DEF RegisterCount
<1>12. ASSUME NEW r \in Requests, RegisterInsert(r) PROVE Goal
    BY <1>12, <1>100 DEF RegisterInsert
<1>13. ASSUME NEW r \in Requests, NEW b \in Browsers, DisableVerify(r, b) PROVE Goal
    BY <1>13, <1>100 DEF DisableVerify
<1>14. ASSUME NEW r \in Requests, NEW b \in Browsers, Regenerate(r, b) PROVE Goal
    BY <1>14, <1>100 DEF Regenerate
<1>15. ASSUME NEW r \in Requests, Snapshot(r) PROVE Goal
    BY <1>15, <1>100 DEF Snapshot
<1>16. ASSUME NEW r \in Requests, Disable(r) PROVE Goal
    BY <1>16, <1>100 DEF Disable
<1>17. ASSUME NEW r \in Requests, ReplaceRecoveryCodes(r) PROVE Goal
    BY <1>17, <1>100 DEF ReplaceRecoveryCodes
<1>18. ASSUME NEW r \in Requests, NEW b \in Browsers, LoginTotp(r, b) PROVE Goal
    BY <1>18, <1>100 DEF LoginTotp
<1>19. ASSUME NEW r \in Requests, NEW b \in Browsers, TotpVerify(r, b) PROVE Goal
    BY <1>19, <1>100 DEF TotpVerify
<1>20. ASSUME NEW r \in Requests, NEW b \in Browsers, RecoveryMatch(r, b) PROVE Goal
    BY <1>20, <1>100 DEF RecoveryMatch
<1>21. ASSUME NEW r \in Requests, NEW b \in Browsers, PasskeyBegin(r, b) PROVE Goal
    BY <1>21, <1>100 DEF PasskeyBegin
<1>22. ASSUME NEW r \in Requests, NEW b \in Browsers, PasskeyClaim(r, b) PROVE Goal
    BY <1>0, <1>22
       DEF PasskeyClaim, Session, ClaimsChallenge, Anonymous, SessionMoves,
       SessionType
<1>23. ASSUME NEW r \in Requests, LoginPasskeys(r) PROVE Goal
    BY <1>23, <1>100 DEF LoginPasskeys
<1>24. ASSUME NEW r \in Requests, LoginSession(r) PROVE Goal
  <2>1. \E s \in {[Anonymous EXCEPT !.pending = TRUE],
                  [Anonymous EXCEPT !.signed = TRUE]} :
          Session(request[r].b, s)
      BY <1>24 DEF LoginSession
  <2>2. \A s \in {[Anonymous EXCEPT !.pending = TRUE],
                  [Anonymous EXCEPT !.signed = TRUE]} :
          s \in SessionType /\ s.reg = None /\ s.challenge = None
      BY <1>0 DEF SessionType, Anonymous
  <2> QED
      BY <1>0, <2>1, <2>2 DEF Session, SessionMoves
<1>25. ASSUME NEW r \in Requests, TotpClaim(r) PROVE Goal
    BY <1>25, <1>100 DEF TotpClaim
<1>26. ASSUME NEW r \in Requests, TotpReplay(r) PROVE Goal
    BY <1>26, <1>100 DEF TotpReplay
<1>27. ASSUME NEW r \in Requests, RecoveryConsume(r) PROVE Goal
    BY <1>27, <1>100 DEF RecoveryConsume
<1>28. ASSUME NEW r \in Requests, StoreChallenge(r) PROVE Goal
    BY <1>0, <1>28
       DEF StoreChallenge, Session, Anonymous, SessionMoves, SessionType
<1>29. ASSUME NEW r \in Requests, PasskeyVerify(r) PROVE Goal
    BY <1>29, <1>100 DEF PasskeyVerify
<1>30. ASSUME NEW r \in Requests, PasskeyAdvance(r) PROVE Goal
    BY <1>30, <1>100 DEF PasskeyAdvance
<1>31. ASSUME NEW r \in Requests, Complete(r) PROVE Goal
  <2>1. CASE request[r].b \notin Browsers
      BY <1>0, <1>31, <1>100, <2>1 DEF Complete, Session
  <2>2. CASE request[r].b \in Browsers
    <3> DEFINE s == [browser[request[r].b] EXCEPT !.signed = TRUE, !.pending = FALSE,
                           !.challenge = None]
    <3>1. s \in SessionType /\ s.reg = browser[request[r].b].reg /\ s.challenge = None
        BY <1>0, <2>2 DEF SessionType
    <3>2. Session(request[r].b, s)
        BY <1>31 DEF Complete
    <3> HIDE DEF s
    <3> QED
        BY <1>0, <3>1, <3>2 DEF Session, SessionMoves
  <2> QED
      BY <2>1, <2>2
<1>32. ASSUME NEW b \in Browsers, Expire(b) PROVE Goal
  <2>1. CASE Session(b, [browser[b] EXCEPT !.setup = FALSE])
      BY <1>0, <2>1 DEF Session, SessionMoves, SessionType
  <2>2. CASE Session(b, [browser[b] EXCEPT !.reg = None])
      BY <1>0, <2>2 DEF Session, SessionMoves, SessionType
  <2>3. CASE Session(b, [browser[b] EXCEPT !.pending = FALSE, !.challenge = None])
      BY <1>0, <2>3 DEF Session, SessionMoves, SessionType
  <2> QED
      BY <1>32, <2>1, <2>2, <2>3 DEF Expire
<1>33. ASSUME NEW b \in Browsers, EraseOrphan(b) PROVE Goal
    BY <1>0, <1>33 DEF EraseOrphan, Session, SessionMoves, SessionType
<1>34. ASSUME NEW b \in Browsers, NEW k \in keys, Remove(b, k) PROVE Goal
    BY <1>34, <1>100 DEF Remove
<1>35. CASE UNCHANGED vars
    BY <1>35, <1>100 DEF vars
<1> QED
    BY <1>1, <1>2, <1>3, <1>4, <1>5, <1>6, <1>7, <1>8, <1>9, <1>10, <1>11, <1>12, <1>13, <1>14, <1>15, <1>16, <1>17, <1>18, <1>19, <1>20, <1>21, <1>22, <1>23, <1>24, <1>25, <1>26, <1>27, <1>28, <1>29, <1>30, <1>31, <1>32, <1>33, <1>34, <1>35
       DEF Next, Enrol, Withdraw, SignIn

-----------------------------------------------------------------------------
LEMMA FactorsTyped ==
    TypeOK /\ [Next]_vars =>
        /\ totp' \in TotpType
        /\ codes' \subseteq Ids /\ used' \subseteq codes' /\ keys' \subseteq Ids
        /\ count' \in [Ids -> 0 .. MaxCount]
<1> SUFFICES ASSUME TypeOK, [Next]_vars
             PROVE  /\ totp' \in TotpType
                    /\ codes' \subseteq Ids /\ used' \subseteq codes' /\ keys' \subseteq Ids
                    /\ count' \in [Ids -> 0 .. MaxCount]
    OBVIOUS
<1> DEFINE Goal == /\ totp' \in TotpType
                   /\ codes' \subseteq Ids /\ used' \subseteq codes' /\ keys' \subseteq Ids
                   /\ count' \in [Ids -> 0 .. MaxCount]
<1>0. /\ totp \in TotpType /\ codes \subseteq Ids /\ used \subseteq codes /\ keys \subseteq Ids
      /\ count \in [Ids -> 0 .. MaxCount] /\ request \in [Requests -> Request]
      /\ Requests \subseteq Ids
    BY DEF TypeOK, TotpType, Ids
<1>1. CASE UNCHANGED factors
    BY <1>0, <1>1 DEF factors
<1>2. ASSUME NEW r \in Requests, SetupUpsert(r) PROVE Goal
    BY <1>0, <1>2 DEF SetupUpsert, TotpType
<1>3. ASSUME NEW r \in Requests, EnableTotp(r) PROVE Goal
    BY <1>0, <1>3 DEF EnableTotp, NewBatch, TotpType
<1>4. ASSUME NEW r \in Requests, Disable(r) PROVE Goal
    BY <1>0, <1>4 DEF Disable, NoTotp, TotpType
<1>5. ASSUME NEW r \in Requests, ReplaceRecoveryCodes(r) PROVE Goal
    BY <1>0, <1>5 DEF ReplaceRecoveryCodes, NewBatch
<1>6. ASSUME NEW r \in Requests, RegisterInsert(r) PROVE Goal
    BY <1>0, <1>6 DEF RegisterInsert
<1>7. ASSUME NEW r \in Requests, TotpClaim(r) PROVE Goal
    BY <1>0, <1>7 DEF TotpClaim, TotpType, Request
<1>8. ASSUME NEW r \in Requests, RecoveryConsume(r) PROVE Goal
    BY <1>0, <1>8 DEF RecoveryConsume, Unused
<1>9. ASSUME NEW r \in Requests, PasskeyAdvance(r) PROVE Goal
    BY <1>0, <1>9 DEF PasskeyAdvance, Request
<1>10. ASSUME NEW b \in Browsers, NEW k \in keys, Remove(b, k) PROVE Goal
    BY <1>0, <1>10 DEF Remove
<1> QED
    BY <1>1, <1>2, <1>3, <1>4, <1>5, <1>6, <1>7, <1>8, <1>9, <1>10, FactorsMove DEF Changes

LEMMA TypeStep == TypeOK /\ [Next]_vars => TypeOK'
BY RequestsTyped, SessionsMove, FactorsTyped DEF TypeOK, TotpType, SessionType

(* Rows, sessions and requests stay well typed, and a used code is there.   *)
THEOREM FactorsTypeCorrect == Spec => []TypeOK
<1>1. TypeOK /\ UNCHANGED vars => TypeOK'
    BY DEF TypeOK, vars, factors
<1> QED
    BY <1>1, TypeInitial, TypeStep, PTL DEF Spec

-----------------------------------------------------------------------------
(* What has been made stays made.                                           *)
LEMMA MadeStays ==
    ASSUME TypeOK, Belongs, [Next]_vars, NEW c
    PROVE  /\ MadeBatch(c) => MadeBatch(c)'
           /\ MadeRow(c) => MadeRow(c)'
           /\ Stored(c) => Stored(c)'
<1>1. \A p \in Requests : Moves(p)
    BY RequestsMove
<1> QED
    BY <1>1 DEF Moves, MadeBatch, MadeRow, Stored

LEMMA InitialInv == Init => FactorInv
<1> SUFFICES ASSUME Init PROVE FactorInv
    OBVIOUS
<1>0. TypeOK
    BY TypeInitial
<1>1. /\ \A r \in Requests : request[r] = New
      /\ New.pc = "new" /\ New.kind = "none" /\ New.codes = {}
      /\ codes \subseteq {Old} /\ keys \subseteq {Old} /\ used = {}
      /\ Old \notin Requests /\ Old # None
      /\ totp.enabled => codes = {Old}
    BY FactorsAssumption DEF Init, HasFactor, Ids, New
<1>2. Belongs
    BY <1>1 DEF Belongs, Place
<1>3. BatchesMade /\ KeysMade
  <2>1. \A r \in Requests : request[r].codes = {} /\ request[r].kind = "none"
      BY <1>1
  <2>2. \A c \in codes : MadeBatch(c)
      BY <1>1 DEF MadeBatch
  <2>3. \A k \in keys : k \notin Requests
      BY <1>1
  <2> QED
      BY <2>1, <2>2, <2>3 DEF BatchesMade, KeysMade
<1>4. \/ totp.row = None /\ totp.secret = None /\ ~totp.enabled
      \/ totp.row = Old /\ totp.secret = Old
    BY DEF Init, NoTotp
<1>5. RowsMade /\ StepsClaimed /\ StepsDistinct /\ CodesSpent
    BY <1>1, <1>4 DEF RowsMade, MadeRow, InBy, StepsClaimed, StepsDistinct, CodesSpent
<1>6. \A b \in Browsers : browser[b].reg = None /\ browser[b].challenge = None
    BY DEF Init, Anonymous
<1>7. ChallengesApart /\ ChallengesClaimed
    BY <1>1, <1>6, FactorsAssumption
       DEF ChallengesApart, ChallengesClaimed, Holds, Claimant, Ids
<1>8. SecretProven
    BY <1>4 DEF SecretProven
<1>9. BatchStays
    BY <1>1 DEF BatchStays, At
<1> QED
    BY <1>0, <1>2, <1>3, <1>5, <1>7, <1>8, <1>9 DEF FactorInv

(* Every batch, in the table or in a snapshot, has been inserted.           *)
LEMMA BatchesStep ==
    ASSUME TypeOK, Belongs, BatchesMade, [Next]_vars
    PROVE  BatchesMade'
<1>0. request \in [Requests -> Request] /\ \A p \in Requests : Moves(p)
    BY RequestsMove DEF TypeOK
<1>1. \A c \in codes' : c \in codes \/ MadeBatch(c)'
  <2>1. ASSUME NEW r \in Requests, EnableTotp(r) PROVE codes' \subseteq codes \cup {r} /\ MadeBatch(r)'
      BY <1>0, <2>1 DEF EnableTotp, NewBatch, Becomes, MadeBatch, Request
  <2>2. ASSUME NEW r \in Requests, ReplaceRecoveryCodes(r) PROVE codes' \subseteq codes \cup {r} /\ MadeBatch(r)'
      BY <1>0, <2>2 DEF ReplaceRecoveryCodes, NewBatch, Becomes, End, Ended, New, MadeBatch
  <2>3. ASSUME NEW r \in Requests, RegisterInsert(r) PROVE codes' \subseteq codes \cup {r} /\ MadeBatch(r)'
      BY <1>0, <2>3 DEF RegisterInsert, Becomes, Goto, MadeBatch, Request
  <2>4. ASSUME NEW r \in Requests,
               SetupUpsert(r) \/ Disable(r) \/ TotpClaim(r) \/ RecoveryConsume(r) \/ PasskeyAdvance(r)
        PROVE  codes' \subseteq codes
      BY <2>4 DEF SetupUpsert, Disable, TotpClaim, RecoveryConsume, PasskeyAdvance
  <2>5. ASSUME NEW b \in Browsers, NEW k \in keys, Remove(b, k) PROVE codes' \subseteq codes
      BY <2>5 DEF Remove
  <2>6. CASE UNCHANGED factors
      BY <2>6 DEF factors
  <2> QED
      BY <2>1, <2>2, <2>3, <2>4, <2>5, <2>6, FactorsMove DEF Changes
<1>2. \A c : MadeBatch(c) => MadeBatch(c)'
    BY MadeStays
<1>3. \A c \in codes' : MadeBatch(c)'
    BY <1>1, <1>2 DEF BatchesMade
<1>4. ASSUME NEW r \in Requests, NEW c \in request'[r].codes PROVE MadeBatch(c)'
  <2>1. c \in request[r].codes \/ c \in codes
      BY <1>0, <1>4 DEF Moves
  <2>2. MadeBatch(c)
      BY <2>1 DEF BatchesMade
  <2> QED
      BY <1>2, <2>2
<1>5. ASSUME NEW r \in Requests, request'[r].kind = "code" PROVE MadeBatch(request[r].item)'
  <2>1. \/ request'[r].item = request[r].item /\ request[r].kind = "code"
        \/ request'[r].item \in codes
      BY <1>0, <1>5 DEF Moves
  <2>2. PICK c : c = request'[r].item
      OBVIOUS
  <2>3. MadeBatch(c)
      BY <2>1, <2>2 DEF BatchesMade
  <2> QED
      BY <1>2, <2>2, <2>3 DEF MadeBatch
<1> QED
    BY <1>3, <1>4, <1>5 DEF BatchesMade

LEMMA KeysStep ==
    ASSUME TypeOK, Belongs, KeysMade, [Next]_vars
    PROVE  KeysMade'
<1>0. request \in [Requests -> Request] /\ \A p \in Requests : Moves(p)
    BY RequestsMove DEF TypeOK
<1>1. ASSUME NEW r \in Requests, RegisterInsert(r) PROVE KeysMade'
  <2>1. keys' = keys \cup {r} /\ request'[r].pc = "done"
      BY <1>0, <1>1 DEF RegisterInsert, Goto, Becomes, Request
  <2> QED
      BY <1>0, <2>1 DEF KeysMade, Moves
<1>2. ASSUME keys' \subseteq keys PROVE KeysMade'
    BY <1>0, <1>2 DEF KeysMade, Moves
<1>3. ASSUME NEW r \in Requests,
             \/ SetupUpsert(r) \/ EnableTotp(r) \/ Disable(r) \/ ReplaceRecoveryCodes(r)
             \/ TotpClaim(r) \/ RecoveryConsume(r) \/ PasskeyAdvance(r)
      PROVE  keys' \subseteq keys
    BY <1>3 DEF SetupUpsert, EnableTotp, Disable, ReplaceRecoveryCodes, TotpClaim,
                RecoveryConsume, PasskeyAdvance
<1>4. ASSUME NEW b \in Browsers, NEW k \in keys, Remove(b, k) PROVE keys' \subseteq keys
    BY <1>4 DEF Remove
<1>5. CASE UNCHANGED factors
    BY <1>2, <1>5 DEF factors
<1> QED
    BY <1>1, <1>2, <1>3, <1>4, <1>5, FactorsMove DEF Changes

(* What a step may do to the row of user_totp_secrets.                      *)
LEMMA TotpMoves ==
    ASSUME TypeOK, [Next]_vars
    PROVE  \/ totp' = totp
           \/ totp' = NoTotp
           \/ \E r \in Requests : SetupUpsert(r)
           \/ \E r \in Requests : EnableTotp(r)
           \/ \E r \in Requests : TotpClaim(r)
<1>1. ASSUME NEW r \in Requests,
             ReplaceRecoveryCodes(r) \/ RegisterInsert(r) \/ RecoveryConsume(r) \/ PasskeyAdvance(r)
      PROVE  totp' = totp
    BY <1>1 DEF ReplaceRecoveryCodes, RegisterInsert, RecoveryConsume, PasskeyAdvance
<1>2. ASSUME NEW r \in Requests, Disable(r) PROVE totp' \in {totp, NoTotp}
    BY <1>2 DEF Disable
<1>3. ASSUME NEW b \in Browsers, NEW k \in keys, Remove(b, k) PROVE totp' = totp
    BY <1>3 DEF Remove
<1>4. CASE UNCHANGED factors
    BY <1>4 DEF factors
<1> QED
    BY <1>1, <1>2, <1>3, <1>4, FactorsMove DEF Changes

LEMMA RowsStep ==
    ASSUME TypeOK, Belongs, RowsMade, [Next]_vars
    PROVE  RowsMade'
<1>0. request \in [Requests -> Request] /\ \A p \in Requests : Moves(p)
    BY RequestsMove DEF TypeOK
<1>1. /\ totp'.row # None => MadeRow(totp.row)'
      /\ totp'.row = None <=> totp'.secret = None
      /\ totp'.enabled => totp'.row # None
  <2> DEFINE Goal == /\ totp'.row # None => MadeRow(totp.row)'
                     /\ totp'.row = None <=> totp'.secret = None
                     /\ totp'.enabled => totp'.row # None
  <2>0. totp \in TotpType /\ None \notin Requests
      BY FactorsAssumption DEF TypeOK, TotpType, Ids
  <2>1. ASSUME totp'.row = totp.row, totp'.secret = totp.secret,
               totp'.enabled => totp.enabled \/ totp.secret # None
        PROVE  Goal
      BY <1>0, <2>1 DEF RowsMade, MadeRow, Moves
  <2>2. CASE totp' = totp
      BY <2>1, <2>2
  <2>3. CASE totp' = NoTotp
      BY <2>3 DEF NoTotp
  <2>4. ASSUME NEW r \in Requests, SetupUpsert(r) PROVE Goal
    <3>1. /\ totp'.row = (IF totp.row = None THEN r ELSE totp.row)
          /\ totp'.secret = r /\ ~totp'.enabled /\ request'[r].pc = "authorize"
        BY <1>0, <2>0, <2>4 DEF SetupUpsert, TotpType, Goto, Becomes, Request
    <3> QED
        BY <1>0, <2>0, <3>1 DEF RowsMade, MadeRow, Moves
  <2>5. ASSUME NEW r \in Requests, EnableTotp(r) PROVE Goal
    <3>1. request[r].secret # None
        BY <2>5 DEF EnableTotp, At, Belongs, Place
    <3>2. totp'.row = totp.row /\ totp'.secret = totp.secret /\ totp.secret # None
        BY <2>0, <2>5, <3>1 DEF EnableTotp, Confirmable, TotpType
    <3> QED
        BY <2>1, <3>2
  <2>6. ASSUME NEW r \in Requests, TotpClaim(r) PROVE Goal
    <3>1. totp'.row = totp.row /\ totp'.secret = totp.secret /\ totp'.enabled = totp.enabled
        BY <2>0, <2>6 DEF TotpClaim, TotpType
    <3> QED
        BY <2>1, <3>1
  <2> QED
      BY <2>2, <2>3, <2>4, <2>5, <2>6, TotpMoves
<1>2. ASSUME NEW r \in Requests, InBy(r, "totp")' PROVE MadeRow(request[r].row)'
  <2>1. CASE InBy(r, "totp") /\ request'[r].row = request[r].row
      BY <1>0, <2>1 DEF RowsMade, MadeRow, Moves
  <2>2. CASE TotpClaim(r)
    <3>1. request'[r].row = totp.row /\ totp.enabled
        BY <1>0, <2>2 DEF TotpClaim, Claims, Becomes, Request
    <3> QED
        BY <1>0, <3>1 DEF RowsMade, MadeRow, Moves
  <2>3. Moves(r)
      BY <1>0
  <2>4. (InBy(r, "totp") /\ request'[r].row = request[r].row) \/ TotpClaim(r)
      BY <1>2, <2>3 DEF Moves
  <2> QED
      BY <2>1, <2>2, <2>4
<1> QED
    BY <1>1, <1>2 DEF RowsMade

(* Each step of a TOTP row lets one request in.                             *)
LEMMA StepsStep ==
    ASSUME TypeOK, Belongs, RowsMade, StepsClaimed, StepsDistinct, [Next]_vars
    PROVE  StepsClaimed' /\ StepsDistinct'
<1>0. /\ request \in [Requests -> Request] /\ totp \in TotpType
      /\ \A p \in Requests : Moves(p)
      /\ Steps \cup {0} \subseteq Nat
    BY RequestsMove, FactorsAssumption DEF TypeOK, TotpType
<1>1. ASSUME NEW r \in Requests, TotpClaim(r)
      PROVE  /\ request'[r].row = totp.row /\ request'[r].step = request[r].step
             /\ totp.last < request[r].step /\ totp'.last = request[r].step
             /\ totp'.row = totp.row /\ request[r].pc = "claim"
             /\ \A p \in Requests : p # r => request'[p] = request[p]
    BY <1>0, <1>1 DEF TotpClaim, Claims, Becomes, At, Request, TotpType
<1>2. ASSUME NEW r \in Requests, InBy(r, "totp")'
      PROVE  \/ /\ InBy(r, "totp") /\ request'[r].row = request[r].row
                /\ request'[r].step = request[r].step
             \/ TotpClaim(r)
  <2>1. Moves(r)
      BY <1>0
  <2>2. (InBy(r, "totp") /\ request'[r].row = request[r].row) \/ TotpClaim(r)
      BY <1>2, <2>1 DEF Moves
  <2>3. InBy(r, "totp") => request'[r].step = request[r].step
      BY <1>2, <2>1 DEF Moves, InBy
  <2> QED
      BY <2>2, <2>3
<1>3. ASSUME NEW r \in Requests, InBy(r, "totp")', request'[r].row = totp'.row
      PROVE  request'[r].step <= totp'.last
  <2>1. CASE TotpClaim(r)
      BY <1>0, <1>1, <2>1 DEF Request
  <2>2. CASE /\ InBy(r, "totp") /\ request'[r].row = request[r].row
             /\ request'[r].step = request[r].step
    <3>0. MadeRow(request[r].row) /\ request[r].step \in Nat /\ totp.last \in Nat
        BY <1>0, <2>2 DEF RowsMade, Request, TotpType
    <3>1. ASSUME totp'.row = totp.row, totp'.last = totp.last PROVE request'[r].step <= totp'.last
        BY <1>3, <2>2, <3>1 DEF StepsClaimed
    <3>2. CASE totp' = totp
        BY <3>1, <3>2
    <3>3. CASE totp' = NoTotp
        BY <1>3, <2>2, <3>0, <3>3 DEF NoTotp, MadeRow
    <3>4. ASSUME NEW q \in Requests, SetupUpsert(q) PROVE request'[r].step <= totp'.last
      <4>1. totp'.last = totp.last /\ totp'.row = (IF totp.row = None THEN q ELSE totp.row)
          BY <1>0, <3>4 DEF SetupUpsert, TotpType
      <4>2. request[r].row # q
          BY <3>0, <3>4 DEF SetupUpsert, At, MadeRow
      <4> QED
          BY <1>3, <2>2, <3>1, <4>1, <4>2
    <3>5. ASSUME NEW q \in Requests, EnableTotp(q) PROVE request'[r].step <= totp'.last
        BY <1>0, <3>1, <3>5 DEF EnableTotp, TotpType
    <3>6. ASSUME NEW q \in Requests, TotpClaim(q) PROVE request'[r].step <= totp'.last
      <4>1. request[r].step <= totp.last
          BY <1>1, <1>3, <2>2, <3>6 DEF StepsClaimed
      <4>2. totp.last < request[q].step /\ totp'.last = request[q].step /\ request[q].step \in Nat
          BY <1>0, <1>1, <3>6 DEF Request
      <4> QED
          BY <2>2, <3>0, <4>1, <4>2
    <3> QED
        BY <3>2, <3>3, <3>4, <3>5, <3>6, TotpMoves
  <2> QED
      BY <1>2, <1>3, <2>1, <2>2
<1>4. ASSUME NEW r \in Requests, NEW q \in Requests, r # q, TotpClaim(r), InBy(q, "totp")',
             request'[r].row = request'[q].row
      PROVE  request'[r].step # request'[q].step
  <2>1. request'[q] = request[q] /\ InBy(q, "totp")
      BY <1>1, <1>4 DEF InBy
  <2>2. request[q].step <= totp.last
      BY <1>1, <1>4, <2>1 DEF StepsClaimed
  <2> QED
      BY <1>0, <1>1, <1>4, <2>1, <2>2 DEF Request, TotpType
<1>5. ASSUME NEW r \in Requests, NEW q \in Requests, r # q, InBy(r, "totp")', InBy(q, "totp")',
             request'[r].row = request'[q].row
      PROVE  request'[r].step # request'[q].step
    BY <1>2, <1>4, <1>5 DEF StepsDistinct
<1>6. StepsClaimed'
    BY <1>3 DEF StepsClaimed
<1>7. StepsDistinct'
    BY <1>5 DEF StepsDistinct
<1> QED
    BY <1>6, <1>7

(* A code can be used if it could before, or is new.                        *)
LEMMA CodesFresh ==
    ASSUME TypeOK, Belongs, BatchesMade, [Next]_vars
    PROVE  \A c \in codes' \ used' : c \in codes \ used \/ ~MadeBatch(c)
<1> DEFINE Goal == \A c \in codes' \ used' : c \in codes \ used \/ ~MadeBatch(c)
<1>1. ASSUME NEW r \in Requests, EnableTotp(r) PROVE Goal
    BY <1>1 DEF EnableTotp, NewBatch, At, MadeBatch
<1>2. ASSUME NEW r \in Requests, ReplaceRecoveryCodes(r) PROVE Goal
    BY <1>2 DEF ReplaceRecoveryCodes, NewBatch, At, MadeBatch
<1>3. ASSUME NEW r \in Requests, RegisterInsert(r) PROVE Goal
    BY <1>3 DEF RegisterInsert, At, MadeBatch
<1>4. ASSUME NEW r \in Requests, Disable(r) PROVE Goal
    BY <1>4 DEF Disable
<1>5. ASSUME NEW r \in Requests, RecoveryConsume(r) PROVE Goal
    BY <1>5 DEF RecoveryConsume
<1>6. ASSUME NEW r \in Requests, SetupUpsert(r) \/ TotpClaim(r) \/ PasskeyAdvance(r) PROVE Goal
    BY <1>6 DEF SetupUpsert, TotpClaim, PasskeyAdvance
<1>7. ASSUME NEW b \in Browsers, NEW k \in keys, Remove(b, k) PROVE Goal
    BY <1>7 DEF Remove
<1>8. CASE UNCHANGED factors
    BY <1>8 DEF factors
<1> QED
    BY <1>1, <1>2, <1>3, <1>4, <1>5, <1>6, <1>7, <1>8, FactorsMove DEF Changes

(* Each recovery code lets one request in.                                  *)
LEMMA CodesStep ==
    ASSUME TypeOK, Belongs, BatchesMade, CodesSpent, [Next]_vars
    PROVE  CodesSpent'
<1>0. request \in [Requests -> Request] /\ \A p \in Requests : Moves(p)
    BY RequestsMove DEF TypeOK
<1>1. ASSUME NEW r \in Requests, InBy(r, "code")'
      PROVE  \/ InBy(r, "code") /\ request'[r].item = request[r].item
             \/ RecoveryConsume(r) /\ Unused(r)
    BY <1>0, <1>1 DEF Moves
<1>2. ASSUME NEW r \in Requests, RecoveryConsume(r), Unused(r)
      PROVE  /\ request'[r].item = request[r].item /\ request[r].item \in codes \ used
             /\ request[r].item \in used' /\ request[r].pc = "consume"
             /\ \A p \in Requests : p # r => request'[p] = request[p]
    BY <1>0, <1>2 DEF RecoveryConsume, Unused, At, Goto, Becomes, Request
<1>3. ASSUME NEW r \in Requests, InBy(r, "code") PROVE MadeBatch(request[r].item)
    BY <1>3 DEF InBy, BatchesMade
<1>4. ASSUME NEW r \in Requests, InBy(r, "code")' PROVE request'[r].item \notin codes' \ used'
    BY <1>1, <1>2, <1>3, <1>4, CodesFresh DEF CodesSpent
<1>5. ASSUME NEW r \in Requests, NEW q \in Requests, r # q, RecoveryConsume(r), Unused(r),
             InBy(q, "code")'
      PROVE  request'[r].item # request'[q].item
  <2>1. request'[q] = request[q] /\ InBy(q, "code")
      BY <1>2, <1>5 DEF InBy
  <2> QED
      BY <1>2, <1>5, <2>1 DEF CodesSpent
<1>6. ASSUME NEW r \in Requests, NEW q \in Requests, r # q, InBy(r, "code")', InBy(q, "code")'
      PROVE  request'[r].item # request'[q].item
    BY <1>1, <1>5, <1>6 DEF CodesSpent
<1> QED
    BY <1>4, <1>6 DEF CodesSpent

(* A session comes to hold a challenge only when the request that bears its *)
(* name stores it there.                                                    *)
LEMMA HoldsNew ==
    ASSUME TypeOK, Belongs, [Next]_vars, NEW b \in Browsers, NEW c \in Requests
    PROVE  /\ browser'[b].reg = c =>
                \/ browser[b].reg = c
                \/ /\ request[c].pc = "new"
                   /\ request'[c].kind = "begin" /\ request'[c].pc = "done" /\ request'[c].b = b
           /\ browser'[b].challenge = c =>
                \/ browser[b].challenge = c
                \/ /\ request[c].pc = "store"
                   /\ request'[c].kind = "begin" /\ request'[c].pc = "done" /\ request'[c].b = b
<1>0. request \in [Requests -> Request] /\ SessionMoves(b) /\ None \notin Requests /\ c # None
    BY SessionsMove, FactorsAssumption DEF TypeOK, Ids
<1>1. ASSUME NEW r \in Requests, RegisterBegin(r, b)
      PROVE  /\ request[r].pc = "new"
             /\ request'[r].kind = "begin" /\ request'[r].pc = "done" /\ request'[r].b = b
    BY <1>0, <1>1 DEF RegisterBegin, Begin, Becomes, New
<1>2. ASSUME NEW r \in Requests, StoreChallenge(r), request[r].b = b
      PROVE  /\ request[r].pc = "store"
             /\ request'[r].kind = "begin" /\ request'[r].pc = "done" /\ request'[r].b = b
    BY <1>0, <1>2 DEF StoreChallenge, At, Goto, Becomes, Belongs, Place, Request
<1> QED
    BY <1>0, <1>1, <1>2 DEF SessionMoves

LEMMA ApartStep ==
    ASSUME TypeOK, Belongs, ChallengesApart, [Next]_vars
    PROVE  ChallengesApart'
<1>1. ASSUME NEW b \in Browsers, NEW c \in Requests, Holds(b, c)'
      PROVE  \/ Holds(b, c) /\ Stored(c)
             \/ ~Stored(c) /\ Stored(c)' /\ request'[c].b = b
    BY <1>1, HoldsNew DEF Holds, Stored, ChallengesApart
<1>2. ASSUME NEW b \in Browsers, NEW c \in Requests, Holds(b, c)' PROVE Stored(c)'
    BY <1>1, <1>2, MadeStays
<1>3. ASSUME NEW b \in Browsers, NEW c \in Requests,
             browser'[b].reg = c, browser'[b].challenge = c
      PROVE  FALSE
  <2>1. browser[b].reg = c \/ request[c].pc = "new"
      BY <1>3, HoldsNew
  <2>2. browser[b].challenge = c \/ request[c].pc = "store"
      BY <1>3, HoldsNew
  <2>3. Holds(b, c) => request[c].pc = "done"
      BY DEF ChallengesApart, Stored
  <2> QED
      BY <2>1, <2>2, <2>3 DEF Holds, ChallengesApart
<1>4. ASSUME NEW a \in Browsers, NEW b \in Browsers, NEW c \in Requests,
             Holds(a, c)', Holds(b, c)'
      PROVE  a = b
  <2>1. \/ Holds(a, c) /\ Stored(c)
        \/ ~Stored(c) /\ request'[c].b = a
      BY <1>1, <1>4
  <2>2. \/ Holds(b, c) /\ Stored(c)
        \/ ~Stored(c) /\ request'[c].b = b
      BY <1>1, <1>4
  <2> QED
      BY <2>1, <2>2 DEF ChallengesApart
<1> QED
    BY <1>2, <1>3, <1>4 DEF ChallengesApart

(* Whoever claims a challenge takes it out of the only session that has it. *)
LEMMA ClaimTakes ==
    ASSUME TypeOK, Belongs, ChallengesApart, NEW r \in Requests, NEW b \in Browsers,
           RegisterClaim(r, b) \/ PasskeyClaim(r, b)
    PROVE  /\ request'[r].ch \in Requests /\ Holds(b, request'[r].ch)
           /\ \A a \in Browsers : ~(Holds(a, request[r].ch)')
           /\ request[r] = New /\ \A p \in Requests : p # r => request'[p] = request[p]
<1>0. /\ request \in [Requests -> Request] /\ browser \in [Browsers -> SessionType]
      /\ None \notin Requests
    BY FactorsAssumption DEF TypeOK, SessionType, Ids
<1>1. CASE RegisterClaim(r, b)
  <2>1. /\ request'[r].ch = browser[b].reg /\ browser[b].reg # None
        /\ request[r] = New /\ \A p \in Requests : p # r => request'[p] = request[p]
      BY <1>0, <1>1 DEF RegisterClaim, Begin, Becomes, New
  <2>2. browser[b].reg \in Requests
      BY <1>0, <2>1 DEF SessionType
  <2>3. /\ browser'[b].reg = None /\ browser'[b].challenge = browser[b].challenge
        /\ \A a \in Browsers : a # b => browser'[a] = browser[a]
      BY <1>0, <1>1 DEF RegisterClaim, ClaimsEnrolment, Session, SessionType
  <2>4. ASSUME NEW a \in Browsers PROVE ~(Holds(a, request[r].ch)')
    <3>1. CASE a = b
        BY <1>0, <2>1, <2>2, <2>3, <3>1 DEF Holds, ChallengesApart
    <3>2. CASE a # b
        BY <2>1, <2>2, <2>3, <3>2 DEF Holds, ChallengesApart
    <3> QED
        BY <3>1, <3>2
  <2> QED
      BY <2>1, <2>2, <2>4 DEF Holds
<1>2. CASE PasskeyClaim(r, b)
  <2>1. /\ request'[r].ch = browser[b].challenge /\ browser[b].challenge # None
        /\ request[r] = New /\ \A p \in Requests : p # r => request'[p] = request[p]
      BY <1>0, <1>2 DEF PasskeyClaim, Begin, Becomes, New
  <2>2. browser[b].challenge \in Requests
      BY <1>0, <2>1 DEF SessionType
  <2>3. /\ browser'[b].challenge = None /\ browser'[b].reg = browser[b].reg
        /\ \A a \in Browsers : a # b => browser'[a] = browser[a]
      BY <1>0, <1>2 DEF PasskeyClaim, ClaimsChallenge, Session, SessionType
  <2>4. ASSUME NEW a \in Browsers PROVE ~(Holds(a, request[r].ch)')
    <3>1. CASE a = b
        BY <1>0, <2>1, <2>2, <2>3, <3>1 DEF Holds, ChallengesApart
    <3>2. CASE a # b
        BY <2>1, <2>2, <2>3, <3>2 DEF Holds, ChallengesApart
    <3> QED
        BY <3>1, <3>2
  <2> QED
      BY <2>1, <2>2, <2>4 DEF Holds
<1> QED
    BY <1>1, <1>2

(* A challenge that was claimed is in no session and is nobody else's.      *)
LEMMA ClaimedStep ==
    ASSUME TypeOK, Belongs, ChallengesApart, ChallengesClaimed, [Next]_vars
    PROVE  ChallengesClaimed'
<1>0. \A p \in Requests : Moves(p)
    BY RequestsMove
<1>1. ASSUME NEW r \in Requests, Claimant(r)'
      PROVE  \/ Claimant(r) /\ request'[r].ch = request[r].ch
             \/ \E b \in Browsers : RegisterClaim(r, b) \/ PasskeyClaim(r, b)
  <2>1. Moves(r)
      BY <1>0
  <2>2. \/ Claimant(r)
        \/ \E b \in Browsers : RegisterClaim(r, b) \/ PasskeyClaim(r, b)
      BY <1>1, <2>1 DEF Moves
  <2>3. Claimant(r) => request'[r].ch = request[r].ch
      BY <1>1, <2>1 DEF Moves, Claimant
  <2> QED
      BY <2>2, <2>3
<1>2. ASSUME NEW r \in Requests, Claimant(r), request'[r].ch = request[r].ch
      PROVE  Stored(request[r].ch)' /\ \A b \in Browsers : ~(Holds(b, request[r].ch)')
  <2> DEFINE c == request[r].ch
  <2>1. Stored(c) /\ \A b \in Browsers : ~Holds(b, c)
      BY <1>2 DEF ChallengesClaimed
  <2>2. c \in Requests /\ request[c].pc = "done"
      BY <2>1 DEF Stored
  <2>3. \A b \in Browsers : browser'[b].reg # c /\ browser'[b].challenge # c
      BY <2>1, <2>2, HoldsNew DEF Holds
  <2>4. request'[c] = request[c]
      BY <1>0, <2>2 DEF Moves
  <2> QED
      BY <1>2, <2>1, <2>2, <2>3, <2>4 DEF Stored, Holds
<1>3. ASSUME NEW r \in Requests, NEW b \in Browsers, RegisterClaim(r, b) \/ PasskeyClaim(r, b)
      PROVE  Stored(request[r].ch)' /\ \A a \in Browsers : ~(Holds(a, request[r].ch)')
  <2>1. request'[r].ch \in Requests /\ Stored(request'[r].ch)
      BY <1>3, ClaimTakes DEF ChallengesApart
  <2>2. \A c \in Requests : Stored(c) => request'[c] = request[c]
      BY <1>0 DEF Moves, Stored
  <2> QED
      BY <1>3, <2>1, <2>2, ClaimTakes DEF Stored
<1>4. ASSUME NEW r \in Requests, NEW q \in Requests, r # q, Claimant(q)', NEW b \in Browsers,
             RegisterClaim(r, b) \/ PasskeyClaim(r, b)
      PROVE  request'[r].ch # request'[q].ch
  <2>1. request'[q] = request[q] /\ Holds(b, request'[r].ch)
      BY <1>4, ClaimTakes
  <2>2. ~Holds(b, request[q].ch)
      BY <1>4, <2>1 DEF Claimant, ChallengesClaimed
  <2> QED
      BY <2>1, <2>2
<1>5. ASSUME NEW r \in Requests, NEW q \in Requests, r # q, Claimant(r)', Claimant(q)'
      PROVE  request'[r].ch # request'[q].ch
    BY <1>1, <1>4, <1>5 DEF ChallengesClaimed
<1>6. ASSUME NEW r \in Requests, Claimant(r)'
      PROVE  Stored(request[r].ch)' /\ \A b \in Browsers : ~(Holds(b, request[r].ch)')
    BY <1>1, <1>2, <1>3, <1>6
<1> QED
    BY <1>5, <1>6 DEF ChallengesClaimed

(* A confirmation stands behind the secret that is enabled.                 *)
LEMMA SecretStep ==
    ASSUME TypeOK, Belongs, SecretProven, [Next]_vars
    PROVE  SecretProven'
<1>0. /\ request \in [Requests -> Request] /\ totp \in TotpType
      /\ \A p \in Requests : Moves(p)
    BY RequestsMove DEF TypeOK, TotpType
<1>1. ASSUME totp'.enabled => totp.enabled /\ totp'.secret = totp.secret PROVE SecretProven'
    BY <1>0, <1>1 DEF SecretProven, Moves
<1>2. CASE totp' = totp
    BY <1>1, <1>2
<1>3. CASE totp' = NoTotp
    BY <1>1, <1>3 DEF NoTotp
<1>4. ASSUME NEW r \in Requests, SetupUpsert(r) PROVE SecretProven'
    BY <1>0, <1>1, <1>4 DEF SetupUpsert, TotpType
<1>5. ASSUME NEW r \in Requests, EnableTotp(r) PROVE SecretProven'
  <2>1. /\ totp'.secret = request[r].secret
        /\ request'[r].pc = "clear" /\ request'[r].secret = request[r].secret
        /\ request'[r].kind = request[r].kind /\ request[r].kind = "confirm"
      BY <1>0, <1>5 DEF EnableTotp, Confirmable, Becomes, At, Belongs, Place, Request, TotpType
  <2> QED
      BY <2>1 DEF SecretProven
<1>6. ASSUME NEW r \in Requests, TotpClaim(r) PROVE SecretProven'
    BY <1>0, <1>1, <1>6 DEF TotpClaim, TotpType
<1> QED
    BY <1>2, <1>3, <1>4, <1>5, <1>6, TotpMoves

(* A batch that is inserted is in nobody's snapshot.                        *)
LEMMA NewBatchStays ==
    ASSUME TypeOK, Belongs, BatchesMade, [Next]_vars,
           NEW r \in Requests, request[r].pc \in {"enabling", "replacing"}, r \in codes'
    PROVE  BatchStays'
<1>1. \A p \in Requests : Moves(p)
    BY RequestsMove
<1>2. ~MadeBatch(r)
    BY DEF MadeBatch
<1>3. ASSUME NEW q \in Requests PROVE r \notin request'[q].codes
  <2>1. request'[q].codes \in {request[q].codes, codes, {}}
      BY <1>1 DEF Moves
  <2> QED
      BY <1>2, <2>1 DEF BatchesMade
<1> QED
    BY <1>3 DEF BatchStays

(* A batch that no removal in flight deletes stays while the row does.      *)
LEMMA OldBatchStays ==
    ASSUME TypeOK, Belongs, BatchStays, [Next]_vars,
           totp'.enabled => /\ totp.enabled /\ totp'.row = totp.row
                            /\ \A c \in codes :
                                 \/ c \in codes'
                                 \/ \E r \in Requests : /\ At(r, "disabling")
                                                        /\ request[r].row # totp.row
                                                        /\ c \in request[r].codes
    PROVE  BatchStays'
<1> SUFFICES ASSUME totp'.enabled
             PROVE  \E c \in codes' : \A r \in Requests :
                      At(r, "disabling")' /\ request'[r].row # totp'.row => c \notin request'[r].codes
    BY DEF BatchStays
<1>1. PICK c \in codes : \A r \in Requests :
        At(r, "disabling") /\ request[r].row # totp.row => c \notin request[r].codes
    BY DEF BatchStays
<1>2. c \in codes'
    BY <1>1
<1>3. ASSUME NEW r \in Requests, At(r, "disabling")', request'[r].row # totp'.row
      PROVE  c \notin request'[r].codes
  <2>1. request'[r] = request[r]
      BY <1>3, RequestsMove DEF Moves, At
  <2> QED
      BY <1>1, <1>3, <2>1 DEF At
<1> QED
    BY <1>2, <1>3

LEMMA BatchStaysStep ==
    ASSUME TypeOK, Belongs, BatchesMade, BatchStays, [Next]_vars
    PROVE  BatchStays'
<1>0. totp \in TotpType
    BY DEF TypeOK, TotpType
<1>1. CASE UNCHANGED factors
    BY <1>1, OldBatchStays DEF factors
<1>2. ASSUME NEW r \in Requests, SetupUpsert(r) PROVE BatchStays'
    BY <1>0, <1>2 DEF SetupUpsert, TotpType, BatchStays
<1>3. ASSUME NEW r \in Requests, EnableTotp(r) PROVE BatchStays'
    BY <1>3, NewBatchStays DEF EnableTotp, NewBatch, At
<1>4. ASSUME NEW r \in Requests, Disable(r) PROVE BatchStays'
  <2>1. CASE totp.row = request[r].row
      BY <1>4, <2>1 DEF Disable, NoTotp, BatchStays
  <2>2. CASE totp.row # request[r].row
    <3>1. At(r, "disabling") /\ totp' = totp /\ codes' = codes \ request[r].codes
        BY <1>4, <2>2 DEF Disable
    <3> QED
        BY <2>2, <3>1, OldBatchStays DEF BatchStays
  <2> QED
      BY <2>1, <2>2
<1>5. ASSUME NEW r \in Requests, ReplaceRecoveryCodes(r) PROVE BatchStays'
    BY <1>5, NewBatchStays DEF ReplaceRecoveryCodes, NewBatch, At
<1>6. ASSUME NEW r \in Requests, RegisterInsert(r) PROVE BatchStays'
  <2>1. totp' = totp /\ codes \subseteq codes'
      BY <1>6 DEF RegisterInsert
  <2> QED
      BY <2>1, OldBatchStays
<1>7. ASSUME NEW r \in Requests, TotpClaim(r) PROVE BatchStays'
  <2>1. totp'.enabled = totp.enabled /\ totp'.row = totp.row /\ codes' = codes
      BY <1>0, <1>7 DEF TotpClaim, TotpType
  <2> QED
      BY <2>1, OldBatchStays
<1>8. ASSUME NEW r \in Requests, RecoveryConsume(r) \/ PasskeyAdvance(r) PROVE BatchStays'
  <2>1. totp' = totp /\ codes' = codes
      BY <1>8 DEF RecoveryConsume, PasskeyAdvance
  <2> QED
      BY <2>1, OldBatchStays
<1>9. ASSUME NEW b \in Browsers, NEW k \in keys, Remove(b, k) PROVE BatchStays'
  <2>1. totp' = totp /\ codes' = codes
      BY <1>9 DEF Remove
  <2> QED
      BY <2>1, OldBatchStays
<1> QED
    BY <1>1, <1>2, <1>3, <1>4, <1>5, <1>6, <1>7, <1>8, <1>9, FactorsMove DEF Changes

LEMMA InvStep == FactorInv /\ [Next]_vars => FactorInv'
<1> SUFFICES ASSUME FactorInv, [Next]_vars PROVE FactorInv'
    OBVIOUS
<1>1. Belongs'
    BY RequestsMove DEF FactorInv, Belongs, Moves
<1> QED
    BY <1>1, TypeStep, BatchesStep, KeysStep, RowsStep, StepsStep, CodesStep, ApartStep,
       ClaimedStep, SecretStep, BatchStaysStep
       DEF FactorInv

(* What the properties need holds at every moment.                          *)
THEOREM FactorInvariant == Spec => []FactorInv
<1>1. FactorInv /\ UNCHANGED vars => FactorInv'
    BY InvStep
<1> QED
    BY InitialInv, InvStep, PTL DEF Spec

-----------------------------------------------------------------------------
(* Each recovery code, each step of a TOTP row and each challenge is        *)
(* accepted from one request at most, for any number of overlapping ones.   *)
THEOREM ProofsAreUsedOnce == Spec => []ProofUsedOnce
<1>1. FactorInv => ProofUsedOnce
    BY DEF FactorInv, ProofUsedOnce, StepsDistinct, CodesSpent, ChallengesClaimed
<1> QED
    BY <1>1, FactorInvariant, PTL

(* TOTP is enabled only with a secret a confirmation has seen a code of.    *)
THEOREM SecretIsProven == Spec => []EnabledSecretIsProven
<1>1. FactorInv => EnabledSecretIsProven
    BY DEF FactorInv, EnabledSecretIsProven, SecretProven
<1> QED
    BY <1>1, FactorInvariant, PTL

(* Whoever has TOTP enabled has a batch of recovery codes.                  *)
THEOREM CodesAreThere == Spec => []EnabledHasCodes
<1>1. FactorInv => EnabledHasCodes
    BY DEF FactorInv, EnabledHasCodes, BatchStays
<1> QED
    BY <1>1, FactorInvariant, PTL

(* No step lowers the counter of a passkey that stays.                      *)
THEOREM CountersRise == Spec => CounterNeverFalls
<1> DEFINE Rises == \A k \in keys \cap keys' : count'[k] >= count[k]
<1>1. ASSUME FactorInv, [Next]_vars PROVE Rises
  <2>0. /\ count \in [Ids -> 0 .. MaxCount] /\ keys \subseteq Ids /\ MaxCount \in Nat
        /\ request \in [Requests -> Request]
      BY <1>1, FactorsAssumption DEF FactorInv, TypeOK
  <2>1. ASSUME count' = count PROVE Rises
      BY <2>0, <2>1
  <2>2. ASSUME NEW r \in Requests, RegisterInsert(r) PROVE Rises
    <3>1. r \notin keys
        BY <1>1, <2>2 DEF FactorInv, KeysMade, RegisterInsert
    <3> QED
        BY <2>0, <2>2, <3>1 DEF RegisterInsert
  <2>3. ASSUME NEW r \in Requests, PasskeyAdvance(r) PROVE Rises
      BY <2>0, <2>3 DEF PasskeyAdvance, Advances, Request
  <2>4. ASSUME NEW r \in Requests,
               \/ SetupUpsert(r) \/ EnableTotp(r) \/ Disable(r) \/ ReplaceRecoveryCodes(r)
               \/ TotpClaim(r) \/ RecoveryConsume(r)
        PROVE  count' = count
      BY <2>4 DEF SetupUpsert, EnableTotp, Disable, ReplaceRecoveryCodes, TotpClaim, RecoveryConsume
  <2>5. ASSUME NEW b \in Browsers, NEW k \in keys, Remove(b, k) PROVE count' = count
      BY <2>5 DEF Remove
  <2>6. CASE UNCHANGED factors
      BY <2>1, <2>6 DEF factors
  <2> QED
      BY <1>1, <2>1, <2>2, <2>3, <2>4, <2>5, <2>6, FactorsMove DEF Changes
<1>2. FactorInv /\ [Next]_vars => [Rises]_vars
    BY <1>1
<1> QED
    BY <1>2, FactorInvariant, PTL DEF Spec, CounterNeverFalls

=============================================================================
