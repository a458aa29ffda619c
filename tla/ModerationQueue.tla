--------------------------- MODULE ModerationQueue ---------------------------
(***************************************************************************)
(* The moderation queue (views/ModerationView.vue), the button that fills  *)
(* it (components/ReportButton.vue), and what the backend does for them.   *)
(* Acting on a report is two requests, hide (or ban) and resolve, with     *)
(* nothing that binds them; other moderators work on the same queue.       *)
(*                                                                         *)
(* Abstracted: a note is the report in whose form it was typed; a ban's    *)
(* days, and the detail of a report, are left out.                         *)
(***************************************************************************)
EXTENDS Naturals, FiniteSets

CONSTANTS
    Reports,     \* reports that can be filed
    Content,     \* posts and comments
    People,      \* accounts, which can be banned again and again
    MaxPresses,  \* bound: buttons the moderator presses
    MaxAsks,     \* bound: requests in flight at once
    MaxOthers    \* bound: steps of other moderators

VARIABLES
    target,    \* what each report is about
    reports,   \* status of each report, "none" if it is not filed
    hidden,    \* targets that are hidden, or banned
    status,    \* the tab
    shown,     \* ids of `reports` on the page
    listed,    \* the tab they were listed for
    loading,
    actingOn,  \* the report whose form is open, Nothing if none
    note,      \* actionNote: the report it was typed for, Nothing if empty
    busyId,
    asks,      \* requests in flight
    presses, others,
    ours,      \* reports whose target this page has hidden, as it was told
    refused,   \* those of them whose next attempt was refused
    button     \* ReportButton of a reader: its three flags, and whether a report is on its way

queueVars == <<target, reports, hidden, status, shown, listed, loading, actingOn, note, busyId, asks, presses, others, ours,
               refused, button>>

Tabs    == {"open", "actioned", "dismissed"}
Nothing == "nothing"
pageVars == <<status, shown, listed, loading, actingOn, note, busyId>>

Ask(n, kind, id, text) == [n |-> n, kind |-> kind, id |-> id, note |-> text, stage |-> "asked", list |-> {}]

Init ==
    /\ target \in [Reports -> Content \cup People]
    /\ reports \in [Reports -> {"none", "open"}]
    /\ hidden = {}
    /\ status = "open" /\ shown = {} /\ listed = "open" /\ loading = TRUE
    /\ actingOn = Nothing /\ note = Nothing /\ busyId = Nothing
    /\ asks = {Ask(0, "open", Nothing, Nothing)}
    /\ presses = 0 /\ others = 0
    /\ ours = {} /\ refused = {}
    /\ button = [open |-> FALSE, sent |-> FALSE, busy |-> FALSE]

-----------------------------------------------------------------------------
(* The moderator.                                                          *)

Press == presses < MaxPresses /\ presses' = presses + 1 /\ UNCHANGED <<target, reports, hidden, others, ours, refused, button>>

Send(kind, id) == Cardinality(asks) < MaxAsks /\ asks' = asks \cup {Ask(presses + 1, kind, id, Nothing)}

\* The old rows stay on the page until the new ones are there.
SwitchTab(tab) ==
    /\ Press /\ Send(tab, Nothing)
    /\ status' = tab /\ loading' = TRUE /\ actingOn' = Nothing
    /\ UNCHANGED <<shown, listed, note, busyId>>

Offered(id) == id \in shown /\ status = "open" /\ busyId # id

StartAction(id) ==
    /\ Press /\ Offered(id) /\ actingOn # id
    /\ actingOn' = id /\ note' \in {id, Nothing}
    /\ UNCHANGED <<status, shown, listed, loading, busyId, asks>>

\* The form closes without an action, even while one is under way.
CancelAction ==
    /\ Press /\ status = "open" /\ actingOn \in shown
    /\ actingOn' = Nothing
    /\ UNCHANGED <<status, shown, listed, loading, note, busyId, asks>>

Dismiss(id) ==
    /\ Press /\ Offered(id) /\ actingOn # id /\ Send("dismiss", id)
    /\ busyId' = id
    /\ UNCHANGED <<status, shown, listed, loading, actingOn, note>>

\* Mutant: the report is resolved before the content is hidden.
TakeActionResolvesFirst(id) ==
    /\ Press /\ Offered(id) /\ actingOn = id /\ Send("resolve", id)
    /\ busyId' = id
    /\ UNCHANGED <<status, shown, listed, loading, actingOn, note>>

TakeAction(id) ==
    /\ Press /\ Offered(id) /\ actingOn = id /\ Send("hide", id)
    /\ busyId' = id
    /\ UNCHANGED <<status, shown, listed, loading, actingOn, note>>

\* The manual override.
RunManual(t) ==
    /\ Press /\ Send("unhide", t)
    /\ ~\E r \in asks : r.kind = "unhide"  \* manualBusy
    /\ UNCHANGED pageVars

-----------------------------------------------------------------------------
(* The reader with the button.                                             *)

Button(b) == button' = b /\ UNCHANGED <<target, hidden, pageVars, presses, others, ours, refused>>

StartReport == ~button.open /\ Button([button EXCEPT !.open = TRUE, !.sent = FALSE]) /\ UNCHANGED <<reports, asks>>

CloseReport == button.open /\ Button([button EXCEPT !.open = FALSE]) /\ UNCHANGED <<reports, asks>>

SubmitReport(id) ==
    /\ button.open /\ ~button.sent /\ ~button.busy /\ reports[id] = "none"
    /\ Button([button EXCEPT !.busy = TRUE])
    /\ asks' = asks \cup {Ask(0, "report", id, Nothing)}
    /\ UNCHANGED reports

LandReport(r) ==
    /\ r.kind = "report"
    /\ \E sent \in {r.stage = "done"} \cup {FALSE} : Button([button EXCEPT !.busy = FALSE, !.sent = @ \/ sent])
    /\ asks' = asks \ {r}
    /\ UNCHANGED reports

-----------------------------------------------------------------------------
(* The backend.                                                            *)

Hides(t, set) == (t \in Content => t \notin set) /\ hidden' = set \cup {t}

Serve(r) ==
    /\ r.stage = "asked"
    /\ UNCHANGED <<target, pageVars, presses, others, ours, refused, button>>

Done(r) == asks' = (asks \ {r}) \cup {[r EXCEPT !.stage = "done"]}

ServeList(r) ==
    /\ r.kind \in Tabs /\ Serve(r)
    /\ asks' = (asks \ {r}) \cup {[r EXCEPT !.stage = "done", !.list = {id \in Reports : reports[id] = r.kind}]}
    /\ UNCHANGED <<reports, hidden>>

\* Content that is hidden already is refused, a ban is not.
ServeHide(r) == r.kind = "hide" /\ Serve(r) /\ Hides(target[r.id], hidden) /\ Done(r) /\ UNCHANGED reports

ServeUnhide(r) == r.kind = "unhide" /\ r.id \in hidden /\ Serve(r) /\ hidden' = hidden \ {r.id} /\ Done(r) /\ UNCHANGED reports

Outcome(kind) == IF kind = "dismiss" THEN "dismissed" ELSE "actioned"

\* Only an open report is resolved.
ServeResolve(r) ==
    /\ r.kind \in {"dismiss", "resolve"} /\ Serve(r) /\ reports[r.id] = "open"
    /\ reports' = [reports EXCEPT ![r.id] = Outcome(r.kind)]
    /\ Done(r)
    /\ UNCHANGED hidden

ServeReport(r) ==
    /\ r.kind = "report" /\ Serve(r)
    /\ reports' = [reports EXCEPT ![r.id] = IF @ = "none" THEN "open" ELSE @]
    /\ Done(r)
    /\ UNCHANGED hidden

\* Another moderator takes a step of either kind.
SomebodyActs(id) ==
    /\ others < MaxOthers
    /\ others' = others + 1
    /\ \/ Hides(target[id], hidden) /\ UNCHANGED reports
       \/ reports[id] = "open" /\ reports' = [reports EXCEPT ![id] = "dismissed"] /\ UNCHANGED hidden
    /\ UNCHANGED <<target, pageVars, asks, presses, ours, refused, button>>

Denied(r) ==
    /\ r.stage = "asked"
    /\ \/ r.kind = "hide" /\ target[r.id] \in Content \cap hidden
       \/ r.kind = "unhide" /\ r.id \notin hidden
       \/ r.kind \in {"dismiss", "resolve"} /\ reports[r.id] # "open"

-----------------------------------------------------------------------------
(* The answers.                                                            *)

Land(r) == asks' = asks \ {r} /\ UNCHANGED <<target, reports, hidden, presses, others, button>>

LandList(r) ==
    /\ r.kind \in Tabs /\ Land(r)
    /\ loading' = FALSE
    /\ \/ r.stage = "done" /\ shown' = r.list /\ listed' = r.kind
       \/ UNCHANGED <<shown, listed>>
    /\ UNCHANGED <<status, actingOn, note, busyId, ours, refused>>

Drop(id) == shown' = shown \ {id} /\ actingOn' = Nothing

\* Mutant: the row is dropped for errors too.
LandResolvedAnyhow(r) ==
    /\ r.kind \in {"dismiss", "resolve"} /\ Land(r)
    /\ Drop(r.id)
    /\ busyId' = Nothing
    /\ UNCHANGED <<status, listed, loading, note, ours, refused>>

LandResolved(r) ==
    /\ r.kind \in {"dismiss", "resolve"} /\ r.stage = "done" /\ Land(r)
    /\ Drop(r.id)
    /\ busyId' = Nothing
    /\ UNCHANGED <<status, listed, loading, note, ours, refused>>

\* takeAction goes on with the note that is in the form by now.
LandHidden(r) ==
    /\ r.kind = "hide" /\ r.stage = "done"
    /\ asks' = (asks \ {r}) \cup {Ask(r.n, "resolve", r.id, note)}
    /\ ours' = ours \cup {r.id}
    /\ UNCHANGED <<target, reports, hidden, pageVars, presses, others, refused, button>>

LandUnhidden(r) ==
    /\ r.kind = "unhide" /\ Land(r)
    /\ UNCHANGED <<pageVars, ours, refused>>

\* An error, of the backend or of the network, whether or not it was done.
LandFailed(r) ==
    /\ r.kind \in {"dismiss", "hide", "resolve"} /\ Land(r)
    /\ busyId' = Nothing
    /\ refused' = IF r.kind = "hide" /\ Denied(r) /\ r.id \in ours /\ reports[r.id] = "open"
                  THEN refused \cup {r.id} ELSE refused
    /\ UNCHANGED <<status, shown, listed, loading, actingOn, note, ours>>

-----------------------------------------------------------------------------

Next ==
    \/ \E tab \in Tabs : SwitchTab(tab)
    \/ \E id \in Reports : StartAction(id) \/ Dismiss(id) \/ TakeAction(id) \/ SubmitReport(id) \/ SomebodyActs(id)
    \/ \E t \in Content \cup People : RunManual(t)
    \/ StartReport \/ CloseReport \/ CancelAction
    \/ \E r \in asks :
        \/ ServeList(r) \/ ServeHide(r) \/ ServeUnhide(r) \/ ServeResolve(r) \/ ServeReport(r)
        \/ LandList(r) \/ LandResolved(r) \/ LandHidden(r) \/ LandUnhidden(r) \/ LandReport(r) \/ LandFailed(r)

Spec == Init /\ [][Next]_queueVars

-----------------------------------------------------------------------------
(* Properties.                                                             *)

\* The page names reports there are; one that is being acted on was filed.
TypeOK ==
    /\ \A id \in shown : reports[id] # "none"
    /\ {actingOn, busyId, note} \subseteq Reports \cup {Nothing}
    /\ \A r \in asks : r.kind \in {"dismiss", "hide", "resolve"} => reports[r.id] # "none"

\* A report becomes "actioned" only after this page was told that its target
\* is hidden: whichever of the two calls fails, and whoever else acts, the
\* content is never the one that was left as it was (takeAction's order).
ActionedAfterHidden == [][\A id \in Reports : reports'[id] = "actioned" => reports[id] = "actioned" \/ id \in ours]_queueVars

\* A row leaves the queue without a new list only if its report is resolved
\* (drop is called after the answer, never for an error).
DroppedIsResolved ==
    [][\A id \in shown \ shown' : reports[id] # "open" \/ \E r \in asks \ asks' : r.kind \in Tabs]_queueVars

\* "the report stays open for a retry" (ModerationView.vue:82).  Does not
\* hold: content hidden by the first attempt refuses the second.
RetryIsNotRefused == refused = {}

\* The rows are those of the tab that is marked.  Does not hold: answers for
\* two tabs may come in either order, and the rows of the earlier tab stay
\* when a list fails (ModerationView.vue:47).
RowsAreOfTheTab == ~loading => listed = status

\* A report is resolved with the note of its own form.  Does not hold: the
\* note is read again after the first call (ModerationView.vue:90).
NoteOfItsReport == \A r \in asks : r.kind = "resolve" => r.note \in {r.id, Nothing}

\* One action at a time on a report.  Does not hold: an action on another
\* row takes busyId away (ModerationView.vue:84).
OneActionPerReport ==
    \A q, r \in asks : q.id = r.id /\ {q.kind, r.kind} \subseteq {"hide", "resolve", "dismiss"} => q = r

=============================================================================
