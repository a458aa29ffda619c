-------------------------- MODULE NotificationBadge --------------------------
(***************************************************************************)
(* The notification store (stores/notifications.ts), the list that shows   *)
(* it (views/NotificationsView.vue) and the badge of App.vue.  The badge   *)
(* is a number the server is asked for, and marking is optimistic: the row *)
(* and the number change first, and are put back if the call fails.        *)
(***************************************************************************)
EXTENDS Naturals, FiniteSets

CONSTANTS
    Notes,       \* notifications that can arrive
    MaxPresses,  \* bound: what the reader does
    MaxAsks      \* bound: requests in flight at once

VARIABLES
    arrived, readAt,  \* on the server: notifications of the reader, and those that are read
    nudges,           \* "notification" frames on their way
    signedIn,
    items,            \* the store's rows; gen tells one list object from the next
    unread,           \* the badge
    asks,             \* requests in flight
    presses,
    confirmed,        \* rows of this list whose call has succeeded
    overlapped,       \* two requests were in flight at once
    stale             \* a nudge or an answer was lost

badgeVars == <<arrived, readAt, nudges, signedIn, items, unread, asks, presses, confirmed, overlapped, stale>>

NoRows == [id \in {} |-> FALSE]

Ask(kind, ids) == [n |-> presses, kind |-> kind, gen |-> items.gen, ids |-> ids, stage |-> "asked", rows |-> NoRows, count |-> 0]

Init ==
    /\ arrived \in SUBSET Notes /\ readAt = {} /\ nudges = 0
    /\ signedIn = TRUE
    /\ items = [gen |-> 0, rows |-> NoRows] /\ unread = 0
    /\ presses = 0
    /\ asks = {Ask("count", {})}
    /\ confirmed = {} /\ overlapped = FALSE /\ stale = FALSE

-----------------------------------------------------------------------------
(* The reader.                                                             *)

Sends(r, set) ==
    /\ Cardinality(set) < MaxAsks
    /\ asks' = set \cup {r}
    /\ overlapped' = (overlapped \/ set # {})

Press == presses < MaxPresses /\ presses' = presses + 1 /\ UNCHANGED <<arrived, readAt, nudges, stale>>

\* The list page is mounted.
Load ==
    /\ Press /\ signedIn
    /\ Sends(Ask("list", {}), asks)
    /\ UNCHANGED <<signedIn, items, unread, confirmed>>

Unread == {id \in DOMAIN items.rows : ~items.rows[id]}

Show(ids, flag) == [items EXCEPT !.rows = [id \in DOMAIN @ |-> IF id \in ids THEN flag ELSE @[id]]]

\* Mutant: the badge is not kept from falling below 0.
MarkReadNoFloor(id) ==
    /\ Press /\ signedIn /\ id \in Unread
    /\ items' = Show({id}, TRUE)
    /\ unread' = IF unread = 0 THEN Cardinality(Notes) + 1 ELSE unread - 1  \* -1
    /\ Sends(Ask("read", {id}), asks)
    /\ UNCHANGED <<signedIn, confirmed>>

MarkRead(id) ==
    /\ Press /\ signedIn /\ id \in Unread
    /\ items' = Show({id}, TRUE)
    /\ unread' = IF unread = 0 THEN 0 ELSE unread - 1
    /\ Sends(Ask("read", {id}), asks)
    /\ UNCHANGED <<signedIn, confirmed>>

MarkAllRead ==
    /\ Press /\ signedIn /\ unread > 0
    /\ items' = Show(Unread, TRUE)
    /\ unread' = 0
    /\ Sends(Ask("all", Unread), asks)
    /\ UNCHANGED <<signedIn, confirmed>>

SignOut ==
    /\ Press /\ signedIn
    /\ signedIn' = FALSE
    /\ items' = [gen |-> items.gen + 1, rows |-> NoRows] /\ unread' = 0 /\ confirmed' = {}
    /\ UNCHANGED <<asks, overlapped>>

SignIn ==
    /\ Press /\ ~signedIn
    /\ signedIn' = TRUE
    /\ Sends(Ask("count", {}), asks)
    /\ UNCHANGED <<items, unread, confirmed>>

-----------------------------------------------------------------------------
(* The server and the socket.                                              *)

Arrive(id) ==
    /\ id \notin arrived
    /\ arrived' = arrived \cup {id}
    /\ \/ signedIn /\ nudges' = nudges + 1 /\ UNCHANGED stale
       \/ stale' = TRUE /\ UNCHANGED nudges
    /\ UNCHANGED <<readAt, signedIn, items, unread, asks, presses, confirmed, overlapped>>

\* Mutant: the count is not asked for.
NudgeIgnored ==
    /\ nudges > 0 /\ nudges' = nudges - 1
    /\ UNCHANGED <<arrived, readAt, signedIn, items, unread, asks, presses, confirmed, overlapped, stale>>

\* refreshCount
Nudge ==
    /\ nudges > 0 /\ nudges' = nudges - 1
    /\ \/ signedIn /\ Sends(Ask("count", {}), asks) /\ UNCHANGED unread
       \/ ~signedIn /\ unread' = 0 /\ UNCHANGED <<asks, overlapped>>
    /\ UNCHANGED <<arrived, readAt, signedIn, items, presses, confirmed, stale>>

\* A mark is done and counted by one handler, so is a list.
Marked(r) ==
    CASE r.kind = "read" -> readAt \cup r.ids
      [] r.kind = "all"  -> arrived
      [] OTHER           -> readAt

Serve(r) ==
    /\ r.stage = "asked"
    /\ readAt' = Marked(r)
    /\ asks' = (asks \ {r}) \cup {[r EXCEPT !.stage = "done", !.count = Cardinality(arrived \ Marked(r)),
                                           !.rows = IF r.kind = "list" THEN [id \in arrived |-> id \in readAt] ELSE NoRows]}
    /\ UNCHANGED <<arrived, nudges, signedIn, items, unread, presses, confirmed, overlapped, stale>>

-----------------------------------------------------------------------------
(* The answers.                                                            *)

Land(r) == UNCHANGED <<arrived, readAt, nudges, signedIn, presses>>

LandCount(r) ==
    /\ r.kind = "count" /\ r.stage = "done" /\ Land(r)
    /\ asks' = asks \ {r}
    /\ unread' = r.count
    /\ UNCHANGED <<items, confirmed, overlapped, stale>>

LandList(r) ==
    /\ r.kind = "list" /\ r.stage = "done" /\ Land(r)
    /\ asks' = asks \ {r}
    /\ items' = [gen |-> items.gen + 1, rows |-> r.rows] /\ unread' = r.count /\ confirmed' = {}
    /\ UNCHANGED <<overlapped, stale>>

LandMarked(r) ==
    /\ r.kind \in {"read", "all"} /\ r.stage = "done" /\ Land(r)
    /\ asks' = asks \ {r}
    /\ unread' = IF r.kind = "read" THEN r.count ELSE unread
    /\ confirmed' = IF r.gen = items.gen THEN confirmed \cup r.ids ELSE confirmed
    /\ UNCHANGED <<items, overlapped, stale>>

LandUnansweredCount(r) ==
    /\ r.kind \in {"count", "list"} /\ Land(r)
    /\ asks' = asks \ {r}
    /\ stale' = TRUE
    /\ UNCHANGED <<items, unread, confirmed, overlapped>>

\* Mutant: all rows are rolled back, changed or not.
RolledBackAll(r) == IF r.kind = "all" THEN Show(DOMAIN items.rows, FALSE) ELSE Show(r.ids, FALSE)

\* A mark that failed, done or not, is put back in the rows it changed, which
\* may no longer be the ones on the page, and the count is asked for.
RolledBack(r) == IF r.gen = items.gen THEN Show(r.ids, FALSE) ELSE items

LandUnmarked(r) ==
    /\ r.kind \in {"read", "all"} /\ Land(r)
    /\ items' = RolledBack(r)
    /\ \/ signedIn /\ Sends(Ask("count", {}), asks \ {r}) /\ UNCHANGED unread
       \/ ~signedIn /\ unread' = 0 /\ asks' = asks \ {r} /\ UNCHANGED overlapped
    /\ UNCHANGED <<confirmed, stale>>

-----------------------------------------------------------------------------

Next ==
    \/ Load \/ MarkAllRead \/ SignOut \/ SignIn \/ Nudge
    \/ \E id \in Notes : MarkRead(id) \/ Arrive(id)
    \/ \E r \in asks :
        Serve(r) \/ LandCount(r) \/ LandList(r) \/ LandMarked(r) \/ LandUnansweredCount(r) \/ LandUnmarked(r)

Spec == Init /\ [][Next]_badgeVars

-----------------------------------------------------------------------------
(* Properties.                                                             *)

\* The badge is a count of notifications there are, and so are the rows.
TypeOK ==
    /\ unread \in 0 .. Cardinality(arrived)
    /\ DOMAIN items.rows \subseteq arrived /\ readAt \subseteq arrived
    /\ confirmed \subseteq DOMAIN items.rows

\* When everything is answered, the badge is the number of unread
\* notifications, marks that failed or were lost on the way back included,
\* provided that answers never crossed and no count was lost.
BadgeIsCount ==
    signedIn /\ asks = {} /\ nudges = 0 /\ ~overlapped /\ ~stale => unread = Cardinality(arrived \ readAt)

\* Only a new list shows a row as unread again after its call has succeeded:
\* the rollback of another call, of markAllRead too, leaves it alone.
ConfirmedStaysRead ==
    [][\A id \in confirmed : items'.gen = items.gen => items'.rows[id]]_badgeVars

\* The same without the proviso on crossing.  Does not hold: the answer to a
\* nudge that is counted first may land last (stores/notifications.ts:21).
BadgeSettles ==
    signedIn /\ asks = {} /\ nudges = 0 /\ ~stale => unread = Cardinality(arrived \ readAt)

\* Nobody's notifications are in the store of a page nobody is signed in to.
\* Does not hold: load and refreshCount do not look again when they are
\* answered (stores/notifications.ts:21, 31).
SignedOutIsEmpty == ~signedIn => unread = 0 /\ items.rows = NoRows

=============================================================================
