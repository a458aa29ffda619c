----------------------------- MODULE DraftsPage -----------------------------
(***************************************************************************)
(* An author's drafts (views/DraftsView.vue): each row can be published or *)
(* deleted, and one `busyId` is there to keep a row from being pressed     *)
(* twice.  The scheduler may publish a draft at any time.                  *)
(***************************************************************************)
EXTENDS Naturals, FiniteSets

CONSTANTS
    Drafts,      \* posts that are drafts when the page is opened
    NoDraft,     \* busyId: null
    MaxPresses,  \* bound: buttons pressed
    MaxAsks      \* bound: requests in flight at once

VARIABLES
    posts,    \* on the server: "draft", "published" or "deleted"
    drafts,   \* on the page
    loading, busyId,
    asks,     \* requests in flight
    presses

draftVars == <<posts, drafts, loading, busyId, asks, presses>>

Ask(n, kind, id) == [n |-> n, kind |-> kind, id |-> id, stage |-> "asked", list |-> {}]

Init ==
    /\ posts = [d \in Drafts |-> "draft"]
    /\ drafts = {} /\ loading = TRUE /\ busyId = NoDraft
    /\ asks = {Ask(0, "list", NoDraft)}
    /\ presses = 0

\* Publish, or Delete and yes to the question.
Press(kind, d) ==
    /\ d \in drafts /\ busyId # d
    /\ presses < MaxPresses /\ presses' = presses + 1
    /\ Cardinality(asks) < MaxAsks /\ asks' = asks \cup {Ask(presses', kind, d)}
    /\ busyId' = d
    /\ UNCHANGED <<posts, drafts, loading>>

Publish(d) == Press("publish", d)

Discard(d) == Press("delete", d)

\* Publishing what is published changes nothing.
Outcome(kind, was) ==
    IF kind = "delete" THEN "deleted" ELSE IF was = "draft" THEN "published" ELSE was

Serve(r) ==
    /\ r.stage = "asked"
    /\ r.kind # "list" => posts[r.id] # "deleted"
    /\ posts' = IF r.kind = "list" THEN posts ELSE [posts EXCEPT ![r.id] = Outcome(r.kind, @)]
    /\ asks' = (asks \ {r}) \cup {[r EXCEPT !.stage = "done",
                                           !.list = IF r.kind = "list" THEN {d \in Drafts : posts[d] = "draft"} ELSE {}]}
    /\ UNCHANGED <<drafts, loading, busyId, presses>>

ComesDue(d) ==
    /\ posts[d] = "draft"
    /\ posts' = [posts EXCEPT ![d] = "published"]
    /\ UNCHANGED <<drafts, loading, busyId, asks, presses>>

Land(r) == asks' = asks \ {r} /\ UNCHANGED <<posts, presses>>

LandList(r) ==
    /\ r.kind = "list" /\ Land(r)
    /\ loading' = FALSE
    /\ drafts' = IF r.stage = "done" THEN r.list ELSE drafts
    /\ UNCHANGED busyId

LandDone(r) ==
    /\ r.kind # "list" /\ r.stage = "done" /\ Land(r)
    /\ drafts' = drafts \ {r.id} /\ busyId' = NoDraft
    /\ UNCHANGED loading

\* Mutant: the row is dropped for errors too.
LandFailedDrops(r) ==
    /\ r.kind # "list" /\ Land(r)
    /\ drafts' = drafts \ {r.id} /\ busyId' = NoDraft
    /\ UNCHANGED loading

LandFailed(r) ==
    /\ r.kind # "list" /\ Land(r)
    /\ busyId' = NoDraft
    /\ UNCHANGED <<drafts, loading>>

Next ==
    \/ \E d \in Drafts : Publish(d) \/ Discard(d) \/ ComesDue(d)
    \/ \E r \in asks : Serve(r) \/ LandList(r) \/ LandDone(r) \/ LandFailed(r)

Spec == Init /\ [][Next]_draftVars

-----------------------------------------------------------------------------
(* Properties.                                                             *)

\* The rows are posts of the author's, and no row stays disabled when nothing
\* is in flight.
TypeOK ==
    /\ drafts \subseteq Drafts
    /\ asks = {} => busyId = NoDraft /\ ~loading

\* A draft that is still one is on the page, once the page has its list: a
\* row is dropped for an answer, never for an error (publish, discard).
DraftStaysListed ==
    [][\A d \in drafts \ drafts' : posts[d] # "draft"]_draftVars

\* Two presses never race on one draft.  Does not hold: the answer for
\* another row gives this one its buttons back (DraftsView.vue:38, 52).
OneRequestPerDraft == \A r, s \in asks : r.id = s.id => r = s

\* A post that was published is not deleted as a draft.  Does not hold: the
\* row stays while the scheduler publishes, and Delete asks nothing again
\* (DraftsView.vue:46).
PublishedStands == [][\A d \in Drafts : posts[d] = "published" => posts'[d] = "published"]_draftVars

=============================================================================
