------------------------------ MODULE PostPage ------------------------------
(***************************************************************************)
(* The page of one post: views/PostView.vue.  The component stays mounted  *)
(* while its `id` changes, so an answer asked for one post can land while  *)
(* another is shown.  A request is asked, served from the rows of that     *)
(* moment, and landed; comments also arrive over the socket, in the order  *)
(* they were written.  CommentThread has the tree they are drawn as.       *)
(*                                                                         *)
(* Abstracted: a comment is its index in `rows`, a text the number of the  *)
(* draft the reader typed; the three answers of load() are taken at one    *)
(* moment; of the like counter only the reader's own like is kept.         *)
(***************************************************************************)
EXTENDS Naturals, FiniteSets, Sequences, Functions

CONSTANTS
    Posts,    \* posts there are
    Bounds,   \* the bounds a behaviour may run under: [posts, comments, visits, presses, asks]
    MayFail   \* whether requests fail and pushes get lost

VARIABLES
    bound,    \* of this behaviour: posts to step between, comments written, ids the page has, controls
              \* pressed, requests in flight at once
    id,       \* props.id
    visit,    \* how many ids the page has had
    pressed,  \* how many controls have been pressed
    page,     \* the refs of the component
    live,     \* liveCommentsByPost of the messages store
    removed,  \* removedIds
    asks,     \* requests in flight
    rows,     \* the comments table (served by the backend)
    stored,   \* the reader's likes and bookmarks as the backend has them
    pushes,   \* comments on their way over the socket
    lost,     \* drafts whose create was done but answered by an error
    away      \* the page has navigated itself to the feed

postVars == <<bound, id, visit, pressed, page, live, removed, asks, rows, stored, pushes, lost, away>>

Toggles == {"like", "bookmark"}
Writes  == {"comment", "reply", "edit", "remove"}
NoPost  == "nopost"
Off     == [t \in Toggles |-> FALSE]

Blank ==
    [post |-> NoPost, comments |-> <<>>, dead |-> {}, on |-> Off, busy |-> Off, posting |-> FALSE,
     publishing |-> FALSE, text |-> 0, loading |-> TRUE, error |-> FALSE]

Ask(kind, p, arg, v) ==
    [kind |-> kind, post |-> p, arg |-> arg, visit |-> v,
     stage |-> "asked", list |-> <<>>, dead |-> {}, on |-> Off]

HasRoom == Cardinality(asks) < bound.asks

Init ==
    /\ bound \in Bounds
    /\ id \in bound.posts
    /\ visit = 1
    /\ pressed = 0
    /\ page = Blank
    /\ live = [p \in Posts |-> <<>>]
    /\ removed = {}
    /\ asks = {Ask("load", id, 0, 1)}
    /\ rows = <<>>
    /\ stored = [t \in Toggles |-> {}]
    /\ pushes = <<>>
    /\ lost = {}
    /\ away = FALSE

-----------------------------------------------------------------------------
(* The backend's side of a comment.                                        *)

Listed(p) ==
    LET upTo[n \in 0 .. Len(rows)] ==
            IF n = 0 THEN <<>>
            ELSE IF rows[n].post = p /\ rows[n].state \in {"there", "tombstone"} THEN Append(upTo[n - 1], n)
            ELSE upTo[n - 1]
    IN upTo[Len(rows)]

Tombstones == {c \in DOMAIN rows : rows[c].state = "tombstone"}

CanHang(p, parent) ==
    parent \in {0} \cup {c \in DOMAIN rows : rows[c].post = p /\ rows[c].state = "there"}

\* A new row is pushed to the page if that is the post it is subscribed to.
Insert(p, parent, mine, draft) ==
    /\ rows' = Append(rows, [post |-> p, parent |-> parent, mine |-> mine, draft |-> draft, state |-> "there"])
    /\ \/ p = id /\ pushes' = Append(pushes, Len(rows) + 1)
       \/ (p # id \/ MayFail) /\ UNCHANGED pushes

\* Every row counts, hidden and tombstoned ones too.
HasReplies(c) == \E o \in DOMAIN rows : rows[o].parent = c /\ rows[o].state # "gone"

\* A tombstone of a hidden comment, "buried", is not listed.
Deleted(c) ==
    [rows EXCEPT ![c].state = IF ~HasReplies(c) THEN "gone" ELSE IF @ = "hidden" THEN "buried" ELSE "tombstone"]

SomebodyComments(p, parent) ==
    /\ Len(rows) < bound.comments /\ CanHang(p, parent)
    /\ Insert(p, parent, FALSE, 0)
    /\ UNCHANGED <<bound, id, visit, pressed, page, live, removed, asks, stored, lost, away>>

\* Another author deletes a comment, or a moderator hides one.
SomebodyRemoves(c) ==
    /\ \/ ~rows[c].mine /\ rows[c].state \in {"there", "hidden"} /\ rows' = Deleted(c)
       \/ rows[c].state = "there" /\ rows' = [rows EXCEPT ![c].state = "hidden"]
    /\ UNCHANGED <<bound, id, visit, pressed, page, live, removed, asks, stored, pushes, lost, away>>

-----------------------------------------------------------------------------
(* Live comments, and stepping to another post without unmounting.         *)

\* Mutant: a comment that is there is added again.
TakenAgain(list, c) == IF c \in removed THEN list ELSE Append(list, c)

\* Mutant: removedIds is not asked.
TakenAfterRemoval(list, c) == IF c \in Range(list) THEN list ELSE Append(list, c)

Taken(list, c) == IF c \in Range(list) \cup removed THEN list ELSE Append(list, c)

\* The watcher on the length of the post's live comments takes them one by one.
Merged(list, incoming) ==
    LET upTo[n \in 0 .. Len(incoming)] == IF n = 0 THEN list ELSE Taken(upTo[n - 1], incoming[n])
    IN upTo[Len(incoming)]

Deliver ==
    /\ pushes # <<>>
    /\ LET c == Head(pushes)
           p == rows[c].post
       IN /\ live' = [live EXCEPT ![p] = Append(@, c)]
          /\ page' = IF p = id THEN [page EXCEPT !.comments = Merged(@, Append(live[p], c))] ELSE page
    /\ pushes' = Tail(pushes)
    /\ UNCHANGED <<bound, id, visit, pressed, removed, asks, rows, stored, lost, away>>

StepTo(p) ==
    /\ p # id /\ visit < bound.visits /\ HasRoom
    /\ id' = p
    /\ visit' = visit + 1
    /\ live' = [live EXCEPT ![id] = <<>>]
    /\ page' = [page EXCEPT !.loading = TRUE, !.error = FALSE,
                            !.comments = IF Len(live[p]) = Len(live[id]) THEN @ ELSE Merged(@, live[p])]
    /\ asks' = asks \cup {Ask("load", p, 0, visit + 1)}
    /\ UNCHANGED <<bound, pressed, removed, rows, stored, pushes, lost, away>>

-----------------------------------------------------------------------------
(* What the reader can press: nothing while a load is in flight.           *)

Shown == ~away /\ ~page.loading /\ ~page.error /\ page.post # NoPost

Edits(c) == c \in Range(page.comments) /\ rows[c].mine /\ c \notin page.dead

Press(kind, arg) ==
    /\ Shown /\ pressed < bound.presses /\ HasRoom
    /\ pressed' = pressed + 1
    /\ asks' = asks \cup {Ask(kind, id, arg, visit)}
    /\ UNCHANGED <<bound, id, visit, live, removed, rows, stored, pushes, lost, away>>

\* One flag serialises the writes of a comment.
Write(kind, arg) == ~page.posting /\ Press(kind, arg)

\* The text stays in its box until its comment is made.
SubmitComment ==
    LET draft == IF page.text = 0 THEN pressed + 1 ELSE page.text
    IN /\ Write("comment", draft)
       /\ page' = [page EXCEPT !.posting = TRUE, !.text = draft]

\* The reply's own text is given up when it is sent.
SubmitReply(c) ==
    /\ c \in Range(page.comments) \ page.dead /\ Write("reply", c)
    /\ page' = [page EXCEPT !.posting = TRUE]

EditComment(c) == Edits(c) /\ Write("edit", c) /\ page' = [page EXCEPT !.posting = TRUE]

RemoveComment(c) == Edits(c) /\ Write("remove", c) /\ page' = [page EXCEPT !.posting = TRUE]

Flipped(t) == [page.on EXCEPT ![t] = ~@]

\* Optimistic: the heart changes before the request leaves.
Toggle(t) ==
    /\ ~page.busy[t] /\ Press(t, IF page.on[t] THEN 1 ELSE 0)
    /\ page' = [page EXCEPT !.busy[t] = TRUE, !.on = Flipped(t)]

PublishDraft ==
    /\ ~page.publishing /\ Press("publish", 0)
    /\ page' = [page EXCEPT !.publishing = TRUE]

DeletePost == Press("delete", 0) /\ UNCHANGED page

-----------------------------------------------------------------------------
(* The backend serves a request.                                           *)

Serve(r) ==
    /\ r.stage = "asked"
    /\ UNCHANGED <<bound, id, visit, pressed, page, live, removed, lost, away>>

Done(r) == asks' = (asks \ {r}) \cup {[r EXCEPT !.stage = "done"]}

\* The two side requests of load() are caught one by one: a failed one
\* answers no comments, or no likes.
ServeRead(r) ==
    /\ r.kind \in {"load", "refetch"} /\ Serve(r)
    /\ \E list \in {Listed(r.post)} \cup (IF MayFail /\ r.kind = "load" THEN {<<>>} ELSE {}) :
        asks' = (asks \ {r}) \cup {[r EXCEPT !.stage = "done", !.list = list, !.dead = Tombstones \cap Range(list),
                                            !.on = [t \in Toggles |-> r.post \in stored[t]]]}
    /\ UNCHANGED <<rows, stored, pushes>>

Accepts(r) ==
    CASE r.kind \in {"comment", "reply"} -> CanHang(r.post, IF r.kind = "reply" THEN r.arg ELSE 0)
      [] r.kind \in {"edit", "remove"}   -> rows[r.arg].state \in {"there", "hidden"}
      [] OTHER                           -> TRUE

ServeCreate(r) ==
    /\ r.kind \in {"comment", "reply"} /\ Serve(r) /\ Accepts(r) /\ Len(rows) < bound.comments
    /\ IF r.kind = "comment" THEN Insert(r.post, 0, TRUE, r.arg) ELSE Insert(r.post, r.arg, TRUE, 0)
    /\ Done(r)
    /\ UNCHANGED stored

\* `dead` carries the answer's `tombstoned`.
ServeChange(r) ==
    /\ r.kind \in {"edit", "remove"} /\ Serve(r) /\ Accepts(r)
    /\ rows' = IF r.kind = "remove" THEN Deleted(r.arg) ELSE rows
    /\ asks' = (asks \ {r}) \cup {[r EXCEPT !.stage = "done", !.dead = IF HasReplies(r.arg) THEN {r.arg} ELSE {}]}
    /\ UNCHANGED <<stored, pushes>>

ServeToggle(r) ==
    /\ r.kind \in Toggles /\ Serve(r)
    /\ stored' = [stored EXCEPT ![r.kind] = IF r.arg = 1 THEN @ \ {r.post} ELSE @ \cup {r.post}]
    /\ Done(r)
    /\ UNCHANGED <<rows, pushes>>

ServeOther(r) ==
    /\ r.kind \in {"publish", "delete"} /\ Serve(r)
    /\ Done(r)
    /\ UNCHANGED <<rows, stored, pushes>>

-----------------------------------------------------------------------------
(* The answer lands in the component, whatever its id is by now.           *)

\* An error: the request was refused, or was lost, or its answer was.
Fails(r) == MayFail \/ (r.stage = "asked" /\ ~Accepts(r))

Land(r) ==
    /\ asks' = asks \ {r}
    /\ UNCHANGED <<bound, id, visit, pressed, live, removed, rows, stored, pushes, lost, away>>

LandLoad(r) ==
    /\ r.kind = "load" /\ Land(r)
    /\ \/ r.stage = "done"
          /\ page' = [page EXCEPT !.post = r.post, !.comments = r.list, !.dead = r.dead, !.on = r.on,
                                  !.loading = FALSE, !.publishing = @ /\ r.arg = 0]
       \/ Fails(r)
          /\ page' = [page EXCEPT !.error = TRUE, !.loading = FALSE, !.publishing = @ /\ r.arg = 0]

\* Mutant: the box keeps its text.
LandWriteKeepsText(r) ==
    /\ r.kind \in Writes /\ r.stage = "done"
    /\ removed' = IF r.kind = "remove" /\ r.dead = {} THEN removed \cup {r.arg} ELSE removed
    /\ asks' = (asks \ {r}) \cup {Ask("refetch", id, 0, visit)}
    /\ UNCHANGED <<bound, id, visit, pressed, page, live, rows, stored, pushes, lost, away>>

\* A write that went through fetches the comments of the current id.
LandWrite(r) ==
    /\ r.kind \in Writes /\ r.stage = "done"
    /\ page' = IF r.kind = "comment" THEN [page EXCEPT !.text = 0] ELSE page
    /\ removed' = IF r.kind = "remove" /\ r.dead = {} THEN removed \cup {r.arg} ELSE removed
    /\ asks' = (asks \ {r}) \cup {Ask("refetch", id, 0, visit)}
    /\ UNCHANGED <<bound, id, visit, pressed, live, rows, stored, pushes, lost, away>>

LandRefetch(r) ==
    /\ r.kind = "refetch" /\ r.stage = "done" /\ Land(r)
    /\ page' = [page EXCEPT !.comments = r.list, !.dead = r.dead, !.posting = FALSE]

LandFailedWrite(r) ==
    /\ r.kind \in Writes \cup {"refetch"} /\ Fails(r)
    /\ page' = [page EXCEPT !.posting = FALSE]
    /\ lost' = IF r.kind = "comment" /\ r.stage = "done" THEN lost \cup {r.arg} ELSE lost
    /\ asks' = asks \ {r}
    /\ UNCHANGED <<bound, id, visit, pressed, live, removed, rows, stored, pushes, away>>

\* The rollback restores what the handler saw when it was pressed.
LandToggle(r) ==
    /\ r.kind \in Toggles /\ Land(r)
    /\ \/ r.stage = "done" /\ page' = [page EXCEPT !.busy[r.kind] = FALSE]
       \/ Fails(r) /\ page' = [page EXCEPT !.busy[r.kind] = FALSE, !.on[r.kind] = (r.arg = 1)]

LandPublish(r) ==
    /\ r.kind = "publish"
    /\ \/ /\ r.stage = "done"
          /\ page' = [page EXCEPT !.loading = TRUE, !.error = FALSE]
          /\ asks' = (asks \ {r}) \cup {Ask("load", id, 1, visit)}
       \/ /\ Fails(r)
          /\ page' = [page EXCEPT !.publishing = FALSE]
          /\ asks' = asks \ {r}
    /\ UNCHANGED <<bound, id, visit, pressed, live, removed, rows, stored, pushes, lost, away>>

LandDelete(r) ==
    /\ r.kind = "delete"
    /\ \/ r.stage = "done" /\ away' = TRUE
       \/ Fails(r) /\ UNCHANGED away
    /\ asks' = asks \ {r}
    /\ UNCHANGED <<bound, id, visit, pressed, page, live, removed, rows, stored, pushes, lost>>

-----------------------------------------------------------------------------

Next ==
    \/ \E p \in bound.posts : StepTo(p)
    \/ \E p \in bound.posts, c \in 0 .. Len(rows) : SomebodyComments(p, c)
    \/ \E c \in DOMAIN rows : SomebodyRemoves(c) \/ SubmitReply(c) \/ EditComment(c) \/ RemoveComment(c)
    \/ \E t \in Toggles : Toggle(t)
    \/ Deliver \/ SubmitComment \/ PublishDraft \/ DeletePost
    \/ \E r \in asks :
        \/ ServeRead(r) \/ ServeCreate(r) \/ ServeChange(r) \/ ServeToggle(r) \/ ServeOther(r)
        \/ LandLoad(r) \/ LandWrite(r) \/ LandRefetch(r) \/ LandFailedWrite(r)
        \/ LandToggle(r) \/ LandPublish(r) \/ LandDelete(r)

Spec == Init /\ [][Next]_postVars

-----------------------------------------------------------------------------
(* Properties.                                                             *)

\* The refs hold what the template expects of them, and each request in
\* flight is of a known kind and stage.
TypeOK ==
    /\ id \in bound.posts /\ visit \in 1 .. bound.visits /\ pressed \in 0 .. bound.presses
    /\ page.post \in bound.posts \cup {NoPost}
    /\ Range(page.comments) \cup Range(pushes) \cup removed \subseteq DOMAIN rows
    /\ page.posting = (\E r \in asks : r.kind \in Writes \cup {"refetch"})
    /\ \A t \in Toggles : page.busy[t] = (\E r \in asks : r.kind = t)
    /\ \A r \in asks : r.stage \in {"asked", "done"} /\ r.visit <= visit /\ r.post \in bound.posts

\* Whatever the order in which snapshots and live comments land, no comment
\* is on the page twice (PostView.vue, the merge of live comments).
NoDuplicateComments == IsInjective(page.comments)

\* A text the reader typed becomes one comment, also when the fetch after it
\* fails: only a create whose answer was lost can be sent again
\* (submitComment empties the box before it fetches).
CreatedOnce ==
    \A c, d \in DOMAIN rows :
        rows[c].draft = rows[d].draft /\ rows[c].draft \notin lost \cup {0} => c = d

\* A comment deleted from this page comes back only with a list from the
\* server, never because another live comment was merged (removedIds).
RemovedNotRevived ==
    [][\A c \in removed \cap (Range(page'.comments) \ Range(page.comments)) :
            \E r \in asks \ asks' : r.kind \in {"load", "refetch"}]_postVars

\* When nothing is on its way, a subscribed page shows every visible comment
\* of its post.  Does not hold: a list that was read before a live comment
\* was written overwrites it when it lands after it (PostView.vue:128).
NeverMissed ==
    asks = {} /\ pushes = <<>> /\ Shown => Range(Listed(id)) \subseteq Range(page.comments)

\* What is on screen is the post the buttons act on.  Does not hold: an
\* answer for the id before lands under the id after (PostView.vue:95).
ShowsItsPost == Shown => page.post = id

=============================================================================
