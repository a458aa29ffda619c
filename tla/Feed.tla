-------------------------------- MODULE Feed --------------------------------
(***************************************************************************)
(* The endless feed: views/HomeView.vue asks for one page after another,   *)
(* each older than the last id it has, while posts are published (a draft  *)
(* has had its id since it was written), hidden and deleted.               *)
(*                                                                         *)
(* Abstracted: `posts` is a set of ids, drawn in the order of arrival;     *)
(* what scrolls the sentinel into view is left to the reader.              *)
(***************************************************************************)
EXTENDS Naturals, FiniteSets

CONSTANTS
    Ids,         \* ids posts can have
    PageSize,
    MaxChanges,  \* bound: posts published or taken down
    MaxFailures  \* bound: requests that fail

ASSUME FeedAssumption == Ids \subseteq Nat \ {0} /\ PageSize \in Nat \ {0}

VARIABLES
    public,   \* on the server: posts that are published and not hidden
    changes, failures,
    posts,    \* on the page
    cursor,   \* 0: null
    hasMore, loading,
    error,
    asks,     \* requests in flight
    always    \* posts that have been public since the page was mounted

feedVars == <<public, changes, failures, posts, cursor, hasMore, loading, error, asks, always>>

serverVars == <<public, changes, always>>

Ask(before) == [stage |-> "asked", before |-> before, page |-> {}, next |-> 0]

\* onMounted: loadMore
Init ==
    /\ public \in SUBSET Ids /\ always = public /\ changes = 0 /\ failures = 0
    /\ posts = {} /\ cursor = 0 /\ hasMore = TRUE
    /\ loading = TRUE /\ error = FALSE
    /\ asks = {Ask(0)}

-----------------------------------------------------------------------------
(* The page.                                                               *)

\* Mutant: `loading` is not looked at.
LoadMoreAgain ==
    /\ hasMore /\ Cardinality(asks) < 2
    /\ loading' = TRUE
    /\ asks' = asks \cup {Ask(cursor)}
    /\ UNCHANGED <<serverVars, failures, posts, cursor, hasMore, error>>

\* The observer saw the sentinel.
LoadMore ==
    /\ hasMore /\ ~loading
    /\ loading' = TRUE
    /\ asks' = asks \cup {Ask(cursor)}
    /\ UNCHANGED <<serverVars, failures, posts, cursor, hasMore, error>>

Land(r) ==
    /\ r.stage = "done"
    /\ asks' = asks \ {r} /\ loading' = FALSE
    /\ posts' = posts \cup r.page
    /\ IF r.next # 0 THEN cursor' = r.next /\ UNCHANGED hasMore ELSE hasMore' = FALSE /\ UNCHANGED cursor
    /\ UNCHANGED <<serverVars, failures, error>>

Fail(r) ==
    /\ failures < MaxFailures /\ failures' = failures + 1
    /\ asks' = asks \ {r} /\ loading' = FALSE
    /\ error' = TRUE /\ hasMore' = FALSE
    /\ UNCHANGED <<serverVars, posts, cursor>>

-----------------------------------------------------------------------------
(* The server.                                                             *)

Older(before) == {id \in public : before = 0 \/ id < before}

\* ORDER BY id DESC LIMIT: the newest of the rows, or all of them.
IsPage(page, rows) ==
    /\ \A id \in page, other \in rows \ page : other < id
    /\ IF Cardinality(rows) < PageSize THEN page = rows ELSE Cardinality(page) = PageSize

\* Mutant: a full page is taken for the last.
IsNextBeyond(next, page) ==
    IF Cardinality(page) > PageSize THEN next \in page /\ \A id \in page : next <= id ELSE next = 0

\* The cursor of a full page is its oldest id.
IsNext(next, page) ==
    IF Cardinality(page) = PageSize THEN next \in page /\ \A id \in page : next <= id ELSE next = 0

Serve(r) ==
    /\ r.stage = "asked"
    /\ \E page \in SUBSET Older(r.before), next \in Ids \cup {0} :
        /\ IsPage(page, Older(r.before)) /\ IsNext(next, page)
        /\ asks' = (asks \ {r}) \cup {[r EXCEPT !.stage = "done", !.page = page, !.next = next]}
    /\ UNCHANGED <<serverVars, failures, posts, cursor, hasMore, loading, error>>

Change == changes < MaxChanges /\ changes' = changes + 1 /\ UNCHANGED <<failures, posts, cursor, hasMore, loading, error, asks>>

Publish(id) == Change /\ id \notin public /\ public' = public \cup {id} /\ UNCHANGED always

TakeDown(id) == Change /\ id \in public /\ public' = public \ {id} /\ always' = always \ {id}

-----------------------------------------------------------------------------

Next ==
    \/ LoadMore
    \/ \E r \in asks : Serve(r) \/ Land(r) \/ Fail(r)
    \/ \E id \in Ids : Publish(id) \/ TakeDown(id)

\* The reader goes on scrolling and requests are answered.
Fairness == WF_feedVars(LoadMore) /\ WF_feedVars(\E r \in asks : Serve(r) \/ Land(r))

Spec == Init /\ [][Next]_feedVars /\ Fairness

-----------------------------------------------------------------------------
(* Properties.                                                             *)

\* The cursor is null or a post on the page, and nothing else is asked for.
TypeOK ==
    /\ always \subseteq public /\ public \subseteq Ids /\ posts \subseteq Ids
    /\ cursor \in {0} \cup posts
    /\ \A r \in asks : r.before \in {0} \cup posts /\ r.page \subseteq Ids

\* A feed that has come to its end without an error shows every post that was
\* there all along, whatever was published or taken down meanwhile
\* (loadMore and the cursor of getAllPosts).
NothingSkipped == ~hasMore /\ ~error => always \subseteq posts

\* A page only adds posts that are older than all those on the page: nothing
\* appears above what has been read, and nothing twice.
OlderOnly == [][\A new \in posts' \ posts, id \in posts : new < id]_feedVars

\* A reader who goes on scrolling comes to the end.
ComesToTheEnd == <>~hasMore

\* A post on the page that is published stays reachable by scrolling.  Does
\* not hold: the first error ends the feed for good (HomeView.vue:37).
EndIsTheEnd == ~hasMore => always \subseteq posts

=============================================================================
