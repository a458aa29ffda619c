------------------------------ MODULE Listings ------------------------------
(***************************************************************************)
(* Pages that show the answer to one question: the search                  *)
(* (views/SearchView.vue), a tag (views/TagView.vue), and those that are   *)
(* asked once: bookmarks, tags, and the posts related to a post, whose     *)
(* section (components/RelatedPosts.vue) goes when the post does.  The     *)
(* question is in the address and may change while a search or a tag is    *)
(* shown; neither looks whether the answer that comes is still the one     *)
(* that was asked for.                                                     *)
(*                                                                         *)
(* Abstracted: rows are the question they answer.                          *)
(***************************************************************************)
EXTENDS Naturals, FiniteSets

CONSTANTS
    Questions,   \* queries, slugs, ids
    NoQuestion,  \* '': a search for nothing
    NoRows,      \* []
    MaxMoves,    \* bound: changes of the question
    MaxAsks      \* bound: requests in flight at once

VARIABLES
    page,     \* which of the pages this is
    q,        \* the question
    rows,     \* hits, posts or tags
    label,    \* the search's lastQuery
    loading, error,
    asks,     \* requests in flight
    moves

listingVars == <<page, q, rows, label, loading, error, asks, moves>>

Pages == {"search", "tag", "related", "bookmarks", "tags"}

Ask(what) == [n |-> moves + 1, q |-> what]

Fresh == rows = NoRows /\ label = NoQuestion /\ error = FALSE /\ moves = 0

\* A page that is asked on mount.
Mounted == page \in Pages \ {"search"} /\ q \in Questions

\* The search is asked if the address has a query.
Searched == page = "search" /\ q \in Questions \cup {NoQuestion}

Init ==
    /\ Mounted \/ Searched
    /\ Fresh
    /\ loading = (q # NoQuestion)
    /\ asks = IF q = NoQuestion THEN {} ELSE {[n |-> 0, q |-> q]}

-----------------------------------------------------------------------------
(* Another question.                                                       *)

Move(what) == moves < MaxMoves /\ moves' = moves + 1 /\ what # q /\ q' = what /\ UNCHANGED page

Run(what) ==
    /\ loading' = TRUE /\ error' = FALSE
    /\ Cardinality(asks) < MaxAsks /\ asks' = asks \cup {Ask(what)}

\* Mutant: the line is written before the hits are there.
SearchLabelsFirst(what) == page = "search" /\ what # NoQuestion /\ Move(what) /\ Run(what) /\ label' = what /\ UNCHANGED rows

\* The line "n results for ..." waits for the hits.
Search(what) == page = "search" /\ what # NoQuestion /\ Move(what) /\ Run(what) /\ UNCHANGED <<rows, label>>

\* A search for nothing asks nobody.
SearchNothing ==
    /\ page = "search" /\ Move(NoQuestion)
    /\ rows' = NoRows /\ label' = NoQuestion
    /\ UNCHANGED <<loading, error, asks>>

ShowTag(what) == page = "tag" /\ what # NoQuestion /\ Move(what) /\ Run(what) /\ UNCHANGED <<rows, label>>

-----------------------------------------------------------------------------
(* The answers.                                                            *)

Land(r) == asks' = asks \ {r} /\ loading' = FALSE /\ UNCHANGED <<page, q, moves>>

LandHits(r) == page = "search" /\ Land(r) /\ rows' = r.q /\ label' = r.q /\ UNCHANGED error

LandTagged(r) == page = "tag" /\ Land(r) /\ rows' = r.q /\ UNCHANGED <<label, error>>

LandRelated(r) == page = "related" /\ Land(r) /\ rows' = r.q /\ UNCHANGED <<label, error>>

LandBookmarks(r) == page = "bookmarks" /\ Land(r) /\ rows' = r.q /\ UNCHANGED <<label, error>>

LandTags(r) == page = "tags" /\ Land(r) /\ rows' = r.q /\ UNCHANGED <<label, error>>

\* A search keeps the hits it had.
FailSearch(r) == page = "search" /\ Land(r) /\ error' = TRUE /\ UNCHANGED <<rows, label>>

\* A tag drops its rows, and says nothing of one that does not exist.
FailTag(r) == page = "tag" /\ Land(r) /\ error' \in {TRUE, FALSE} /\ rows' = NoRows /\ UNCHANGED label

\* Related posts say nothing at all.
FailRelated(r) == page = "related" /\ Land(r) /\ rows' = NoRows /\ UNCHANGED <<label, error>>

FailBookmarks(r) == page = "bookmarks" /\ Land(r) /\ error' = TRUE /\ UNCHANGED <<rows, label>>

FailTags(r) == page = "tags" /\ Land(r) /\ error' = TRUE /\ UNCHANGED <<rows, label>>

Next ==
    \/ \E what \in Questions : Search(what) \/ ShowTag(what)
    \/ SearchNothing
    \/ \E r \in asks :
        \/ LandHits(r) \/ LandTagged(r) \/ LandRelated(r) \/ LandBookmarks(r) \/ LandTags(r)
        \/ FailSearch(r) \/ FailTag(r) \/ FailRelated(r) \/ FailBookmarks(r) \/ FailTags(r)

Spec == Init /\ [][Next]_listingVars

-----------------------------------------------------------------------------
(* Properties.                                                             *)

\* A page is busy only while it is asked something, and an error is that of
\* a question.
TypeOK ==
    /\ rows \in Questions \cup {NoRows}
    /\ asks = {} => ~loading

\* The line over the hits names the query they are hits for, whatever was
\* typed, failed or cleared meanwhile (run sets the three together).
LabelIsOfTheHits == page = "search" => (rows = NoRows /\ label = NoQuestion) \/ label = rows

\* Rows answer the question in the address once nothing is asked for.  Does
\* not hold: the answer to an earlier question may come last
\* (SearchView.vue:30, TagView.vue:18).
RowsAnswerTheQuestion == asks = {} /\ ~error => rows \in {q, NoRows}

\* A search for nothing shows nothing.  Does not hold: the hits of the query
\* before arrive after it was cleared (SearchView.vue:20).
NothingAskedNothingShown == q = NoQuestion => rows = NoRows

=============================================================================
