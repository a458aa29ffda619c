---------------------------- MODULE CommentThread ----------------------------
(***************************************************************************)
(* The thread of a post's comments as components/CommentThread.vue draws   *)
(* it, over every list that views/PostView.vue can hand to it.             *)
(***************************************************************************)
EXTENDS PostPage, SequencesExt

MaxDepth == 4

Parent(c) == rows[c].parent

\* One pass over the list: a parent that comes later still has depth 0.
Depth(list) ==
    FoldLeft(LAMBDA d, c : IF Parent(c) \notin ToSet(list) THEN d
                           ELSE [d EXCEPT ![c] = IF d[Parent(c)] < MaxDepth THEN d[Parent(c)] + 1 ELSE MaxDepth],
             [c \in ToSet(list) |-> 0], list)

\* Mutant: only comments that answer none are roots.
RootsByParent(list) == SelectSeq(list, LAMBDA c : Parent(c) = 0)

\* A reply whose parent is not listed is shown at the top level.
Roots(list) == SelectSeq(list, LAMBDA c : Parent(c) \notin ToSet(list))

Flat(list) ==
    LET Walk[c \in ToSet(list)] ==
            LET kids == SelectSeq(list, LAMBDA o : Parent(o) = c)
            IN <<c>> \o FlattenSeq([i \in DOMAIN kids |-> Walk[kids[i]]])
    IN FlattenSeq([i \in DOMAIN Roots(list) |-> Walk[Roots(list)[i]]])

\* What is drawn, one article per comment and in this order.
Drawn == Flat(page.comments)

-----------------------------------------------------------------------------
(* Properties.                                                             *)

\* The thread draws every comment of the list once, in whatever order and
\* with whatever parents missing they came (CommentThread's tree and flat).
EveryCommentDrawn ==
    IsInjective(Drawn) /\ ToSet(Drawn) = ToSet(page.comments)

\* A comment is indented one step further than the one it answers, up to the
\* cap.  Does not hold: "a parent is always seen before its children"
\* (CommentThread.vue:42) fails for lists merged from the socket.
IndentFollowsParent ==
    LET list == page.comments
    IN \A c \in ToSet(list) : Parent(c) \in ToSet(list) =>
            Depth(list)[c] = IF Depth(list)[Parent(c)] < MaxDepth THEN Depth(list)[Parent(c)] + 1 ELSE MaxDepth

=============================================================================
