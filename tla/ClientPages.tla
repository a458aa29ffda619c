----------------------------- MODULE ClientPages -----------------------------
(***************************************************************************)
(* All the pages and stores of the browser client, side by side: those of  *)
(* Pages, the conversations and the list of contents.  A behaviour is one  *)
(* of a single `part`, the others rest in their initial states.            *)
(***************************************************************************)
EXTENDS Pages

CONSTANTS
    Peers, TalkBounds,             \* Conversations: its Bounds
    Bases, MaxHeadings             \* Contents

VARIABLES
    talkBound, who, conv, talkAsks, marks, marked, reads, switches, talkRows, talkPushes, talkLost,
    headings, tocEntries, activeId, reading

talk == <<talkBound, who, conv, talkAsks, marks, marked, reads, switches, talkRows, talkPushes, talkLost>>
toc == <<headings, tocEntries, activeId, reading>>

Talk == INSTANCE Conversations WITH
    Owner <- "owner", Other <- "other", Bounds <- TalkBounds,
    bound <- talkBound, asks <- talkAsks, rows <- talkRows, pushes <- talkPushes, lost <- talkLost

Thread == INSTANCE CommentThread WITH
    Posts <- PostIds, Bounds <- PostBounds, MayFail <- TRUE,
    bound <- postBound, id <- postId, page <- postPage, asks <- postAsks, rows <- postRows, pushes <- postPushes,
    lost <- postLost

Toc == INSTANCE Contents WITH
    MinHeadings <- 3, entries <- tocEntries

-----------------------------------------------------------------------------

Parts == {"feed", "post", "editor", "security", "talk", "queue", "badge", "follow", "profile", "list", "draft",
          "token", "worker", "shell", "toc"}

PartsInit ==
    /\ part \in Parts
    /\ PagesInit
    /\ Talk!Init /\ Toc!Init

\* Every step is one of the behaviour's part.
PartsNext ==
    /\ PagesNext
    /\ IF part = "talk" THEN Talk!Next ELSE UNCHANGED talk
    /\ IF part = "toc" THEN Toc!Next ELSE UNCHANGED toc

partsVars == <<pagesVars, talk, toc>>

PartsSpec == PartsInit /\ [][PartsNext]_partsVars

-----------------------------------------------------------------------------
(* Properties.  Each is stated, and explained, in its own module; most     *)
(* come with Pages.                                                        *)

\* A list shows each of its rows once: the thread draws every comment that is
\* listed (CommentThread.vue); a conversation has each of its messages, in
\* order, and no badge only if nothing in it is unread (stores/messages.ts);
\* the contents list each heading and lead to it (TableOfContents.vue).  The type
\* invariants of the two parts that Pages does not have go along.
EveryRowOnce ==
    /\ part = "post" => Thread!EveryCommentDrawn
    /\ part = "talk" => Talk!TypeOK /\ Talk!RowsOnceInOrder /\ Talk!AllMessagesShown /\ Talk!UnreadNeverHidden
    /\ part = "toc" => Toc!TypeOK /\ Toc!EntriesLeadToTheirHeadings

=============================================================================
