--------------------------- MODULE CommentThreads ---------------------------
(***************************************************************************)
(* The comments under one post: createComment, updateComment and           *)
(* deleteComment of CommentController.cc, the part of deleteAccount that   *)
(* removes a person's words (AuthControllerPrivacy.cc), and the moderators *)
(* and author who hide or delete around them.  PostgreSQL runs every       *)
(* transaction READ COMMITTED: a statement sees what has committed when it *)
(* starts, waits for the rows other transactions have locked, and a        *)
(* deleted comment takes the replies under it along.                       *)
(* Notifications, which nothing here reads, are left out.                  *)
(***************************************************************************)
EXTENDS Integers

CONSTANTS
    Requests,      \* handlers that run at the same time
    Users, None,
    PostAuthor,
    MaxComments,   \* bound: comments ever written
    Hideable       \* bound: the comments moderators look at

ASSUME ThreadsAssumption ==
    MaxComments \in Nat /\ Hideable \subseteq Nat /\ PostAuthor \in Users /\ None \notin Users \cup Nat

VARIABLES
    post,      \* "shown", "hidden" (or withdrawn), "gone"
    comment,   \* the rows of comments
    erased,    \* users.deleted_at is set
    request    \* handlers, with what their transaction has written

vars == <<post, comment, erased, request>>

Comments == 1..MaxComments

Unwritten == [st |-> "none", author |-> None, parent |-> None, words |-> None, hidden |-> FALSE]
Gone == [Unwritten EXCEPT !.st = "gone"]

Idle == [pc |-> "idle", kind |-> "none", user |-> None, target |-> None,
         replied |-> FALSE, tomb |-> {}, gone |-> {}, dropsPost |-> FALSE]

Init ==
    /\ post = "shown"
    /\ comment = [c \in Comments |-> Unwritten]
    /\ erased = {}
    /\ request = [r \in Requests |-> Idle]

-----------------------------------------------------------------------------
Live(c) == comment[c].st = "live"
IsRow(c) == comment[c].st \in {"live", "tomb"}
Rows == {c \in Comments : IsRow(c)}
By(c, u) == comment[c].author = u
At(r, pc) == request[r].pc = pc
(* An erased user too: the sessions go only after the transaction.          *)
Start(r, q) == At(r, "idle") /\ request' = [request EXCEPT ![r] = q]
End(r) == request' = [request EXCEPT ![r] = Idle]

(* What r's transaction sees: its own deletions, and what has committed.    *)
Sees(r, c) == IsRow(c) /\ c \notin request[r].gone
HasReplies(r, c) == \E d \in Comments : Sees(r, d) /\ comment[d].parent = c

(* Mutant: the row is read, not locked.                                     *)
LockedByPlainSelect(r) == {}

(* Rows r keeps from a foreign-key check: FOR UPDATE, and what it deletes.  *)
LockedByDelete(r) == IF request[r].kind = "delete" THEN {request[r].target} ELSE {}
Exclusive(r) == LockedByDelete(r) \cup request[r].gone
(* Rows r keeps from another writer.                                        *)
Written(r) == Exclusive(r) \cup request[r].tomb

FreeToWrite(r, S) == \A s \in Requests \ {r} : S \cap Written(s) = {}
FreeToReplyTo(r, c) == \A s \in Requests \ {r} : c \notin Exclusive(s)
PostIsFree(r) == \A s \in Requests \ {r} : ~request[s].dropsPost

(* ON DELETE CASCADE of comments.parent_id: the least set that has S and    *)
(* the replies to its members.                                              *)
TakesReplies(r, T) == \A d \in Comments : Sees(r, d) /\ comment[d].parent \in T => d \in T
WithReplies(r, S) ==
    {c \in Comments : \A T \in SUBSET Comments : S \subseteq T /\ TakesReplies(r, T) => c \in T}

-----------------------------------------------------------------------------
(* createComment: the post is looked up, the parent is, the row goes in.    *)
LookUpPost(r, u, p) ==
    /\ post = "shown"
    /\ Start(r, [Idle EXCEPT !.pc = IF p = None THEN "insert" ELSE "parent",
                             !.kind = "comment", !.user = u, !.target = p])
    /\ UNCHANGED <<post, comment, erased>>

LookUpParent(r) ==
    /\ At(r, "parent")
    /\ LET p == request[r].target IN
       IF Live(p) /\ ~comment[p].hidden
       THEN request' = [request EXCEPT ![r].pc = "insert"]
       ELSE End(r)
    /\ UNCHANGED <<post, comment, erased>>

(* The INSERT locks the post and the parent FOR KEY SHARE, and fails when   *)
(* one of them is gone.                                                     *)
NextId(c) == comment[c].st = "none" /\ \A d \in Comments : comment[d].st = "none" => c <= d

Reply(r) ==
    /\ request[r].target # None =>
         IsRow(request[r].target) /\ FreeToReplyTo(r, request[r].target)
    /\ post # "gone"
    /\ \E c \in Comments :
         /\ NextId(c)
         /\ comment' = [comment EXCEPT ![c] =
              [st |-> "live", author |-> request[r].user, parent |-> request[r].target,
               words |-> "said", hidden |-> FALSE]]

Refused(r) ==
    /\ \/ post = "gone"
       \/ request[r].target # None /\ ~IsRow(request[r].target)
       \/ \A c \in Comments : comment[c].st # "none"
    /\ UNCHANGED comment

Insert(r) ==
    /\ At(r, "insert")
    /\ PostIsFree(r)
    /\ Reply(r) \/ Refused(r)
    /\ End(r)
    /\ UNCHANGED <<post, erased>>

(* updateComment: the owner is looked up, then the guards are repeated.     *)
LookUpToEdit(r, u, c) ==
    /\ Live(c) /\ By(c, u)
    /\ Start(r, [Idle EXCEPT !.pc = "edit", !.kind = "edit", !.user = u, !.target = c])
    /\ UNCHANGED <<post, comment, erased>>

(* Mutant: the UPDATE leaves the guards to the look.                        *)
EditUnguarded(r) ==
    /\ At(r, "edit")
    /\ LET c == request[r].target IN
       /\ FreeToWrite(r, {c})
       /\ comment' = IF IsRow(c) THEN [comment EXCEPT ![c].words = "said"] ELSE comment
    /\ End(r)
    /\ UNCHANGED <<post, erased>>

Edit(r) ==
    /\ At(r, "edit")
    /\ LET c == request[r].target IN
       /\ FreeToWrite(r, {c})
       /\ comment' = IF Live(c) THEN [comment EXCEPT ![c].words = "said"] ELSE comment
    /\ End(r)
    /\ UNCHANGED <<post, erased>>

-----------------------------------------------------------------------------
(* deleteComment: the row is locked, the replies are looked for, the row    *)
(* becomes a tombstone or goes, and the transaction commits.                *)
LockToDelete(r, u, c) ==
    /\ Live(c) /\ By(c, u)
    /\ FreeToWrite(r, {c})
    /\ Start(r, [Idle EXCEPT !.pc = "replies", !.kind = "delete", !.user = u, !.target = c])
    /\ UNCHANGED <<post, comment, erased>>

LookForReplies(r) ==
    /\ At(r, "replies")
    /\ request' = [request EXCEPT ![r].pc = "remove",
                                  ![r].replied = HasReplies(r, request[r].target)]
    /\ UNCHANGED <<post, comment, erased>>

Remove(r) ==
    /\ At(r, "remove")
    /\ LET c == request[r].target
           falls == IF request[r].replied THEN {} ELSE WithReplies(r, {c})
       IN /\ FreeToWrite(r, falls)
          /\ request' = [request EXCEPT ![r].pc = "commit", ![r].gone = falls,
                           ![r].tomb = IF request[r].replied THEN {c} ELSE {}]
    /\ UNCHANGED <<post, comment, erased>>

-----------------------------------------------------------------------------
(* deleteAccount: the posts go first, with every comment under them, then   *)
(* the person's comments that have replies become tombstones, the others    *)
(* go, and the account is anonymised by the commit.                         *)
ErasePosts(r, u) ==
    /\ LET drops == u = PostAuthor /\ post # "gone"
           falls == IF drops THEN Rows ELSE {}
       IN /\ drops => PostIsFree(r)
          /\ FreeToWrite(r, falls)
          /\ Start(r, [Idle EXCEPT !.pc = "tombs", !.kind = "erase", !.user = u,
                                   !.gone = falls, !.dropsPost = drops])
    /\ UNCHANGED <<post, comment, erased>>

Unburied(r) ==
    {c \in Comments : Live(c) /\ Sees(r, c) /\ By(c, request[r].user) /\ c \notin request[r].tomb}

EraseToTombstones(r) ==
    /\ At(r, "tombs")
    /\ LET stays == {c \in Unburied(r) : HasReplies(r, c)} IN
       /\ FreeToWrite(r, stays)
       /\ request' = [request EXCEPT ![r].pc = "rest", ![r].tomb = stays]
    /\ UNCHANGED <<post, comment, erased>>

EraseTheRest(r) ==
    /\ At(r, "rest")
    /\ LET falls == WithReplies(r, Unburied(r)) IN
       /\ FreeToWrite(r, falls)
       /\ request' = [request EXCEPT ![r].pc = "commit", ![r].gone = @ \cup falls]
    /\ UNCHANGED <<post, comment, erased>>

-----------------------------------------------------------------------------
(* What r's transaction has written takes effect.                           *)
Publish(r) ==
    /\ comment' = [c \in Comments |->
         IF c \in request[r].gone THEN Gone
         ELSE IF c \in request[r].tomb
         THEN [comment[c] EXCEPT !.st = "tomb", !.words = "[deleted]"]
         ELSE comment[c]]
    /\ post' = IF request[r].dropsPost THEN "gone" ELSE post

Commit(r) ==
    /\ At(r, "commit")
    /\ Publish(r)
    /\ erased' = IF request[r].kind = "erase" THEN erased \cup {request[r].user} ELSE erased
    /\ End(r)

(* Mutants: the destructor commits what was written; the locks stay.        *)
RollbackForgotten(r) ==
    /\ request[r].kind \in {"delete", "erase"}
    /\ Publish(r)
    /\ End(r)
    /\ UNCHANGED erased

RollbackKeepsLocks(r) ==
    /\ request[r].kind \in {"delete", "erase"}
    /\ request' = [request EXCEPT ![r].pc = "idle"]
    /\ UNCHANGED <<post, comment, erased>>

(* A statement or the commit fails: the transaction is rolled back.         *)
Rollback(r) ==
    /\ request[r].kind \in {"delete", "erase"}
    /\ End(r)
    /\ UNCHANGED <<post, comment, erased>>

-----------------------------------------------------------------------------
(* Single statements: deletePost, and a moderator's setHidden.              *)
DeletePost ==
    /\ post # "gone"
    /\ \A r \in Requests : Written(r) = {} /\ ~request[r].dropsPost
    /\ post' = "gone"
    /\ comment' = [c \in Comments |->
         IF IsRow(c) THEN Gone ELSE comment[c]]
    /\ UNCHANGED <<erased, request>>

SetPostHidden ==
    /\ post # "gone"
    /\ \A r \in Requests : ~request[r].dropsPost
    /\ post' = IF post = "shown" THEN "hidden" ELSE "shown"
    /\ UNCHANGED <<comment, erased, request>>

SetCommentHidden(c) ==
    /\ c \in Hideable
    /\ \A r \in Requests : c \notin Written(r)
    /\ comment' = [comment EXCEPT ![c].hidden = ~@]
    /\ UNCHANGED <<post, erased, request>>

Next ==
    \/ \E r \in Requests, u \in Users :
         \/ \E p \in Rows \cup {None} : LookUpPost(r, u, p)
         \/ \E c \in Rows : LookUpToEdit(r, u, c) \/ LockToDelete(r, u, c)
         \/ ErasePosts(r, u)
    \/ \E r \in Requests :
         \/ LookUpParent(r) \/ Insert(r) \/ Edit(r)
         \/ LookForReplies(r) \/ Remove(r)
         \/ EraseToTombstones(r) \/ EraseTheRest(r)
         \/ Commit(r) \/ Rollback(r)
    \/ DeletePost \/ SetPostHidden
    \/ \E c \in Rows : SetCommentHidden(c)

Spec == Init /\ [][Next]_vars

-----------------------------------------------------------------------------
Row == [st : {"none", "live", "tomb", "gone"}, author : Users \cup {None},
        parent : Comments \cup {None}, words : {None, "said", "[deleted]"}, hidden : BOOLEAN]

Handler == [pc : {"idle", "parent", "insert", "edit", "replies", "remove", "tombs", "rest", "commit"},
            kind : {"none", "comment", "edit", "delete", "erase"},
            user : Users \cup {None}, target : Comments \cup {None}, replied : BOOLEAN,
            tomb : SUBSET Comments, gone : SUBSET Comments, dropsPost : BOOLEAN]

(* Every variable has its type; a reply names an older comment, and a       *)
(* handler that has answered holds neither a lock nor a pending write       *)
(* (the transaction objects of deleteComment and deleteAccount).            *)
TypeOK ==
    /\ post \in {"shown", "hidden", "gone"}
    /\ comment \in [Comments -> Row] /\ erased \subseteq Users
    /\ request \in [Requests -> Handler]
    /\ \A c \in Comments : comment[c].parent # None => comment[c].parent < c
    /\ \A r \in Requests : At(r, "idle") => request[r] = Idle

Falls(c) == IsRow(c) /\ comment'[c].st = "gone"
ErasureCommits == \E r \in Requests : /\ At(r, "commit") /\ request[r].kind = "erase"
                                      /\ request'[r] = Idle

(* deleteComment never takes a reply along, whatever lands while it         *)
(* decides: unless the post goes or an erasure commits, the only row that   *)
(* disappears is the one its own author asked to delete.                    *)
RepliesSurviveDeletion ==
    [][post' = post /\ ~ErasureCommits =>
         \A c \in Comments : Falls(c) =>
           \E r \in Requests : /\ At(r, "commit") /\ request[r].kind = "delete"
                               /\ request[r].target = c /\ By(c, request[r].user)]_vars

(* A deletion stands: a tombstone never shows its author's words again,     *)
(* whatever edit was under way (the repeated guards of updateComment).      *)
DeletionStands ==
    [][\A c \in Comments : comment[c].st = "tomb" =>
         \/ comment'[c].st = "tomb" /\ comment'[c].words = "[deleted]"
         \/ comment'[c] = Gone]_vars

(* An erasure lands whole or not at all: the transaction that ends with the *)
(* account still there has touched neither comments nor posts.              *)
ErasureIsWhole ==
    [][\A r \in Requests : request[r].kind = "erase" /\ request'[r] = Idle =>
         request[r].user \in erased' \/ UNCHANGED <<comment, post>>]_vars

(* Erasing one account takes nobody else's replies on another's post        *)
(* (AuthControllerPrivacy.cc:466-470).                                      *)
OthersRepliesSurvive ==
    [][post' = post => \A c \in Comments :
         Falls(c) => \E u \in Users : By(c, u) /\
           (u \in erased' \/ \E r \in Requests : request[r].target = c /\ request[r].user = u)]_vars

(* A tombstone takes no new replies (CommentController.cc:237-239).         *)
TombstoneTakesNoReply ==
    [][\A c \in Comments :
         comment[c].st = "none" /\ comment'[c].st = "live" /\ comment'[c].parent # None =>
           comment[comment'[c].parent].st = "live"]_vars

(* An erased account has no words left (migrations/0015: erasure "deletes   *)
(* the content").                                                           *)
ErasedSaysNothing == \A c \in Comments : Live(c) => comment[c].author \notin erased

=============================================================================
