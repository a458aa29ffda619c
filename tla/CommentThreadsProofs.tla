------------------------ MODULE CommentThreadsProofs ------------------------
(***************************************************************************)
(* Proofs about CommentThreads for any number of handlers, people and      *)
(* comments.                                                               *)
(***************************************************************************)
EXTENDS CommentThreads, TLAPS

(* Ids are given out in order.                                              *)
IdsAscend ==
    \A c, d \in Comments : comment[c].st = "none" /\ comment[d].st # "none" => d < c

(* A handler is what its next statement says, and names a comment that was  *)
(* written.                                                                 *)
KindOf(q) ==
    /\ q.pc \in {"parent", "insert"} => q.kind = "comment"
    /\ q.pc = "edit" => q.kind = "edit"
    /\ q.pc \in {"replies", "remove"} => q.kind = "delete"
    /\ q.pc \in {"tombs", "rest"} => q.kind = "erase"
    /\ q.pc = "commit" => q.kind \in {"delete", "erase"}
    /\ q.pc \in {"parent", "edit"} => q.target # None
    /\ q.pc # "idle" => q.user \in Users

HandlersKnow ==
    \A r \in Requests :
      /\ KindOf(request[r])
      /\ request[r].target # None => comment[request[r].target].st # "none"

(* No row is locked by two transactions.                                    *)
LocksDisjoint ==
    \A r, s \in Requests : r # s => Written(r) \cap Written(s) = {}

(* What a transaction has locked is still there.                            *)
LockedAreRows == \A r \in Requests : \A c \in Written(r) : IsRow(c)

(* The row a deletion has locked stays as the deletion found it.            *)
DeleterHolds ==
    \A r \in Requests : request[r].kind = "delete" =>
      /\ request[r].target \in Comments
      /\ Live(request[r].target) /\ By(request[r].target, request[r].user)
      /\ request[r].tomb \subseteq {request[r].target}
      /\ request[r].gone \subseteq {request[r].target}
      /\ request[r].pc # "commit" => request[r].gone = {}

(* And while it is locked nobody replies to it.                             *)
NoReplyArrives ==
    \A r \in Requests : At(r, "remove") /\ ~request[r].replied =>
      \A d \in Comments : IsRow(d) => comment[d].parent # request[r].target

WordsRemoved == \A c \in Comments : comment[c].st = "tomb" => comment[c].words = "[deleted]"

ThreadInv ==
    /\ TypeOK /\ IdsAscend /\ HandlersKnow
    /\ LocksDisjoint /\ LockedAreRows /\ DeleterHolds
    /\ NoReplyArrives /\ WordsRemoved

USE ThreadsAssumption

-----------------------------------------------------------------------------
LEMMA ThreadInit == Init => ThreadInv
BY DEF Init, ThreadInv, TypeOK, IdsAscend, HandlersKnow, KindOf, LocksDisjoint,
       LockedAreRows, DeleterHolds, NoReplyArrives, WordsRemoved, Written, Exclusive,
       LockedByDelete, At, Idle, Unwritten, Handler, Row, IsRow, Comments

(* A step that writes no row and takes handler r to q.                      *)
LEMMA HandlerStep ==
    ASSUME ThreadInv, NEW r \in Requests, NEW q \in Handler,
           UNCHANGED <<post, comment, erased>>,
           request' = [request EXCEPT ![r] = q],
           q.pc # "idle", KindOf(q),
           q.target # None => comment[q.target].st # "none",
           FreeToWrite(r, q.gone \cup q.tomb), \A c \in q.gone \cup q.tomb : IsRow(c),
           q.kind = "delete" => FreeToWrite(r, {q.target}),
           q.kind = "delete" =>
             /\ q.target \in Comments /\ Live(q.target) /\ By(q.target, q.user)
             /\ q.tomb \subseteq {q.target} /\ q.gone \subseteq {q.target}
             /\ q.pc # "commit" => q.gone = {},
           q.pc = "remove" /\ ~q.replied =>
             \A d \in Comments : IsRow(d) => comment[d].parent # q.target
    PROVE  ThreadInv'
<1>1. request'[r] = q /\ \A s \in Requests \ {r} : request'[s] = request[s]
  BY DEF ThreadInv, TypeOK
<1>2. TypeOK'
  BY <1>1 DEF ThreadInv, TypeOK, At
<1>3. IdsAscend' /\ WordsRemoved'
  BY DEF ThreadInv, IdsAscend, WordsRemoved
<1>4. HandlersKnow'
  BY <1>1 DEF ThreadInv, HandlersKnow, KindOf
<1>5. LocksDisjoint'
  <2>1. \A s \in Requests \ {r} : Written(s)' = Written(s)
    BY <1>1 DEF Written, Exclusive, LockedByDelete
  <2>2. Written(r)' = q.gone \cup q.tomb \cup (IF q.kind = "delete" THEN {q.target} ELSE {})
    BY <1>1 DEF Written, Exclusive, LockedByDelete
  <2>3. \A s \in Requests \ {r} : Written(r)' \cap Written(s) = {}
    BY <2>2 DEF FreeToWrite
  <2>4. QED
    BY <2>1, <2>3 DEF ThreadInv, LocksDisjoint
<1>6. LockedAreRows' /\ DeleterHolds'
  <2>1. LockedAreRows'
    BY <1>1 DEF ThreadInv, LockedAreRows, Written, Exclusive, LockedByDelete, IsRow, Live
  <2>2. DeleterHolds'
    BY <1>1 DEF ThreadInv, DeleterHolds, Live, By
  <2>3. QED
    BY <2>1, <2>2
<1>7. NoReplyArrives'
  BY <1>1 DEF ThreadInv, NoReplyArrives, IsRow, At
<1>8. QED
  BY <1>2, <1>3, <1>4, <1>5, <1>6, <1>7 DEF ThreadInv

(* A step that changes rows or takes some away, adds none, and leaves alone *)
(* those a deletion under way has locked.                                   *)
LEMMA RowStep ==
    ASSUME ThreadInv, post' \in {"shown", "hidden", "gone"}, erased' \subseteq Users,
           request' \in [Requests -> Handler],
           \A s \in Requests : request'[s] = request[s] \/ request'[s] = Idle,
           comment' \in [Comments -> Row],
           \A d \in Comments :
             /\ comment'[d].parent \in {None, comment[d].parent}
             /\ comment'[d].st = "none" <=> comment[d].st = "none"
             /\ IsRow(d)' => IsRow(d)
             /\ comment'[d].st = "tomb" => comment'[d].words = "[deleted]",
           \A s \in Requests : request'[s] = request[s] =>
             \A d \in Comments \cap Written(s) :
               comment'[d].st = comment[d].st /\ comment'[d].author = comment[d].author
    PROVE  ThreadInv'
<1>1. TypeOK'
  BY DEF ThreadInv, TypeOK, At, Idle
<1>2. IdsAscend' /\ WordsRemoved'
  BY DEF ThreadInv, IdsAscend, WordsRemoved
<1>3. HandlersKnow'
  <2> SUFFICES ASSUME NEW s \in Requests
               PROVE  /\ KindOf(request'[s])
                      /\ request'[s].target # None => comment'[request'[s].target].st # "none"
    BY DEF HandlersKnow, KindOf
  <2>1. CASE request'[s] = Idle
    BY <2>1 DEF KindOf, Idle
  <2>2. CASE request'[s] = request[s]
    BY <2>2 DEF ThreadInv, TypeOK, HandlersKnow, Handler
  <2>3. QED
    BY <2>1, <2>2
<1>4. LocksDisjoint'
  <2>1. \A s \in Requests : Written(s)' \subseteq Written(s)
    BY DEF Written, Exclusive, LockedByDelete, Idle
  <2>2. QED
    BY <2>1 DEF ThreadInv, LocksDisjoint
<1>5. LockedAreRows' /\ DeleterHolds'
  <2>1. \A s \in Requests : Written(s) \subseteq Comments
    BY DEF ThreadInv, TypeOK, Handler, DeleterHolds, Written, Exclusive, LockedByDelete
  <2>2. \A s \in Requests : request[s].kind = "delete" => request[s].target \in Written(s)
    BY DEF Written, Exclusive, LockedByDelete
  <2>3. LockedAreRows'
    BY <2>1 DEF ThreadInv, LockedAreRows, IsRow, Written, Exclusive, LockedByDelete, Idle
  <2>4. DeleterHolds'
    BY <2>1, <2>2 DEF ThreadInv, DeleterHolds, Idle, By, Live
  <2>5. QED
    BY <2>3, <2>4
<1>6. NoReplyArrives'
  <2> SUFFICES ASSUME NEW s \in Requests, At(s, "remove")', ~request'[s].replied,
                      NEW d \in Comments, IsRow(d)'
               PROVE  comment'[d].parent # request'[s].target
    BY DEF NoReplyArrives
  <2>1. request'[s] = request[s] /\ request[s].kind = "delete"
    BY DEF At, Idle, ThreadInv, HandlersKnow, KindOf
  <2>2. request[s].target \in Comments /\ comment[d].parent # request[s].target
    BY <2>1 DEF ThreadInv, DeleterHolds, NoReplyArrives, At
  <2>3. QED
    BY <2>1, <2>2 DEF Comments
<1>7. QED
  BY <1>1, <1>2, <1>3, <1>4, <1>5, <1>6 DEF ThreadInv

-----------------------------------------------------------------------------
(* What the handlers of createComment and updateComment preserve.           *)
LEMMA LookUpPostStep ==
    ASSUME ThreadInv, NEW r \in Requests, NEW u \in Users, NEW p \in Rows \cup {None},
           LookUpPost(r, u, p)
    PROVE  ThreadInv'
<1> DEFINE q == [Idle EXCEPT !.pc = IF p = None THEN "insert" ELSE "parent",
                             !.kind = "comment", !.user = u, !.target = p]
<1>1. q \in Handler /\ KindOf(q)
  BY DEF Idle, Handler, KindOf, Rows
<1>2. /\ q.pc \notin {"idle", "remove"} /\ q.kind = "comment" /\ q.gone = {} /\ q.tomb = {}
      /\ q.target # None => comment[q.target].st # "none"
  BY DEF Idle, Rows, IsRow
<1>3. request' = [request EXCEPT ![r] = q] /\ UNCHANGED <<post, comment, erased>>
  BY DEF LookUpPost, Start
<1>4. FreeToWrite(r, q.gone \cup q.tomb)
  BY <1>2 DEF FreeToWrite
<1> HIDE DEF q
<1>5. QED
  BY <1>1, <1>2, <1>3, <1>4, HandlerStep

(* A handler that ends leaves the others alone.                             *)
LEMMA EndingStep ==
    ASSUME ThreadInv, NEW r \in Requests, End(r)
    PROVE  /\ request' \in [Requests -> Handler]
           /\ request'[r] = Idle
           /\ \A s \in Requests \ {r} : request'[s] = request[s]
           /\ \A s \in Requests : request'[s] = request[s] \/ request'[s] = Idle
<1>1. Idle \in Handler
  BY DEF Idle, Handler
<1>2. QED
  BY <1>1 DEF End, ThreadInv, TypeOK

(* A handler that ends, having changed no row.                              *)
LEMMA EndStep ==
    ASSUME ThreadInv, NEW r \in Requests, End(r),
           UNCHANGED <<post, comment, erased>>
    PROVE  ThreadInv'
<1>3. post' \in {"shown", "hidden", "gone"} /\ erased' \subseteq Users /\ comment' \in [Comments -> Row]
  BY DEF ThreadInv, TypeOK
<1>4. \A d \in Comments : comment[d].st = "tomb" => comment[d].words = "[deleted]"
  BY DEF ThreadInv, WordsRemoved
<1>6. QED
  BY <1>3, <1>4, EndingStep, RowStep DEF IsRow

LEMMA LookUpParentStep ==
    ASSUME ThreadInv, NEW r \in Requests, LookUpParent(r)
    PROVE  ThreadInv'
<1>1. CASE End(r)
  BY <1>1, EndStep DEF LookUpParent
<1>2. CASE request' = [request EXCEPT ![r].pc = "insert"]
  <2> DEFINE q == [request[r] EXCEPT !.pc = "insert"]
  <2>1. request[r] \in Handler /\ request[r].kind = "comment" /\ request[r].user \in Users
    BY DEF ThreadInv, TypeOK, HandlersKnow, KindOf, LookUpParent, At
  <2>2. /\ q \in Handler /\ KindOf(q) /\ q.pc = "insert" /\ q.kind = "comment"
        /\ q.target = request[r].target /\ q.gone = request[r].gone /\ q.tomb = request[r].tomb
    BY <2>1 DEF Handler, KindOf
  <2>3. FreeToWrite(r, q.gone \cup q.tomb) /\ \A c \in q.gone \cup q.tomb : IsRow(c)
    BY <2>2 DEF ThreadInv, LocksDisjoint, LockedAreRows, FreeToWrite, Written, Exclusive
  <2>4. request' = [request EXCEPT ![r] = q] /\ UNCHANGED <<post, comment, erased>>
    BY <1>2 DEF LookUpParent
  <2>5. q.target # None => comment[q.target].st # "none"
    BY <2>2 DEF ThreadInv, HandlersKnow
  <2> HIDE DEF q
  <2>6. QED
    BY <2>2, <2>3, <2>4, <2>5, HandlerStep
<1>3. QED
  BY <1>1, <1>2 DEF LookUpParent

LEMMA LookUpToEditStep ==
    ASSUME ThreadInv, NEW r \in Requests, NEW u \in Users, NEW c \in Rows,
           LookUpToEdit(r, u, c)
    PROVE  ThreadInv'
<1> DEFINE q == [Idle EXCEPT !.pc = "edit", !.kind = "edit", !.user = u, !.target = c]
<1>0. c \in Comments /\ c # None
  BY DEF Rows, Comments
<1>1. q \in Handler /\ KindOf(q)
  BY <1>0 DEF Idle, Handler, KindOf
<1>2. /\ q.pc = "edit" /\ q.kind = "edit" /\ q.gone = {} /\ q.tomb = {}
      /\ comment[q.target].st # "none"
  BY DEF Idle, Rows, IsRow
<1>3. request' = [request EXCEPT ![r] = q] /\ UNCHANGED <<post, comment, erased>>
  BY DEF LookUpToEdit, Start
<1>4. FreeToWrite(r, q.gone \cup q.tomb)
  BY <1>2 DEF FreeToWrite
<1> HIDE DEF q
<1>5. QED
  BY <1>1, <1>2, <1>3, <1>4, HandlerStep

LEMMA EditStep ==
    ASSUME ThreadInv, NEW r \in Requests, Edit(r)
    PROVE  ThreadInv'
<1>1. CASE UNCHANGED comment
  BY <1>1, EndStep DEF Edit
<1>2. CASE Live(request[r].target) /\ comment' = [comment EXCEPT ![request[r].target].words = "said"]
  <2>1. End(r) /\ UNCHANGED <<post, erased>>
    BY DEF Edit
  <2>2. \A d \in Comments :
          /\ comment[d] \in Row /\ comment'[d] \in Row
          /\ comment'[d].st = comment[d].st /\ comment'[d].parent = comment[d].parent
          /\ comment'[d].author = comment[d].author
          /\ comment'[d].words = comment[d].words \/ comment[d].st = "live"
    BY <1>2 DEF ThreadInv, TypeOK, Row, Live
  <2>3. comment' \in [Comments -> Row]
    BY <1>2, <2>2 DEF ThreadInv, TypeOK
  <2>4. \A d \in Comments : comment'[d].st = "tomb" => comment'[d].words = "[deleted]"
    BY <2>2 DEF ThreadInv, WordsRemoved
  <2>6. post' \in {"shown", "hidden", "gone"} /\ erased' \subseteq Users
    BY <2>1 DEF ThreadInv, TypeOK
  <2>7. QED
    BY <2>1, <2>2, <2>3, <2>4, <2>6, EndingStep, RowStep DEF IsRow
<1>3. QED
  BY <1>1, <1>2 DEF Edit

(* createComment's INSERT adds one row, under no locked parent.             *)
LEMMA ReplyStep ==
    ASSUME ThreadInv, NEW r \in Requests, Insert(r), Reply(r)
    PROVE  ThreadInv'
<1> DEFINE p == request[r].target
<1> PICK c \in Comments :
      /\ NextId(c)
      /\ comment' = [comment EXCEPT ![c] =
           [st |-> "live", author |-> request[r].user, parent |-> p,
            words |-> "said", hidden |-> FALSE]]
  BY DEF Reply
<1>1. /\ End(r) /\ UNCHANGED <<post, erased>>
      /\ request[r] \in Handler /\ request[r].kind = "comment"
  BY DEF Insert, ThreadInv, TypeOK, HandlersKnow, KindOf, At
<1>2. /\ comment'[c] \in Row /\ comment'[c].st = "live" /\ comment'[c].parent = p
      /\ \A d \in Comments \ {c} : comment'[d] = comment[d] /\ comment[d] \in Row
      /\ comment' \in [Comments -> Row]
  BY <1>1 DEF ThreadInv, TypeOK, Row, Handler
<1>3. /\ p # None => p \in Comments /\ p < c /\ IsRow(p) /\ FreeToReplyTo(r, p)
      /\ comment[c].st = "none"
  BY <1>1 DEF ThreadInv, Handler, HandlersKnow, IdsAscend, NextId, Reply, IsRow
<1>4. TypeOK'
  BY <1>1, <1>2, <1>3, EndingStep, ZenonT(60) DEF ThreadInv, TypeOK, At, Idle
<1>5. IdsAscend'
  BY <1>2, <1>3 DEF ThreadInv, IdsAscend, NextId, Comments
<1>6. HandlersKnow'
  <2> SUFFICES ASSUME NEW s \in Requests
               PROVE  /\ KindOf(request'[s])
                      /\ request'[s].target # None => comment'[request'[s].target].st # "none"
    BY DEF HandlersKnow, KindOf
  <2>1. CASE s = r
    BY <1>1, <2>1, EndingStep DEF KindOf, Idle
  <2>2. CASE s # r
    BY <1>1, <1>2, <2>2, EndingStep DEF ThreadInv, TypeOK, HandlersKnow, Handler
  <2>3. QED
    BY <2>1, <2>2
<1>7. LocksDisjoint'
  <2>1. \A s \in Requests : Written(s)' \subseteq Written(s)
    BY <1>1, EndingStep DEF Written, Exclusive, LockedByDelete, Idle
  <2>2. QED
    BY <2>1 DEF ThreadInv, LocksDisjoint
<1>8. LockedAreRows' /\ DeleterHolds'
  <2>1. LockedAreRows'
    BY <1>1, <1>2, <1>3, EndingStep
       DEF ThreadInv, TypeOK, LockedAreRows, DeleterHolds, IsRow, Written, Exclusive,
           LockedByDelete, Idle, Handler
  <2>2. DeleterHolds'
    BY <1>1, <1>2, <1>3, EndingStep DEF ThreadInv, DeleterHolds, Idle, By, Live
  <2>3. QED
    BY <2>1, <2>2
<1>9. NoReplyArrives'
  <2> SUFFICES ASSUME NEW s \in Requests, At(s, "remove")', ~request'[s].replied,
                      NEW d \in Comments, IsRow(d)'
               PROVE  comment'[d].parent # request'[s].target
    BY DEF NoReplyArrives
  <2>1. s # r /\ request'[s] = request[s] /\ request[s].kind = "delete"
    BY <1>1, EndingStep DEF At, Idle, ThreadInv, HandlersKnow, KindOf
  <2>2. request[s].target \in Comments /\ request[s].target # None
    BY <2>1 DEF ThreadInv, DeleterHolds, Comments
  <2>3. CASE d = c
    BY <1>2, <1>3, <2>1, <2>2, <2>3 DEF FreeToReplyTo, Exclusive, LockedByDelete
  <2>4. CASE d # c
    BY <1>2, <2>1, <2>2, <2>4 DEF ThreadInv, NoReplyArrives, At, IsRow
  <2>5. QED
    BY <2>3, <2>4
<1>10. WordsRemoved'
  BY <1>2 DEF ThreadInv, WordsRemoved
<1>11. QED
  BY <1>4, <1>5, <1>6, <1>7, <1>8, <1>9, <1>10 DEF ThreadInv

LEMMA InsertStep ==
    ASSUME ThreadInv, NEW r \in Requests, Insert(r)
    PROVE  ThreadInv'
<1>1. CASE Reply(r)
  BY <1>1, ReplyStep
<1>2. CASE Refused(r)
  BY <1>2, EndStep DEF Insert, Refused
<1>3. QED
  BY <1>1, <1>2 DEF Insert

-----------------------------------------------------------------------------
(* What deleteComment and deleteAccount preserve until they commit.         *)
LEMMA LockToDeleteStep ==
    ASSUME ThreadInv, NEW r \in Requests, NEW u \in Users, NEW c \in Rows,
           LockToDelete(r, u, c)
    PROVE  ThreadInv'
<1> DEFINE q == [Idle EXCEPT !.pc = "replies", !.kind = "delete", !.user = u, !.target = c]
<1>1. c \in Comments /\ c # None
  BY DEF Rows, Comments
<1>2. q \in Handler /\ KindOf(q)
  BY <1>1 DEF Idle, Handler, KindOf
<1>3. /\ q.pc = "replies" /\ q.target = c /\ q.user = u /\ q.gone = {} /\ q.tomb = {}
      /\ comment[c].st # "none" /\ Live(c) /\ By(c, u) /\ FreeToWrite(r, {c})
  BY DEF Idle, LockToDelete, Live
<1>4. request' = [request EXCEPT ![r] = q] /\ UNCHANGED <<post, comment, erased>>
  BY DEF LockToDelete, Start
<1>5. FreeToWrite(r, q.gone \cup q.tomb)
  BY <1>3 DEF FreeToWrite
<1> HIDE DEF q
<1>6. QED
  BY <1>1, <1>2, <1>3, <1>4, <1>5, HandlerStep

LEMMA LookForRepliesStep ==
    ASSUME ThreadInv, NEW r \in Requests, LookForReplies(r)
    PROVE  ThreadInv'
<1> DEFINE c == request[r].target
           q == [request[r] EXCEPT !.pc = "remove", !.replied = HasReplies(r, c)]
<1>1. /\ request[r] \in Handler /\ request[r].kind = "delete" /\ request[r].pc = "replies"
      /\ c \in Comments /\ Live(c) /\ By(c, request[r].user)
      /\ request[r].tomb \subseteq {c} /\ request[r].gone = {} /\ request[r].user \in Users
  BY DEF ThreadInv, TypeOK, HandlersKnow, KindOf, LookForReplies, At, DeleterHolds
<1>2. HasReplies(r, c) \in BOOLEAN
  BY DEF HasReplies
<1>3. /\ q \in Handler /\ q.pc = "remove" /\ q.kind = "delete" /\ q.target = c
      /\ q.user = request[r].user /\ q.gone = {} /\ q.tomb = request[r].tomb
      /\ q.replied = HasReplies(r, c)
  BY <1>1, <1>2 DEF Handler
<1>4. KindOf(q)
  BY <1>1, <1>3 DEF KindOf
<1>5. request' = [request EXCEPT ![r] = q] /\ UNCHANGED <<post, comment, erased>>
  BY <1>1 DEF LookForReplies
<1>6. FreeToWrite(r, q.gone \cup q.tomb) /\ FreeToWrite(r, {c})
  BY <1>1, <1>3 DEF ThreadInv, LocksDisjoint, FreeToWrite, Written, Exclusive, LockedByDelete
<1>7. ~q.replied => \A d \in Comments : IsRow(d) => comment[d].parent # c
  BY <1>1, <1>3 DEF HasReplies, Sees
<1>8. IsRow(c) /\ comment[c].st # "none"
  BY <1>1 DEF Live, IsRow
<1> HIDE DEF q
<1>9. QED
  BY <1>1, <1>3, <1>4, <1>5, <1>6, <1>7, <1>8, HandlerStep

(* The cascade of a row nobody replies to is the row itself.                *)
LEMMA LoneRow ==
    ASSUME NEW r, NEW c \in Comments,
           \A d \in Comments : IsRow(d) => comment[d].parent # c
    PROVE  WithReplies(r, {c}) \subseteq {c}
<1>1. TakesReplies(r, {c})
  BY DEF TakesReplies, Sees
<1>2. QED
  BY <1>1 DEF WithReplies

(* A cascade takes rows only.                                               *)
LEMMA CascadeOfRows ==
    ASSUME NEW r, NEW S, \A c \in S : c \in Comments /\ Sees(r, c)
    PROVE  \A c \in WithReplies(r, S) : c \in Comments /\ IsRow(c)
<1> DEFINE T == {c \in Comments : Sees(r, c)}
<1>1. S \subseteq T /\ TakesReplies(r, T)
  BY DEF TakesReplies
<1>2. WithReplies(r, S) \subseteq T
  BY <1>1 DEF WithReplies
<1>3. QED
  BY <1>2 DEF Sees

LEMMA RemoveStep ==
    ASSUME ThreadInv, NEW r \in Requests, Remove(r)
    PROVE  ThreadInv'
<1> DEFINE c == request[r].target
           falls == IF request[r].replied THEN {} ELSE WithReplies(r, {c})
           buries == IF request[r].replied THEN {c} ELSE {}
           q == [request[r] EXCEPT !.pc = "commit", !.gone = falls, !.tomb = buries]
<1>1. /\ request[r] \in Handler /\ request[r].kind = "delete" /\ request[r].pc = "remove"
      /\ c \in Comments /\ Live(c) /\ By(c, request[r].user) /\ request[r].user \in Users
  BY DEF ThreadInv, TypeOK, HandlersKnow, KindOf, Remove, At, DeleterHolds
<1>2. falls \subseteq {c}
  BY <1>1, LoneRow DEF ThreadInv, NoReplyArrives, At
<1>3. buries \subseteq {c}
  OBVIOUS
<1>4. request' = [request EXCEPT ![r] = q] /\ UNCHANGED <<post, comment, erased>>
  BY <1>1 DEF Remove
<1> HIDE DEF falls, buries
<1>5. /\ q \in Handler /\ q.pc = "commit" /\ q.kind = "delete" /\ q.target = c
      /\ q.user = request[r].user /\ q.gone = falls /\ q.tomb = buries
  BY <1>1, <1>2, <1>3 DEF Handler
<1>6. KindOf(q)
  BY <1>1, <1>5 DEF KindOf
<1>7. FreeToWrite(r, q.gone \cup q.tomb) /\ FreeToWrite(r, {c})
  <2>1. FreeToWrite(r, {c})
    BY <1>1 DEF ThreadInv, LocksDisjoint, FreeToWrite, Written, Exclusive, LockedByDelete
  <2>2. QED
    BY <2>1, <1>2, <1>3, <1>5 DEF FreeToWrite
<1>8. IsRow(c) /\ comment[c].st # "none"
  BY <1>1 DEF Live, IsRow
<1> HIDE DEF q
<1>9. QED
  BY <1>1, <1>2, <1>3, <1>4, <1>5, <1>6, <1>7, <1>8, HandlerStep

LEMMA ErasePostsStep ==
    ASSUME ThreadInv, NEW r \in Requests, NEW u \in Users, ErasePosts(r, u)
    PROVE  ThreadInv'
<1> DEFINE drops == u = PostAuthor /\ post # "gone"
           falls == IF drops THEN Rows ELSE {}
           q == [Idle EXCEPT !.pc = "tombs", !.kind = "erase", !.user = u,
                             !.gone = falls, !.dropsPost = drops]
<1>1. falls \subseteq Comments /\ drops \in BOOLEAN /\ \A c \in falls : IsRow(c)
  BY DEF Rows
<1>2. /\ request' = [request EXCEPT ![r] = q] /\ UNCHANGED <<post, comment, erased>>
      /\ FreeToWrite(r, falls)
  BY DEF ErasePosts, Start
<1> HIDE DEF falls, drops
<1>3. /\ q \in Handler /\ q.pc = "tombs" /\ q.kind = "erase" /\ q.target = None
      /\ q.gone = falls /\ q.tomb = {} /\ q.user = u
  BY <1>1 DEF Handler, Idle
<1>4. KindOf(q)
  BY <1>3 DEF KindOf
<1>5. FreeToWrite(r, q.gone \cup q.tomb)
  BY <1>2, <1>3
<1> HIDE DEF q
<1>6. QED
  BY <1>1, <1>2, <1>3, <1>4, <1>5, HandlerStep

LEMMA EraseToTombstonesStep ==
    ASSUME ThreadInv, NEW r \in Requests, EraseToTombstones(r)
    PROVE  ThreadInv'
<1> DEFINE stays == {c \in Unburied(r) : HasReplies(r, c)}
           q == [request[r] EXCEPT !.pc = "rest", !.tomb = stays]
<1>1. /\ request[r] \in Handler /\ request[r].kind = "erase" /\ request[r].user \in Users
      /\ request[r].target # None => comment[request[r].target].st # "none"
  BY DEF ThreadInv, TypeOK, HandlersKnow, KindOf, EraseToTombstones, At
<1>2. /\ stays \subseteq Comments /\ \A c \in stays : IsRow(c)
      /\ \A c \in request[r].gone : IsRow(c)
  BY DEF Unburied, Live, IsRow, ThreadInv, LockedAreRows, Written, Exclusive
<1>3. /\ request' = [request EXCEPT ![r] = q] /\ UNCHANGED <<post, comment, erased>>
      /\ FreeToWrite(r, stays)
  BY <1>1 DEF EraseToTombstones
<1> HIDE DEF stays
<1>4. /\ q \in Handler /\ q.pc = "rest" /\ q.kind = "erase" /\ q.target = request[r].target
      /\ q.gone = request[r].gone /\ q.tomb = stays /\ q.user = request[r].user
  BY <1>1, <1>2 DEF Handler
<1>5. KindOf(q)
  BY <1>1, <1>4 DEF KindOf
<1>6. FreeToWrite(r, q.gone \cup q.tomb)
  <2>1. FreeToWrite(r, request[r].gone)
    BY DEF ThreadInv, LocksDisjoint, FreeToWrite, Written, Exclusive
  <2>2. QED
    BY <2>1, <1>3, <1>4 DEF FreeToWrite
<1> HIDE DEF q
<1>7. QED
  BY <1>1, <1>2, <1>3, <1>4, <1>5, <1>6, HandlerStep

LEMMA EraseTheRestStep ==
    ASSUME ThreadInv, NEW r \in Requests, EraseTheRest(r)
    PROVE  ThreadInv'
<1> DEFINE falls == WithReplies(r, Unburied(r))
           q == [request[r] EXCEPT !.pc = "commit", !.gone = @ \cup falls]
<1>1. /\ request[r] \in Handler /\ request[r].kind = "erase" /\ request[r].user \in Users
      /\ request[r].target # None => comment[request[r].target].st # "none"
  BY DEF ThreadInv, TypeOK, HandlersKnow, KindOf, EraseTheRest, At
<1>2. /\ falls \subseteq Comments /\ \A c \in falls : IsRow(c)
      /\ \A c \in request[r].gone \cup request[r].tomb : IsRow(c)
  <2>1. \A c \in Unburied(r) : c \in Comments /\ Sees(r, c)
    BY DEF Unburied
  <2>2. \A c \in falls : c \in Comments /\ IsRow(c)
    BY <2>1, CascadeOfRows
  <2>3. QED
    BY <2>2 DEF ThreadInv, LockedAreRows, Written, Exclusive
<1>3. /\ request' = [request EXCEPT ![r] = q] /\ UNCHANGED <<post, comment, erased>>
      /\ FreeToWrite(r, falls)
  BY <1>1 DEF EraseTheRest
<1> HIDE DEF falls
<1>4. /\ q \in Handler /\ q.pc = "commit" /\ q.kind = "erase" /\ q.target = request[r].target
      /\ q.gone = request[r].gone \cup falls /\ q.tomb = request[r].tomb /\ q.user = request[r].user
  BY <1>1, <1>2 DEF Handler
<1>5. KindOf(q)
  BY <1>1, <1>4 DEF KindOf
<1>6. FreeToWrite(r, q.gone \cup q.tomb)
  <2>1. FreeToWrite(r, request[r].gone \cup request[r].tomb)
    BY DEF ThreadInv, LocksDisjoint, FreeToWrite, Written, Exclusive
  <2>2. QED
    BY <2>1, <1>3, <1>4 DEF FreeToWrite
<1> HIDE DEF q
<1>7. QED
  BY <1>1, <1>2, <1>3, <1>4, <1>5, <1>6, HandlerStep

-----------------------------------------------------------------------------
(* What takes effect at a commit is in no other transaction's locks, so a   *)
(* deletion under way keeps its row.                                        *)
LEMMA CommitStep ==
    ASSUME ThreadInv, NEW r \in Requests, Commit(r)
    PROVE  ThreadInv'
<1>1. End(r) /\ Publish(r)
  BY DEF Commit
<1>2. request[r] \in Handler /\ request[r].user \in Users
  BY DEF Commit, ThreadInv, TypeOK, HandlersKnow, KindOf, At
<1>3. post' \in {"shown", "hidden", "gone"} /\ erased' \subseteq Users
  BY <1>1, <1>2 DEF Commit, Publish, ThreadInv, TypeOK
<1>4. \A d \in Comments :
        \/ d \in Written(r) /\ comment'[d] = Gone
        \/ comment'[d] = comment[d]
        \/ /\ d \in Written(r)
           /\ comment'[d] = [comment[d] EXCEPT !.st = "tomb", !.words = "[deleted]"]
  BY <1>1 DEF Publish, Written, Exclusive
<1>5. \A d \in Written(r) : IsRow(d)
  BY DEF ThreadInv, LockedAreRows
<1>6. \A d \in Comments :
        /\ comment'[d] \in Row
        /\ comment'[d].parent \in {None, comment[d].parent}
        /\ comment'[d].st = "none" <=> comment[d].st = "none"
        /\ comment'[d].st \in {"live", "tomb"} => IsRow(d)
        /\ comment'[d].st = "tomb" => comment'[d].words = "[deleted]"
        /\ d \notin Written(r) =>
             comment'[d].st = comment[d].st /\ comment'[d].author = comment[d].author
  <2> TAKE d \in Comments
  <2>1. /\ comment[d] \in Row
        /\ comment[d].st = "tomb" => comment[d].words = "[deleted]"
    BY DEF ThreadInv, TypeOK, WordsRemoved
  <2>2. CASE d \in Written(r) /\ comment'[d] = Gone
    BY <2>1, <2>2, <1>5 DEF Row, Gone, Unwritten, IsRow
  <2>3. CASE comment'[d] = comment[d]
    BY <2>1, <2>3 DEF IsRow
  <2>4. CASE /\ d \in Written(r)
             /\ comment'[d] = [comment[d] EXCEPT !.st = "tomb", !.words = "[deleted]"]
    BY <2>1, <2>4, <1>5 DEF Row, IsRow
  <2>5. QED
    BY <1>4, <2>2, <2>3, <2>4
<1>7. comment' \in [Comments -> Row]
  BY <1>1, <1>6 DEF Publish
<1>8. \A s \in Requests : request'[s] = request[s] =>
        \A d \in Comments \cap Written(s) :
          comment'[d].st = comment[d].st /\ comment'[d].author = comment[d].author
  <2>1. request'[r] # request[r]
    BY <1>1, EndingStep DEF Commit, At, Idle
  <2>2. QED
    BY <2>1, <1>6 DEF ThreadInv, LocksDisjoint
<1>9. QED
  BY <1>1, <1>3, <1>6, <1>7, <1>8, EndingStep, RowStep DEF IsRow

LEMMA DeletePostStep ==
    ASSUME ThreadInv, DeletePost
    PROVE  ThreadInv'
<1>1. /\ post' = "gone" /\ erased' \subseteq Users /\ request' = request
      /\ request' \in [Requests -> Handler]
      /\ \A r \in Requests : Written(r) = {}
  BY DEF DeletePost, ThreadInv, TypeOK
<1>2. \A d \in Comments :
        /\ comment'[d] \in Row
        /\ comment'[d].parent \in {None, comment[d].parent}
        /\ comment'[d].st = "none" <=> comment[d].st = "none"
        /\ ~IsRow(d)'
        /\ comment'[d].st # "tomb"
  BY DEF DeletePost, ThreadInv, TypeOK, Row, Gone, Unwritten, IsRow
<1>3. comment' \in [Comments -> Row]
  BY <1>2 DEF DeletePost
<1>4. QED
  BY <1>1, <1>2, <1>3, RowStep

LEMMA SetPostHiddenStep ==
    ASSUME ThreadInv, SetPostHidden
    PROVE  ThreadInv'
<1>1. /\ post' \in {"shown", "hidden"}
      /\ UNCHANGED <<comment, erased, request>>
  BY DEF SetPostHidden
<1>2. /\ erased' \subseteq Users /\ request' \in [Requests -> Handler]
      /\ comment' \in [Comments -> Row]
      /\ \A d \in Comments : comment[d].st = "tomb" => comment[d].words = "[deleted]"
  BY <1>1 DEF ThreadInv, TypeOK, WordsRemoved
<1>3. QED
  BY <1>1, <1>2, RowStep DEF IsRow

LEMMA SetCommentHiddenStep ==
    ASSUME ThreadInv, NEW c \in Rows, SetCommentHidden(c)
    PROVE  ThreadInv'
<1>1. UNCHANGED <<post, erased, request>> /\ c \in Comments
  BY DEF SetCommentHidden, Rows
<1>2. \A d \in Comments :
        /\ comment[d] \in Row /\ comment'[d] \in Row
        /\ comment'[d].st = comment[d].st /\ comment'[d].parent = comment[d].parent
        /\ comment'[d].author = comment[d].author /\ comment'[d].words = comment[d].words
  BY <1>1, ZenonT(60) DEF SetCommentHidden, ThreadInv, TypeOK, Row
<1>3. comment' \in [Comments -> Row]
  BY <1>2 DEF SetCommentHidden, ThreadInv, TypeOK
<1>4. /\ post' \in {"shown", "hidden", "gone"} /\ erased' \subseteq Users
      /\ request' \in [Requests -> Handler]
      /\ \A d \in Comments : comment'[d].st = "tomb" => comment'[d].words = "[deleted]"
  BY <1>1, <1>2 DEF ThreadInv, TypeOK, WordsRemoved
<1>5. QED
  BY <1>1, <1>2, <1>3, <1>4, RowStep DEF IsRow

-----------------------------------------------------------------------------
LEMMA ThreadNext == ThreadInv /\ [Next]_vars => ThreadInv'
<1> SUFFICES ASSUME ThreadInv, [Next]_vars
             PROVE  ThreadInv'
  OBVIOUS
<1>1. CASE UNCHANGED vars
  <2>1. UNCHANGED <<post, comment, erased, request>>
    BY <1>1 DEF vars
  <2>2. /\ post' \in {"shown", "hidden", "gone"} /\ erased' \subseteq Users
        /\ request' \in [Requests -> Handler] /\ comment' \in [Comments -> Row]
        /\ \A d \in Comments : comment[d].st = "tomb" => comment[d].words = "[deleted]"
    BY <2>1 DEF ThreadInv, TypeOK, WordsRemoved
  <2>3. QED
    BY <2>1, <2>2, RowStep DEF IsRow
<1>2. ASSUME NEW r \in Requests, NEW u \in Users, NEW p \in Rows \cup {None}, LookUpPost(r, u, p)
      PROVE  ThreadInv'
  BY <1>2, LookUpPostStep
<1>3. ASSUME NEW r \in Requests, NEW u \in Users, NEW c \in Rows,
             LookUpToEdit(r, u, c) \/ LockToDelete(r, u, c)
      PROVE  ThreadInv'
  BY <1>3, LookUpToEditStep, LockToDeleteStep
<1>4. ASSUME NEW r \in Requests, NEW u \in Users, ErasePosts(r, u)
      PROVE  ThreadInv'
  BY <1>4, ErasePostsStep
<1>5. ASSUME NEW r \in Requests, LookUpParent(r) \/ Insert(r) \/ Edit(r)
      PROVE  ThreadInv'
  BY <1>5, LookUpParentStep, InsertStep, EditStep
<1>6. ASSUME NEW r \in Requests, LookForReplies(r) \/ Remove(r)
      PROVE  ThreadInv'
  BY <1>6, LookForRepliesStep, RemoveStep
<1>7. ASSUME NEW r \in Requests, EraseToTombstones(r) \/ EraseTheRest(r)
      PROVE  ThreadInv'
  BY <1>7, EraseToTombstonesStep, EraseTheRestStep
<1>8. ASSUME NEW r \in Requests, Commit(r) \/ Rollback(r)
      PROVE  ThreadInv'
  BY <1>8, CommitStep, EndStep DEF Rollback
<1>9. CASE DeletePost \/ SetPostHidden
  BY <1>9, DeletePostStep, SetPostHiddenStep
<1>10. ASSUME NEW c \in Rows, SetCommentHidden(c)
       PROVE  ThreadInv'
  BY <1>10, SetCommentHiddenStep
<1>11. QED
  BY <1>1, <1>2, <1>3, <1>4, <1>5, <1>6, <1>7, <1>8, <1>9, <1>10 DEF Next

(* The invariant holds in every behaviour.                                  *)
THEOREM ThreadInvariant == Spec => []ThreadInv
<1>1. Init => ThreadInv
  BY ThreadInit
<1>2. ThreadInv /\ [Next]_vars => ThreadInv'
  BY ThreadNext
<1>3. QED
  BY <1>1, <1>2, PTL DEF Spec

(* Type correctness, of the rows and of every transaction under way.        *)
THEOREM ThreadTypeCorrect == Spec => []TypeOK
<1>1. ThreadInv => TypeOK
  BY DEF ThreadInv
<1>2. QED
  BY <1>1, ThreadInvariant, PTL

-----------------------------------------------------------------------------
(* The steps that change a row.                                             *)
LEMMA RowChanges ==
    ASSUME ThreadInv, Next, comment' # comment
    PROVE  \/ \E r \in Requests : Insert(r) /\ Reply(r)
           \/ \E r \in Requests : Edit(r) /\ Live(request[r].target) /\
                comment' = [comment EXCEPT ![request[r].target].words = "said"]
           \/ \E r \in Requests : Commit(r)
           \/ DeletePost
           \/ \E c \in Rows : SetCommentHidden(c)
BY DEF Next, LookUpPost, LookUpParent, LookUpToEdit, LockToDelete, LookForReplies, Remove,
       ErasePosts, EraseToTombstones, EraseTheRest, Rollback, SetPostHidden, Insert, Refused, Edit

(* The row a reply takes was not written before.                            *)
LEMMA ReplyAddsOne ==
    ASSUME ThreadInv, NEW r, Reply(r)
    PROVE  \A d \in Comments : comment[d].st # "none" => comment'[d] = comment[d]
BY DEF ThreadInv, TypeOK, Reply, NextId

LEMMA EditKeepsState ==
    ASSUME ThreadInv, NEW c, Live(c), comment' = [comment EXCEPT ![c].words = "said"]
    PROVE  \A d \in Comments : /\ comment'[d].st = comment[d].st
                               /\ comment[d].st = "tomb" => comment'[d] = comment[d]
BY DEF ThreadInv, TypeOK, Row, Live

LEMMA HidingKeepsState ==
    ASSUME ThreadInv, NEW c, SetCommentHidden(c)
    PROVE  \A d \in Comments : comment'[d].st = comment[d].st /\ comment'[d].words = comment[d].words
BY DEF ThreadInv, TypeOK, Row, SetCommentHidden

(* deleteComment never takes a reply along, for any number of handlers,     *)
(* whatever each of them is doing.                                          *)
THEOREM RepliesAreKept == Spec => RepliesSurviveDeletion
<1>1. ASSUME ThreadInv, [Next]_vars, post' = post, ~ErasureCommits,
             NEW c \in Comments, Falls(c)
      PROVE  \E r \in Requests : /\ At(r, "commit") /\ request[r].kind = "delete"
                                 /\ request[r].target = c /\ By(c, request[r].user)
  <2>1. comment' # comment /\ Next
    BY <1>1 DEF Falls, IsRow, vars
  <2>2. ~DeletePost
    BY <1>1 DEF DeletePost
  <2>3. \A r \in Requests : ~Reply(r)
    BY <1>1, ReplyAddsOne DEF Falls, IsRow
  <2>4. \A d : ~(Live(d) /\ comment' = [comment EXCEPT ![d].words = "said"])
    BY <1>1, EditKeepsState DEF Falls, IsRow
  <2>5. \A d : ~SetCommentHidden(d)
    BY <1>1, HidingKeepsState DEF Falls, IsRow
  <2>6. PICK r \in Requests : Commit(r)
    BY <1>1, <2>1, <2>2, <2>3, <2>4, <2>5, RowChanges
  <2>7. End(r) /\ Publish(r) /\ At(r, "commit")
    BY <2>6 DEF Commit
  <2>8. request[r].kind = "delete"
    <3>1. request[r].kind \in {"delete", "erase"}
      BY <1>1, <2>7 DEF ThreadInv, HandlersKnow, KindOf, At
    <3>2. request[r].kind # "erase"
      BY <1>1, <2>7, EndingStep DEF ErasureCommits
    <3>3. QED
      BY <3>1, <3>2
  <2>9. c \in request[r].gone
    BY <1>1, <2>7 DEF Publish, Falls, IsRow, ThreadInv, TypeOK, Row
  <2>10. request[r].target = c /\ By(c, request[r].user)
    BY <1>1, <2>8, <2>9 DEF ThreadInv, DeleterHolds
  <2>11. QED
    BY <2>7, <2>8, <2>10
<1>2. ThreadInv /\ [Next]_vars =>
        [post' = post /\ ~ErasureCommits =>
           \A c \in Comments : Falls(c) =>
             \E r \in Requests : /\ At(r, "commit") /\ request[r].kind = "delete"
                                 /\ request[r].target = c /\ By(c, request[r].user)]_vars
  BY <1>1
<1>3. QED
  BY <1>2, ThreadInvariant, PTL DEF Spec, RepliesSurviveDeletion

(* A tombstone never shows its author's words again.                        *)
THEOREM DeletionIsFinal == Spec => DeletionStands
<1>1. ASSUME ThreadInv, [Next]_vars, NEW c \in Comments, comment[c].st = "tomb"
      PROVE  \/ comment'[c].st = "tomb" /\ comment'[c].words = "[deleted]"
             \/ comment'[c] = Gone
  <2>1. comment[c].words = "[deleted]" /\ comment[c] \in Row
    BY <1>1 DEF ThreadInv, WordsRemoved, TypeOK
  <2>2. CASE comment' = comment
    BY <1>1, <2>1, <2>2
  <2>3. ASSUME NEW r \in Requests, Reply(r)
        PROVE  comment'[c] = comment[c]
    BY <1>1, <2>3, ReplyAddsOne
  <2>4. ASSUME NEW d, Live(d), comment' = [comment EXCEPT ![d].words = "said"]
        PROVE  comment'[c] = comment[c]
    BY <1>1, <2>4, EditKeepsState
  <2>5. ASSUME NEW r \in Requests, Commit(r)
        PROVE  \/ comment'[c].st = "tomb" /\ comment'[c].words = "[deleted]"
               \/ comment'[c] = Gone
    BY <1>1, <2>1, <2>5 DEF Commit, Publish, Row
  <2>6. DeletePost => comment'[c] = Gone
    BY <1>1 DEF DeletePost, IsRow
  <2>7. ASSUME NEW d \in Rows, SetCommentHidden(d)
        PROVE  comment'[c].st = "tomb" /\ comment'[c].words = "[deleted]"
    BY <1>1, <2>1, <2>7, HidingKeepsState
  <2>8. comment' # comment => Next
    BY <1>1 DEF vars
  <2>9. QED
    BY <1>1, <2>1, <2>2, <2>3, <2>4, <2>5, <2>6, <2>7, <2>8, RowChanges
<1>2. ThreadInv /\ [Next]_vars =>
        [\A c \in Comments : comment[c].st = "tomb" =>
           \/ comment'[c].st = "tomb" /\ comment'[c].words = "[deleted]"
           \/ comment'[c] = Gone]_vars
  BY <1>1
<1>3. QED
  BY <1>2, ThreadInvariant, PTL DEF Spec, DeletionStands

(* An erasure lands whole or not at all.                                    *)
THEOREM ErasureIsAtomic == Spec => ErasureIsWhole
<1>1. ASSUME ThreadInv, [Next]_vars, NEW r \in Requests,
             request[r].kind = "erase", request'[r] = Idle
      PROVE  request[r].user \in erased' \/ UNCHANGED <<comment, post>>
  <2>1. request'[r] # request[r] /\ Next
    BY <1>1 DEF vars, Idle
  <2>2. request[r].pc \in {"tombs", "rest", "commit"}
    BY <1>1 DEF ThreadInv, TypeOK, HandlersKnow, KindOf, Handler, At, Idle
  <2>5. ~(DeletePost \/ SetPostHidden \/ \E c \in Rows : SetCommentHidden(c))
    BY <2>1 DEF DeletePost, SetPostHidden, SetCommentHidden
  <2>6. PICK s \in Requests :
          \/ \E u \in Users :
               \/ \E p \in Rows \cup {None} : LookUpPost(s, u, p)
               \/ \E c \in Rows : LookUpToEdit(s, u, c) \/ LockToDelete(s, u, c)
               \/ ErasePosts(s, u)
          \/ LookUpParent(s) \/ Insert(s) \/ Edit(s) \/ LookForReplies(s) \/ Remove(s)
          \/ EraseToTombstones(s) \/ EraseTheRest(s) \/ Commit(s) \/ Rollback(s)
    BY <2>1, <2>5 DEF Next
  <2>7. s = r
    <3> SUFFICES ASSUME s # r
                 PROVE  request'[r] = request[r]
      BY <2>1
    <3>0. request \in [Requests -> Handler]
      BY <1>1 DEF ThreadInv, TypeOK
    <3>1. ASSUME NEW q, Start(s, q)
          PROVE  request'[r] = request[r]
      BY <3>1 DEF Start
    <3>2. End(s) => request'[r] = request[r]
      BY DEF End
    <3>3. LookUpParent(s) => request'[r] = request[r]
      BY <3>0, <3>2 DEF LookUpParent
    <3>4. LookForReplies(s) \/ Remove(s) \/ EraseToTombstones(s) \/ EraseTheRest(s)
            => request'[r] = request[r]
      BY <3>0
         DEF LookForReplies, Remove, EraseToTombstones, EraseTheRest
    <3>5. Insert(s) \/ Edit(s) \/ Commit(s) \/ Rollback(s) => request'[r] = request[r]
      BY <3>2 DEF Insert, Edit, Commit, Rollback
    <3>6. ASSUME NEW u \in Users, NEW p \in Rows \cup {None}, LookUpPost(s, u, p)
          PROVE  request'[r] = request[r]
      BY <3>1, <3>6 DEF LookUpPost
    <3>7. ASSUME NEW u \in Users, NEW c \in Rows, LookUpToEdit(s, u, c) \/ LockToDelete(s, u, c)
          PROVE  request'[r] = request[r]
      BY <3>1, <3>7 DEF LookUpToEdit, LockToDelete
    <3>8. ASSUME NEW u \in Users, ErasePosts(s, u)
          PROVE  request'[r] = request[r]
      BY <3>1, <3>8 DEF ErasePosts
    <3>9. QED
      BY <2>6, <3>3, <3>4, <3>5, <3>6, <3>7, <3>8
  <2>8. Commit(r) \/ Rollback(r) \/ EraseToTombstones(r) \/ EraseTheRest(r)
    <3>1. ~(At(r, "idle") \/ At(r, "parent") \/ At(r, "insert") \/ At(r, "edit")
              \/ At(r, "replies") \/ At(r, "remove"))
      BY <2>2 DEF At
    <3>2. QED
      BY <3>1, <2>6, <2>7
         DEF LookUpPost, LookUpToEdit, LockToDelete, ErasePosts, LookUpParent, Insert, Edit,
             LookForReplies, Remove, Start
  <2>9. request[r] \in Handler
    BY <1>1 DEF ThreadInv, TypeOK
  <2>10. ~EraseToTombstones(r)
    BY <1>1, <2>9 DEF EraseToTombstones, ThreadInv, TypeOK, Handler, Idle
  <2>11. ~EraseTheRest(r)
    BY <1>1, <2>9 DEF EraseTheRest, ThreadInv, TypeOK, Handler, Idle
  <2>12. QED
    BY <1>1, <2>8, <2>10, <2>11 DEF Commit, Rollback
<1>2. ThreadInv /\ [Next]_vars =>
        [\A r \in Requests : request[r].kind = "erase" /\ request'[r] = Idle =>
           request[r].user \in erased' \/ UNCHANGED <<comment, post>>]_vars
  BY <1>1
<1>3. QED
  BY <1>2, ThreadInvariant, PTL DEF Spec, ErasureIsWhole
=============================================================================
