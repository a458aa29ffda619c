--------------------------- MODULE PostPublishing ---------------------------
(***************************************************************************)
(* The life of one post: the statements of PostController.cc's create,     *)
(* update and delete, run by handlers of several IO loops, and the sweep   *)
(* of helpers/Scheduler.cc, run by every process.  A statement is atomic;  *)
(* a handler is not.                                                       *)
(***************************************************************************)
EXTENDS Integers, FiniteSets

CONSTANTS
    Requests,        \* each runs once
    Sweepers,        \* the scheduler thread of each process
    Tags, None,
    Edits,           \* what the requests ask for
    Schedules,       \* what createPost may be asked for: "none", "future"
    MaxTags,         \* kMaxTagsPerPost
    StatementsFail   \* a statement may fail

VARIABLES
    post,        \* the row of posts
    tags,        \* post_tags
    request,     \* handlers: next statement, edit, isDraft, tags to insert
    sweep,       \* sweepers that published and have not announced
    published,   \* publications
    announced,   \* emitNewPostToFollowers that reached the followers
    lost         \* and those that failed, which is logged

told == <<announced, lost>>
vars == <<post, tags, request, sweep, published, told>>

Edit == [content : BOOLEAN, draft : {"absent", "true", "false"},
         tags : {None} \cup {T \in SUBSET Tags : Cardinality(T) <= MaxTags}]

ASSUME PublishingAssumption ==
    /\ Edits \subseteq Edit
    /\ Schedules \subseteq {"none", "future"} /\ StatementsFail \in BOOLEAN

Missing == [st |-> "missing", sched |-> "none", at |-> 0, content |-> None, excerpt |-> None]
Absent == [content |-> FALSE, draft |-> "absent", tags |-> None]

NoRequest == [pc |-> "idle", kind |-> "none", edit |-> Absent, draft |-> FALSE, todo |-> {}]

Exists == post.st \in {"draft", "live"}

Init ==
    /\ post = Missing
    /\ tags = {}
    /\ request = [r \in Requests |-> NoRequest]
    /\ sweep = {}
    /\ published = 0 /\ announced = 0 /\ lost = 0

-----------------------------------------------------------------------------
Goto(r, pc) == request' = [request EXCEPT ![r].pc = pc]
At(r, pc) == request[r].pc = pc

(* The next statement the edit asks for.                                    *)
AfterDraft(e) == IF e.tags # None THEN "deleteTags" ELSE "done"
AfterContent(e) == IF e.draft # "absent" THEN "isDraft" ELSE AfterDraft(e)

(* createPost tells the followers last, updatePost before the tags.         *)
AfterTags(q) == IF q.kind = "create" /\ ~q.draft THEN "announce" ELSE "done"
AfterAnnounce(q) == IF q.kind = "create" THEN "done" ELSE AfterDraft(q.edit)

(* published_at := now(), unless it is set.                                 *)
Publish ==
    /\ post' = [post EXCEPT !.st = "live",
                            !.at = IF post.st = "live" THEN @ ELSE published + 1]
    /\ published' = IF post.st = "live" THEN published ELSE published + 1

(* Any statement may fail.  syncPostTags and the notification say nothing;  *)
(* elsewhere the handler answers 500, and what it did stays.                *)
Fail(r) ==
    /\ StatementsFail
    /\ \/ request[r].pc \in {"content", "excerpt", "flip", "delete"} /\ Goto(r, "done")
       \/ request[r].pc \in {"deleteTags", "insertTag"} /\ Goto(r, AfterTags(request[r]))
       \/ At(r, "announce") /\ Goto(r, AfterAnnounce(request[r]))
    /\ lost' = IF At(r, "announce") THEN lost + 1 ELSE lost
    /\ UNCHANGED <<post, tags, sweep, published, announced>>

(* createPost: the INSERT.  The tags follow, and the followers if it is     *)
(* live; a draft and a schedule withhold it.                                *)
Create(r, e, s) ==
    /\ At(r, "idle") /\ post.st = "missing"
    /\ LET live == e.draft # "true" /\ s = "none" IN
       /\ post' = [st |-> IF live THEN "live" ELSE "draft", sched |-> s,
                   at |-> IF live THEN 1 ELSE 0, content |-> r, excerpt |-> r]
       /\ published' = IF live THEN 1 ELSE 0
       /\ request' = [request EXCEPT ![r] = [NoRequest EXCEPT !.pc = "deleteTags",
                               !.kind = "create", !.edit = e, !.draft = ~live]]
    /\ UNCHANGED <<tags, sweep, told>>

(* updatePost: the row is found, the author is its owner.                   *)
Load(r, e) ==
    /\ At(r, "idle") /\ Exists
    /\ request' = [request EXCEPT ![r] = [NoRequest EXCEPT
                      !.pc = IF e.content THEN "content" ELSE AfterContent(e),
                      !.kind = "update", !.edit = e]]
    /\ UNCHANGED <<post, tags, sweep, published, told>>

(* mapper.update writes the columns that changed.                           *)
StoreContent(r) ==
    /\ At(r, "content")
    /\ post' = IF Exists THEN [post EXCEPT !.content = r] ELSE post
    /\ Goto(r, "excerpt")
    /\ UNCHANGED <<tags, sweep, published, told>>

StoreExcerpt(r) ==
    /\ At(r, "excerpt")
    /\ post' = IF Exists THEN [post EXCEPT !.excerpt = r] ELSE post
    /\ Goto(r, AfterContent(request[r].edit))
    /\ UNCHANGED <<tags, sweep, published, told>>

(* isDraft answers FALSE when its statement fails or the row has gone.      *)
ReadDraft(r) ==
    /\ At(r, "isDraft")
    /\ \E d \in IF StatementsFail THEN {post.st = "draft", FALSE} ELSE {post.st = "draft"} :
          request' = [request EXCEPT ![r].draft = d, ![r].pc = "flip"]
    /\ UNCHANGED <<post, tags, sweep, published, told>>

(* Mutant: the date is that of the last request to publish.                 *)
FlipRestamps(r) ==
    /\ At(r, "flip") /\ request[r].draft /\ request[r].edit.draft = "false"
    /\ post' = IF Exists THEN [post EXCEPT !.st = "live", !.at = published + 1] ELSE post
    /\ published' = IF post.st = "draft" THEN published + 1 ELSE published
    /\ Goto(r, "announce")
    /\ UNCHANGED <<tags, sweep, told>>

(* Mutant: nobody is told of a draft that goes live.                        *)
FlipQuietly(r) ==
    /\ At(r, "flip") /\ request[r].draft /\ request[r].edit.draft = "false"
    /\ IF Exists THEN Publish ELSE UNCHANGED <<post, published>>
    /\ Goto(r, AfterDraft(request[r].edit))
    /\ UNCHANGED <<tags, sweep, told>>

Flip(r) ==
    /\ At(r, "flip") /\ request[r].draft /\ request[r].edit.draft = "false"
    /\ IF Exists THEN Publish ELSE UNCHANGED <<post, published>>
    /\ Goto(r, "announce")
    /\ UNCHANGED <<tags, sweep, told>>

(* Mutant: the post is a draft again, with its date.                        *)
WithdrawKeepsDate(r) ==
    /\ At(r, "flip") /\ ~request[r].draft /\ request[r].edit.draft = "true"
    /\ post' = IF Exists THEN [post EXCEPT !.st = "draft"] ELSE post
    /\ Goto(r, AfterDraft(request[r].edit))
    /\ UNCHANGED <<tags, sweep, published, told>>

Withdraw(r) ==
    /\ At(r, "flip") /\ ~request[r].draft /\ request[r].edit.draft = "true"
    /\ post' = IF Exists THEN [post EXCEPT !.st = "draft", !.at = 0] ELSE post
    /\ Goto(r, AfterDraft(request[r].edit))
    /\ UNCHANGED <<tags, sweep, published, told>>

FlipNothing(r) ==
    /\ At(r, "flip") /\ request[r].draft = (request[r].edit.draft = "true")
    /\ Goto(r, AfterDraft(request[r].edit))
    /\ UNCHANGED <<post, tags, sweep, published, told>>

(* emitNewPostToFollowers; a row that has gone refuses it.                  *)
Announce(r) ==
    /\ At(r, "announce")
    /\ announced' = IF Exists THEN announced + 1 ELSE announced
    /\ Goto(r, AfterAnnounce(request[r]))
    /\ UNCHANGED <<post, tags, sweep, published, lost>>

(* syncPostTags: everything is deleted, then inserted one by one.           *)
DeleteTags(r) ==
    /\ At(r, "deleteTags")
    /\ tags' = {}
    /\ LET new == IF request[r].edit.tags = None THEN {} ELSE request[r].edit.tags IN
       request' = [request EXCEPT ![r].todo = new,
                                  ![r].pc = IF new = {} THEN AfterTags(request[r])
                                            ELSE "insertTag"]
    /\ UNCHANGED <<post, sweep, published, told>>

InsertTag(r) ==
    /\ At(r, "insertTag")
    /\ \E t \in request[r].todo :
          /\ tags' = IF Exists THEN tags \cup {t} ELSE tags
          /\ request' = [request EXCEPT
                ![r].todo = @ \ {t},
                ![r].pc = IF request[r].todo = {t} \/ ~Exists THEN AfterTags(request[r])
                          ELSE @]
    /\ UNCHANGED <<post, sweep, published, told>>

(* deletePost, which cascades to the tags and the notifications.            *)
LoadToDelete(r) ==
    /\ At(r, "idle") /\ Exists
    /\ request' = [request EXCEPT ![r] = [NoRequest EXCEPT !.pc = "delete", !.kind = "delete"]]
    /\ UNCHANGED <<post, tags, sweep, published, told>>

Delete(r) ==
    /\ At(r, "delete")
    /\ post' = [Missing EXCEPT !.st = "deleted"]
    /\ tags' = {}
    /\ Goto(r, "done")
    /\ UNCHANGED <<sweep, published, told>>

NotFound(r) ==
    /\ At(r, "idle") /\ post.st = "deleted"
    /\ Goto(r, "done")
    /\ UNCHANGED <<post, tags, sweep, published, told>>

-----------------------------------------------------------------------------
TimePasses ==
    /\ post.sched = "future"
    /\ post' = [post EXCEPT !.sched = "due"]
    /\ UNCHANGED <<tags, request, sweep, published, told>>

(* publishDueNow: one statement publishes what is due and not yet live.     *)
Sweep(p) ==
    /\ p \notin sweep
    /\ post.st = "draft" /\ post.sched = "due"
    /\ post' = [post EXCEPT !.st = "live", !.at = published + 1, !.sched = "none"]
    /\ published' = published + 1
    /\ sweep' = sweep \cup {p}
    /\ UNCHANGED <<tags, request, told>>

(* A failed notification is not tried again: the row is live.               *)
AnnounceSweep(p) ==
    /\ p \in sweep
    /\ sweep' = sweep \ {p}
    /\ \/ announced' = (IF Exists THEN announced + 1 ELSE announced) /\ UNCHANGED lost
       \/ StatementsFail /\ lost' = lost + 1 /\ UNCHANGED announced
    /\ UNCHANGED <<post, tags, request, published>>

Settled == \A r \in Requests : At(r, "done")
Rest == Settled /\ sweep = {} /\ UNCHANGED vars

Step(r) ==
    \/ StoreContent(r) \/ StoreExcerpt(r) \/ ReadDraft(r)
    \/ Flip(r) \/ Withdraw(r) \/ FlipNothing(r) \/ Announce(r)
    \/ DeleteTags(r) \/ InsertTag(r) \/ Delete(r)

Next ==
    \/ \E r \in Requests :
          \/ \E e \in Edits : Load(r, e) \/ \E s \in Schedules : Create(r, e, s)
          \/ LoadToDelete(r) \/ NotFound(r) \/ Step(r) \/ Fail(r)
    \/ \E p \in Sweepers : Sweep(p) \/ AnnounceSweep(p)
    \/ TimePasses \/ Rest

Spec == Init /\ [][Next]_vars

(* Handlers run to their end, the sweeps come every minute, time passes.    *)
Fairness ==
    /\ \A r \in Requests : WF_vars(Step(r))
    /\ \A p \in Sweepers : WF_vars(AnnounceSweep(p)) /\ WF_vars(Sweep(p))
    /\ WF_vars(TimePasses)

FairSpec == Spec /\ Fairness

-----------------------------------------------------------------------------
TypeOK ==
    /\ post \in [st : {"missing", "draft", "live", "deleted"},
                 sched : {"none", "future", "due"}, at : Nat,
                 content : Requests \cup {None}, excerpt : Requests \cup {None}]
    /\ tags \subseteq Tags
    /\ request \in [Requests ->
          [pc : {"idle", "content", "excerpt", "isDraft", "flip", "announce",
                 "deleteTags", "insertTag", "delete", "done"},
           kind : {"none", "create", "update", "delete"},
           edit : Edits \cup {Absent}, draft : BOOLEAN, todo : SUBSET Tags]]
    /\ sweep \subseteq Sweepers
    /\ {published, announced, lost} \subseteq Nat
    /\ (post.st = "live") = (post.at > 0)

(* Scheduler.cc:28-31 and PostController.cc:1197-1200: followers hear of a  *)
(* publication once.                                                        *)
AnnouncedOncePerPublication == announced <= published

(* PostController.cc:1181-1183: what is live keeps its date, whoever asks   *)
(* to publish it again.                                                     *)
LivePostKeepsItsDate ==
    [][post.st = "live" /\ post'.st = "live" => post'.at = post.at]_vars

(* Every publication, by hand or by the sweep, reaches the followers: the   *)
(* post is deleted first, or the one attempt is seen to fail.               *)
PublicationIsAnnounced ==
    (announced + lost < published) ~> (announced + lost >= published \/ post.st = "deleted")

(* Scheduler.h:8-11: a sweep is "exactly the transition a manual publish    *)
(* makes": a schedule is used up when the post goes live.                   *)
LivePostIsNotScheduled == post.st = "live" => post.sched = "none"

(* PostController.cc:869-870: the excerpt is that of the content.           *)
ExcerptIsOfContent == Settled /\ ~StatementsFail => post.excerpt = post.content

(* PostMeta.cc:118-120: a post has at most kMaxTagsPerPost tags.            *)
TagsBounded == Cardinality(tags) <= MaxTags

=============================================================================
