------------------------ MODULE PostPublishingProofs ------------------------
(***************************************************************************)
(* What PostPublishing promises for any requests, processes, tags and      *)
(* failures: its types, that a live post keeps its date, and that every    *)
(* publication is announced, seen to fail, or still owed by a handler or a *)
(* sweep that has to go on.                                                *)
(***************************************************************************)
EXTENDS PostPublishing, FiniteSetTheorems, TLAPS

USE PublishingAssumption

PCs == {"idle", "content", "excerpt", "isDraft", "flip", "announce",
        "deleteTags", "insertTag", "delete", "done"}

RequestRecord == [pc : PCs, kind : {"none", "create", "update", "delete"},
                  edit : Edits \cup {Absent}, draft : BOOLEAN, todo : SUBSET Tags]

PostRecord == [st : {"missing", "draft", "live", "deleted"},
               sched : {"none", "future", "due"}, at : Nat,
               content : Requests \cup {None}, excerpt : Requests \cup {None}]

DatedIffLive(p) == (p.st = "live") = (p.at > 0)

(* TypeOK, in the pieces that one step changes.                             *)
LEMMA Types ==
    TypeOK <=> /\ post \in PostRecord /\ DatedIffLive(post)
               /\ tags \subseteq Tags
               /\ request \in [Requests -> RequestRecord]
               /\ sweep \subseteq Sweepers
               /\ published \in Nat /\ announced \in Nat /\ lost \in Nat
BY DEF TypeOK, PostRecord, RequestRecord, PCs, DatedIffLive

-----------------------------------------------------------------------------
LEMMA NewRecords ==
    /\ NoRequest \in RequestRecord /\ NoRequest.pc = "idle"
    /\ Missing \in PostRecord /\ DatedIffLive(Missing)
    /\ [Missing EXCEPT !.st = "deleted"] \in PostRecord
    /\ DatedIffLive([Missing EXCEPT !.st = "deleted"])
BY DEF NoRequest, RequestRecord, PCs, Missing, PostRecord, DatedIffLive

(* Where the handlers go next.                                              *)
LEMMA NextPlaces ==
    ASSUME NEW e, NEW q
    PROVE /\ AfterDraft(e) \in {"deleteTags", "done"}
          /\ AfterContent(e) \in {"isDraft", "deleteTags", "done"}
          /\ AfterTags(q) \in {"announce", "done"}
          /\ AfterAnnounce(q) \in {"deleteTags", "done"}
          /\ q.kind = "create" => AfterAnnounce(q) = "done"
          /\ AfterTags(q) = "announce" <=> q.kind = "create" /\ ~q.draft
BY DEF AfterDraft, AfterContent, AfterTags, AfterAnnounce

(* A handler that only goes on.                                             *)
LEMMA GoesOn ==
    ASSUME NEW r \in Requests, NEW pc \in PCs, Goto(r, pc),
           request \in [Requests -> RequestRecord]
    PROVE /\ request' \in [Requests -> RequestRecord]
          /\ request'[r].pc = pc /\ request'[r].kind = request[r].kind
          /\ request'[r].draft = request[r].draft
          /\ \A v \in Requests \ {r} : request'[v] = request[v]
BY DEF Goto, RequestRecord

(* A handler that starts.                                                   *)
LEMMA Starts ==
    ASSUME NEW r \in Requests, NEW pc \in PCs, NEW e \in Edits,
           NEW kind \in {"create", "update", "delete"}, NEW d \in BOOLEAN
    PROVE /\ [NoRequest EXCEPT !.pc = pc, !.kind = kind, !.edit = e] \in RequestRecord
          /\ [NoRequest EXCEPT !.pc = pc, !.kind = kind] \in RequestRecord
          /\ [NoRequest EXCEPT !.pc = pc, !.kind = kind, !.edit = e, !.draft = d]
                \in RequestRecord
BY DEF NoRequest, RequestRecord

LEMMA RequestedTags ==
    ASSUME NEW e \in Edits \cup {Absent}, e.tags # None
    PROVE e.tags \subseteq Tags
BY DEF Edit, Absent

LEMMA GoesLive ==
    ASSUME NEW p \in PostRecord, NEW at \in Nat
    PROVE /\ [p EXCEPT !.st = "live", !.at = at] \in PostRecord
          /\ [p EXCEPT !.st = "live", !.at = at].st = "live"
          /\ [p EXCEPT !.st = "live", !.at = at].at = at
BY DEF PostRecord

(* Publish dates the post if it was not live, and leaves its date if it was.*)
LEMMA PublishDates ==
    ASSUME post \in PostRecord, DatedIffLive(post), published \in Nat, Publish
    PROVE /\ post' \in PostRecord /\ DatedIffLive(post')
          /\ post'.st = "live"
          /\ post.st = "live" => post'.at = post.at
          /\ published' \in Nat /\ published' \in {published, published + 1}
<1>1. CASE post.st = "live"
    <2>1. post' = [post EXCEPT !.st = "live", !.at = post.at] /\ published' = published
        BY <1>1 DEF Publish
    <2>2. post' \in PostRecord /\ post'.st = "live" /\ post'.at = post.at
        BY <2>1 DEF PostRecord
    <2> QED
        BY <1>1, <2>1, <2>2 DEF DatedIffLive
<1>2. CASE post.st # "live"
    <2>1. post' = [post EXCEPT !.st = "live", !.at = published + 1]
          /\ published' = published + 1
        BY <1>2 DEF Publish
    <2>a. published + 1 \in Nat
        OBVIOUS
    <2>2. post' \in PostRecord /\ post'.st = "live" /\ post'.at = published + 1
        BY <2>1, <2>a, GoesLive
    <2>3. post'.at > 0 /\ published' \in Nat
        BY <2>1, <2>2
    <2> QED
        BY <1>2, <2>1, <2>2, <2>3 DEF DatedIffLive
<1> QED
    BY <1>1, <1>2

-----------------------------------------------------------------------------
(* What a step does to the row and to the handlers, in the terms of the     *)
(* invariants below: types are kept, a live post keeps its date.            *)
KeepsTypes == TypeOK' /\ (post.st = "live" /\ post'.st = "live" => post'.at = post.at)

LEMMA TypesFrom ==
    ASSUME TypeOK,
           post' \in PostRecord /\ DatedIffLive(post'),
           tags' \subseteq Tags, request' \in [Requests -> RequestRecord],
           sweep' \subseteq Sweepers,
           published' \in Nat, announced' \in Nat, lost' \in Nat
    PROVE TypeOK'
BY DEF TypeOK, PostRecord, RequestRecord, PCs, DatedIffLive

LEMMA TypesKept == TypeOK /\ [Next]_vars => KeepsTypes
<1> SUFFICES ASSUME TypeOK, [Next]_vars PROVE KeepsTypes
    OBVIOUS
<1>0. /\ post \in PostRecord /\ DatedIffLive(post)
      /\ tags \subseteq Tags
      /\ request \in [Requests -> RequestRecord]
      /\ sweep \subseteq Sweepers
      /\ published \in Nat /\ announced \in Nat /\ lost \in Nat
    BY Types
(* A step of a handler that touches neither the row nor its publications.   *)
<1>q. ASSUME UNCHANGED <<post, sweep, published>>, tags' \subseteq Tags,
             announced' \in Nat, lost' \in Nat, request' \in [Requests -> RequestRecord]
      PROVE KeepsTypes
    BY <1>0, <1>q, TypesFrom DEF KeepsTypes
(* A step of a handler that writes the row.                                 *)
<1>w. ASSUME UNCHANGED <<sweep, told>>, tags' \subseteq Tags, published' \in Nat,
             post' \in PostRecord, DatedIffLive(post'),
             post.st = "live" /\ post'.st = "live" => post'.at = post.at,
             request' \in [Requests -> RequestRecord]
      PROVE KeepsTypes
    BY <1>0, <1>w, TypesFrom DEF KeepsTypes, told
<1>p. {"content", "excerpt", "isDraft", "flip", "announce", "deleteTags", "insertTag",
       "delete", "done"} \subseteq PCs
    BY DEF PCs
<1>1. ASSUME NEW r \in Requests, Fail(r) PROVE KeepsTypes
    <2>1. PICK pc \in PCs : Goto(r, pc)
        BY <1>1, <1>p, NextPlaces DEF Fail
    <2>2. /\ UNCHANGED <<post, tags, sweep, published, announced>>
          /\ lost' \in {lost, lost + 1}
        BY <1>1 DEF Fail
    <2> QED
        BY <1>0, <1>q, <2>1, <2>2, GoesOn
<1>2. ASSUME NEW r \in Requests, NEW e \in Edits, NEW s \in Schedules, Create(r, e, s)
      PROVE KeepsTypes
    <2> DEFINE live == e.draft # "true" /\ s = "none"
    <2>1. /\ post' = [st |-> IF live THEN "live" ELSE "draft", sched |-> s,
                      at |-> IF live THEN 1 ELSE 0, content |-> r, excerpt |-> r]
          /\ published' = IF live THEN 1 ELSE 0
          /\ request' = [request EXCEPT ![r] = [NoRequest EXCEPT !.pc = "deleteTags",
                               !.kind = "create", !.edit = e, !.draft = ~live]]
          /\ UNCHANGED <<tags, sweep, told>> /\ post.st = "missing"
        BY <1>2 DEF Create
    <2>2. s \in {"none", "future"} /\ live \in BOOLEAN
        OBVIOUS
    <2>3. request' \in [Requests -> RequestRecord]
        BY <1>0, <1>p, <2>1, <2>2, Starts
    <2> HIDE DEF live
    <2>4. post' \in PostRecord /\ DatedIffLive(post') /\ published' \in Nat
        BY <2>1, <2>2 DEF PostRecord, DatedIffLive
    <2> QED
        BY <1>0, <1>w, <2>1, <2>3, <2>4
<1>3. ASSUME NEW r \in Requests, NEW e \in Edits, Load(r, e) PROVE KeepsTypes
    <2>1. PICK pc \in PCs : request' = [request EXCEPT ![r] = [NoRequest EXCEPT
                                            !.pc = pc, !.kind = "update", !.edit = e]]
        BY <1>3, <1>p, NextPlaces DEF Load
    <2>2. request' \in [Requests -> RequestRecord]
        BY <1>0, <2>1, Starts
    <2> QED
        BY <1>0, <1>3, <1>q, <2>2 DEF Load, told
<1>4. ASSUME NEW r \in Requests, LoadToDelete(r) PROVE KeepsTypes
    <2>1. [NoRequest EXCEPT !.pc = "delete", !.kind = "delete"] \in RequestRecord
        BY <1>p DEF NoRequest, RequestRecord
    <2>2. request' \in [Requests -> RequestRecord]
        BY <1>0, <1>4, <2>1 DEF LoadToDelete
    <2> QED
        BY <1>0, <1>4, <1>q, <2>2 DEF LoadToDelete, told
<1>5. ASSUME NEW r \in Requests, NotFound(r) \/ FlipNothing(r) PROVE KeepsTypes
    <2>1. PICK pc \in PCs : Goto(r, pc)
        BY <1>5, <1>p, NextPlaces DEF NotFound, FlipNothing
    <2> QED
        BY <1>0, <1>5, <1>q, <2>1, GoesOn DEF NotFound, FlipNothing, told
<1>6. ASSUME NEW r \in Requests, StoreContent(r) PROVE KeepsTypes
    <2>1. request' \in [Requests -> RequestRecord]
        BY <1>0, <1>6, <1>p, GoesOn DEF StoreContent
    <2>2. /\ post' \in PostRecord /\ post'.st = post.st /\ post'.at = post.at
        BY <1>0, <1>6 DEF StoreContent, PostRecord
    <2> QED
        BY <1>0, <1>6, <1>w, <2>1, <2>2 DEF StoreContent, DatedIffLive
<1>7. ASSUME NEW r \in Requests, StoreExcerpt(r) PROVE KeepsTypes
    <2>1. PICK pc \in PCs : Goto(r, pc)
        BY <1>7, <1>p, NextPlaces DEF StoreExcerpt
    <2>2. /\ post' \in PostRecord /\ post'.st = post.st /\ post'.at = post.at
        BY <1>0, <1>7 DEF StoreExcerpt, PostRecord
    <2> QED
        BY <1>0, <1>7, <1>w, <2>1, <2>2, GoesOn DEF StoreExcerpt, DatedIffLive
<1>8. ASSUME NEW r \in Requests, ReadDraft(r) PROVE KeepsTypes
    <2>1. PICK d \in BOOLEAN :
             request' = [request EXCEPT ![r] = [request[r] EXCEPT !.draft = d, !.pc = "flip"]]
        BY <1>0, <1>8 DEF ReadDraft
    <2>2. [request[r] EXCEPT !.draft = d, !.pc = "flip"] \in RequestRecord
        BY <1>0, <1>p DEF RequestRecord
    <2>3. request' \in [Requests -> RequestRecord]
        BY <1>0, <2>1, <2>2
    <2> QED
        BY <1>0, <1>8, <1>q, <2>3 DEF ReadDraft, told
<1>9. ASSUME NEW r \in Requests, Flip(r) PROVE KeepsTypes
    <2>1. request' \in [Requests -> RequestRecord]
        BY <1>0, <1>9, <1>p, GoesOn DEF Flip
    <2>2. CASE Exists
        BY <1>0, <1>9, <1>w, <2>1, <2>2, PublishDates DEF Flip
    <2>3. CASE ~Exists
        BY <1>0, <1>9, <1>w, <2>1, <2>3 DEF Flip
    <2> QED
        BY <2>2, <2>3
<1>10. ASSUME NEW r \in Requests, Withdraw(r) PROVE KeepsTypes
    <2>1. PICK pc \in PCs : Goto(r, pc)
        BY <1>10, <1>p, NextPlaces DEF Withdraw
    <2>2. [post EXCEPT !.st = "draft", !.at = 0] \in PostRecord
        BY <1>0 DEF PostRecord
    <2>3. /\ [post EXCEPT !.st = "draft", !.at = 0].st = "draft"
          /\ [post EXCEPT !.st = "draft", !.at = 0].at = 0
        BY <1>0 DEF PostRecord
    <2>4. post' \in PostRecord /\ DatedIffLive(post') /\ (post' = post \/ post'.st = "draft")
        BY <1>0, <1>10, <2>2, <2>3 DEF Withdraw, DatedIffLive
    <2> QED
        BY <1>0, <1>10, <1>w, <2>1, <2>4, GoesOn DEF Withdraw
<1>11. ASSUME NEW r \in Requests, Announce(r) PROVE KeepsTypes
    <2>1. PICK pc \in PCs : Goto(r, pc)
        BY <1>11, <1>p, NextPlaces DEF Announce
    <2> QED
        BY <1>0, <1>11, <1>q, <2>1, GoesOn DEF Announce
<1>12. ASSUME NEW r \in Requests, DeleteTags(r) PROVE KeepsTypes
    <2> DEFINE new == IF request[r].edit.tags = None THEN {} ELSE request[r].edit.tags
    <2>1. new \in SUBSET Tags
        <3>1. request[r].edit \in Edits \cup {Absent}
            BY <1>0 DEF RequestRecord
        <3> QED
            BY <3>1, RequestedTags
    <2>2. PICK pc \in PCs : request' = [request EXCEPT ![r] = [request[r] EXCEPT
                                            !.todo = new, !.pc = pc]]
        BY <1>12, <1>p, NextPlaces DEF DeleteTags
    <2> HIDE DEF new
    <2>3. [request[r] EXCEPT !.todo = new, !.pc = pc] \in RequestRecord
        BY <1>0, <2>1 DEF RequestRecord
    <2>4. request' \in [Requests -> RequestRecord]
        BY <1>0, <2>2, <2>3
    <2> QED
        BY <1>0, <1>12, <1>q, <2>4 DEF DeleteTags, told
<1>13. ASSUME NEW r \in Requests, InsertTag(r) PROVE KeepsTypes
    <2>1. PICK t \in request[r].todo :
             /\ tags' = IF Exists THEN tags \cup {t} ELSE tags
             /\ request' = [request EXCEPT
                   ![r].todo = request[r].todo \ {t},
                   ![r].pc = IF request[r].todo = {t} \/ ~Exists THEN AfterTags(request[r])
                             ELSE request[r].pc]
        BY <1>0, <1>13 DEF InsertTag, RequestRecord
    <2>a. request[r].pc \in PCs /\ AfterTags(request[r]) \in PCs
        BY <1>0, <1>p, NextPlaces DEF RequestRecord
    <2>2. PICK pc \in PCs : request' = [request EXCEPT ![r] = [request[r] EXCEPT
                                            !.todo = request[r].todo \ {t}, !.pc = pc]]
        <3> DEFINE next == IF request[r].todo = {t} \/ ~Exists THEN AfterTags(request[r])
                           ELSE request[r].pc
        <3>1. next \in PCs
            BY <2>a
        <3>2. request' = [request EXCEPT ![r] = [request[r] EXCEPT
                                            !.todo = request[r].todo \ {t}, !.pc = next]]
            BY <1>0, <2>1
        <3> HIDE DEF next
        <3> QED
            BY <3>1, <3>2
    <2>3. /\ [request[r] EXCEPT !.todo = request[r].todo \ {t}, !.pc = pc] \in RequestRecord
          /\ request[r].todo \subseteq Tags
        BY <1>0 DEF RequestRecord
    <2>4. request' \in [Requests -> RequestRecord] /\ tags' \subseteq Tags
        BY <1>0, <2>1, <2>2, <2>3
    <2> QED
        BY <1>0, <1>13, <1>q, <2>4 DEF InsertTag, told
<1>14. ASSUME NEW r \in Requests, Delete(r) PROVE KeepsTypes
    <2>1. request' \in [Requests -> RequestRecord]
        BY <1>0, <1>14, <1>p, GoesOn DEF Delete
    <2>2. post'.st = "deleted" /\ post' \in PostRecord /\ DatedIffLive(post')
        BY <1>14, NewRecords DEF Delete, Missing
    <2> QED
        BY <1>0, <1>14, <1>w, <2>1, <2>2 DEF Delete
<1>15. ASSUME NEW p \in Sweepers, Sweep(p) PROVE KeepsTypes
    <2>1. /\ post' \in PostRecord /\ post'.st = "live" /\ post'.at = published + 1
          /\ post.st = "draft" /\ published + 1 \in Nat
        <3>1. published + 1 \in Nat
            BY <1>0
        <3> DEFINE at == published + 1
        <3>2. /\ post' = [post EXCEPT !.st = "live", !.at = at, !.sched = "none"]
              /\ post.st = "draft"
            BY <1>15 DEF Sweep
        <3>3. at \in Nat
            BY <3>1
        <3> HIDE DEF at
        <3>4. post' \in PostRecord /\ post'.st = "live" /\ post'.at = at
            <4>1. /\ [post EXCEPT !.st = "live", !.at = at, !.sched = "none"] \in PostRecord
                  /\ [post EXCEPT !.st = "live", !.at = at, !.sched = "none"].st = "live"
                  /\ [post EXCEPT !.st = "live", !.at = at, !.sched = "none"].at = at
                BY <1>0, <3>3 DEF PostRecord
            <4> QED
                BY <3>2, <4>1
        <3> QED
            BY <3>1, <3>2, <3>4 DEF at
    <2>2. DatedIffLive(post')
        BY <1>0, <2>1 DEF DatedIffLive
    <2> QED
        BY <1>0, <1>15, <2>1, <2>2, TypesFrom DEF Sweep, KeepsTypes, told
<1>16. ASSUME NEW p \in Sweepers, AnnounceSweep(p) PROVE KeepsTypes
    BY <1>0, <1>16, TypesFrom DEF AnnounceSweep, KeepsTypes
<1>17. CASE TimePasses
    <2>1. post' \in PostRecord /\ post'.st = post.st /\ post'.at = post.at
        BY <1>0, <1>17 DEF TimePasses, PostRecord
    <2> QED
        BY <1>0, <1>17, <1>w, <2>1 DEF TimePasses, DatedIffLive
<1>18. CASE UNCHANGED vars
    BY <1>0, <1>18, <1>q DEF vars, told
<1> QED
    BY <1>1, <1>2, <1>3, <1>4, <1>5, <1>6, <1>7, <1>8, <1>9, <1>10, <1>11, <1>12, <1>13,
       <1>14, <1>15, <1>16, <1>17, <1>18 DEF Next, Step, Rest

LEMMA PublishingStarts == Init => TypeOK
BY NewRecords, Types DEF Init, Missing, DatedIffLive

(* TypeOK: what the handlers and the sweeps hold, and a date iff it is live. *)
THEOREM PublishingIsWellTyped == Spec => []TypeOK
BY PublishingStarts, TypesKept, PTL DEF Spec, KeepsTypes

(* LivePostKeepsItsDate, whatever handlers and sweeps are between their      *)
(* statements: PostController.cc:1181-1183.                                  *)
THEOREM TheDateOfALivePostStays == Spec => LivePostKeepsItsDate
<1>1. TypeOK /\ [Next]_vars => (post.st = "live" /\ post'.st = "live" => post'.at = post.at)
    BY TypesKept DEF KeepsTypes
<1> QED
    BY <1>1, PublishingIsWellTyped, PTL DEF Spec, LivePostKeepsItsDate

-----------------------------------------------------------------------------
(* A handler that has an announcement before it: it is there, or it created *)
(* a live post and has only tags to write first.                            *)
Owes(r) ==
    \/ At(r, "announce")
    \/ /\ request[r].pc \in {"deleteTags", "insertTag"}
       /\ request[r].kind = "create" /\ ~request[r].draft

Owing == {r \in Requests : Owes(r)}

Accounted ==
    post.st # "deleted" =>
       published <= announced + lost + Cardinality(Owing) + Cardinality(sweep)

Books ==
    /\ post.st = "missing" => published = 0
    /\ IsFiniteSet(Owing) /\ IsFiniteSet(sweep)
    /\ Accounted

PublishingInv == TypeOK /\ Books

(* One element more, or less, or neither.                                   *)
LEMMA SizeOfAStep ==
    ASSUME NEW S, NEW T, NEW x, IsFiniteSet(S), S \ {x} \subseteq T, T \subseteq S \cup {x}
    PROVE /\ IsFiniteSet(T) /\ Cardinality(S) \in Nat /\ Cardinality(T) \in Nat
          /\ Cardinality(T) >= Cardinality(S) - 1
          /\ (x \in S => x \in T) => Cardinality(T) >= Cardinality(S)
          /\ (x \in T /\ x \notin S) => Cardinality(T) = Cardinality(S) + 1
<1>0. T = S \/ (x \notin S /\ T = S \cup {x}) \/ (x \in S /\ T = S \ {x})
    OBVIOUS
<1>1. Cardinality(S) \in Nat
    BY FS_CardinalityType
<1>2. CASE T = S
    BY <1>1, <1>2
<1>3. CASE x \notin S /\ T = S \cup {x}
    <2>1. IsFiniteSet(T) /\ Cardinality(T) = Cardinality(S) + 1
        BY <1>3, FS_AddElement
    <2> QED
        BY <1>1, <1>3, <2>1
<1>4. CASE x \in S /\ T = S \ {x}
    <2>1. IsFiniteSet(T) /\ Cardinality(T) = Cardinality(S) - 1
        BY <1>4, FS_RemoveElement
    <2>2. Cardinality(T) \in Nat
        BY <2>1, FS_CardinalityType
    <2> QED
        BY <1>1, <1>4, <2>1, <2>2
<1> QED
    BY <1>0, <1>2, <1>3, <1>4

(* A step of one handler changes what that handler owes.                    *)
LEMMA StepOfOne ==
    ASSUME NEW r \in Requests, IsFiniteSet(Owing),
           \A v \in Requests \ {r} : request'[v] = request[v]
    PROVE /\ IsFiniteSet(Owing') /\ Cardinality(Owing) \in Nat /\ Cardinality(Owing') \in Nat
          /\ Cardinality(Owing') >= Cardinality(Owing) - 1
          /\ (Owes(r) => Owes(r)') => Cardinality(Owing') >= Cardinality(Owing)
          /\ (Owes(r)' /\ ~Owes(r)) => Cardinality(Owing') = Cardinality(Owing) + 1
<1>1. Owing \ {r} \subseteq Owing' /\ Owing' \subseteq Owing \cup {r}
    BY DEF Owing, Owes, At
<1>2. (r \in Owing <=> Owes(r)) /\ (r \in Owing' <=> Owes(r)')
    BY DEF Owing
<1>3. /\ IsFiniteSet(Owing') /\ Cardinality(Owing) \in Nat /\ Cardinality(Owing') \in Nat
      /\ Cardinality(Owing') >= Cardinality(Owing) - 1
      /\ (r \in Owing => r \in Owing') => Cardinality(Owing') >= Cardinality(Owing)
      /\ (r \in Owing' /\ r \notin Owing) => Cardinality(Owing') = Cardinality(Owing) + 1
    BY <1>1, SizeOfAStep
<1> QED
    BY <1>2, <1>3

LEMMA BooksOpen == Init => Books
<1> SUFFICES ASSUME Init PROVE Books
    OBVIOUS
<1>1. Owing = {} /\ sweep = {}
    BY DEF Init, Owing, Owes, At, NoRequest
<1>2. IsFiniteSet({}) /\ Cardinality({}) = 0
    BY FS_EmptySet
<1> QED
    BY <1>1, <1>2 DEF Init, Books, Accounted

LEMMA OneHeardOneLess ==
    ASSUME NEW p \in Nat, NEW a \in Nat, NEW b \in Nat, NEW l \in Nat, NEW c \in Nat,
           NEW n \in Nat, NEW k \in Nat, NEW m \in Nat,
           b + c = a + l + 1, m >= k - 1, p <= a + l + n + k
    PROVE p <= b + c + n + m
OBVIOUS

(* Every step of a handler is one of these three, for the books.            *)
LEMMA BooksOfOne ==
    ASSUME TypeOK, TypeOK', Books, NEW r \in Requests,
           \A v \in Requests \ {r} : request'[v] = request[v],
           UNCHANGED sweep,
           post'.st = "missing" => post.st = "missing",
           post.st = "deleted" => post'.st = "deleted",
           \/ UNCHANGED <<published, told>> /\ (Owes(r) => Owes(r)')
           \/ /\ published' \in {published, published + 1} /\ UNCHANGED told
              /\ Owes(r)' /\ ~Owes(r) /\ post'.st # "missing"
           \/ /\ UNCHANGED <<post, published>>
              /\ \/ announced' + lost' = announced + lost + 1
                 \/ ~Exists /\ UNCHANGED told
    PROVE Books'
<1>1. /\ {published, announced, lost} \subseteq Nat /\ {published', announced', lost'} \subseteq Nat
      /\ post.st \in {"missing", "draft", "live", "deleted"}
    BY DEF TypeOK
<1>2. /\ IsFiniteSet(Owing) /\ IsFiniteSet(sweep) /\ IsFiniteSet(sweep')
      /\ post.st = "missing" => published = 0
      /\ post.st # "deleted" =>
             published <= announced + lost + Cardinality(Owing) + Cardinality(sweep)
    BY DEF Books, Accounted
<1> DEFINE n == Cardinality(Owing)
           m == Cardinality(Owing')
           k == Cardinality(sweep)
<1>3. k \in Nat /\ Cardinality(sweep') = k
    BY <1>2, FS_CardinalityType
<1>4. /\ IsFiniteSet(Owing') /\ n \in Nat /\ m \in Nat
      /\ m >= n - 1 /\ ((Owes(r) => Owes(r)') => m >= n)
      /\ (Owes(r)' /\ ~Owes(r)) => m = n + 1
    BY <1>2, StepOfOne
<1>5. post.st # "deleted" => published <= announced + lost + n + k
    BY <1>2
<1> HIDE DEF n, m, k
<1>6. /\ post'.st = "missing" => published' = 0
      /\ post'.st # "deleted" => published' <= announced' + lost' + m + k
    <2>1. CASE UNCHANGED <<published, told>> /\ (Owes(r) => Owes(r)')
        BY <1>1, <1>2, <1>3, <1>4, <1>5, <2>1 DEF told
    <2>2. CASE /\ published' \in {published, published + 1} /\ UNCHANGED told
               /\ Owes(r)' /\ ~Owes(r) /\ post'.st # "missing"
        BY <1>1, <1>3, <1>4, <1>5, <2>2 DEF told
    <2>3. CASE /\ UNCHANGED <<post, published>>
               /\ announced' + lost' = announced + lost + 1
        BY <1>1, <1>2, <1>3, <1>4, <1>5, <2>3
    <2>4. CASE UNCHANGED <<post, published>> /\ ~Exists /\ UNCHANGED told
        BY <1>1, <1>2, <1>3, <1>4, <2>4 DEF told, Exists
    <2> QED
        BY <2>1, <2>2, <2>3, <2>4
<1>7. Accounted'
    BY <1>3, <1>6 DEF Accounted, m
<1> QED
    BY <1>2, <1>4, <1>6, <1>7 DEF Books

LEMMA BooksKept == TypeOK /\ Books /\ [Next]_vars => Books'
<1> SUFFICES ASSUME TypeOK, Books, [Next]_vars PROVE Books'
    OBVIOUS
<1>0. /\ TypeOK' /\ post \in PostRecord /\ request \in [Requests -> RequestRecord]
      /\ published \in Nat /\ announced \in Nat /\ lost \in Nat
    BY TypesKept, Types DEF KeepsTypes
<1>p. {"content", "excerpt", "isDraft", "flip", "announce", "deleteTags", "insertTag",
       "delete", "done"} \subseteq PCs
    BY DEF PCs
(* A handler that goes on to pc, owing what it owed.                        *)
<1>q. ASSUME NEW r \in Requests, NEW pc \in PCs, Goto(r, pc), UNCHANGED <<sweep, published, told>>,
             post'.st = "missing" => post.st = "missing",
             post.st = "deleted" => post'.st = "deleted",
             request[r].pc # "announce",
             request[r].pc \in {"deleteTags", "insertTag"} => pc = AfterTags(request[r])
      PROVE Books'
    <2>1. /\ request'[r].pc = pc /\ request'[r].kind = request[r].kind
          /\ request'[r].draft = request[r].draft
          /\ \A v \in Requests \ {r} : request'[v] = request[v]
        BY <1>0, <1>q, GoesOn
    <2>2. AfterTags(request[r]) = "announce" <=> request[r].kind = "create" /\ ~request[r].draft
        BY NextPlaces
    <2>3. Owes(r) => Owes(r)'
        BY <1>q, <2>1, <2>2 DEF Owes, At
    <2> QED
        BY <1>0, <1>q, <2>1, <2>3, BooksOfOne
<1>1. ASSUME NEW r \in Requests, Fail(r) PROVE Books'
    <2>1. CASE At(r, "announce")
        <3>1. PICK pc \in PCs : Goto(r, pc)
            BY <1>1, <1>p, NextPlaces DEF Fail
        <3>2. /\ UNCHANGED <<post, sweep, published, announced>> /\ lost' = lost + 1
              /\ announced' + lost' = announced + lost + 1
            BY <1>0, <1>1, <2>1 DEF Fail
        <3>3. \A v \in Requests \ {r} : request'[v] = request[v]
            BY <1>0, <3>1, GoesOn
        <3> QED
            BY <1>0, <3>2, <3>3, BooksOfOne
    <2>2. CASE ~At(r, "announce")
        <3>1. PICK pc \in PCs :
                 /\ Goto(r, pc)
                 /\ request[r].pc \in {"deleteTags", "insertTag"} => pc = AfterTags(request[r])
            BY <1>1, <1>p, <2>2, NextPlaces DEF Fail, At
        <3>2. UNCHANGED <<post, sweep, published, told>>
            BY <1>1, <2>2 DEF Fail, told
        <3> QED
            BY <1>q, <2>2, <3>1, <3>2 DEF At
    <2> QED
        BY <2>1, <2>2
<1>2. ASSUME NEW r \in Requests, NEW e \in Edits, NEW s \in Schedules, Create(r, e, s)
      PROVE Books'
    <2> DEFINE live == e.draft # "true" /\ s = "none"
    <2>1. /\ post'.st = IF live THEN "live" ELSE "draft"
          /\ published' = IF live THEN 1 ELSE 0
          /\ request' = [request EXCEPT ![r] = [NoRequest EXCEPT !.pc = "deleteTags",
                               !.kind = "create", !.edit = e, !.draft = ~live]]
          /\ UNCHANGED <<tags, sweep, told>> /\ post.st = "missing" /\ At(r, "idle")
        BY <1>2 DEF Create
    <2>2. published = 0
        BY <2>1 DEF Books
    <2>3. request'[r].pc = "deleteTags" /\ request'[r].kind = "create" /\ request'[r].draft = ~live
        BY <1>0, <2>1 DEF NoRequest
    <2>4. \A v \in Requests \ {r} : request'[v] = request[v]
        BY <1>0, <2>1
    <2> HIDE DEF live
    <2>5. ~Owes(r) /\ (Owes(r)' <=> live)
        BY <2>1, <2>3 DEF Owes, At
    <2> QED
        BY <1>0, <2>1, <2>2, <2>4, <2>5, BooksOfOne
<1>3. ASSUME NEW r \in Requests, NEW e \in Edits, Load(r, e) PROVE Books'
    <2>1. /\ \A v \in Requests \ {r} : request'[v] = request[v]
          /\ ~Owes(r) /\ UNCHANGED <<post, sweep, published, told>>
        BY <1>0, <1>3 DEF Load, Owes, At
    <2> QED
        BY <1>0, <2>1, BooksOfOne
<1>4. ASSUME NEW r \in Requests, LoadToDelete(r) PROVE Books'
    <2>1. /\ \A v \in Requests \ {r} : request'[v] = request[v]
          /\ ~Owes(r) /\ UNCHANGED <<post, sweep, published, told>>
        BY <1>0, <1>4 DEF LoadToDelete, Owes, At
    <2> QED
        BY <1>0, <2>1, BooksOfOne
<1>5. ASSUME NEW r \in Requests,
             \/ NotFound(r) \/ StoreContent(r) \/ StoreExcerpt(r)
             \/ Withdraw(r) \/ FlipNothing(r) \/ Delete(r)
      PROVE Books'
    <2>1. PICK pc \in PCs : Goto(r, pc)
        BY <1>5, <1>p, NextPlaces DEF NotFound, StoreContent, StoreExcerpt, Withdraw, FlipNothing,
                                      Delete
    <2>2. /\ request[r].pc \notin {"announce", "deleteTags", "insertTag"}
          /\ UNCHANGED <<sweep, published, told>>
        BY <1>5 DEF NotFound, StoreContent, StoreExcerpt, Withdraw, FlipNothing, Delete, At
    <2>3. /\ post'.st = "missing" => post.st = "missing"
          /\ post.st = "deleted" => post'.st = "deleted"
        BY <1>0, <1>5 DEF NotFound, StoreContent, StoreExcerpt, Withdraw, FlipNothing, Delete,
                          Missing, Exists, PostRecord
    <2> QED
        BY <1>q, <2>1, <2>2, <2>3
<1>6. ASSUME NEW r \in Requests, ReadDraft(r) PROVE Books'
    <2>1. /\ \A v \in Requests \ {r} : request'[v] = request[v]
          /\ ~Owes(r) /\ UNCHANGED <<post, sweep, published, told>>
        BY <1>0, <1>6 DEF ReadDraft, Owes, At
    <2> QED
        BY <1>0, <2>1, BooksOfOne
<1>7. ASSUME NEW r \in Requests, Flip(r) PROVE Books'
    <2>1. /\ Goto(r, "announce") /\ UNCHANGED <<sweep, told>> /\ ~Owes(r)
        BY <1>7 DEF Flip, Owes, At
    <2>2. Owes(r)' /\ \A v \in Requests \ {r} : request'[v] = request[v]
        BY <1>0, <1>p, <2>1, GoesOn DEF Owes, At
    <2>3. CASE Exists
        <3>1. Publish
            BY <1>7, <2>3 DEF Flip
        <3>2. /\ post'.st = "live" /\ published' \in {published, published + 1}
              /\ post.st # "deleted"
            BY <1>0, <2>3, <3>1, PublishDates, Types DEF Exists
        <3> QED
            BY <1>0, <2>1, <2>2, <3>2, BooksOfOne
    <2>4. CASE ~Exists
        <3>1. UNCHANGED <<post, published>>
            BY <1>7, <2>4 DEF Flip
        <3> QED
            BY <1>0, <2>1, <2>2, <3>1, BooksOfOne
    <2> QED
        BY <2>3, <2>4
<1>8. ASSUME NEW r \in Requests, Announce(r) PROVE Books'
    <2>1. PICK pc \in PCs : Goto(r, pc)
        BY <1>8, <1>p, NextPlaces DEF Announce
    <2>2. /\ UNCHANGED <<post, sweep, published>>
          /\ \/ announced' + lost' = announced + lost + 1
             \/ ~Exists /\ UNCHANGED told
        <3>1. announced' = (IF Exists THEN announced + 1 ELSE announced) /\ lost' = lost
            BY <1>8 DEF Announce
        <3> QED
            BY <1>0, <1>8, <3>1 DEF Announce, told, Exists
    <2> QED
        BY <1>0, <2>1, <2>2, GoesOn, BooksOfOne
<1>9. ASSUME NEW r \in Requests, DeleteTags(r) PROVE Books'
    <2>1. PICK pc \in {"insertTag", AfterTags(request[r])}, T \in {request[r].edit.tags, {}} :
             request' = [request EXCEPT ![r] = [request[r] EXCEPT !.todo = T, !.pc = pc]]
        BY <1>0, <1>9 DEF DeleteTags
    <2>2. /\ request'[r].pc = pc /\ request'[r].kind = request[r].kind
          /\ request'[r].draft = request[r].draft
          /\ \A v \in Requests \ {r} : request'[v] = request[v]
        BY <1>0, <2>1 DEF RequestRecord
    <2>3. AfterTags(request[r]) = "announce" <=> request[r].kind = "create" /\ ~request[r].draft
        BY NextPlaces
    <2>4. Owes(r) => Owes(r)'
        BY <1>9, <2>1, <2>2, <2>3 DEF Owes, At, DeleteTags
    <2> QED
        BY <1>0, <1>9, <2>2, <2>4, BooksOfOne DEF DeleteTags
<1>10. ASSUME NEW r \in Requests, InsertTag(r) PROVE Books'
    <2>1. PICK t \in request[r].todo, pc \in {request[r].pc, AfterTags(request[r])} :
             request' = [request EXCEPT ![r] = [request[r] EXCEPT
                                           !.todo = request[r].todo \ {t}, !.pc = pc]]
        BY <1>0, <1>10 DEF InsertTag
    <2>2. /\ request'[r].pc = pc /\ request'[r].kind = request[r].kind
          /\ request'[r].draft = request[r].draft
          /\ \A v \in Requests \ {r} : request'[v] = request[v]
        BY <1>0, <2>1 DEF RequestRecord
    <2>3. AfterTags(request[r]) = "announce" <=> request[r].kind = "create" /\ ~request[r].draft
        BY NextPlaces
    <2>4. Owes(r) => Owes(r)'
        BY <1>10, <2>1, <2>2, <2>3 DEF Owes, At, InsertTag
    <2> QED
        BY <1>0, <1>10, <2>2, <2>4, BooksOfOne DEF InsertTag
(* The sweeps and the clock leave the handlers as they are.                 *)
<1>s. ASSUME UNCHANGED request, NEW p \in Sweepers, Sweep(p) \/ AnnounceSweep(p) PROVE Books'
    <2>1. /\ IsFiniteSet(Owing) /\ IsFiniteSet(sweep) /\ Owing' = Owing
          /\ post.st = "missing" => published = 0
          /\ post.st # "deleted" =>
                published <= announced + lost + Cardinality(Owing) + Cardinality(sweep)
        BY <1>s DEF Books, Accounted, Owing, Owes, At
    <2>2. sweep \ {p} \subseteq sweep' /\ sweep' \subseteq sweep \cup {p}
        BY <1>s DEF Sweep, AnnounceSweep
    <2>3. /\ IsFiniteSet(sweep') /\ Cardinality(sweep) \in Nat /\ Cardinality(sweep') \in Nat
          /\ Cardinality(sweep') >= Cardinality(sweep) - 1
          /\ (p \in sweep' /\ p \notin sweep) => Cardinality(sweep') = Cardinality(sweep) + 1
        BY <2>1, <2>2, SizeOfAStep
    <2>4. Cardinality(Owing) \in Nat
        BY <2>1, FS_CardinalityType
    <2>5. CASE Sweep(p)
        <3>1. /\ post.st = "draft" /\ published' = published + 1 /\ UNCHANGED told
              /\ p \in sweep' /\ p \notin sweep /\ post'.st = "live"
            BY <1>0, <2>5 DEF Sweep, PostRecord
        <3> QED
            BY <1>0, <2>1, <2>3, <2>4, <3>1 DEF Books, Accounted, told
    <2>6. CASE AnnounceSweep(p)
        <3>1. /\ UNCHANGED <<post, published>>
              /\ \/ announced' + lost' = announced + lost + 1
                 \/ ~Exists /\ UNCHANGED told
            BY <1>0, <2>6 DEF AnnounceSweep, told
        <3>2. announced' \in Nat /\ lost' \in Nat
            BY <1>0 DEF TypeOK
        <3>3. CASE announced' + lost' = announced + lost + 1
            <4> DEFINE k == Cardinality(sweep)
                       m == Cardinality(sweep')
                       n == Cardinality(Owing)
            <4>1. /\ k \in Nat /\ m \in Nat /\ n \in Nat /\ m >= k - 1
                  /\ post.st # "deleted" => published <= announced + lost + n + k
                BY <2>1, <2>3, <2>4
            <4>2. IsFiniteSet(sweep') /\ Owing' = Owing
                BY <2>1, <2>3
            <4> HIDE DEF k, m, n
            <4>3. post.st # "deleted" => published <= announced' + lost' + n + m
                BY <1>0, <3>2, <3>3, <4>1, OneHeardOneLess
            <4> QED
                BY <2>1, <3>1, <4>2, <4>3 DEF Books, Accounted, m, n
        <3>4. CASE ~Exists /\ UNCHANGED told
            <4>1. post.st \in {"missing", "deleted"}
                BY <1>0, <3>4 DEF Exists, PostRecord
            <4> QED
                BY <1>0, <2>1, <2>3, <2>4, <3>1, <3>4, <4>1 DEF Books, Accounted, told
        <3> QED
            BY <3>1, <3>3, <3>4
    <2> QED
        BY <1>s, <2>5, <2>6
<1>11. CASE TimePasses
    <2>1. post'.st = post.st /\ Owing' = Owing
        BY <1>0, <1>11 DEF TimePasses, PostRecord, Owing, Owes, At
    <2> QED
        BY <1>11, <2>1 DEF TimePasses, Books, Accounted, told
<1>12. CASE UNCHANGED vars
    BY <1>12 DEF vars, told, Books, Accounted, Owing, Owes, At
<1> QED
    BY <1>1, <1>2, <1>3, <1>4, <1>5, <1>6, <1>7, <1>8, <1>9, <1>10, <1>s, <1>11, <1>12
    DEF Next, Step, Rest, Sweep, AnnounceSweep

(* No publication is forgotten: while the followers have heard, or the log   *)
(* has it, of fewer publications than there were, the post is gone or some   *)
(* handler or sweep still has the announcement before it.  This is what      *)
(* PublicationIsAnnounced needs besides the fairness of those steps.         *)
THEOREM NoPublicationIsForgotten ==
    Spec => [](announced + lost < published =>
                  post.st = "deleted" \/ Owing # {} \/ sweep # {})
<1>1. Init => PublishingInv
    BY PublishingStarts, BooksOpen DEF PublishingInv
<1>2. PublishingInv /\ [Next]_vars => PublishingInv'
    BY TypesKept, BooksKept DEF PublishingInv, KeepsTypes
<1>3. PublishingInv => (announced + lost < published =>
                           post.st = "deleted" \/ Owing # {} \/ sweep # {})
    <2> SUFFICES ASSUME TypeOK, Books, post.st # "deleted", Owing = {}, sweep = {}
                 PROVE ~(announced + lost < published)
        BY DEF PublishingInv
    <2>1. Cardinality(Owing) = 0 /\ Cardinality(sweep) = 0
        BY FS_EmptySet
    <2>2. /\ published \in Nat /\ announced \in Nat /\ lost \in Nat
          /\ published <= announced + lost + Cardinality(Owing) + Cardinality(sweep)
        BY Types DEF Books, Accounted
    <2> QED
        BY <2>1, <2>2
<1> QED
    BY <1>1, <1>2, <1>3, PTL DEF Spec

=============================================================================
