---------------------------- MODULE PagesProofs ----------------------------
(***************************************************************************)
(* The pages and stores of the browser client and its service worker, one  *)
(* section each, for any number of steps, and for any posts, comments,     *)
(* words, accounts, devices, notifications and builds; at the end what     *)
(* they come to side by side.                                              *)
(***************************************************************************)
EXTENDS Pages, Sequences, FiniteSetTheorems, WellFoundedInduction, TLAPS

Request == [stage : {"asked", "done"}, before : {0} \cup Ids, page : SUBSET Ids, next : {0} \cup Ids]

(* What the page and the server are made of.                               *)
Typed ==
    /\ public \subseteq Ids /\ always \subseteq public /\ posts \subseteq Ids
    /\ cursor \in {0} \cup posts
    /\ hasMore \in BOOLEAN /\ loading \in BOOLEAN /\ error \in BOOLEAN
    /\ asks \subseteq Request

(* `loading` stands for the one request in flight, which asks for what is  *)
(* older than the cursor.                                                  *)
OneAsk ==
    /\ loading <=> asks # {}
    /\ \A r, s \in asks : r = s
    /\ \A r \in asks : hasMore /\ r.before = cursor

(* The cursor is the oldest post on the page.                              *)
CursorIsOldest ==
    hasMore => (cursor = 0 => posts = {}) /\ \A id \in posts : cursor <= id

IsOlder(id, before) == before = 0 \/ id < before

(* An answer is older than what it was asked for, ends at its cursor, and  *)
(* leaves nothing out before it.                                           *)
AnswersAreRight ==
    \A r \in asks : r.stage = "done" =>
        /\ \A id \in r.page : IsOlder(id, r.before)
        /\ r.next # 0 => r.next \in r.page /\ \A id \in r.page : r.next <= id
        /\ \A id \in always : IsOlder(id, r.before) => id \in r.page \/ (r.next # 0 /\ id < r.next)

(* What is not on the page is still to come, unless an error ended it.     *)
Covered ==
    error \/ \A id \in always : id \in posts \/ (hasMore /\ IsOlder(id, cursor))

FeedInv == Typed /\ OneAsk /\ CursorIsOldest /\ AnswersAreRight /\ Covered

-----------------------------------------------------------------------------

LEMMA FeedInvInit == Init => FeedInv
<1> SUFFICES ASSUME Init PROVE FeedInv
    OBVIOUS
<1>1. Ask(0) \in Request
    BY DEF Ask, Request
<1>2. Typed
    BY <1>1 DEF Init, Typed
<1>3. OneAsk /\ CursorIsOldest
    BY DEF Init, OneAsk, CursorIsOldest, Ask
<1>4. AnswersAreRight
    BY DEF Init, AnswersAreRight, Ask
<1>5. Covered
    BY DEF Init, Covered, IsOlder
<1> QED
    BY <1>2, <1>3, <1>4, <1>5 DEF FeedInv

(* The server's page of what is older than `before` (getAllPosts): a post  *)
(* it leaves out is older than the cursor it returns.                      *)
LEMMA PageLeavesNothingOut ==
    ASSUME NEW before \in {0} \cup Ids, NEW page \in SUBSET Older(before), NEW next \in Ids \cup {0},
           IsPage(page, Older(before)), IsNext(next, page), public \subseteq Ids
    PROVE  /\ \A id \in page : IsOlder(id, before)
           /\ next # 0 => next \in page /\ \A id \in page : next <= id
           /\ \A id \in public : IsOlder(id, before) => id \in page \/ (next # 0 /\ id < next)
<1>1. \A id \in page : IsOlder(id, before)
    BY DEF Older, IsOlder
<1>2. next # 0 => next \in page /\ \A id \in page : next <= id
    BY DEF IsNext
<1>3. ASSUME NEW id \in public, IsOlder(id, before), id \notin page
      PROVE  next # 0 /\ id < next
  <2>1. id \in Older(before) \ page
      BY <1>3 DEF Older, IsOlder
  <2>2. Cardinality(page) = PageSize
      BY <2>1 DEF IsPage
  <2>3. next \in page
      BY <2>2 DEF IsNext
  <2>4. id < next
      BY <2>1, <2>3 DEF IsPage
  <2>5. next # 0
      BY <2>3, FeedAssumption DEF Older
  <2> QED
      BY <2>4, <2>5
<1> QED
    BY <1>1, <1>2, <1>3

LEMMA IdsAreNumbers ==
    ASSUME Typed
    PROVE  cursor \in Nat /\ \A id \in posts : id \in Nat
<1>1. \A id \in Ids : id \in Nat
    BY FeedAssumption
<1>2. \A id \in posts : id \in Nat
    BY <1>1 DEF Typed
<1>3. cursor = 0 \/ cursor \in posts
    BY DEF Typed
<1>4. 0 \in Nat
    OBVIOUS
<1> QED
    BY <1>2, <1>3, <1>4

LEMMA LoadMoreKeeps == FeedInv /\ LoadMore => FeedInv'
<1> SUFFICES ASSUME FeedInv, LoadMore PROVE FeedInv'
    OBVIOUS
<1> USE DEF FeedInv, LoadMore, serverVars
<1>1. asks = {} /\ asks' = {Ask(cursor)}
    BY DEF OneAsk
<1>2. Ask(cursor) \in Request
    BY DEF Ask, Request, Typed
<1>3. Typed'
    BY <1>1, <1>2 DEF Typed
<1>4. OneAsk' /\ CursorIsOldest'
    BY <1>1 DEF OneAsk, CursorIsOldest, Ask
<1>5. AnswersAreRight'
    BY <1>1 DEF AnswersAreRight, Ask
<1>6. Covered'
    BY DEF Covered, IsOlder
<1> QED
    BY <1>3, <1>4, <1>5, <1>6

LEMMA ServeKeeps ==
    ASSUME FeedInv, NEW r \in asks, Serve(r)
    PROVE  FeedInv'
<1> USE DEF FeedInv, serverVars
<1>1. PICK page \in SUBSET Older(r.before), next \in Ids \cup {0} :
          /\ IsPage(page, Older(r.before)) /\ IsNext(next, page)
          /\ asks' = (asks \ {r}) \cup {[r EXCEPT !.stage = "done", !.page = page, !.next = next]}
    BY DEF Serve
<1>2. UNCHANGED <<public, changes, always, failures, posts, cursor, hasMore, loading, error>>
    BY DEF Serve
<1>3. r \in Request /\ public \subseteq Ids /\ always \subseteq public
    BY DEF Typed
<1> DEFINE answer == [r EXCEPT !.stage = "done", !.page = page, !.next = next]
<1>4. /\ answer.stage = "done" /\ answer.before = r.before
      /\ answer.page = page /\ answer.next = next
    BY <1>3 DEF Request
<1>5. asks' = {answer}
    BY <1>1 DEF OneAsk
<1>6. answer \in Request
    BY <1>3 DEF Request, Older
<1> HIDE DEF answer
<1>7. Typed'
    BY <1>2, <1>5, <1>6 DEF Typed
<1>8. OneAsk' /\ CursorIsOldest'
    BY <1>2, <1>4, <1>5 DEF OneAsk, CursorIsOldest
<1>9. AnswersAreRight'
  <2>1. r.before \in {0} \cup Ids
      BY <1>3 DEF Request
  <2>2. /\ \A id \in page : IsOlder(id, r.before)
        /\ next # 0 => next \in page /\ \A id \in page : next <= id
        /\ \A id \in public : IsOlder(id, r.before) => id \in page \/ (next # 0 /\ id < next)
      BY <1>1, <1>3, <2>1, PageLeavesNothingOut
  <2> QED
      BY <1>2, <1>3, <1>4, <1>5, <2>2 DEF AnswersAreRight, IsOlder
<1>10. Covered'
    BY <1>2 DEF Covered, IsOlder
<1> QED
    BY <1>7, <1>8, <1>9, <1>10

LEMMA LandKeeps ==
    ASSUME FeedInv, NEW r \in asks, Land(r)
    PROVE  FeedInv'
<1> USE DEF FeedInv, serverVars
<1>1. asks' = {}
    BY DEF Land, OneAsk
<1>2. r \in Request /\ hasMore /\ r.before = cursor
    BY DEF Typed, OneAsk
<1>3. /\ \A id \in r.page : IsOlder(id, cursor)
      /\ r.next # 0 => r.next \in r.page /\ \A id \in r.page : r.next <= id
      /\ \A id \in always : IsOlder(id, cursor) => id \in r.page \/ (r.next # 0 /\ id < r.next)
    BY <1>2 DEF Land, AnswersAreRight
<1>4. Ids \subseteq Nat /\ r.page \subseteq Ids /\ posts \subseteq Ids
    BY <1>2, FeedAssumption DEF Request, Typed
<1>5. Typed'
    BY <1>1, <1>2, <1>3, <1>4 DEF Typed, Land
<1>6. OneAsk' /\ AnswersAreRight'
    BY <1>1 DEF OneAsk, AnswersAreRight, Land
<1>7. CursorIsOldest'
  <2>1. CASE r.next # 0
    <3>1. cursor' = r.next /\ posts' = posts \cup r.page
        BY <2>1 DEF Land
    <3>2. cursor = 0 \/ r.next < cursor
        BY <1>3, <2>1 DEF IsOlder
    <3>3. (cursor = 0 => posts = {}) /\ \A id \in posts : cursor <= id
        BY <1>2 DEF CursorIsOldest
    <3>4. cursor \in Nat /\ \A id \in posts : id \in Nat
        BY IdsAreNumbers
    <3>5. r.next \in Nat
        BY <1>3, <1>4, <2>1
    <3>6. \A id \in posts : r.next <= id
        BY <3>2, <3>3, <3>4, <3>5
    <3>7. r.next # 0 /\ \A id \in r.page : r.next <= id
        BY <1>3, <2>1
    <3> QED
        BY <3>1, <3>6, <3>7 DEF CursorIsOldest
  <2>2. CASE r.next = 0
      BY <2>2 DEF Land, CursorIsOldest
  <2> QED
      BY <2>1, <2>2
<1>8. Covered'
  <2>1. SUFFICES ASSUME ~error, NEW id \in always
                 PROVE  id \in posts' \/ (hasMore' /\ IsOlder(id, cursor'))
      BY DEF Covered, Land
  <2>2. id \in posts \/ id \in r.page \/ (r.next # 0 /\ id < r.next)
      BY <1>3, <2>1 DEF Covered
  <2> QED
      BY <1>2, <2>2 DEF Land, IsOlder
<1> QED
    BY <1>5, <1>6, <1>7, <1>8

LEMMA FailKeeps ==
    ASSUME FeedInv, NEW r \in asks, Fail(r)
    PROVE  FeedInv'
<1> USE DEF FeedInv, Fail, serverVars
<1>1. asks' = {}
    BY DEF OneAsk
<1>2. Typed'
    BY <1>1 DEF Typed
<1> QED
    BY <1>1, <1>2 DEF OneAsk, CursorIsOldest, AnswersAreRight, Covered

LEMMA ServerKeeps ==
    ASSUME FeedInv, NEW id \in Ids, Publish(id) \/ TakeDown(id)
    PROVE  FeedInv'
<1> USE DEF FeedInv, Publish, TakeDown, Change
<1>1. Typed'
    BY DEF Typed
<1>2. OneAsk' /\ CursorIsOldest'
    BY DEF OneAsk, CursorIsOldest
<1>3. AnswersAreRight' /\ Covered'
    BY DEF AnswersAreRight, Covered, IsOlder
<1> QED
    BY <1>1, <1>2, <1>3

LEMMA FeedInvStep == FeedInv /\ [Next]_feedVars => FeedInv'
<1> SUFFICES ASSUME FeedInv, [Next]_feedVars PROVE FeedInv'
    OBVIOUS
<1>1. CASE LoadMore
    BY <1>1, LoadMoreKeeps
<1>2. ASSUME NEW r \in asks, Serve(r) PROVE FeedInv'
    BY <1>2, ServeKeeps
<1>3. ASSUME NEW r \in asks, Land(r) PROVE FeedInv'
    BY <1>3, LandKeeps
<1>4. ASSUME NEW r \in asks, Fail(r) PROVE FeedInv'
    BY <1>4, FailKeeps
<1>5. ASSUME NEW id \in Ids, Publish(id) \/ TakeDown(id) PROVE FeedInv'
    BY <1>5, ServerKeeps
<1>6. CASE UNCHANGED feedVars
    BY <1>6 DEF FeedInv, feedVars, Typed, OneAsk, CursorIsOldest, AnswersAreRight, Covered, IsOlder
<1> QED
    BY <1>1, <1>2, <1>3, <1>4, <1>5, <1>6 DEF Next

(* Fairness is not needed for what follows.                                *)
FeedSteps == Init /\ [][Next]_feedVars

THEOREM FeedInvariant == FeedSteps => []FeedInv
BY FeedInvInit, FeedInvStep, PTL DEF FeedSteps

-----------------------------------------------------------------------------

(* The type invariant of the feed, for every set of ids and page size.     *)
THEOREM FeedTypeCorrect == FeedSteps => []TypeOK
<1>1. FeedInv => TypeOK
    BY DEF FeedInv, Typed, OneAsk, TypeOK, Request
<1> QED
    BY FeedInvariant, <1>1, PTL

(* A feed that came to its end without an error shows every post that was  *)
(* there all along (HomeView.vue loadMore, PostController::getAllPosts).   *)
THEOREM FeedSkipsNothing == FeedSteps => []NothingSkipped
<1>1. FeedInv => NothingSkipped
    BY DEF FeedInv, Covered, NothingSkipped
<1> QED
    BY FeedInvariant, <1>1, PTL

(* A page only adds posts older than all those there (loadMore).           *)
THEOREM FeedGrowsAtItsEnd == FeedSteps => OlderOnly
<1>1. ASSUME FeedInv, [Next]_feedVars
      PROVE  [\A new \in posts' \ posts, id \in posts : new < id]_feedVars
  <2>1. ASSUME NEW r \in asks, Land(r)
        PROVE  \A new \in posts' \ posts, id \in posts : new < id
    <3>1. posts' = posts \cup r.page /\ hasMore /\ r.before = cursor /\ r.stage = "done"
        BY <1>1, <2>1 DEF Land, FeedInv, OneAsk
    <3>2. \A new \in r.page : IsOlder(new, cursor)
        BY <1>1, <3>1 DEF FeedInv, AnswersAreRight
    <3>3. (cursor = 0 => posts = {}) /\ \A id \in posts : cursor <= id
        BY <1>1, <3>1 DEF FeedInv, CursorIsOldest
    <3>4. posts \subseteq Ids /\ cursor \in {0} \cup posts /\ r \in Request
        BY <1>1, <2>1 DEF FeedInv, Typed
    <3>5. r.page \subseteq Ids
        BY <3>4 DEF Request
    <3>6. \A id \in r.page : id \in Nat
        BY <3>5, FeedAssumption
    <3>7. cursor \in Nat /\ \A id \in posts : id \in Nat
        BY <1>1, IdsAreNumbers DEF FeedInv
    <3> QED
        BY <3>1, <3>2, <3>3, <3>6, <3>7 DEF IsOlder
  <2>2. posts' = posts \/ \E r \in asks : Land(r)
      BY <1>1 DEF Next, LoadMore, Serve, Fail, Publish, TakeDown, Change, feedVars
  <2> QED
      BY <2>1, <2>2
<1> QED
    BY FeedInvariant, <1>1, PTL DEF FeedSteps, OlderOnly

-----------------------------------------------------------------------------
(* The editor: what its previews and its saves keep to.                    *)

Render == [n : Nat, text : Editor!Texts]

EditorTyped ==
    /\ content \in Editor!Texts /\ rendered \in Editor!Texts \cup {Editor!Never}
    /\ render \in Render /\ renders \subseteq Render
    /\ asked \in Nat /\ inflight \in Nat
    /\ editorMoves \in Nat /\ saves \in Nat /\ created \in Nat

(* The one request in the air is the newest, and newer than what is shown. *)
NewestInFlight ==
    /\ \A r, s \in renders : r = s
    /\ \A r \in renders : r.n = inflight /\ r.n > render.n /\ r.n \in 1 .. asked
    /\ render.n <= asked
    /\ Editor!Here => inflight = 0 \/ \E r \in renders : r.n = inflight

(* A save under way has not made its post yet.                             *)
SavesCounted == created + (IF editorSaving = "no" THEN 0 ELSE 1) <= saves

EditorInv == EditorTyped /\ NewestInFlight /\ SavesCounted

-----------------------------------------------------------------------------

LEMMA EditorInvInit == Editor!Init => EditorInv
<1> SUFFICES ASSUME Editor!Init PROVE EditorInv
    OBVIOUS
<1>1. EditorTyped
    BY DEF Editor!Init, EditorTyped, Editor!Texts, Render
<1>2. NewestInFlight /\ SavesCounted
    BY DEF Editor!Init, NewestInFlight, SavesCounted
<1> QED
    BY <1>1, <1>2 DEF EditorInv

LEMMA RunPreviewKeeps == EditorInv /\ Editor!RunPreview => EditorInv'
<1> SUFFICES ASSUME EditorInv, Editor!RunPreview PROVE EditorInv'
    OBVIOUS
<1> DEFINE new == [n |-> asked + 1, text |-> content]
<1>1. asked \in Nat /\ new \in Render /\ new.n = asked + 1
    BY DEF EditorInv, EditorTyped, Render
<1> HIDE DEF new
<1>2. renders' = {new}
    BY DEF Editor!RunPreview, EditorInv, NewestInFlight, new
<1>3. inflight' = asked + 1 /\ asked' = asked + 1
    BY DEF Editor!RunPreview
<1>4. UNCHANGED <<content, editorMoves, rendered, render, editorSaving, saves, created, leaving>>
    BY DEF Editor!RunPreview
<1>5. render.n \in Nat /\ render.n <= asked
    BY DEF EditorInv, EditorTyped, Render, NewestInFlight
<1>6. EditorTyped'
    BY <1>1, <1>2, <1>3, <1>4 DEF EditorInv, EditorTyped
<1>7. NewestInFlight'
    BY <1>1, <1>2, <1>3, <1>4, <1>5 DEF NewestInFlight
<1>8. SavesCounted'
    BY <1>4 DEF EditorInv, SavesCounted
<1> QED
    BY <1>6, <1>7, <1>8 DEF EditorInv

LEMMA RunPreviewBlankKeeps == EditorInv /\ Editor!RunPreviewBlank => EditorInv' /\ render'.n = render.n
<1> SUFFICES ASSUME EditorInv, Editor!RunPreviewBlank PROVE EditorInv' /\ render'.n = render.n
    OBVIOUS
<1>1. render' \in Render /\ render'.n = render.n
    BY DEF EditorInv, EditorTyped, Render, Editor!RunPreviewBlank, Editor!Texts
<1>2. EditorTyped'
    BY <1>1 DEF EditorInv, EditorTyped, Editor!RunPreviewBlank, Editor!Texts
<1>3. NewestInFlight' /\ SavesCounted'
    BY <1>1 DEF EditorInv, NewestInFlight, SavesCounted, Editor!RunPreviewBlank, Editor!Here
<1> QED
    BY <1>1, <1>2, <1>3 DEF EditorInv

LEMMA LandPreviewKeeps ==
    ASSUME EditorInv, NEW r \in renders, Editor!LandPreview(r)
    PROVE  EditorInv' /\ render'.n >= render.n
<1>1. r \in Render /\ r.n = inflight /\ r.n > render.n /\ r.n \in 1 .. asked /\ r.n \in Nat /\ render.n \in Nat
    BY DEF EditorInv, EditorTyped, NewestInFlight, Render
<1>2. renders' = {} /\ inflight' = 0
    BY <1>1 DEF Editor!LandPreview, EditorInv, NewestInFlight
<1>3. render' = r \/ render' = render
    BY DEF Editor!LandPreview
<1>4. render' \in Render /\ render'.n <= asked
    BY <1>1, <1>3 DEF EditorInv, EditorTyped, NewestInFlight
<1>5. rendered' \in Editor!Texts \cup {Editor!Never}
    BY <1>1 DEF Editor!LandPreview, EditorInv, EditorTyped, Render
<1>6. UNCHANGED <<content, editorMoves, asked, editorSaving, saves, created, leaving>>
    BY DEF Editor!LandPreview
<1>7. EditorTyped'
    BY <1>2, <1>4, <1>5, <1>6 DEF EditorInv, EditorTyped
<1>8. NewestInFlight' /\ SavesCounted'
    BY <1>2, <1>4, <1>6 DEF EditorInv, NewestInFlight, SavesCounted, Editor!Here
<1> QED
    BY <1>1, <1>3, <1>7, <1>8 DEF EditorInv

(* What the author does, the upload and the saves leave the previews alone. *)
PreviewVars == <<render, rendered, renders, inflight, asked>>

LEMMA OthersKeep ==
    ASSUME EditorInv, UNCHANGED PreviewVars, Editor!Here' => Editor!Here,
           content' \in Editor!Texts, editorMoves' \in Nat, saves' \in Nat, created' \in Nat, SavesCounted'
    PROVE  EditorInv'
<1>1. EditorTyped' /\ NewestInFlight'
    BY DEF EditorInv, EditorTyped, NewestInFlight, PreviewVars
<1> QED
    BY <1>1 DEF EditorInv

LEMMA AuthorKeeps ==
    ASSUME EditorInv,
           (\E w \in Words : Editor!Type(w)) \/ Editor!SwitchView \/ Editor!PickImage \/ Editor!LandUpload
    PROVE  EditorInv' /\ UNCHANGED render
<1>1. UNCHANGED <<render, rendered, renders, inflight, asked, editorSaving, saves, created, leaving>>
    BY DEF Editor!Type, Editor!SwitchView, Editor!PickImage, Editor!LandUpload
<1>2. content' \in Editor!Texts
  <2>1. content \in Editor!Texts
      BY DEF EditorInv, EditorTyped
  <2>2. ASSUME NEW w \in Words, Editor!Type(w) PROVE content' \in Editor!Texts
      BY <2>1, <2>2 DEF Editor!Type, Editor!SetText, Editor!Texts
  <2>3. CASE Editor!LandUpload
      BY <2>1, <2>3 DEF Editor!LandUpload, Editor!SetText, Editor!Texts
  <2>4. CASE Editor!SwitchView \/ Editor!PickImage
      BY <2>1, <2>4 DEF Editor!SwitchView, Editor!PickImage
  <2> QED
      BY <2>2, <2>3, <2>4
<1>3. editorMoves' \in Nat
  <2>1. editorMoves' = editorMoves \/ editorMoves' = editorMoves + 1
      BY DEF Editor!Type, Editor!SwitchView, Editor!PickImage, Editor!LandUpload
  <2>2. editorMoves \in Nat
      BY DEF EditorInv, EditorTyped
  <2> QED
      BY <2>1, <2>2
<1>4. SavesCounted' /\ saves' \in Nat /\ created' \in Nat
    BY <1>1 DEF EditorInv, EditorTyped, SavesCounted
<1> QED
    BY <1>1, <1>2, <1>3, <1>4, OthersKeep DEF PreviewVars, Editor!Here

LEMMA SavesKeep ==
    ASSUME EditorInv,
           (\E how \in {"post", "drafts"} : Editor!Save(how)) \/ Editor!LandSave \/ Editor!LandFailedSave
    PROVE  EditorInv' /\ UNCHANGED render
<1>1. UNCHANGED <<content, editorMoves, render, rendered, renders, inflight, asked>>
    BY DEF Editor!Save, Editor!LandSave, Editor!LandFailedSave
<1>2. Editor!Here' => Editor!Here
    BY DEF Editor!Save, Editor!LandSave, Editor!LandFailedSave, Editor!Here
<1>3. saves \in Nat /\ created \in Nat /\ content \in Editor!Texts /\ editorMoves \in Nat
    BY DEF EditorInv, EditorTyped
<1>4. saves' \in Nat /\ created' \in Nat /\ SavesCounted'
  <2>1. CASE \E how \in {"post", "drafts"} : Editor!Save(how)
      BY <1>3, <2>1 DEF Editor!Save, EditorInv, SavesCounted
  <2>2. CASE Editor!LandSave
      BY <1>3, <2>2 DEF Editor!LandSave, EditorInv, SavesCounted
  <2>3. CASE Editor!LandFailedSave
    <3>1. created + 1 <= saves
        BY <2>3 DEF Editor!LandFailedSave, EditorInv, SavesCounted
    <3>2. editorSaving' = "no" /\ saves' = saves /\ (created' = created \/ created' = created + 1)
        BY <2>3 DEF Editor!LandFailedSave
    <3>3. created' \in Nat /\ created' <= saves
        BY <1>3, <3>1, <3>2
    <3>4. created' + 0 <= saves'
        BY <3>2, <3>3
    <3>5. SavesCounted'
        BY <3>2, <3>4 DEF SavesCounted
    <3> QED
        BY <1>3, <3>2, <3>3, <3>5
  <2> QED
      BY <2>1, <2>2, <2>3
<1> QED
    BY <1>1, <1>2, <1>3, <1>4, OthersKeep DEF PreviewVars

LEMMA UnmountKeeps == EditorInv /\ Editor!Unmount => EditorInv' /\ UNCHANGED render
<1> SUFFICES ASSUME EditorInv, Editor!Unmount PROVE EditorInv' /\ UNCHANGED render
    OBVIOUS
<1> USE DEF EditorInv, Editor!Unmount
<1>1. renders' = {} /\ ~Editor!Here'
    BY DEF NewestInFlight, Editor!Here
<1>2. EditorTyped'
    BY <1>1 DEF EditorTyped
<1>3. NewestInFlight'
    BY <1>1 DEF NewestInFlight
<1>4. SavesCounted'
    BY DEF SavesCounted
<1> QED
    BY <1>2, <1>3, <1>4

LEMMA EditorInvStep ==
    EditorInv /\ [Editor!Next]_(Editor!editorVars) => EditorInv' /\ render'.n >= render.n
<1> SUFFICES ASSUME EditorInv, [Editor!Next]_(Editor!editorVars)
             PROVE  EditorInv' /\ render'.n >= render.n
    OBVIOUS
<1>1. render.n \in Nat
    BY DEF EditorInv, EditorTyped, Render
<1>2. CASE Editor!RunPreview
    BY <1>1, <1>2, RunPreviewKeeps DEF Editor!RunPreview
<1>3. CASE Editor!RunPreviewBlank
    BY <1>1, <1>3, RunPreviewBlankKeeps
<1>4. ASSUME NEW r \in renders, Editor!LandPreview(r) PROVE EditorInv' /\ render'.n >= render.n
    BY <1>4, LandPreviewKeeps
<1>5. CASE (\E w \in Words : Editor!Type(w)) \/ Editor!SwitchView \/ Editor!PickImage \/ Editor!LandUpload
    BY <1>1, <1>5, AuthorKeeps
<1>6. CASE (\E how \in {"post", "drafts"} : Editor!Save(how)) \/ Editor!LandSave \/ Editor!LandFailedSave
    BY <1>1, <1>6, SavesKeep
<1>7. CASE Editor!Unmount
    BY <1>1, <1>7, UnmountKeeps
<1>8. CASE UNCHANGED Editor!editorVars
    BY <1>1, <1>8 DEF EditorInv, EditorTyped, NewestInFlight, SavesCounted, Editor!Here, Editor!editorVars
<1> QED
    BY <1>2, <1>3, <1>4, <1>5, <1>6, <1>7, <1>8 DEF Editor!Next

THEOREM EditorInvariant == Editor!Spec => []EditorInv
<1>1. EditorInv /\ [Editor!Next]_(Editor!editorVars) => EditorInv'
    BY EditorInvStep
<1> QED
    BY EditorInvInit, <1>1, PTL DEF Editor!Spec

-----------------------------------------------------------------------------

(* An earlier draft never lands after a later one: runPreview aborts the   *)
(* request before (CreatePostView.vue).                                    *)
THEOREM PreviewsLandInOrder == Editor!Spec => Editor!RendersLandInOrder
<1>1. EditorInv /\ [Editor!Next]_(Editor!editorVars) => [render'.n >= render.n]_(Editor!editorVars)
    BY EditorInvStep
<1> QED
    BY EditorInvariant, <1>1, PTL DEF Editor!Spec, Editor!RendersLandInOrder

(* The texts are texts, and the request that can be aborted is the one in  *)
(* the air (CreatePostView.vue).                                            *)
(* What the author does is bounded.                                        *)
EditorBounded == saves <= MaxSaves /\ editorMoves <= MovesOf["editor"]

THEOREM EditorTypeCorrect == Editor!Spec => []Editor!TypeOK
<1>1. EditorInv /\ Editor!Init => EditorBounded
    BY BoundAssumption DEF Editor!Init, EditorBounded
<1>2. EditorInv /\ EditorBounded /\ [Editor!Next]_(Editor!editorVars) => EditorBounded'
    <2> SUFFICES ASSUME EditorInv, EditorBounded, [Editor!Next]_(Editor!editorVars) PROVE EditorBounded'
        OBVIOUS
    <2>1. saves \in Nat /\ editorMoves \in Nat /\ MaxSaves \in Nat /\ MovesOf["editor"] \in Nat
        BY BoundAssumption DEF EditorInv, EditorTyped
    <2>2. saves' = saves \/ (saves < MaxSaves /\ saves' = saves + 1)
        BY DEF Editor!Next, Editor!editorVars, Editor!Type, Editor!SwitchView, Editor!RunPreviewBlank, Editor!RunPreview,
               Editor!LandPreview, Editor!PickImage, Editor!LandUpload, Editor!Save, Editor!LandSave,
               Editor!LandFailedSave, Editor!Unmount
    <2>3. editorMoves' = editorMoves \/ (editorMoves < MovesOf["editor"] /\ editorMoves' = editorMoves + 1)
        BY DEF Editor!Next, Editor!editorVars, Editor!Type, Editor!SwitchView, Editor!RunPreviewBlank, Editor!RunPreview,
               Editor!LandPreview, Editor!PickImage, Editor!LandUpload, Editor!Save, Editor!LandSave,
               Editor!LandFailedSave, Editor!Unmount
    <2> QED
        BY <2>1, <2>2, <2>3 DEF EditorBounded
<1>3. EditorInv /\ EditorBounded => Editor!TypeOK
    <2> SUFFICES ASSUME EditorInv, EditorBounded PROVE Editor!TypeOK
        OBVIOUS
    <2>1. content \in Editor!Texts /\ rendered \in Editor!Texts \cup {Editor!Never}
        BY DEF EditorInv, EditorTyped
    <2>2. renders \in SUBSET [n : 1 .. asked, text : Editor!Texts]
        <3> SUFFICES ASSUME NEW r \in renders PROVE r \in [n : 1 .. asked, text : Editor!Texts]
            OBVIOUS
        <3> QED
            BY DEF EditorInv, EditorTyped, NewestInFlight, Render
    <2>3. inflight \in {r.n : r \in renders} \cup {0} \/ ~Editor!Here
        BY DEF EditorInv, NewestInFlight
    <2>4. created <= saves /\ saves \in 0 .. MaxSaves /\ editorMoves \in 0 .. MovesOf["editor"]
        BY BoundAssumption DEF EditorInv, EditorTyped, SavesCounted, EditorBounded
    <2> QED
        BY <2>1, <2>2, <2>3, <2>4 DEF Editor!TypeOK
<1> QED
    BY <1>1, <1>2, <1>3, EditorInvariant, PTL DEF Editor!Spec

(* However saves are lost or refused, the backend has made no more posts   *)
(* than the author pressed the buttons (save).                             *)
THEOREM NoMorePostsThanPresses == Editor!Spec => [](created <= saves)
<1>1. EditorInv => created <= saves
    BY DEF EditorInv, EditorTyped, SavesCounted
<1> QED
    BY EditorInvariant, <1>1, PTL

-----------------------------------------------------------------------------
(* Accounts and the links mailed about them.                               *)

Account == [email : Addresses, verified : BOOLEAN, token : Nat]
Mail == [kind : {"verify", "reset"}, to : Addresses, name : Names]
Link == [token : Nat, name : Names]

LinkAsk == [n : Nat, kind : {"register", "forgot", "reset", "verify", "change", "resend"},
            name : Names \cup {NoUser}, to : Addresses \cup {NoUser}, token : Nat, visit : Nat,
            stage : {"asked", "free", "read", "mailed", "wiped", "probed", "done", "refused"}]

LinkTypes ==
    /\ users \in [Names -> Account \cup {NoUser}]
    /\ mails \in Seq(Mail) /\ resets \subseteq Link
    /\ proven \in [Names -> SUBSET Addresses] /\ tokenChanges \in Seq(Nat)

(* A request about an account knows it, and what was mailed for it.        *)
AskOK(r) ==
    /\ r \in LinkAsk /\ r.visit <= tokenVisit
    /\ r.kind \in {"register", "forgot", "change", "resend"} => r.to \in Addresses
    /\ r.kind = "register" => r.name \in Names
    /\ r.kind = "change" \/ r.stage \in {"read", "wiped"} => r.name \in Names /\ users[r.name] # NoUser
    /\ r.kind = "verify" => r.token \in DOMAIN mails
    /\ r.stage = "wiped" => r.kind = "forgot"
    /\ r.stage = "mailed" =>
          r.token \in DOMAIN mails /\ mails[r.token].to = r.to /\ mails[r.token].name = r.name

(* A token that is out was mailed to its account, and unless a resend was   *)
(* written over a change to the account's address.                          *)
TokensMailed ==
    /\ \A u \in Names : users[u] # NoUser /\ users[u].token # 0 =>
          /\ users[u].token \in DOMAIN mails /\ mails[users[u].token].name = u
          /\ ~straddled => mails[users[u].token].to = users[u].email
    /\ \A row \in resets : row.token \in DOMAIN mails /\ mails[row.token].name = row.name

(* A link that has changed a password is out no more.                       *)
LinksUsedUp ==
    /\ \A i \in DOMAIN tokenChanges :
          tokenChanges[i] \in DOMAIN mails /\ \A row \in resets : row.token # tokenChanges[i]
    /\ \A i, j \in DOMAIN tokenChanges : tokenChanges[i] = tokenChanges[j] => i = j

(* A request that has wiped the links of its account finds none when it     *)
(* inserts its own.                                                         *)
Wiped(r) == r.stage = "wiped"
WipedApart == \A r, s \in tokenAsks : Wiped(r) /\ Wiped(s) => r = s
WipedClean == \A r \in tokenAsks, row \in resets : Wiped(r) => row.name # r.name
OneLink == \A row, other \in resets : row.name = other.name => row = other

OverlapInv == ~tokenOverlapped => WipedApart /\ WipedClean /\ OneLink

DataInv == LinkTypes /\ TokensMailed /\ Token!VerifiedIsProven /\ LinksUsedUp

AsksInv == \A r \in tokenAsks : AskOK(r)

(* A form is busy while it is asked about; until an answer came too late    *)
(* the only timer is that of the view.                                      *)
TabInv ==
    /\ tokenPresses \in Nat /\ tokenVisit \in Nat \ {0} /\ token \in Nat
    /\ timers \subseteq 1 .. tokenVisit
    /\ tokenBusy => \E r \in tokenAsks : r.visit = tokenVisit
    /\ ~tokenLate => timers \subseteq {tokenVisit}

LinkInv == TabInv /\ AsksInv /\ DataInv /\ OverlapInv

-----------------------------------------------------------------------------

LEMMA AccountsAreSomebody == NoUser \notin Account
BY AccountAssumption DEF Account

LEMMA LinkStarts == Token!Init => LinkInv
<1> SUFFICES ASSUME Token!Init PROVE LinkInv
    OBVIOUS
<1>1. /\ tokenVisit = 1 /\ tokenBusy = FALSE /\ timers = {} /\ tokenLate = FALSE /\ tokenPresses = 0
      /\ tokenAsks = {} /\ tokenChanges = <<>> /\ straddled = FALSE /\ tokenOverlapped = FALSE
    BY DEF Token!Init
<1>2. LinksUsedUp /\ AsksInv /\ WipedApart /\ WipedClean /\ tokenChanges \in Seq(Nat)
    BY <1>1 DEF LinksUsedUp, AsksInv, WipedApart, WipedClean
<1>3. CASE Token!Unregistered
    <2>1. /\ token = 0 /\ users = [u \in Names |-> NoUser] /\ proven = [u \in Names |-> {}]
          /\ resets = {} /\ mails = <<>>
        BY <1>3 DEF Token!Unregistered
    <2>2. users \in [Names -> Account \cup {NoUser}] /\ proven \in [Names -> SUBSET Addresses] /\ mails \in Seq(Mail)
        BY <2>1
    <2>3. LinkTypes
        BY <1>2, <2>1, <2>2 DEF LinkTypes
    <2>4. TokensMailed /\ Token!VerifiedIsProven /\ OneLink
        BY <2>1 DEF TokensMailed, Token!VerifiedIsProven, OneLink
    <2>5. TabInv
        BY <1>1, <2>1 DEF TabInv
    <2> QED
        BY <1>2, <2>3, <2>4, <2>5 DEF LinkInv, DataInv, OverlapInv
<1>4. CASE Token!Registered
    <2>1. PICK u \in Names, to \in Addresses :
              /\ users = [n \in Names |-> IF n = u THEN [email |-> to, verified |-> TRUE, token |-> 0] ELSE NoUser]
              /\ proven = [n \in Names |-> IF n = u THEN {to} ELSE {}]
              /\ mails = <<[kind |-> "reset", to |-> to, name |-> u]>>
              /\ resets = {[token |-> 1, name |-> u]}
        BY <1>4 DEF Token!Registered
    <2>2. TabInv
        <3>1. token \in Nat
            BY <1>4 DEF Token!Registered
        <3> QED
            BY <1>1, <3>1 DEF TabInv
    <2>3. /\ DOMAIN mails = {1} /\ mails[1] = [kind |-> "reset", to |-> to, name |-> u]
          /\ [kind |-> "reset", to |-> to, name |-> u] \in Mail
          /\ [token |-> 1, name |-> u] \in Link
          /\ [email |-> to, verified |-> TRUE, token |-> 0] \in Account
        BY <2>1 DEF Mail, Link, Account
    <2>4. mails \in Seq(Mail)
        BY <2>1, <2>3
    <2>5. users \in [Names -> Account \cup {NoUser}] /\ proven \in [Names -> SUBSET Addresses] /\ resets \subseteq Link
        BY <2>1, <2>3
    <2>6. LinkTypes
        BY <1>2, <2>4, <2>5 DEF LinkTypes
    <2>7. TokensMailed /\ Token!VerifiedIsProven /\ OneLink
        BY <2>1, <2>3 DEF TokensMailed, Token!VerifiedIsProven, OneLink
    <2> QED
        BY <1>2, <2>2, <2>6, <2>7 DEF LinkInv, DataInv, OverlapInv
<1> QED
    BY <1>3, <1>4 DEF Token!Init

(* What a request knows stays so while accounts and mails only come.        *)
Grows ==
    /\ DOMAIN mails \subseteq DOMAIN mails' /\ \A t \in DOMAIN mails : mails'[t] = mails[t]
    /\ \A u \in Names : users[u] # NoUser => users'[u] # NoUser
    /\ tokenVisit <= tokenVisit' /\ tokenVisit \in Nat /\ tokenVisit' \in Nat

LEMMA AskStaysOK ==
    ASSUME NEW r, AskOK(r), Grows PROVE AskOK(r)'
<1>1. r.visit <= tokenVisit'
    <2>1. r.visit \in Nat
        BY DEF AskOK, LinkAsk
    <2> QED
        BY <2>1 DEF AskOK, Grows
<1> QED
    BY <1>1 DEF AskOK, Grows

LEMMA MailGoesOut ==
    ASSUME mails \in Seq(Mail), NEW kind \in {"verify", "reset"}, NEW to \in Addresses, NEW u \in Names,
           Token!Mailed(kind, to, u)
    PROVE /\ mails' \in Seq(Mail) /\ Token!NewToken \in Nat \ {0}
          /\ DOMAIN mails' = DOMAIN mails \cup {Token!NewToken} /\ Token!NewToken \notin DOMAIN mails
          /\ mails'[Token!NewToken].to = to /\ mails'[Token!NewToken].name = u
          /\ \A t \in DOMAIN mails : mails'[t] = mails[t]
<1> DEFINE m == [kind |-> kind, to |-> to, name |-> u]
<1>1. m \in Mail /\ m.to = to /\ m.name = u
    BY DEF Mail
<1>2. mails' = Append(mails, m)
    BY DEF Token!Mailed
<1> HIDE DEF m
<1> QED
    BY <1>1, <1>2 DEF Token!NewToken

(* A request moves on, to a stage that knows no more than the one before.   *)
LEMMA StageMoves ==
    ASSUME NEW r, AskOK(r), Grows, NEW st \in {"free", "probed", "done", "refused"}
    PROVE /\ AskOK([r EXCEPT !.stage = st])' /\ ~Wiped([r EXCEPT !.stage = st])
          /\ [r EXCEPT !.stage = st].visit = r.visit
<1> DEFINE s == [r EXCEPT !.stage = st]
<1>1. /\ s \in LinkAsk /\ s.visit = r.visit /\ s.kind = r.kind /\ s.name = r.name /\ s.to = r.to /\ s.token = r.token
      /\ s.stage = st
    BY DEF AskOK, LinkAsk
<1>2. AskOK(r)'
    BY AskStaysOK
<1> HIDE DEF s
<1>3. AskOK(s)' /\ ~Wiped(s)
    BY <1>1, <1>2 DEF AskOK, Wiped
<1> QED
    BY <1>1, <1>3 DEF s

LEMMA DataRests == DataInv /\ Token!Unsent => DataInv'
BY DEF DataInv, Token!Unsent, LinkTypes, TokensMailed, Token!VerifiedIsProven, LinksUsedUp

LEMMA OverlapStays ==
    ASSUME OverlapInv, UNCHANGED tokenOverlapped, resets' \subseteq resets,
           \A r \in tokenAsks' : Wiped(r) => r \in tokenAsks
    PROVE OverlapInv'
<1> SUFFICES ASSUME ~tokenOverlapped PROVE WipedApart' /\ WipedClean' /\ OneLink'
    BY DEF OverlapInv
<1>1. WipedApart /\ WipedClean /\ OneLink
    BY DEF OverlapInv
<1> QED
    BY <1>1 DEF WipedApart, WipedClean, OneLink

(* A handler leaves the tab alone, and its request with its view.           *)
LEMMA HandlerLeavesTab ==
    ASSUME TabInv, UNCHANGED <<Token!tab, tokenPresses>>, NEW r \in tokenAsks, NEW s, Token!Becomes(r, s),
           s.visit = r.visit
    PROVE TabInv'
BY DEF TabInv, Token!tab, Token!Becomes

LEMMA HandlerLeavesOthers ==
    ASSUME AsksInv, Grows, NEW r \in tokenAsks, NEW s, Token!Becomes(r, s), AskOK(s)'
    PROVE AsksInv'
BY AskStaysOK DEF AsksInv, Token!Becomes

LEMMA RestGrows == ASSUME TabInv, TabInv', Token!Unsent, tokenVisit <= tokenVisit' PROVE Grows
BY DEF Grows, Token!Unsent, TabInv

(* The tab asks, and the table is left alone.                               *)
LEMMA TabAsks ==
    ASSUME LinkInv, Token!Unsent, TabInv', tokenVisit <= tokenVisit',
           NEW s, tokenAsks' \subseteq tokenAsks \cup {s}, s \in tokenAsks' \ tokenAsks => AskOK(s) /\ ~Wiped(s)
    PROVE LinkInv'
<1>1. DataInv'
    BY DataRests DEF LinkInv
<1>2. Grows
    BY RestGrows DEF LinkInv
<1>3. AsksInv'
    BY <1>2, AskStaysOK DEF LinkInv, AsksInv
<1>4. OverlapInv'
    BY OverlapStays DEF LinkInv, Token!Unsent
<1> QED
    BY <1>1, <1>3, <1>4 DEF LinkInv

LEMMA NewAskOK ==
    ASSUME TabInv, NEW kind \in {"register", "forgot", "reset", "verify", "change", "resend"},
           NEW name \in Names \cup {NoUser}, NEW to \in Addresses \cup {NoUser}, NEW t \in Nat, NEW v \in Nat
    PROVE /\ Token!Ask(kind, name, to, t, v) \in LinkAsk
          /\ Token!Ask(kind, name, to, t, v).kind = kind /\ Token!Ask(kind, name, to, t, v).name = name
          /\ Token!Ask(kind, name, to, t, v).to = to /\ Token!Ask(kind, name, to, t, v).token = t
          /\ Token!Ask(kind, name, to, t, v).visit = v /\ Token!Ask(kind, name, to, t, v).stage = "asked"
BY DEF Token!Ask, LinkAsk, TabInv

LEMMA TabGoes == ASSUME LinkInv, NEW to, Token!GoTo(to) PROVE LinkInv'
<1>1. /\ tokenPresses' = tokenPresses + 1 /\ tokenVisit' = tokenVisit + 1 /\ tokenBusy' = FALSE
      /\ timers' = timers \ {tokenVisit} /\ token' = 0 /\ UNCHANGED <<tokenLate, tokenAsks>> /\ Token!Unsent
    BY DEF Token!GoTo, Token!Press, Token!Unmount
<1>2. TabInv'
    BY <1>1 DEF LinkInv, TabInv
<1>3. tokenVisit <= tokenVisit'
    BY <1>1 DEF LinkInv, TabInv
<1>4. tokenAsks' \subseteq tokenAsks \cup {0} /\ 0 \notin tokenAsks' \ tokenAsks
    BY <1>1
<1> QED
    BY <1>1, <1>2, <1>3, <1>4, TabAsks

(* A form of the tab, or another client, asks.                              *)
LEMMA SomebodyAsks ==
    ASSUME LinkInv, Token!Press, Token!Unsent, NEW s, Token!Send(s), AskOK(s), ~Wiped(s),
           UNCHANGED <<tokenVisit, token, timers, tokenLate>>,
           tokenBusy' => tokenBusy \/ s.visit = tokenVisit
    PROVE LinkInv'
<1>1. tokenPresses' = tokenPresses + 1 /\ tokenAsks' = tokenAsks \cup {s}
    BY DEF Token!Press, Token!Send
<1>2. TabInv'
    BY <1>1 DEF LinkInv, TabInv
<1>3. tokenVisit <= tokenVisit'
    BY DEF LinkInv, TabInv
<1> QED
    BY <1>1, <1>2, <1>3, TabAsks

LEMMA RegistersInvariant ==
    ASSUME LinkInv, NEW u \in Names, NEW to \in Addresses, Token!SubmitRegister(u, to) \/ Token!ChangeAddress(u, to)
    PROVE LinkInv'
<1>1. TabInv
    BY DEF LinkInv
<1>2. CASE Token!SubmitRegister(u, to)
    <2> DEFINE s == Token!Ask("register", u, to, 0, tokenVisit)
    <2>1. /\ s \in LinkAsk /\ s.kind = "register" /\ s.name = u /\ s.to = to /\ s.visit = tokenVisit /\ s.stage = "asked"
        BY <1>1, NewAskOK DEF TabInv
    <2>2. /\ Token!Press /\ Token!Unsent /\ Token!Send(s) /\ UNCHANGED <<tokenVisit, token, timers, tokenLate>>
          /\ tokenBusy' = TRUE
        BY <1>2 DEF Token!SubmitRegister
    <2> HIDE DEF s
    <2>3. AskOK(s) /\ ~Wiped(s)
        BY <1>1, <2>1 DEF AskOK, Wiped, TabInv
    <2> QED
        BY <2>1, <2>2, <2>3, SomebodyAsks
<1>3. CASE Token!ChangeAddress(u, to)
    <2> DEFINE s == Token!Ask("change", u, to, 0, 0)
    <2>1. /\ s \in LinkAsk /\ s.kind = "change" /\ s.name = u /\ s.to = to /\ s.visit = 0 /\ s.stage = "asked"
        BY <1>1, NewAskOK
    <2>2. /\ Token!Press /\ Token!Unsent /\ Token!Send(s) /\ UNCHANGED <<tokenVisit, token, timers, tokenLate>>
          /\ tokenBusy' = tokenBusy /\ users[u] # NoUser
        BY <1>3 DEF Token!ChangeAddress, Token!tab
    <2> HIDE DEF s
    <2>3. AskOK(s) /\ ~Wiped(s)
        BY <1>1, <2>1, <2>2 DEF AskOK, Wiped, TabInv
    <2> QED
        BY <2>1, <2>2, <2>3, SomebodyAsks
<1> QED
    BY <1>2, <1>3

LEMMA ForgotsInvariant ==
    ASSUME LinkInv, NEW to \in Addresses, Token!SubmitForgot(to) \/ Token!AskResend(to)
    PROVE LinkInv'
<1>1. TabInv
    BY DEF LinkInv
<1>2. CASE Token!SubmitForgot(to)
    <2> DEFINE s == Token!Ask("forgot", NoUser, to, 0, tokenVisit)
    <2>1. /\ s \in LinkAsk /\ s.kind = "forgot" /\ s.to = to /\ s.visit = tokenVisit /\ s.stage = "asked"
        BY <1>1, NewAskOK DEF TabInv
    <2>2. /\ Token!Press /\ Token!Unsent /\ Token!Send(s) /\ UNCHANGED <<tokenVisit, token, timers, tokenLate>>
          /\ tokenBusy' = TRUE
        BY <1>2 DEF Token!SubmitForgot
    <2> HIDE DEF s
    <2>3. AskOK(s) /\ ~Wiped(s)
        BY <1>1, <2>1 DEF AskOK, Wiped, TabInv
    <2> QED
        BY <2>1, <2>2, <2>3, SomebodyAsks
<1>3. CASE Token!AskResend(to)
    <2> DEFINE s == Token!Ask("resend", NoUser, to, 0, 0)
    <2>1. /\ s \in LinkAsk /\ s.kind = "resend" /\ s.to = to /\ s.visit = 0 /\ s.stage = "asked"
        BY <1>1, NewAskOK DEF TabInv
    <2>2. /\ Token!Press /\ Token!Unsent /\ Token!Send(s) /\ UNCHANGED <<tokenVisit, token, timers, tokenLate>>
          /\ tokenBusy' = tokenBusy
        BY <1>3 DEF Token!AskResend, Token!tab
    <2> HIDE DEF s
    <2>3. AskOK(s) /\ ~Wiped(s)
        BY <1>1, <2>1, <2>2 DEF AskOK, Wiped, TabInv
    <2> QED
        BY <2>1, <2>2, <2>3, SomebodyAsks
<1> QED
    BY <1>2, <1>3

LEMMA ResetsInvariant == ASSUME LinkInv, Token!SubmitReset PROVE LinkInv'
<1>1. TabInv
    BY DEF LinkInv
<1> DEFINE s == Token!Ask("reset", NoUser, NoUser, token, tokenVisit)
<1>2. s \in LinkAsk /\ s.kind = "reset" /\ s.visit = tokenVisit /\ s.stage = "asked"
    BY <1>1, NewAskOK DEF TabInv
<1>3. /\ Token!Press /\ Token!Unsent /\ Token!Send(s) /\ UNCHANGED <<tokenVisit, token, timers, tokenLate>>
      /\ tokenBusy' = TRUE
    BY DEF Token!SubmitReset
<1> HIDE DEF s
<1>4. AskOK(s) /\ ~Wiped(s)
    BY <1>1, <1>2 DEF AskOK, Wiped, TabInv
<1> QED
    BY <1>2, <1>3, <1>4, SomebodyAsks

(* A new document: the requests of the one before are nobody's.             *)
LEMMA OrphansAreOK ==
    ASSUME AsksInv, TabInv
    PROVE /\ \A o \in Token!Orphans : AskOK(o) /\ o.visit = 0
          /\ \A o \in Token!Orphans : Wiped(o) => \E r \in tokenAsks : Wiped(r) /\ r.name = o.name
          /\ WipedApart => \A o, p \in Token!Orphans : Wiped(o) /\ Wiped(p) => o = p
<1>1. ASSUME NEW r \in tokenAsks
      PROVE /\ [r EXCEPT !.visit = 0] \in LinkAsk /\ [r EXCEPT !.visit = 0].visit = 0
            /\ [r EXCEPT !.visit = 0].kind = r.kind /\ [r EXCEPT !.visit = 0].name = r.name
            /\ [r EXCEPT !.visit = 0].to = r.to /\ [r EXCEPT !.visit = 0].token = r.token
            /\ [r EXCEPT !.visit = 0].stage = r.stage
    BY DEF AsksInv, AskOK, LinkAsk
<1>2. ASSUME NEW r \in tokenAsks PROVE AskOK([r EXCEPT !.visit = 0])
    <2> DEFINE o == [r EXCEPT !.visit = 0]
    <2>1. /\ o \in LinkAsk /\ o.visit = 0 /\ o.kind = r.kind /\ o.name = r.name /\ o.to = r.to /\ o.token = r.token
          /\ o.stage = r.stage
        BY <1>1
    <2> HIDE DEF o
    <2>2. AskOK(r)
        BY DEF AsksInv
    <2>3. AskOK(o)
        BY <2>1, <2>2 DEF AskOK, TabInv
    <2> QED
        BY <2>3 DEF o
<1>3. ASSUME NEW r \in tokenAsks PROVE Wiped([r EXCEPT !.visit = 0]) <=> Wiped(r)
    BY <1>1 DEF Wiped
<1>4. \A o \in Token!Orphans : \E r \in tokenAsks : o = [r EXCEPT !.visit = 0]
    BY DEF Token!Orphans
<1>5. WipedApart => \A o, p \in Token!Orphans : Wiped(o) /\ Wiped(p) => o = p
    BY <1>3, <1>4 DEF WipedApart
<1>6. \A o \in Token!Orphans : AskOK(o) /\ o.visit = 0
    <2> SUFFICES ASSUME NEW o \in Token!Orphans PROVE AskOK(o) /\ o.visit = 0
        OBVIOUS
    <2>1. PICK r \in tokenAsks : o = [r EXCEPT !.visit = 0]
        BY <1>4
    <2> QED
        BY <1>1, <1>2, <2>1
<1>7. \A o \in Token!Orphans : Wiped(o) => \E r \in tokenAsks : Wiped(r) /\ r.name = o.name
    <2> SUFFICES ASSUME NEW o \in Token!Orphans, Wiped(o) PROVE \E r \in tokenAsks : Wiped(r) /\ r.name = o.name
        OBVIOUS
    <2>1. PICK r \in tokenAsks : o = [r EXCEPT !.visit = 0]
        BY <1>4
    <2> QED
        BY <1>1, <1>3, <2>1
<1> QED
    BY <1>5, <1>6, <1>7

LEMMA DocumentOpens ==
    ASSUME LinkInv, Token!Press, Token!Unsent, tokenVisit' = tokenVisit + 1, timers' = {}, token' \in Nat,
           UNCHANGED tokenLate, NEW s, tokenAsks' \subseteq Token!Orphans \cup {s},
           s \in tokenAsks' => s \in Token!Orphans \/ (AskOK(s)' /\ ~Wiped(s)),
           tokenBusy' => s \in tokenAsks' /\ s.visit = tokenVisit + 1
    PROVE LinkInv'
<1>1. TabInv'
    BY DEF LinkInv, TabInv, Token!Press
<1>2. DataInv'
    BY DataRests DEF LinkInv
<1>3. Grows
    BY <1>1, RestGrows DEF LinkInv, TabInv
<1>4. /\ \A o \in Token!Orphans : AskOK(o) /\ o.visit = 0
      /\ \A o \in Token!Orphans : Wiped(o) => \E r \in tokenAsks : Wiped(r) /\ r.name = o.name
      /\ WipedApart => \A o, p \in Token!Orphans : Wiped(o) /\ Wiped(p) => o = p
    BY OrphansAreOK DEF LinkInv
<1>5. AsksInv'
    BY <1>3, <1>4, AskStaysOK DEF AsksInv
<1>6. OverlapInv'
    <2> SUFFICES ASSUME ~tokenOverlapped' PROVE WipedApart' /\ WipedClean' /\ OneLink'
        BY DEF OverlapInv
    <2>1. WipedApart /\ WipedClean /\ OneLink /\ resets' = resets
        BY DEF OverlapInv, LinkInv, Token!Unsent
    <2>2. \A o \in tokenAsks' : Wiped(o) => o \in Token!Orphans
        OBVIOUS
    <2> QED
        BY <1>4, <2>1, <2>2 DEF WipedApart, WipedClean, OneLink
<1> QED
    BY <1>1, <1>2, <1>5, <1>6 DEF LinkInv

LEMMA OpensInvariant ==
    ASSUME LinkInv, NEW t \in DOMAIN mails, Token!OpenVerification(t) \/ Token!OpenReset(t)
    PROVE LinkInv'
<1>1. TabInv /\ t \in Nat
    BY DEF LinkInv, DataInv, LinkTypes
<1>2. CASE Token!OpenVerification(t)
    <2>1. tokenVisit' = tokenVisit + 1
        BY <1>2 DEF Token!OpenVerification
    <2>2. PICK s : s = Token!Ask("verify", NoUser, NoUser, t, tokenVisit + 1)
        OBVIOUS
    <2>5. s \in LinkAsk /\ s.kind = "verify" /\ s.token = t /\ s.visit = tokenVisit + 1 /\ s.stage = "asked"
        <3>1. tokenVisit + 1 \in Nat
            BY <1>1 DEF TabInv
        <3> QED
            BY <1>1, <2>2, <3>1, NewAskOK
    <2>3. /\ Token!Press /\ Token!Unsent /\ timers' = {} /\ token' = 0 /\ UNCHANGED tokenLate
          /\ tokenAsks' = Token!Orphans \cup {s}
        BY <1>2, <2>1, <2>2 DEF Token!OpenVerification
    <2>4. AskOK(s)' /\ ~Wiped(s)
        BY <1>1, <2>1, <2>5, <2>3 DEF AskOK, Wiped, Token!Unsent, TabInv
    <2> QED
        BY <2>1, <2>5, <2>3, <2>4, DocumentOpens
<1>3. CASE Token!OpenReset(t)
    <2>1. /\ Token!Press /\ Token!Unsent /\ tokenVisit' = tokenVisit + 1 /\ timers' = {} /\ token' = t
          /\ UNCHANGED tokenLate /\ tokenAsks' = Token!Orphans /\ tokenBusy' = FALSE
        BY <1>3 DEF Token!OpenReset
    <2>2. tokenAsks' \subseteq Token!Orphans \cup {0} /\ (0 \in tokenAsks' => 0 \in Token!Orphans)
        BY <2>1
    <2> QED
        BY <1>1, <2>1, <2>2, DocumentOpens
<1> QED
    BY <1>2, <1>3

LEMMA TimersFire == ASSUME LinkInv, NEW v \in timers, Token!FireTimer(v) PROVE LinkInv'
<1>1. /\ Token!Unsent /\ token' = 0 /\ UNCHANGED <<tokenLate, tokenPresses, tokenAsks>>
      /\ \/ timers' = timers \ {v} /\ UNCHANGED <<tokenVisit, tokenBusy>>
         \/ tokenVisit' = tokenVisit + 1 /\ tokenBusy' = FALSE /\ timers' = timers \ {v, tokenVisit}
    BY DEF Token!FireTimer
<1>2. TabInv' /\ tokenVisit <= tokenVisit'
    <2>1. CASE timers' = timers \ {v} /\ UNCHANGED <<tokenVisit, tokenBusy>>
        BY <1>1, <2>1 DEF LinkInv, TabInv
    <2>2. CASE tokenVisit' = tokenVisit + 1 /\ tokenBusy' = FALSE /\ timers' = timers \ {v, tokenVisit}
        <3>1. timers' \subseteq 1 .. tokenVisit' /\ (~tokenLate => timers' = {})
            BY <2>2 DEF LinkInv, TabInv
        <3> QED
            BY <1>1, <2>2, <3>1 DEF LinkInv, TabInv
    <2> QED
        BY <1>1, <2>1, <2>2
<1>3. tokenAsks' \subseteq tokenAsks \cup {0} /\ 0 \notin tokenAsks' \ tokenAsks
    BY <1>1
<1> QED
    BY <1>1, <1>2, <1>3, TabAsks

LEMMA LandsInvariant ==
    ASSUME LinkInv, NEW r \in tokenAsks,
           Token!LandRegistered(r) \/ Token!LandReset(r) \/ Token!LandOther(r) \/ Token!LandError(r)
    PROVE LinkInv'
<1>1. r.visit \in Nat /\ r.visit <= tokenVisit
    BY DEF LinkInv, AsksInv, AskOK, LinkAsk
<1>2. Token!Unsent /\ tokenAsks' = tokenAsks \ {r} /\ UNCHANGED tokenPresses
    BY DEF Token!LandRegistered, Token!LandReset, Token!LandOther, Token!LandError, Token!Land
<1>3. TabInv' /\ tokenVisit <= tokenVisit'
    <2>1. CASE Token!LandRegistered(r)
        <3>1. /\ r.visit # 0 /\ tokenBusy' = (tokenBusy /\ r.visit # tokenVisit) /\ timers' = timers \cup {r.visit}
              /\ tokenLate' = (tokenLate \/ r.visit # tokenVisit) /\ UNCHANGED <<tokenVisit, token>>
            BY <2>1 DEF Token!LandRegistered, Token!Land
        <3>2. tokenBusy' => \E o \in tokenAsks' : o.visit = tokenVisit'
            BY <1>2, <3>1 DEF LinkInv, TabInv
        <3>3. ~tokenLate' => ~tokenLate /\ r.visit = tokenVisit
            BY <3>1
        <3>4. timers' \subseteq 1 .. tokenVisit'
            <4>1. tokenVisit \in Nat /\ timers \subseteq 1 .. tokenVisit /\ r.visit \in 1 .. tokenVisit
                BY <1>1, <3>1 DEF LinkInv, TabInv
            <4> QED
                BY <3>1, <4>1
        <3> QED
            BY <1>1, <1>2, <3>1, <3>2, <3>3, <3>4 DEF LinkInv, TabInv
    <2>2. CASE Token!LandReset(r)
        <3>1. /\ tokenBusy' = FALSE /\ timers' = timers \ {tokenVisit} /\ tokenVisit' = tokenVisit + 1 /\ token' = 0
              /\ UNCHANGED tokenLate
            BY <2>2 DEF Token!LandReset, Token!Unmount
        <3> QED
            BY <1>1, <1>2, <3>1 DEF LinkInv, TabInv
    <2>3. CASE Token!LandOther(r) \/ Token!LandError(r)
        <3>1. /\ tokenBusy' = (tokenBusy /\ r.visit # tokenVisit)
              /\ UNCHANGED <<tokenVisit, token, timers, tokenLate>>
            BY <2>3 DEF Token!LandOther, Token!LandError, Token!Land
        <3>2. tokenBusy' => \E o \in tokenAsks' : o.visit = tokenVisit'
            BY <1>2, <3>1 DEF LinkInv, TabInv
        <3> QED
            BY <1>1, <1>2, <3>1, <3>2 DEF LinkInv, TabInv
    <2> QED
        BY <2>1, <2>2, <2>3
<1>4. tokenAsks' \subseteq tokenAsks \cup {0} /\ 0 \notin tokenAsks' \ tokenAsks
    BY <1>2
<1> QED
    BY <1>2, <1>3, <1>4, TabAsks

-----------------------------------------------------------------------------
(* The handlers: their request moves on, and the table with it.             *)

LEMMA HandlerKeeps ==
    ASSUME LinkInv, NEW r \in tokenAsks, NEW s, UNCHANGED <<Token!tab, tokenPresses>>, Token!Becomes(r, s),
           s.visit = r.visit, AskOK(s)', ~Wiped(s), Grows, DataInv', UNCHANGED tokenOverlapped, resets' \subseteq resets
    PROVE LinkInv'
<1>1. TabInv'
    BY HandlerLeavesTab DEF LinkInv
<1>2. AsksInv'
    BY HandlerLeavesOthers DEF LinkInv
<1>3. OverlapInv'
    BY OverlapStays DEF LinkInv, Token!Becomes
<1> QED
    BY <1>1, <1>2, <1>3 DEF LinkInv

LEMMA HandlerEnds ==
    ASSUME LinkInv, NEW r \in tokenAsks, NEW st \in {"free", "probed", "done", "refused"},
           UNCHANGED <<Token!tab, tokenPresses>>, Token!Becomes(r, [r EXCEPT !.stage = st]),
           Grows, DataInv', UNCHANGED tokenOverlapped, resets' \subseteq resets
    PROVE LinkInv'
<1>1. AskOK(r)
    BY DEF LinkInv, AsksInv
<1>2. PICK s : s = [r EXCEPT !.stage = st]
    OBVIOUS
<1>3. AskOK([r EXCEPT !.stage = st])' /\ ~Wiped(s) /\ s.visit = r.visit
    BY <1>1, <1>2, StageMoves
<1>4. AskOK(s)'
    BY <1>2, <1>3
<1>5. Token!Becomes(r, s)
    BY <1>2
<1> QED
    BY <1>3, <1>4, <1>5, HandlerKeeps

LEMMA Growth ==
    ASSUME LinkInv, UNCHANGED tokenVisit, \A u \in Names : users[u] # NoUser => users'[u] # NoUser,
           \/ UNCHANGED mails
           \/ \E kind \in {"verify", "reset"}, to \in Addresses, u \in Names : Token!Mailed(kind, to, u)
    PROVE Grows
<1>1. CASE UNCHANGED mails
    BY <1>1 DEF Grows, LinkInv, TabInv
<1>2. CASE \E kind \in {"verify", "reset"}, to \in Addresses, u \in Names : Token!Mailed(kind, to, u)
    <2>1. PICK kind \in {"verify", "reset"}, to \in Addresses, u \in Names : Token!Mailed(kind, to, u)
        BY <1>2
    <2>2. DOMAIN mails \subseteq DOMAIN mails' /\ \A t \in DOMAIN mails : mails'[t] = mails[t]
        BY <2>1, MailGoesOut DEF LinkInv, DataInv, LinkTypes
    <2> QED
        BY <2>2 DEF Grows, LinkInv, TabInv
<1> QED
    BY <1>1, <1>2

LEMMA UnsentGrows == ASSUME LinkInv, Token!Unsent, UNCHANGED tokenVisit PROVE Grows
BY Growth DEF Token!Unsent

LEMMA ReadersInvariant ==
    ASSUME LinkInv, NEW r \in tokenAsks, Token!RegisterCheck(r) \/ Token!ResendRead(r) \/ Token!ResetProbe(r)
    PROVE LinkInv'
<1>1. Token!Unsent /\ UNCHANGED <<Token!tab, tokenPresses>> /\ UNCHANGED tokenVisit /\ UNCHANGED tokenOverlapped
      /\ resets' = resets
    BY DEF Token!RegisterCheck, Token!ResendRead, Token!ResetProbe, Token!Steps, Token!Unsent, Token!tab
<1>2. Grows /\ DataInv'
    BY <1>1, UnsentGrows, DataRests DEF LinkInv
<1>3. AskOK(r)
    BY DEF LinkInv, AsksInv
<1>4. CASE \E st \in {"free", "probed", "done", "refused"} : Token!Becomes(r, [r EXCEPT !.stage = st])
    BY <1>1, <1>2, <1>4, HandlerEnds
<1>5. CASE Token!RegisterCheck(r) \/ Token!ResetProbe(r)
    BY <1>4, <1>5 DEF Token!RegisterCheck, Token!ResetProbe
<1>6. CASE Token!ResendRead(r)
    <2>1. CASE {u \in Token!Owner(r.to) : ~users[u].verified} = {}
        BY <1>4, <1>6, <2>1 DEF Token!ResendRead
    <2>2. CASE {u \in Token!Owner(r.to) : ~users[u].verified} # {}
        <3>1. PICK u \in Token!Owner(r.to) : Token!Becomes(r, [r EXCEPT !.stage = "read", !.name = u])
            BY <1>6, <2>2 DEF Token!ResendRead
        <3>2. PICK s : s = [r EXCEPT !.stage = "read", !.name = u]
            OBVIOUS
        <3>3. u \in Names /\ users[u] # NoUser /\ r.kind = "resend"
            BY <1>6 DEF Token!Owner, Token!ResendRead, Token!Steps
        <3>4. /\ s \in LinkAsk /\ s.stage = "read" /\ s.name = u /\ s.kind = "resend" /\ s.visit = r.visit /\ s.to = r.to
              /\ s.token = r.token
            BY <1>3, <3>2, <3>3 DEF AskOK, LinkAsk
        <3>5. AskOK(s) /\ ~Wiped(s)
            BY <1>3, <3>3, <3>4 DEF AskOK, Wiped
        <3>6. AskOK(s)'
            BY <1>2, <3>5, AskStaysOK
        <3> QED
            BY <1>1, <1>2, <3>1, <3>2, <3>4, <3>5, <3>6, HandlerKeeps
    <2> QED
        BY <2>1, <2>2
<1> QED
    BY <1>5, <1>6

LEMMA OwnersAreTheirs ==
    ASSUME NEW to, NEW u \in Token!Owner(to) PROVE u \in Names /\ users[u] # NoUser /\ users[u].email = to
BY DEF Token!Owner

(* A new account waits for its address to be verified.                      *)
LEMMA RegistrationInserts ==
    ASSUME LinkInv, NEW r \in tokenAsks, Token!RegisterInsert(r) PROVE LinkInv'
<1>1. /\ UNCHANGED <<Token!tab, tokenPresses>> /\ UNCHANGED tokenVisit /\ r.kind = "register"
      /\ UNCHANGED <<resets, proven, tokenChanges, straddled, tokenOverlapped>>
    BY DEF Token!RegisterInsert, Token!Steps, Token!tab
<1>2. r.name \in Names /\ r.to \in Addresses
    BY <1>1 DEF LinkInv, AsksInv, AskOK
<1>3. CASE users[r.name] = NoUser /\ Token!Owner(r.to) = {}
    <2> DEFINE a == [email |-> r.to, verified |-> FALSE, token |-> Token!NewToken]
    <2>1. /\ Token!Mailed("verify", r.to, r.name) /\ users' = [users EXCEPT ![r.name] = a]
          /\ Token!Becomes(r, [r EXCEPT !.stage = "done"])
        BY <1>3 DEF Token!RegisterInsert
    <2>2. /\ mails' \in Seq(Mail) /\ Token!NewToken \in Nat \ {0}
          /\ DOMAIN mails' = DOMAIN mails \cup {Token!NewToken} /\ Token!NewToken \notin DOMAIN mails
          /\ mails'[Token!NewToken].to = r.to /\ mails'[Token!NewToken].name = r.name
          /\ \A t \in DOMAIN mails : mails'[t] = mails[t]
        BY <1>2, <2>1, MailGoesOut DEF LinkInv, DataInv, LinkTypes
    <2>3. a \in Account /\ a # NoUser /\ a.email = r.to /\ a.verified = FALSE /\ a.token = Token!NewToken
        <3>1. a \in Account /\ a.email = r.to /\ a.verified = FALSE /\ a.token = Token!NewToken
            BY <1>2, <2>2 DEF Account
        <3> HIDE DEF a
        <3> QED
            BY <3>1, AccountsAreSomebody
    <2> HIDE DEF a
    <2>4. LinkTypes'
        BY <1>1, <1>2, <2>1, <2>2, <2>3 DEF LinkInv, DataInv, LinkTypes
    <2>5. users \in [Names -> Account \cup {NoUser}]
        BY DEF LinkInv, DataInv, LinkTypes
    <2>6. TokensMailed'
        BY <1>1, <1>2, <2>1, <2>2, <2>3, <2>5 DEF LinkInv, DataInv, TokensMailed
    <2>7. Token!VerifiedIsProven'
        BY <1>1, <1>2, <2>1, <2>3, <2>5 DEF LinkInv, DataInv, Token!VerifiedIsProven
    <2>8. LinksUsedUp'
        BY <1>1, <2>2 DEF LinkInv, DataInv, LinksUsedUp
    <2>9. Grows
        <3>1. \A u \in Names : users[u] # NoUser => users'[u] # NoUser
            BY <2>1, <2>3, <2>5
        <3> QED
            BY <1>1, <1>2, <2>1, <3>1, Growth
    <2> QED
        BY <1>1, <2>1, <2>4, <2>6, <2>7, <2>8, <2>9, HandlerEnds DEF DataInv
<1>4. CASE ~(users[r.name] = NoUser /\ Token!Owner(r.to) = {})
    <2>1. Token!Becomes(r, [r EXCEPT !.stage = "refused"]) /\ Token!Unsent
        BY <1>1, <1>4 DEF Token!RegisterInsert, Token!Unsent
    <2> QED
        BY <1>1, <2>1, UnsentGrows, DataRests, HandlerEnds DEF LinkInv
<1> QED
    BY <1>3, <1>4

(* The token that verifies an account was mailed to its address.            *)
LEMMA VerificationServes ==
    ASSUME LinkInv, NEW r \in tokenAsks, Token!ServeVerify(r) PROVE LinkInv'
<1> DEFINE whose == {u \in Names : users[u] # NoUser /\ users[u].token = r.token}
           st == IF whose = {} THEN "refused" ELSE "done"
<1>1. /\ UNCHANGED <<Token!tab, tokenPresses>> /\ UNCHANGED tokenVisit /\ r.kind = "verify"
      /\ UNCHANGED <<resets, mails, tokenChanges, straddled, tokenOverlapped>>
      /\ users' = [u \in Names |-> IF u \in whose THEN [users[u] EXCEPT !.verified = TRUE, !.token = 0] ELSE users[u]]
      /\ proven' = [u \in Names |-> proven[u] \cup IF u \in whose THEN {mails[r.token].to} ELSE {}]
      /\ Token!Becomes(r, [r EXCEPT !.stage = st])
    BY DEF Token!ServeVerify, Token!Steps, Token!tab
<1>2. r.token \in DOMAIN mails /\ mails[r.token].to \in Addresses /\ r.token # 0
    <2>1. mails \in Seq(Mail) /\ r.token \in DOMAIN mails
        BY <1>1 DEF LinkInv, AsksInv, AskOK, DataInv, LinkTypes
    <2>2. mails[r.token] \in Mail /\ r.token # 0
        BY <2>1
    <2> QED
        BY <2>1, <2>2 DEF Mail
<1>3. users \in [Names -> Account \cup {NoUser}]
    BY DEF LinkInv, DataInv, LinkTypes
<1>4. ASSUME NEW u \in whose
      PROVE /\ users'[u] \in Account /\ users'[u] # NoUser /\ users'[u].email = users[u].email /\ users'[u].token = 0
            /\ ~straddled => users[u].email \in proven'[u]
    <2>1. users[u] \in Account /\ u \in Names /\ users[u].token = r.token
        BY <1>3
    <2> DEFINE a == [users[u] EXCEPT !.verified = TRUE, !.token = 0]
    <2>2. a \in Account /\ a.email = users[u].email /\ a.token = 0
        BY <2>1 DEF Account
    <2>3. users'[u] = a
        BY <1>1, <2>1
    <2>4. ~straddled => mails[r.token].to = users[u].email
        BY <1>2, <2>1, AccountsAreSomebody DEF LinkInv, DataInv, TokensMailed
    <2>5. proven'[u] = proven[u] \cup {mails[r.token].to}
        BY <1>1, <2>1
    <2> HIDE DEF a
    <2> QED
        BY <2>2, <2>3, <2>4, <2>5, AccountsAreSomebody
<1>5. \A u \in Names \ whose : users'[u] = users[u] /\ proven'[u] = proven[u]
    BY <1>1
<1>6. whose \subseteq Names
    OBVIOUS
<1>7. LinkTypes'
    <2>1. users' \in [Names -> Account \cup {NoUser}]
        <3>1. users' = [u \in Names |-> users'[u]]
            BY <1>1
        <3>2. \A u \in Names : users'[u] \in Account \cup {NoUser}
            BY <1>3, <1>4, <1>5
        <3> QED
            BY <3>1, <3>2
    <2>2. proven' \in [Names -> SUBSET Addresses]
        BY <1>1, <1>2 DEF LinkInv, DataInv, LinkTypes
    <2> QED
        BY <1>1, <2>1, <2>2 DEF LinkInv, DataInv, LinkTypes
<1>8. TokensMailed'
    BY <1>1, <1>4, <1>5 DEF LinkInv, DataInv, TokensMailed
<1>9. Token!VerifiedIsProven'
    BY <1>1, <1>4, <1>5 DEF LinkInv, DataInv, Token!VerifiedIsProven
<1>10. LinksUsedUp'
    BY <1>1 DEF LinkInv, DataInv, LinksUsedUp
<1>11. Grows
    <2>1. \A u \in Names : users[u] # NoUser => users'[u] # NoUser
        BY <1>4, <1>5
    <2> QED
        BY <1>1, <2>1, Growth
<1>12. DataInv'
    BY <1>7, <1>8, <1>9, <1>10 DEF DataInv
<1>13. st \in {"free", "probed", "done", "refused"} /\ resets' \subseteq resets
    BY <1>1
<1> HIDE DEF whose, st
<1> QED
    BY <1>1, <1>11, <1>12, <1>13, HandlerEnds

(* A resend writes its token over the one that is out, and for the address  *)
(* it has read: unless it was changed meanwhile, that of the account.       *)
LEMMA ResendWrites ==
    ASSUME LinkInv, NEW r \in tokenAsks, Token!ResendWrite(r) PROVE LinkInv'
<1>1. /\ UNCHANGED <<Token!tab, tokenPresses>> /\ UNCHANGED tokenVisit /\ r.kind = "resend" /\ r.stage = "read"
      /\ UNCHANGED <<resets, proven, tokenChanges, tokenOverlapped>>
      /\ Token!Mailed("verify", r.to, r.name)
      /\ users' = [users EXCEPT ![r.name].token = Token!NewToken]
      /\ straddled' = (straddled \/ users[r.name].email # r.to)
      /\ Token!Becomes(r, [r EXCEPT !.stage = "done"])
    BY DEF Token!ResendWrite, Token!Steps, Token!tab
<1>2. r.name \in Names /\ r.to \in Addresses /\ users[r.name] # NoUser
    BY <1>1 DEF LinkInv, AsksInv, AskOK
<1>3. /\ mails' \in Seq(Mail) /\ Token!NewToken \in Nat \ {0}
      /\ DOMAIN mails' = DOMAIN mails \cup {Token!NewToken} /\ Token!NewToken \notin DOMAIN mails
      /\ mails'[Token!NewToken].to = r.to /\ mails'[Token!NewToken].name = r.name
      /\ \A t \in DOMAIN mails : mails'[t] = mails[t]
    BY <1>1, <1>2, MailGoesOut DEF LinkInv, DataInv, LinkTypes
<1>4. users \in [Names -> Account \cup {NoUser}]
    BY DEF LinkInv, DataInv, LinkTypes
<1>5. PICK a : a = [users[r.name] EXCEPT !.token = Token!NewToken]
    OBVIOUS
<1>6. /\ a \in Account /\ a # NoUser /\ a.email = users[r.name].email /\ a.verified = users[r.name].verified
      /\ a.token = Token!NewToken
    <2>1. users[r.name] \in Account
        BY <1>2, <1>4
    <2>2. /\ a \in Account /\ a.email = users[r.name].email /\ a.verified = users[r.name].verified
          /\ a.token = Token!NewToken
        BY <1>3, <1>5, <2>1 DEF Account
    <2> QED
        BY <2>2, AccountsAreSomebody
<1>7. users' = [users EXCEPT ![r.name] = a]
    BY <1>1, <1>2, <1>4, <1>5
<1>8. LinkTypes'
    BY <1>1, <1>2, <1>3, <1>6, <1>7 DEF LinkInv, DataInv, LinkTypes
<1>9. TokensMailed'
    <2>1. TokensMailed /\ (~straddled' => ~straddled /\ users[r.name].email = r.to)
        BY <1>1 DEF LinkInv, DataInv
    <2>2. \A row \in resets' : row.token \in DOMAIN mails' /\ mails'[row.token].name = row.name
        BY <1>1, <1>3, <2>1 DEF TokensMailed
    <2>3. ASSUME NEW u \in Names, users'[u] # NoUser, users'[u].token # 0
          PROVE /\ users'[u].token \in DOMAIN mails' /\ mails'[users'[u].token].name = u
                /\ ~straddled' => mails'[users'[u].token].to = users'[u].email
        <3>1. CASE u = r.name
            <4>1. users'[u] = a
                BY <1>2, <1>4, <1>7, <3>1
            <4> QED
                BY <1>3, <1>6, <2>1, <3>1, <4>1
        <3>2. CASE u # r.name
            <4>1. users'[u] = users[u]
                BY <1>4, <1>7, <3>2
            <4> QED
                BY <1>3, <2>1, <2>3, <4>1 DEF TokensMailed
        <3> QED
            BY <3>1, <3>2
    <2> QED
        BY <2>2, <2>3 DEF TokensMailed
<1>10. Token!VerifiedIsProven'
    BY <1>1, <1>2, <1>4, <1>6, <1>7 DEF LinkInv, DataInv, Token!VerifiedIsProven
<1>11. LinksUsedUp'
    BY <1>1, <1>3 DEF LinkInv, DataInv, LinksUsedUp
<1>12. Grows
    <2>1. \A u \in Names : users[u] # NoUser => users'[u] # NoUser
        BY <1>4, <1>6, <1>7
    <2> QED
        BY <1>1, <1>2, <2>1, Growth
<1> QED
    BY <1>1, <1>8, <1>9, <1>10, <1>11, <1>12, HandlerEnds DEF DataInv

LEMMA ChangeIsMailed ==
    ASSUME LinkInv, NEW r \in tokenAsks, Token!ChangeMails(r) PROVE LinkInv'
<1>1. /\ UNCHANGED <<Token!tab, tokenPresses>> /\ UNCHANGED tokenVisit /\ r.kind = "change"
      /\ UNCHANGED <<users, resets, proven, tokenChanges, straddled, tokenOverlapped>>
    BY DEF Token!ChangeMails, Token!Steps, Token!tab
<1>2. r.name \in Names /\ r.to \in Addresses /\ users[r.name] # NoUser /\ AskOK(r)
    BY <1>1 DEF LinkInv, AsksInv, AskOK
<1>3. CASE users[r.name].email = r.to
    <2>1. Token!Becomes(r, [r EXCEPT !.stage = "done"]) /\ Token!Unsent
        BY <1>1, <1>3 DEF Token!ChangeMails, Token!Unsent
    <2> QED
        BY <1>1, <2>1, UnsentGrows, DataRests, HandlerEnds DEF LinkInv
<1>4. CASE users[r.name].email # r.to
    <2>1. /\ Token!Mailed("verify", r.to, r.name)
          /\ Token!Becomes(r, [r EXCEPT !.stage = "mailed", !.token = Token!NewToken])
        BY <1>4 DEF Token!ChangeMails
    <2>2. /\ mails' \in Seq(Mail) /\ Token!NewToken \in Nat \ {0}
          /\ DOMAIN mails' = DOMAIN mails \cup {Token!NewToken} /\ Token!NewToken \notin DOMAIN mails
          /\ mails'[Token!NewToken].to = r.to /\ mails'[Token!NewToken].name = r.name
          /\ \A t \in DOMAIN mails : mails'[t] = mails[t]
        BY <1>2, <2>1, MailGoesOut DEF LinkInv, DataInv, LinkTypes
    <2>3. LinkTypes'
        BY <1>1, <2>2 DEF LinkInv, DataInv, LinkTypes
    <2>4. TokensMailed' /\ Token!VerifiedIsProven' /\ LinksUsedUp'
        BY <1>1, <2>2 DEF LinkInv, DataInv, TokensMailed, Token!VerifiedIsProven, LinksUsedUp
    <2>5. Grows
        BY <1>1, <1>2, <2>1, Growth
    <2>6. PICK s : s = [r EXCEPT !.stage = "mailed", !.token = Token!NewToken]
        OBVIOUS
    <2>7. /\ s \in LinkAsk /\ s.stage = "mailed" /\ s.token = Token!NewToken /\ s.kind = r.kind /\ s.name = r.name
          /\ s.to = r.to /\ s.visit = r.visit
        BY <1>2, <2>2, <2>6 DEF AskOK, LinkAsk
    <2>8. AskOK(r)'
        BY <1>2, <2>5, AskStaysOK
    <2>9. AskOK(s)' /\ ~Wiped(s)
        BY <1>1, <2>2, <2>7, <2>8 DEF AskOK, Wiped
    <2> QED
        BY <1>1, <2>1, <2>3, <2>4, <2>5, <2>6, <2>7, <2>9, HandlerKeeps DEF DataInv
<1> QED
    BY <1>3, <1>4

(* The token of a changed address replaces the one that is out.             *)
LEMMA ChangeIsWritten ==
    ASSUME LinkInv, NEW r \in tokenAsks, Token!ChangeWrite(r) PROVE LinkInv'
<1>1. /\ UNCHANGED <<Token!tab, tokenPresses>> /\ UNCHANGED tokenVisit /\ r.kind = "change" /\ r.stage = "mailed"
      /\ UNCHANGED <<resets, mails, proven, tokenChanges, straddled, tokenOverlapped>>
    BY DEF Token!ChangeWrite, Token!Steps, Token!tab
<1>2. /\ r.name \in Names /\ r.to \in Addresses /\ users[r.name] # NoUser /\ r.token \in Nat
      /\ r.token \in DOMAIN mails /\ mails[r.token].to = r.to /\ mails[r.token].name = r.name
    BY <1>1 DEF LinkInv, AsksInv, AskOK, LinkAsk
<1>3. CASE Token!Owner(r.to) \subseteq {r.name}
    <2> DEFINE a == [email |-> r.to, verified |-> FALSE, token |-> r.token]
    <2>1. users' = [users EXCEPT ![r.name] = a] /\ Token!Becomes(r, [r EXCEPT !.stage = "done"])
        BY <1>3 DEF Token!ChangeWrite
    <2>2. a \in Account /\ a.email = r.to /\ a.verified = FALSE /\ a.token = r.token
        BY <1>2 DEF Account
    <2> HIDE DEF a
    <2>3. a # NoUser
        BY <2>2, AccountsAreSomebody
    <2>4. users \in [Names -> Account \cup {NoUser}]
        BY DEF LinkInv, DataInv, LinkTypes
    <2>5. LinkTypes'
        BY <1>1, <1>2, <2>1, <2>2 DEF LinkInv, DataInv, LinkTypes
    <2>6. TokensMailed'
        BY <1>1, <1>2, <2>1, <2>2, <2>4 DEF LinkInv, DataInv, TokensMailed
    <2>7. Token!VerifiedIsProven'
        BY <1>1, <1>2, <2>1, <2>2, <2>4 DEF LinkInv, DataInv, Token!VerifiedIsProven
    <2>8. LinksUsedUp'
        BY <1>1 DEF LinkInv, DataInv, LinksUsedUp
    <2>9. Grows
        <3>1. \A u \in Names : users[u] # NoUser => users'[u] # NoUser
            BY <2>1, <2>3, <2>4
        <3> QED
            BY <1>1, <3>1, Growth
    <2> QED
        BY <1>1, <2>1, <2>5, <2>6, <2>7, <2>8, <2>9, HandlerEnds DEF DataInv
<1>4. CASE ~(Token!Owner(r.to) \subseteq {r.name})
    <2>1. Token!Becomes(r, [r EXCEPT !.stage = "refused"]) /\ Token!Unsent
        BY <1>1, <1>4 DEF Token!ChangeWrite, Token!Unsent
    <2> QED
        BY <1>1, <2>1, UnsentGrows, DataRests, HandlerEnds DEF LinkInv
<1> QED
    BY <1>3, <1>4

(* Fewer reset links are out.                                               *)
LEMMA FewerLinks ==
    ASSUME DataInv, UNCHANGED <<users, mails, proven, tokenChanges, straddled>>, resets' \subseteq resets
    PROVE DataInv'
BY DEF DataInv, LinkTypes, TokensMailed, Token!VerifiedIsProven, LinksUsedUp

LEMMA ForgotWipes ==
    ASSUME LinkInv, NEW r \in tokenAsks, Token!ForgotWipe(r) PROVE LinkInv'
<1>1. /\ UNCHANGED <<Token!tab, tokenPresses>> /\ UNCHANGED tokenVisit /\ r.kind = "forgot" /\ r.stage = "asked"
      /\ UNCHANGED <<users, mails, proven, tokenChanges, straddled>>
      /\ tokenOverlapped' = (tokenOverlapped \/ \E o \in tokenAsks : o.kind = "forgot" /\ o.stage = "wiped")
    BY DEF Token!ForgotWipe, Token!Steps, Token!tab
<1>2. Grows
    BY <1>1, Growth
<1>3. AskOK(r) /\ \A o \in tokenAsks : Wiped(o) => o.kind = "forgot"
    BY DEF LinkInv, AsksInv, AskOK, Wiped
<1>4. ~tokenOverlapped' => ~tokenOverlapped /\ \A o \in tokenAsks : ~Wiped(o)
    BY <1>1, <1>3 DEF Wiped
<1>5. CASE Token!Owner(r.to) = {}
    <2>1. Token!Becomes(r, [r EXCEPT !.stage = "done"]) /\ resets' = resets
        BY <1>5 DEF Token!ForgotWipe
    <2>2. PICK s : s = [r EXCEPT !.stage = "done"]
        OBVIOUS
    <2>3. AskOK([r EXCEPT !.stage = "done"])' /\ ~Wiped(s) /\ s.visit = r.visit
        BY <1>2, <1>3, <2>2, StageMoves
    <2>4. AskOK(s)' /\ Token!Becomes(r, s)
        BY <2>1, <2>2, <2>3
    <2>5. TabInv' /\ AsksInv'
        BY <1>1, <1>2, <2>3, <2>4, HandlerLeavesTab, HandlerLeavesOthers DEF LinkInv
    <2>6. OverlapInv'
        BY <1>4, <2>1, <2>3, <2>4 DEF OverlapInv, LinkInv, WipedApart, WipedClean, OneLink, Token!Becomes
    <2> QED
        BY <1>1, <2>1, <2>5, <2>6, FewerLinks DEF LinkInv
<1>6. CASE Token!Owner(r.to) # {}
    <2>1. PICK u \in Token!Owner(r.to) : /\ resets' = {t \in resets : t.name # u}
                                         /\ Token!Becomes(r, [r EXCEPT !.stage = "wiped", !.name = u])
        BY <1>6 DEF Token!ForgotWipe
    <2>2. u \in Names /\ users[u] # NoUser
        BY OwnersAreTheirs
    <2>3. PICK s : s = [r EXCEPT !.stage = "wiped", !.name = u]
        OBVIOUS
    <2>4. /\ s \in LinkAsk /\ s.stage = "wiped" /\ s.name = u /\ s.kind = "forgot" /\ s.to = r.to /\ s.visit = r.visit
          /\ s.token = r.token
        BY <1>1, <1>3, <2>2, <2>3 DEF AskOK, LinkAsk
    <2>5. AskOK(s)
        BY <1>1, <1>3, <2>2, <2>4 DEF AskOK
    <2>6. AskOK(s)'
        BY <1>2, <2>5, AskStaysOK
    <2>7. Token!Becomes(r, s)
        BY <2>1, <2>3
    <2>8. TabInv' /\ AsksInv'
        BY <1>1, <1>2, <2>4, <2>6, <2>7, HandlerLeavesTab, HandlerLeavesOthers DEF LinkInv
    <2>9. OverlapInv'
        <3> SUFFICES ASSUME ~tokenOverlapped' PROVE WipedApart' /\ WipedClean' /\ OneLink'
            BY DEF OverlapInv
        <3>1. (\A o \in tokenAsks : ~Wiped(o)) /\ OneLink
            BY <1>4 DEF OverlapInv, LinkInv
        <3>2. \A o \in tokenAsks' : Wiped(o) => o = s
            BY <2>7, <3>1 DEF Token!Becomes
        <3> QED
            BY <2>1, <2>4, <3>1, <3>2 DEF WipedApart, WipedClean, OneLink
    <2>10. DataInv'
        BY <1>1, <2>1, FewerLinks DEF LinkInv
    <2> QED
        BY <2>8, <2>9, <2>10 DEF LinkInv
<1> QED
    BY <1>5, <1>6

LEMMA ForgotInserts ==
    ASSUME LinkInv, NEW r \in tokenAsks, Token!ForgotInsert(r) PROVE LinkInv'
<1> DEFINE row == [token |-> Token!NewToken, name |-> r.name]
<1>1. /\ UNCHANGED <<Token!tab, tokenPresses>> /\ UNCHANGED tokenVisit /\ r.kind = "forgot" /\ r.stage = "wiped"
      /\ UNCHANGED <<users, proven, tokenChanges, straddled, tokenOverlapped>>
      /\ Token!Mailed("reset", r.to, r.name) /\ resets' = resets \cup {row}
      /\ Token!Becomes(r, [r EXCEPT !.stage = "done"])
    BY DEF Token!ForgotInsert, Token!Steps, Token!tab
<1>2. r.name \in Names /\ r.to \in Addresses /\ AskOK(r)
    BY <1>1 DEF LinkInv, AsksInv, AskOK
<1>3. /\ mails' \in Seq(Mail) /\ Token!NewToken \in Nat \ {0}
      /\ DOMAIN mails' = DOMAIN mails \cup {Token!NewToken} /\ Token!NewToken \notin DOMAIN mails
      /\ mails'[Token!NewToken].to = r.to /\ mails'[Token!NewToken].name = r.name
      /\ \A t \in DOMAIN mails : mails'[t] = mails[t]
    BY <1>1, <1>2, MailGoesOut DEF LinkInv, DataInv, LinkTypes
<1>4. row \in Link /\ row.token = Token!NewToken /\ row.name = r.name
    BY <1>2, <1>3 DEF Link
<1> HIDE DEF row
<1>5. LinkTypes'
    BY <1>1, <1>3, <1>4 DEF LinkInv, DataInv, LinkTypes
<1>6. TokensMailed' /\ Token!VerifiedIsProven' /\ LinksUsedUp'
    <2>1. TokensMailed'
        BY <1>1, <1>3, <1>4 DEF LinkInv, DataInv, TokensMailed
    <2>2. Token!VerifiedIsProven'
        BY <1>1 DEF LinkInv, DataInv, Token!VerifiedIsProven
    <2>3. LinksUsedUp'
        BY <1>1, <1>3, <1>4 DEF LinkInv, DataInv, LinksUsedUp
    <2> QED
        BY <2>1, <2>2, <2>3
<1>7. Grows
    BY <1>1, <1>2, Growth
<1>8. PICK s : s = [r EXCEPT !.stage = "done"]
    OBVIOUS
<1>9. AskOK([r EXCEPT !.stage = "done"])' /\ ~Wiped(s) /\ s.visit = r.visit
    BY <1>2, <1>7, <1>8, StageMoves
<1>10. AskOK(s)' /\ Token!Becomes(r, s)
    BY <1>1, <1>8, <1>9
<1>11. TabInv' /\ AsksInv'
    BY <1>1, <1>7, <1>9, <1>10, HandlerLeavesTab, HandlerLeavesOthers DEF LinkInv
<1>12. OverlapInv'
    <2> SUFFICES ASSUME ~tokenOverlapped' PROVE WipedApart' /\ WipedClean' /\ OneLink'
        BY DEF OverlapInv
    <2>1. WipedApart /\ WipedClean /\ OneLink /\ Wiped(r)
        BY <1>1 DEF OverlapInv, LinkInv, Wiped
    <2>2. \A o \in tokenAsks' : ~Wiped(o)
        BY <1>9, <1>10, <2>1 DEF Token!Becomes, WipedApart
    <2>3. \A other \in resets : other.name # r.name
        BY <2>1 DEF WipedClean
    <2>4. OneLink'
        BY <1>1, <1>4, <2>1, <2>3 DEF OneLink
    <2> QED
        BY <2>2, <2>4 DEF WipedApart, WipedClean
<1> QED
    BY <1>5, <1>6, <1>11, <1>12 DEF LinkInv, DataInv

(* A link that changes a password is out, and out no more thereafter.       *)
LEMMA ResetConsumes ==
    ASSUME LinkInv, NEW r \in tokenAsks, Token!ResetConsume(r) PROVE LinkInv'
<1>1. /\ UNCHANGED <<Token!tab, tokenPresses>> /\ UNCHANGED tokenVisit
      /\ UNCHANGED <<users, mails, proven, straddled, tokenOverlapped>>
    BY DEF Token!ResetConsume, Token!Steps, Token!tab
<1>2. Grows
    BY <1>1, Growth
<1>3. CASE Token!Valid(r.token)
    <2>1. /\ resets' = {row \in resets : row.token # r.token} /\ tokenChanges' = Append(tokenChanges, r.token)
          /\ Token!Becomes(r, [r EXCEPT !.stage = "done"])
        BY <1>3 DEF Token!ResetConsume
    <2>2. PICK row \in resets : row.token = r.token
        BY <1>3 DEF Token!Valid
    <2>3. r.token \in Nat /\ r.token \in DOMAIN mails /\ \A i \in DOMAIN tokenChanges : tokenChanges[i] # r.token
        <3>1. row \in Link
            BY DEF LinkInv, DataInv, LinkTypes
        <3> QED
            BY <2>2, <3>1 DEF LinkInv, DataInv, TokensMailed, LinksUsedUp, Link
    <2>4. tokenChanges \in Seq(Nat)
        BY DEF LinkInv, DataInv, LinkTypes
    <2>5. /\ tokenChanges' \in Seq(Nat) /\ DOMAIN tokenChanges' = DOMAIN tokenChanges \cup {Len(tokenChanges) + 1}
          /\ tokenChanges'[Len(tokenChanges) + 1] = r.token
          /\ \A i \in DOMAIN tokenChanges : tokenChanges'[i] = tokenChanges[i]
        BY <2>1, <2>3, <2>4
    <2>6. LinksUsedUp'
        BY <1>1, <2>1, <2>3, <2>5 DEF LinkInv, DataInv, LinksUsedUp
    <2>7. LinkTypes' /\ TokensMailed' /\ Token!VerifiedIsProven'
        BY <1>1, <2>1, <2>5 DEF LinkInv, DataInv, LinkTypes, TokensMailed, Token!VerifiedIsProven
    <2> QED
        BY <1>1, <1>2, <2>1, <2>6, <2>7, HandlerEnds DEF DataInv
<1>4. CASE ~Token!Valid(r.token)
    <2>1. Token!Becomes(r, [r EXCEPT !.stage = "refused"]) /\ Token!Unsent
        BY <1>1, <1>4 DEF Token!ResetConsume, Token!Unsent
    <2>2. resets' = resets
        BY <2>1 DEF Token!Unsent
    <2> QED
        BY <1>1, <2>1, <2>2, UnsentGrows, DataRests, HandlerEnds DEF LinkInv
<1> QED
    BY <1>3, <1>4

LEMMA LinksExpire == ASSUME LinkInv, NEW t \in DOMAIN mails, Token!Expire(t) PROVE LinkInv'
<1> DEFINE whose == {u \in Names : users[u] # NoUser /\ users[u].token = t}
<1>1. /\ UNCHANGED <<Token!tab, tokenPresses>> /\ UNCHANGED <<tokenVisit, token, timers, tokenBusy, tokenLate>>
      /\ UNCHANGED <<tokenAsks, mails, proven, tokenChanges, straddled, tokenOverlapped>>
      /\ resets' = {row \in resets : row.token # t}
      /\ users' = [u \in Names |-> IF u \in whose THEN [users[u] EXCEPT !.token = 0] ELSE users[u]]
    BY DEF Token!Expire, Token!tab
<1>2. users \in [Names -> Account \cup {NoUser}]
    BY DEF LinkInv, DataInv, LinkTypes
<1>3. ASSUME NEW u \in whose
      PROVE /\ users'[u] \in Account /\ users'[u] # NoUser /\ users'[u].email = users[u].email /\ users'[u].token = 0
            /\ users'[u].verified = users[u].verified
    <2>1. users[u] \in Account /\ u \in Names
        BY <1>2
    <2>2. PICK a : a = [users[u] EXCEPT !.token = 0]
        OBVIOUS
    <2>3. a \in Account /\ a.email = users[u].email /\ a.token = 0 /\ a.verified = users[u].verified
        BY <2>1, <2>2 DEF Account
    <2>4. users'[u] = a
        BY <1>1, <2>1, <2>2
    <2> QED
        BY <2>3, <2>4, AccountsAreSomebody
<1>4. \A u \in Names \ whose : users'[u] = users[u]
    BY <1>1
<1>5. users' \in [Names -> Account \cup {NoUser}]
    <2>1. users' = [u \in Names |-> users'[u]]
        BY <1>1
    <2>2. \A u \in Names : users'[u] \in Account \cup {NoUser}
        BY <1>2, <1>3, <1>4
    <2> QED
        BY <2>1, <2>2
<1>6. \A u \in whose : u \in Names /\ users[u] # NoUser
    OBVIOUS
<1> HIDE DEF whose
<1>7. DataInv'
    <2>1. LinkTypes' /\ LinksUsedUp'
        BY <1>1, <1>5 DEF LinkInv, DataInv, LinkTypes, LinksUsedUp
    <2>2. TokensMailed'
        BY <1>1, <1>3, <1>4 DEF LinkInv, DataInv, TokensMailed
    <2>3. Token!VerifiedIsProven'
        BY <1>1, <1>3, <1>4, <1>6 DEF LinkInv, DataInv, Token!VerifiedIsProven
    <2> QED
        BY <2>1, <2>2, <2>3 DEF DataInv
<1>8. Grows
    <2>1. \A u \in Names : users[u] # NoUser => users'[u] # NoUser
        BY <1>3, <1>4
    <2> QED
        BY <1>1, <2>1, Growth
<1>9. AsksInv'
    BY <1>1, <1>8, AskStaysOK DEF LinkInv, AsksInv
<1>10. TabInv'
    BY <1>1 DEF LinkInv, TabInv
<1>11. OverlapInv'
    BY <1>1, OverlapStays DEF LinkInv
<1> QED
    BY <1>7, <1>9, <1>10, <1>11 DEF LinkInv

LEMMA LinksRest == LinkInv /\ UNCHANGED Token!tokenVars => LinkInv'
<1> SUFFICES ASSUME LinkInv, UNCHANGED Token!tokenVars PROVE LinkInv'
    OBVIOUS
<1>1. Token!Unsent /\ UNCHANGED <<tokenVisit, token, timers, tokenBusy, tokenLate, tokenPresses, tokenAsks>>
    BY DEF Token!tokenVars, Token!Unsent
<1>2. TabInv' /\ tokenVisit <= tokenVisit'
    BY <1>1 DEF LinkInv, TabInv
<1>3. tokenAsks' \subseteq tokenAsks \cup {0} /\ 0 \notin tokenAsks' \ tokenAsks
    BY <1>1
<1> QED
    BY <1>1, <1>2, <1>3, TabAsks

LEMMA LinkStep == LinkInv /\ [Token!Next]_(Token!tokenVars) => LinkInv'
<1> SUFFICES ASSUME LinkInv, [Token!Next]_(Token!tokenVars) PROVE LinkInv'
    OBVIOUS
<1>1. CASE UNCHANGED Token!tokenVars
    BY <1>1, LinksRest
<1>2. CASE Token!Next
    <2>1. ASSUME NEW to, Token!GoTo(to) PROVE LinkInv'
        BY <2>1, TabGoes
    <2>2. ASSUME NEW u \in Names, NEW to \in Addresses, Token!SubmitRegister(u, to) \/ Token!ChangeAddress(u, to)
          PROVE LinkInv'
        BY <2>2, RegistersInvariant
    <2>3. ASSUME NEW to \in Addresses, Token!SubmitForgot(to) \/ Token!AskResend(to) PROVE LinkInv'
        BY <2>3, ForgotsInvariant
    <2>4. CASE Token!SubmitReset
        BY <2>4, ResetsInvariant
    <2>5. ASSUME NEW t \in DOMAIN mails, Token!OpenVerification(t) \/ Token!OpenReset(t) \/ Token!Expire(t)
          PROVE LinkInv'
        BY <2>5, OpensInvariant, LinksExpire
    <2>6. ASSUME NEW v \in timers, Token!FireTimer(v) PROVE LinkInv'
        BY <2>6, TimersFire
    <2>7. ASSUME NEW r \in tokenAsks,
                 \/ Token!RegisterCheck(r) \/ Token!RegisterInsert(r) \/ Token!ServeVerify(r) \/ Token!ResendRead(r)
                 \/ Token!ResendWrite(r) \/ Token!ChangeMails(r) \/ Token!ChangeWrite(r) \/ Token!ForgotWipe(r)
                 \/ Token!ForgotInsert(r) \/ Token!ResetProbe(r) \/ Token!ResetConsume(r)
                 \/ Token!LandRegistered(r) \/ Token!LandReset(r) \/ Token!LandOther(r) \/ Token!LandError(r)
          PROVE LinkInv'
        BY <2>7, ReadersInvariant, RegistrationInserts, VerificationServes, ResendWrites, ChangeIsMailed,
           ChangeIsWritten, ForgotWipes, ForgotInserts, ResetConsumes, LandsInvariant
    <2> QED
        BY <1>2, <2>1, <2>2, <2>3, <2>4, <2>5, <2>6, <2>7 DEF Token!Next
<1> QED
    BY <1>1, <1>2

LEMMA LinkInvShows ==
    LinkInv => Token!TypeOK /\ Token!VerifiedIsProven /\ Token!ResetOnce /\ Token!OneLinkPerUser
<1> SUFFICES ASSUME LinkInv PROVE Token!TypeOK /\ Token!VerifiedIsProven /\ Token!ResetOnce /\ Token!OneLinkPerUser
    OBVIOUS
<1>1. Token!TypeOK
    BY DEF LinkInv, DataInv, TokensMailed, TabInv, Token!TypeOK
<1>2. Token!ResetOnce
    BY DEF LinkInv, DataInv, LinksUsedUp, Token!ResetOnce, Token!IsInjective
<1>3. Token!OneLinkPerUser
    BY DEF LinkInv, OverlapInv, OneLink, Token!OneLinkPerUser
<1> QED
    BY <1>1, <1>2, <1>3 DEF LinkInv, DataInv

(* Accounts and their mails, for any names, addresses and numbers of        *)
(* requests and mails.                                                      *)
THEOREM LinksAreCurrent ==
    Token!Spec => [](Token!TypeOK /\ Token!VerifiedIsProven /\ Token!ResetOnce /\ Token!OneLinkPerUser)
<1>1. Token!Spec => []LinkInv
    BY LinkStarts, LinkStep, PTL DEF Token!Spec
<1> QED
    BY <1>1, LinkInvShows, PTL

(* RegisterView: a redirect finds the view that asked for it, if that was   *)
(* there when its answer came.                                              *)
THEOREM RedirectFindsItsView == Token!Spec => Token!RedirectIsOwn
<1>1. Token!Spec => []LinkInv
    BY LinkStarts, LinkStep, PTL DEF Token!Spec
<1>2. LinkInv /\ [Token!Next]_(Token!tokenVars)
        => [\A v \in timers \ timers' : ~tokenLate => v = tokenVisit]_(Token!tokenVars)
    BY DEF LinkInv, TabInv
<1> QED
    BY <1>1, <1>2, PTL DEF Token!Spec, Token!RedirectIsOwn

-----------------------------------------------------------------------------
(* The account security page.                                              *)

Stored == [secret : Nat, totp : BOOLEAN, keys : SUBSET Nat, codes : Nat, sessions : SUBSET Devices]

Sheet == [known : BOOLEAN, totp : BOOLEAN, keys : SUBSET Nat, sessions : SUBSET Devices, secret : Nat, codes : Nat,
          accepted : BOOLEAN, pw : Nat, loading : BOOLEAN, pwBusy : BOOLEAN, sessionsBusy : BOOLEAN]

SheetKinds == Security!Kinds \cup Security!Reads

SheetAsk == [n : Nat, kind : SheetKinds, arg : Nat \cup Devices, pw : Nat, by : SheetKinds \cup {"mount"},
             stage : {"asked", "ceremony", "done"}, totp : BOOLEAN, keys : SUBSET Nat, codes : Nat,
             sessions : SUBSET Devices]

(* One request at a time is under way for a flag that is up, none for one   *)
(* that is down.                                                            *)
FlagIs(f, S, A) == (f <=> \E r \in A : r.by \in S) /\ \A r, s \in A : r.by \in S /\ s.by \in S => r = s

FlagsInv ==
    /\ FlagIs(sheet.loading, Security!Guarded, securityAsks)
    /\ FlagIs(sheet.sessionsBusy, Security!Sessional, securityAsks)
    /\ FlagIs(sheet.pwBusy, {"password"}, securityAsks)

SheetAskOK(r) ==
    /\ r \in SheetAsk /\ r.n <= count /\ r.pw <= entries
    /\ r.kind \notin Security!Reads => r.by = r.kind
    /\ r.kind \in {"setup", "register", "remove"} => r.pw # 0
    /\ r.kind = "register" => r.codes \in {0, r.n}

(* The request has made the codes the account has: a passkey makes some     *)
(* only as the first factor.                                                *)
Made(r) == r.stage = "done" /\ (r.kind = "register" => r.codes # 0)

CodesOf(r, acc) == IF Made(r) THEN acc.codes = r.n ELSE acc.codes < r.n

CodesInv == \A r \in securityAsks : r.kind \in Security!Makes => CodesOf(r, account)

(* Newer codes than those on screen are on their way, or were lost.         *)
ShownInv ==
    sheet.codes # 0 /\ account.codes > sheet.codes =>
        account.codes \in unseen \/ \E r \in securityAsks : r.kind \in Security!Makes /\ r.n = account.codes /\ r.stage = "done"

PasswordInv == spent \subseteq 1 .. entries /\ sheet.pw <= entries /\ sheet.pw \notin spent

StateInv == account \in Stored /\ sheet \in Sheet /\ count \in Nat /\ entries \in Nat
            /\ account.codes <= count /\ sheet.codes <= count

SheetAsksInv == \A r \in securityAsks : SheetAskOK(r)

SheetInv == StateInv /\ SheetAsksInv /\ FlagsInv /\ CodesInv /\ ShownInv /\ PasswordInv

-----------------------------------------------------------------------------
(* A flag goes with its request: on to the next stage, down with the last   *)
(* answer, up with the press.                                               *)

LEMMA FlagGoesOn ==
    ASSUME NEW A, NEW f, NEW S, FlagIs(f, S, A), NEW r \in A, NEW p, p.by = r.by
    PROVE FlagIs(f, S, (A \ {r}) \cup {p})
BY DEF FlagIs

LEMMA FlagGoesDown ==
    ASSUME NEW A, NEW f, NEW g, NEW S, FlagIs(f, S, A), NEW r \in A, g <=> f /\ r.by \notin S
    PROVE FlagIs(g, S, A \ {r})
BY DEF FlagIs

LEMMA FlagGoesUp ==
    ASSUME NEW A, NEW f, NEW g, NEW S, FlagIs(f, S, A), NEW p, p.by \in S => ~f, g <=> f \/ p.by \in S
    PROVE FlagIs(g, S, A \cup {p})
BY DEF FlagIs

LEMMA ReleasedSheet ==
    ASSUME NEW s \in Sheet, NEW by
    PROVE /\ Security!Released(s, by) \in Sheet
          /\ Security!Released(s, by).codes = s.codes /\ Security!Released(s, by).pw = s.pw
          /\ Security!Released(s, by).loading <=> s.loading /\ by \notin Security!Guarded
          /\ Security!Released(s, by).sessionsBusy <=> s.sessionsBusy /\ by \notin Security!Sessional
          /\ Security!Released(s, by).pwBusy <=> s.pwBusy /\ by # "password"
BY DEF Security!Released, Sheet

LEMMA FreshAsk ==
    ASSUME NEW n \in Nat, NEW kind \in SheetKinds, NEW arg \in Nat \cup Devices, NEW pw \in Nat,
           NEW by \in SheetKinds \cup {"mount"}
    PROVE /\ Security!Ask(n, kind, arg, pw, by) \in SheetAsk
          /\ Security!Ask(n, kind, arg, pw, by).n = n /\ Security!Ask(n, kind, arg, pw, by).kind = kind
          /\ Security!Ask(n, kind, arg, pw, by).pw = pw /\ Security!Ask(n, kind, arg, pw, by).by = by
          /\ Security!Ask(n, kind, arg, pw, by).stage = "asked" /\ Security!Ask(n, kind, arg, pw, by).codes = 0
BY DEF Security!Ask, SheetAsk

LEMMA SheetStarts == Security!Init => SheetInv
<1> SUFFICES ASSUME Security!Init PROVE SheetInv
    OBVIOUS
<1> DEFINE r == Security!Ask(0, "refresh", 0, 0, "mount")
<1>1. r \in SheetAsk /\ r.n = 0 /\ r.kind = "refresh" /\ r.pw = 0 /\ r.by = "mount"
    BY FreshAsk DEF SheetKinds, Security!Reads
<1>2. securityAsks = {r} /\ count = 0 /\ entries = 0 /\ spent = {}
    BY DEF Security!Init
<1>3. /\ account \in Stored /\ account.codes = 0
      /\ sheet \in Sheet /\ sheet.codes = 0 /\ sheet.pw = 0
      /\ sheet.loading = FALSE /\ sheet.sessionsBusy = FALSE /\ sheet.pwBusy = FALSE
    BY DEF Security!Init, Stored, Sheet
<1> HIDE DEF r
<1>4. StateInv /\ ShownInv /\ PasswordInv
    BY <1>2, <1>3 DEF StateInv, ShownInv, PasswordInv
<1>5. SheetAsksInv /\ CodesInv
    BY <1>1, <1>2 DEF SheetAsksInv, SheetAskOK, CodesInv, Security!Reads, Security!Makes
<1>6. FlagsInv
    BY <1>1, <1>2, <1>3 DEF FlagsInv, FlagIs, Security!Guarded, Security!Sessional
<1> QED
    BY <1>4, <1>5, <1>6 DEF SheetInv

(* `loading` keeps apart what makes codes.                                  *)
LEMMA MakersAlone ==
    ASSUME SheetInv, NEW r \in securityAsks, NEW s \in securityAsks,
           r.kind \in Security!Guarded, s.kind \in Security!Guarded
    PROVE r = s
<1>1. r.by = r.kind /\ s.by = s.kind
    BY DEF SheetInv, SheetAsksInv, SheetAskOK, Security!Guarded, Security!Reads
<1> QED
    BY <1>1 DEF SheetInv, FlagsInv, FlagIs

-----------------------------------------------------------------------------
(* The backend serves a request.                                            *)

LEMMA RequestIsServed ==
    ASSUME SheetInv, NEW r \in securityAsks, NEW p, Security!Becomes(r, p), r.stage # "done",
           p \in SheetAsk, p.n = r.n, p.kind = r.kind, p.by = r.by, p.pw = r.pw,
           r.kind = "register" => p.codes \in {0, r.n},
           account' \in Stored,
           account'.codes \in {account.codes, 0} \/ (r.kind \in Security!Makes /\ Made(p)),
           account'.codes = account.codes \/ r.kind \in Security!Guarded,
           r.kind \in Security!Makes => CodesOf(p, account')
    PROVE SheetInv'
<1>1. /\ securityAsks' = (securityAsks \ {r}) \cup {p} /\ UNCHANGED <<sheet, count, entries, spent, unseen>>
    BY DEF Security!Becomes
<1>2. SheetAskOK(r)
    BY DEF SheetInv, SheetAsksInv
<1>3. SheetAskOK(p)'
    BY <1>1, <1>2 DEF SheetAskOK
<1>4. \A o \in securityAsks : SheetAskOK(o)'
    BY <1>1 DEF SheetInv, SheetAsksInv, SheetAskOK
<1>5. SheetAsksInv'
    BY <1>1, <1>3, <1>4 DEF SheetAsksInv
<1>6. FlagsInv'
    BY <1>1, FlagGoesOn DEF SheetInv, FlagsInv
<1>7. CodesInv'
    <2> SUFFICES ASSUME NEW o \in securityAsks', o.kind \in Security!Makes PROVE CodesOf(o, account')
        BY DEF CodesInv
    <2>1. CASE o = p
        BY <2>1
    <2>2. CASE o # p
        <3>1. o \in securityAsks /\ o # r /\ o.kind \in Security!Guarded
            BY <1>1, <2>2 DEF Security!Makes, Security!Guarded
        <3>2. account'.codes = account.codes
            BY <3>1, MakersAlone
        <3> QED
            BY <3>1, <3>2 DEF SheetInv, CodesInv, CodesOf
    <2> QED
        BY <2>1, <2>2
<1>8. account'.codes <= count /\ account'.codes \in Nat
    <2>1. account'.codes \in Nat /\ account.codes \in Nat /\ account.codes <= count /\ count \in Nat
        BY DEF SheetInv, StateInv, Stored
    <2>2. r.n \in Nat /\ r.n <= count
        BY <1>2 DEF SheetAskOK, SheetAsk
    <2>3. r.kind \in Security!Makes /\ Made(p) => account'.codes = r.n
        BY DEF CodesOf
    <2> QED
        BY <2>1, <2>2, <2>3
<1>9. StateInv' /\ PasswordInv'
    BY <1>1, <1>8 DEF SheetInv, StateInv, PasswordInv
<1>10. ShownInv'
    <2> SUFFICES ASSUME sheet.codes # 0, account'.codes > sheet.codes
                 PROVE account'.codes \in unseen \/ \E o \in securityAsks' : o.kind \in Security!Makes /\ o.n = account'.codes /\ o.stage = "done"
        BY <1>1 DEF ShownInv
    <2>1. CASE account'.codes = account.codes
        BY <1>1, <2>1 DEF SheetInv, ShownInv
    <2>2. CASE account'.codes = 0
        BY <2>2 DEF SheetInv, StateInv, Sheet
    <2>3. CASE r.kind \in Security!Makes /\ Made(p)
        BY <1>1, <2>3 DEF CodesOf, Made
    <2> QED
        BY <2>1, <2>2, <2>3
<1> QED
    BY <1>5, <1>6, <1>7, <1>9, <1>10 DEF SheetInv

LEMMA StoredFields ==
    ASSUME SheetInv, NEW r \in securityAsks
    PROVE /\ account \in Stored /\ SheetAskOK(r) /\ r \in SheetAsk /\ r.n \in Nat /\ account.codes \in Nat
          /\ r.kind \in Security!Makes => CodesOf(r, account)
BY DEF SheetInv, StateInv, SheetAsksInv, SheetAskOK, SheetAsk, Stored, CodesInv

(* What becomes of a request that is served without more.                   *)
LEMMA DoneRequest ==
    ASSUME NEW r \in SheetAsk, NEW st \in {"ceremony", "done"}
    PROVE /\ [r EXCEPT !.stage = st] \in SheetAsk
          /\ [r EXCEPT !.stage = st].n = r.n /\ [r EXCEPT !.stage = st].kind = r.kind
          /\ [r EXCEPT !.stage = st].by = r.by /\ [r EXCEPT !.stage = st].pw = r.pw
          /\ [r EXCEPT !.stage = st].stage = st /\ [r EXCEPT !.stage = st].codes = r.codes
BY DEF SheetAsk

LEMMA ServesInvariant ==
    ASSUME SheetInv, NEW r \in securityAsks,
           \/ Security!ServeRead(r) \/ Security!ServeSetup(r) \/ Security!ServeConfirm(r)
           \/ Security!ServeRegisterBegin(r) \/ Security!ServeRegister(r) \/ Security!ServeRemove(r)
           \/ Security!ServeRegenerate(r) \/ Security!ServeDisable(r) \/ Security!ServeSessions(r)
    PROVE SheetInv'
<1>1. /\ account \in Stored /\ SheetAskOK(r) /\ r \in SheetAsk /\ r.n \in Nat /\ account.codes \in Nat
      /\ r.kind \in Security!Makes => CodesOf(r, account)
    BY StoredFields
<1>2. r.kind = "register" => r.codes \in {0, r.n}
    BY <1>1 DEF SheetAskOK
<1>3. CASE Security!ServeRead(r)
    <2> DEFINE p == [r EXCEPT !.stage = "done", !.totp = account.totp, !.keys = account.keys, !.sessions = account.sessions]
    <2>1. r.kind \in Security!Reads /\ r.stage = "asked" /\ Security!Becomes(r, p) /\ UNCHANGED account
        BY <1>3 DEF Security!ServeRead
    <2>2. p \in SheetAsk /\ p.n = r.n /\ p.kind = r.kind /\ p.by = r.by /\ p.pw = r.pw
        BY <1>1 DEF SheetAsk, Stored
    <2>3. r.kind \notin Security!Makes /\ r.kind # "register"
        BY <2>1 DEF Security!Reads, Security!Makes
    <2> HIDE DEF p
    <2> QED
        BY <1>1, <2>1, <2>2, <2>3, RequestIsServed
<1>4. CASE Security!ServeRegisterBegin(r)
    <2>1. PICK p : p = [r EXCEPT !.stage = "ceremony"]
        OBVIOUS
    <2>2. r.kind = "register" /\ r.stage = "asked" /\ Security!Becomes(r, p) /\ UNCHANGED account
        BY <1>4, <2>1 DEF Security!ServeRegisterBegin
    <2>3. /\ p \in SheetAsk /\ p.n = r.n /\ p.kind = r.kind /\ p.by = r.by /\ p.pw = r.pw /\ p.stage = "ceremony"
          /\ p.codes = r.codes
        BY <1>1, <2>1, DoneRequest
    <2>4. CodesOf(p, account')
        BY <1>1, <2>2, <2>3 DEF CodesOf, Made, Security!Makes
    <2> QED
        BY <1>1, <1>2, <2>2, <2>3, <2>4, RequestIsServed
<1>5. CASE Security!ServeRegister(r)
    <2> DEFINE m == IF Security!Secured THEN 0 ELSE r.n
               p == [r EXCEPT !.stage = "done", !.codes = m]
               a == [account EXCEPT !.keys = @ \cup {r.n}, !.codes = IF Security!Secured THEN @ ELSE r.n]
    <2>1. r.kind = "register" /\ r.stage = "ceremony" /\ Security!Becomes(r, p) /\ account' = a
        BY <1>5 DEF Security!ServeRegister
    <2>2. /\ a \in Stored
          /\ Security!Secured => a.codes = account.codes
          /\ ~Security!Secured => a.codes = r.n
        BY <1>1 DEF Stored
    <2>3. m \in Nat /\ m \in {0, r.n}
        BY <1>1
    <2>4. /\ p \in SheetAsk /\ p.n = r.n /\ p.kind = r.kind /\ p.by = r.by /\ p.pw = r.pw /\ p.stage = "done"
          /\ p.codes = m
        BY <1>1, <2>3 DEF SheetAsk
    <2>5. account.codes < r.n
        BY <1>1, <2>1 DEF CodesOf, Made, Security!Makes
    <2>6. CASE Security!Secured
        <3>1. m = 0 /\ a.codes = account.codes
            BY <2>2, <2>6
        <3> HIDE DEF p, a, m
        <3>2. CodesOf(p, account')
            BY <1>1, <2>1, <2>4, <2>5, <3>1 DEF CodesOf, Made
        <3> QED
            BY <1>1, <2>1, <2>2, <2>3, <2>4, <3>1, <3>2, RequestIsServed
    <2>7. CASE ~Security!Secured
        <3>1. m = r.n /\ a.codes = r.n
            BY <2>2, <2>7
        <3> HIDE DEF p, a, m
        <3>2. CodesOf(p, account') /\ Made(p) /\ r.kind \in Security!Makes /\ r.kind \in Security!Guarded
            BY <1>1, <2>1, <2>4, <2>5, <3>1 DEF CodesOf, Made, Security!Makes, Security!Guarded
        <3> QED
            BY <1>1, <2>1, <2>2, <2>3, <2>4, <3>1, <3>2, RequestIsServed
    <2> QED
        BY <2>6, <2>7
<1>6. ASSUME NEW kind, NEW a, Security!Serve(r, kind, "asked", a), a \in Stored,
             \/ kind \in {"confirm", "regenerate"} /\ a.codes = r.n
             \/ kind \in {"setup", "remove", "password", "others", "revoke"} /\ a.codes = account.codes
             \/ kind = "disable" /\ a.codes = 0
      PROVE SheetInv'
    <2>1. PICK p : p = [r EXCEPT !.stage = "done"]
        OBVIOUS
    <2>2. r.kind = kind /\ r.stage = "asked" /\ account' = a /\ Security!Becomes(r, p)
        BY <1>6, <2>1 DEF Security!Serve
    <2>3. /\ p \in SheetAsk /\ p.n = r.n /\ p.kind = r.kind /\ p.by = r.by /\ p.pw = r.pw /\ p.stage = "done"
          /\ p.codes = r.codes
        BY <1>1, <2>1, DoneRequest
    <2>4. CASE kind \in {"confirm", "regenerate"} /\ a.codes = r.n
        <3>1. CodesOf(p, account') /\ Made(p) /\ r.kind \in Security!Makes /\ r.kind \in Security!Guarded
            BY <2>2, <2>3, <2>4 DEF CodesOf, Made, Security!Makes, Security!Guarded
        <3> QED
            BY <1>2, <1>6, <2>2, <2>3, <3>1, RequestIsServed
    <2>5. CASE kind \in {"setup", "remove", "password", "others", "revoke"} /\ a.codes = account.codes
        <3>1. r.kind \notin Security!Makes
            BY <2>2, <2>5 DEF Security!Makes
        <3> QED
            BY <1>2, <1>6, <2>2, <2>3, <2>5, <3>1, RequestIsServed
    <2>6. CASE kind = "disable" /\ a.codes = 0
        <3>1. r.kind \notin Security!Makes /\ r.kind \in Security!Guarded
            BY <2>2, <2>6 DEF Security!Makes, Security!Guarded
        <3> QED
            BY <1>2, <1>6, <2>2, <2>3, <2>6, <3>1, RequestIsServed
    <2> QED
        BY <1>6, <2>4, <2>5, <2>6
<1>7. CASE Security!ServeSetup(r)
    <2>1. PICK a : a = [account EXCEPT !.secret = r.n]
        OBVIOUS
    <2>2. a \in Stored /\ a.codes = account.codes
        BY <1>1, <2>1 DEF Stored
    <2>3. Security!Serve(r, "setup", "asked", a)
        BY <1>7, <2>1 DEF Security!ServeSetup
    <2> QED
        BY <1>6, <2>2, <2>3
<1>8. CASE Security!ServeConfirm(r)
    <2>1. PICK a : a = [account EXCEPT !.totp = TRUE, !.codes = r.n]
        OBVIOUS
    <2>2. a \in Stored /\ a.codes = r.n
        BY <1>1, <2>1 DEF Stored
    <2>3. Security!Serve(r, "confirm", "asked", a)
        BY <1>8, <2>1 DEF Security!ServeConfirm
    <2> QED
        BY <1>6, <2>2, <2>3
<1>9. CASE Security!ServeRemove(r)
    <2>1. PICK a : a = [account EXCEPT !.keys = @ \ {r.arg}]
        OBVIOUS
    <2>2. a \in Stored /\ a.codes = account.codes
        BY <1>1, <2>1 DEF Stored
    <2>3. Security!Serve(r, "remove", "asked", a)
        BY <1>9, <2>1 DEF Security!ServeRemove
    <2> QED
        BY <1>6, <2>2, <2>3
<1>10. CASE Security!ServeRegenerate(r)
    <2>1. PICK a : a = [account EXCEPT !.codes = r.n]
        OBVIOUS
    <2>2. a \in Stored /\ a.codes = r.n
        BY <1>1, <2>1 DEF Stored
    <2>3. Security!Serve(r, "regenerate", "asked", a)
        BY <1>10, <2>1 DEF Security!ServeRegenerate
    <2> QED
        BY <1>6, <2>2, <2>3
<1>11. CASE Security!ServeDisable(r)
    <2>1. PICK a : a = [account EXCEPT !.totp = FALSE, !.secret = 0, !.keys = {}, !.codes = 0]
        OBVIOUS
    <2>2. a \in Stored /\ a.codes = 0
        BY <1>1, <2>1 DEF Stored
    <2>3. Security!Serve(r, "disable", "asked", a)
        BY <1>11, <2>1 DEF Security!ServeDisable
    <2> QED
        BY <1>6, <2>2, <2>3
<1>12. CASE Security!ServeSessions(r)
    <2>1. PICK a, b : a = [account EXCEPT !.sessions = {}] /\ b = [account EXCEPT !.sessions = @ \ {r.arg}]
        OBVIOUS
    <2>2. a \in Stored /\ a.codes = account.codes /\ b \in Stored /\ b.codes = account.codes
        BY <1>1, <2>1 DEF Stored
    <2>3. \/ Security!Serve(r, "password", "asked", a) \/ Security!Serve(r, "others", "asked", a)
          \/ Security!Serve(r, "revoke", "asked", b)
        BY <1>12, <2>1 DEF Security!ServeSessions
    <2> QED
        BY <1>6, <2>2, <2>3
<1> QED
    BY <1>3, <1>4, <1>5, <1>7, <1>8, <1>9, <1>10, <1>11, <1>12

-----------------------------------------------------------------------------
(* The handlers go on.                                                      *)

(* What an answer does to the refs: the codes on screen become those of the *)
(* account or stay, the password is emptied or stays.                       *)
Landed(r) ==
    /\ sheet' \in Sheet /\ UNCHANGED <<account, count, entries>>
    /\ \/ sheet'.codes = account.codes
       \/ sheet'.codes = sheet.codes /\ (r.kind \in Security!Makes /\ Made(r) => r.n \in unseen')
    /\ unseen \subseteq unseen'
    /\ \/ spent' = spent /\ sheet'.pw \in {sheet.pw, 0}
       \/ spent' = spent \cup {r.pw} /\ r.pw # 0 /\ sheet'.pw = 0

LEMMA LandedKeeps ==
    ASSUME SheetInv, NEW r \in securityAsks, Landed(r), securityAsks \ {r} \subseteq securityAsks'
    PROVE StateInv' /\ PasswordInv' /\ ShownInv'
<1>1. /\ account.codes <= count /\ sheet.codes <= count /\ account.codes \in Nat /\ count \in Nat /\ entries \in Nat
      /\ r.pw \in Nat /\ r.pw <= entries /\ r.n \in Nat /\ SheetAskOK(r)
      /\ sheet.codes \in Nat /\ sheet.pw \in Nat
    BY DEF SheetInv, StateInv, SheetAsksInv, SheetAskOK, SheetAsk, Stored, Sheet
<1>2. StateInv'
    <2>1. sheet'.codes <= count
        BY <1>1 DEF Landed
    <2> QED
        BY <2>1 DEF Landed, SheetInv, StateInv
<1>3. PasswordInv'
    <2>1. spent \subseteq 1 .. entries /\ sheet.pw <= entries /\ sheet.pw \notin spent /\ entries' = entries
        BY DEF Landed, SheetInv, PasswordInv
    <2>2. 0 \notin spent
        BY <2>1
    <2>3. CASE spent' = spent /\ sheet'.pw \in {sheet.pw, 0}
        BY <1>1, <2>1, <2>2, <2>3 DEF PasswordInv
    <2>4. CASE spent' = spent \cup {r.pw} /\ r.pw # 0 /\ sheet'.pw = 0
        <3>1. r.pw \in 1 .. entries
            BY <1>1, <2>4
        <3>2. spent' \subseteq 1 .. entries'
            BY <2>1, <2>4, <3>1
        <3>3. sheet'.pw <= entries' /\ sheet'.pw \notin spent'
            BY <1>1, <2>1, <2>2, <2>4
        <3> QED
            BY <3>2, <3>3 DEF PasswordInv
    <2> QED
        BY <2>3, <2>4 DEF Landed
<1>4. ShownInv'
    <2> SUFFICES ASSUME sheet'.codes # 0, account.codes > sheet'.codes
                 PROVE account.codes \in unseen' \/ \E o \in securityAsks' : o.kind \in Security!Makes /\ o.n = account.codes /\ o.stage = "done"
        BY DEF ShownInv, Landed
    <2>1. /\ sheet'.codes = sheet.codes /\ unseen \subseteq unseen'
          /\ r.kind \in Security!Makes /\ Made(r) => r.n \in unseen'
        BY <1>1 DEF Landed
    <2>2. CASE account.codes \in unseen
        BY <2>1, <2>2
    <2>3. CASE account.codes \notin unseen
        <3>1. PICK o \in securityAsks : o.kind \in Security!Makes /\ o.n = account.codes /\ o.stage = "done"
            BY <2>1, <2>3 DEF SheetInv, ShownInv
        <3>2. CASE o = r
            <4>1. Made(r)
                BY <1>1, <3>1, <3>2 DEF SheetInv, CodesInv, CodesOf
            <4> QED
                BY <2>1, <3>1, <3>2, <4>1
        <3> QED
            BY <3>1, <3>2
    <2> QED
        BY <2>2, <2>3
<1> QED
    BY <1>2, <1>3, <1>4

(* The last answer of a handler: its flag goes down.                        *)
LEMMA HandlerIsOver ==
    ASSUME SheetInv, NEW r \in securityAsks, Landed(r), securityAsks' = securityAsks \ {r},
           sheet'.loading <=> sheet.loading /\ r.by \notin Security!Guarded,
           sheet'.sessionsBusy <=> sheet.sessionsBusy /\ r.by \notin Security!Sessional,
           sheet'.pwBusy <=> sheet.pwBusy /\ r.by # "password"
    PROVE SheetInv'
<1>1. StateInv' /\ PasswordInv' /\ ShownInv'
    BY LandedKeeps
<1>2. FlagsInv'
    <2>1. /\ FlagIs(sheet.loading, Security!Guarded, securityAsks)
          /\ FlagIs(sheet.sessionsBusy, Security!Sessional, securityAsks)
          /\ FlagIs(sheet.pwBusy, {"password"}, securityAsks)
        BY DEF SheetInv, FlagsInv
    <2>2. FlagIs(sheet'.loading, Security!Guarded, securityAsks \ {r})
        BY <2>1, FlagGoesDown
    <2>3. FlagIs(sheet'.sessionsBusy, Security!Sessional, securityAsks \ {r})
        BY <2>1, FlagGoesDown
    <2>4. FlagIs(sheet'.pwBusy, {"password"}, securityAsks \ {r})
        BY <2>1, FlagGoesDown
    <2> QED
        BY <2>2, <2>3, <2>4 DEF FlagsInv
<1>3. SheetAsksInv' /\ CodesInv'
    BY DEF SheetInv, SheetAsksInv, SheetAskOK, CodesInv, Landed
<1> QED
    BY <1>1, <1>2, <1>3 DEF SheetInv

(* The handler asks for the lists again; its flag stays.                    *)
LEMMA HandlerReadsAgain ==
    ASSUME SheetInv, NEW r \in securityAsks, Landed(r), NEW kind \in Security!Reads, Security!Then(r, kind),
           sheet'.loading = sheet.loading, sheet'.sessionsBusy = sheet.sessionsBusy, sheet'.pwBusy = sheet.pwBusy
    PROVE SheetInv'
<1>1. PICK p : p = Security!Ask(r.n, kind, 0, 0, r.by)
    OBVIOUS
<1>2. SheetAskOK(r) /\ r \in SheetAsk /\ r.n \in Nat /\ r.by \in SheetKinds \cup {"mount"} /\ kind \in SheetKinds
    BY DEF SheetInv, SheetAsksInv, SheetAskOK, SheetAsk, SheetKinds
<1>3. p \in SheetAsk /\ p.n = r.n /\ p.kind = kind /\ p.pw = 0 /\ p.by = r.by
    BY <1>1, <1>2, FreshAsk
<1>4. securityAsks' = (securityAsks \ {r}) \cup {p}
    BY <1>1 DEF Security!Then
<1>5. StateInv' /\ PasswordInv' /\ ShownInv'
    BY <1>4, LandedKeeps
<1>6. FlagsInv'
    BY <1>3, <1>4, FlagGoesOn DEF SheetInv, FlagsInv
<1>7. p.kind \notin Security!Makes /\ p.kind \notin {"setup", "register", "remove"} /\ p.kind \in Security!Reads
    BY <1>3 DEF Security!Reads, Security!Makes
<1>8. entries \in Nat /\ count \in Nat /\ r.n <= count
    BY <1>2 DEF SheetInv, StateInv, SheetAskOK
<1>9. SheetAsksInv'
    <2>1. SheetAskOK(p)'
        BY <1>3, <1>7, <1>8 DEF SheetAskOK, Landed
    <2> QED
        BY <1>4, <2>1 DEF SheetInv, SheetAsksInv, SheetAskOK, Landed
<1>10. CodesInv'
    BY <1>4, <1>7 DEF SheetInv, CodesInv, Landed
<1> QED
    BY <1>5, <1>6, <1>9, <1>10 DEF SheetInv

LEMMA LandsOfTheSheet ==
    ASSUME SheetInv, NEW r \in securityAsks,
           \/ Security!LandRefresh(r) \/ Security!LandSessions(r) \/ Security!LandSetup(r) \/ Security!LandConfirm(r)
           \/ Security!LandRegister(r) \/ Security!LandRemove(r) \/ Security!LandRegenerate(r)
           \/ Security!LandDisable(r) \/ Security!LandRevoked(r) \/ Security!LandFailed(r)
    PROVE SheetInv'
<1>1. /\ account \in Stored /\ SheetAskOK(r) /\ r \in SheetAsk /\ r.n \in Nat /\ account.codes \in Nat
      /\ r.kind \in Security!Makes => CodesOf(r, account)
    BY StoredFields
<1>2. sheet \in Sheet
    BY DEF SheetInv, StateInv
<1>3. CASE Security!LandRefresh(r)
    <2>1. PICK told \in BOOLEAN, all \in BOOLEAN, open \in BOOLEAN :
              sheet' = Security!Released([sheet EXCEPT !.known = @ \/ told, !.totp = IF told THEN r.totp ELSE @,
                                                       !.keys = IF all THEN r.keys ELSE @,
                                                       !.sessions = IF open THEN r.sessions ELSE {}], r.by)
        BY <1>3 DEF Security!LandRefresh
    <2>2. PICK s : s = [sheet EXCEPT !.known = @ \/ told, !.totp = IF told THEN r.totp ELSE @,
                                     !.keys = IF all THEN r.keys ELSE @, !.sessions = IF open THEN r.sessions ELSE {}]
        OBVIOUS
    <2>3. /\ s \in Sheet /\ s.codes = sheet.codes /\ s.pw = sheet.pw /\ s.loading = sheet.loading
          /\ s.sessionsBusy = sheet.sessionsBusy /\ s.pwBusy = sheet.pwBusy
        <3>1. /\ r.totp \in BOOLEAN /\ r.keys \in SUBSET Nat /\ r.sessions \in SUBSET Devices
              /\ sheet.known \in BOOLEAN /\ sheet.totp \in BOOLEAN /\ sheet.keys \in SUBSET Nat
            BY <1>1, <1>2 DEF Sheet, SheetAsk
        <3>2. PICK known \in BOOLEAN, totp \in BOOLEAN, keys \in SUBSET Nat, sessions \in SUBSET Devices :
                  /\ known = (sheet.known \/ told) /\ totp = (IF told THEN r.totp ELSE sheet.totp)
                  /\ keys = (IF all THEN r.keys ELSE sheet.keys) /\ sessions = (IF open THEN r.sessions ELSE {})
            BY <3>1
        <3>3. s = [sheet EXCEPT !.known = known, !.totp = totp, !.keys = keys, !.sessions = sessions]
            BY <2>2, <3>2
        <3> QED
            BY <1>2, <3>3 DEF Sheet
    <2>4. sheet' = Security!Released(s, r.by)
        BY <2>1, <2>2
    <2>5. /\ r.kind = "refresh" /\ securityAsks' = securityAsks \ {r} /\ UNCHANGED <<account, count, entries, spent, unseen>>
        BY <1>3 DEF Security!LandRefresh
    <2>6. Landed(r)
        BY <2>3, <2>4, <2>5, ReleasedSheet DEF Landed, Security!Makes
    <2> QED
        BY <2>3, <2>4, <2>5, <2>6, ReleasedSheet, HandlerIsOver
<1>4. CASE Security!LandSessions(r)
    <2>1. PICK open \in BOOLEAN :
              sheet' = Security!Released([sheet EXCEPT !.sessions = IF open THEN r.sessions ELSE {}], r.by)
        BY <1>4 DEF Security!LandSessions
    <2>2. PICK s : s = [sheet EXCEPT !.sessions = IF open THEN r.sessions ELSE {}]
        OBVIOUS
    <2>3. /\ s \in Sheet /\ s.codes = sheet.codes /\ s.pw = sheet.pw /\ s.loading = sheet.loading
          /\ s.sessionsBusy = sheet.sessionsBusy /\ s.pwBusy = sheet.pwBusy
        BY <1>1, <1>2, <2>2 DEF Sheet, SheetAsk
    <2>4. sheet' = Security!Released(s, r.by)
        BY <2>1, <2>2
    <2>5. /\ r.kind = "sessions" /\ securityAsks' = securityAsks \ {r} /\ UNCHANGED <<account, count, entries, spent, unseen>>
        BY <1>4 DEF Security!LandSessions
    <2>6. Landed(r)
        BY <2>3, <2>4, <2>5, ReleasedSheet DEF Landed, Security!Makes
    <2> QED
        BY <2>3, <2>4, <2>5, <2>6, ReleasedSheet, HandlerIsOver
<1>5. CASE Security!LandSetup(r)
    <2>1. /\ r.kind = "setup" /\ securityAsks' = securityAsks \ {r} /\ UNCHANGED <<account, count, entries, unseen>>
          /\ spent' = spent \cup {r.pw} /\ sheet' = [sheet EXCEPT !.pw = 0, !.secret = r.n]
        BY <1>5 DEF Security!LandSetup
    <2>2. /\ sheet' \in Sheet /\ sheet'.codes = sheet.codes /\ sheet'.pw = 0 /\ sheet'.loading = sheet.loading
          /\ sheet'.sessionsBusy = sheet.sessionsBusy /\ sheet'.pwBusy = sheet.pwBusy
        BY <1>1, <1>2, <2>1 DEF Sheet
    <2>3. r.pw # 0 /\ r.by = "setup"
        BY <1>1, <2>1 DEF SheetAskOK, Security!Reads
    <2>4. Landed(r)
        BY <2>1, <2>2, <2>3 DEF Landed, Security!Makes
    <2>5. r.by \notin Security!Guarded /\ r.by \notin Security!Sessional /\ r.by # "password"
        BY <2>3 DEF Security!Guarded, Security!Sessional
    <2> QED
        BY <2>1, <2>2, <2>4, <2>5, HandlerIsOver
<1>6. CASE Security!LandConfirm(r) \/ Security!LandRegenerate(r)
    <2>1. /\ r.kind \in {"confirm", "regenerate"} /\ r.stage = "done" /\ Security!Then(r, "refresh")
          /\ UNCHANGED <<account, count, entries, spent, unseen>>
          /\ \/ sheet' = [sheet EXCEPT !.codes = r.n, !.secret = 0]
             \/ sheet' = [sheet EXCEPT !.codes = r.n]
        BY <1>6 DEF Security!LandConfirm, Security!LandRegenerate
    <2>2. /\ sheet' \in Sheet /\ sheet'.codes = r.n /\ sheet'.pw = sheet.pw /\ sheet'.loading = sheet.loading
          /\ sheet'.sessionsBusy = sheet.sessionsBusy /\ sheet'.pwBusy = sheet.pwBusy
        <3>1. CASE sheet' = [sheet EXCEPT !.codes = r.n, !.secret = 0]
            BY <1>1, <1>2, <3>1 DEF Sheet
        <3>2. CASE sheet' = [sheet EXCEPT !.codes = r.n]
            BY <1>1, <1>2, <3>2 DEF Sheet
        <3> QED
            BY <2>1, <3>1, <3>2
    <2>3. account.codes = r.n
        BY <1>1, <2>1 DEF CodesOf, Made, Security!Makes
    <2>4. Landed(r)
        BY <2>1, <2>2, <2>3 DEF Landed
    <2> QED
        BY <2>1, <2>2, <2>4, HandlerReadsAgain DEF Security!Reads
<1>7. CASE Security!LandRegister(r)
    <2>1. /\ r.kind = "register" /\ r.stage = "done" /\ Security!Then(r, "refresh")
          /\ UNCHANGED <<account, count, entries, unseen>> /\ spent' = spent \cup {r.pw}
          /\ sheet' = [sheet EXCEPT !.pw = 0, !.codes = IF r.codes # 0 THEN r.codes ELSE @]
        BY <1>7 DEF Security!LandRegister
    <2>2. r.pw # 0 /\ r.codes \in {0, r.n}
        BY <1>1, <2>1 DEF SheetAskOK
    <2>3. /\ sheet' \in Sheet /\ sheet'.codes = (IF r.codes # 0 THEN r.codes ELSE sheet.codes) /\ sheet'.pw = 0
          /\ sheet'.loading = sheet.loading
          /\ sheet'.sessionsBusy = sheet.sessionsBusy /\ sheet'.pwBusy = sheet.pwBusy
        BY <1>1, <1>2, <2>1, <2>2 DEF Sheet
    <2>4. CASE r.codes # 0
        <3>1. account.codes = r.n
            BY <1>1, <2>1, <2>4 DEF CodesOf, Made, Security!Makes
        <3>2. Landed(r)
            BY <2>1, <2>2, <2>3, <2>4, <3>1 DEF Landed
        <3> QED
            BY <2>1, <2>3, <3>2, HandlerReadsAgain DEF Security!Reads
    <2>5. CASE r.codes = 0
        <3>1. ~Made(r)
            BY <2>1, <2>5 DEF Made
        <3>2. Landed(r)
            BY <2>1, <2>2, <2>3, <2>5, <3>1 DEF Landed
        <3> QED
            BY <2>1, <2>3, <3>2, HandlerReadsAgain DEF Security!Reads
    <2> QED
        BY <2>4, <2>5
<1>8. CASE Security!LandRemove(r)
    <2>1. /\ r.kind = "remove" /\ Security!Then(r, "refresh")
          /\ UNCHANGED <<account, count, entries, unseen>> /\ spent' = spent \cup {r.pw} /\ sheet' = [sheet EXCEPT !.pw = 0]
        BY <1>8 DEF Security!LandRemove
    <2>2. /\ sheet' \in Sheet /\ sheet'.codes = sheet.codes /\ sheet'.pw = 0 /\ sheet'.loading = sheet.loading
          /\ sheet'.sessionsBusy = sheet.sessionsBusy /\ sheet'.pwBusy = sheet.pwBusy
        BY <1>2, <2>1 DEF Sheet
    <2>3. r.pw # 0
        BY <1>1, <2>1 DEF SheetAskOK
    <2>4. Landed(r)
        BY <2>1, <2>2, <2>3 DEF Landed, Security!Makes
    <2> QED
        BY <2>1, <2>2, <2>4, HandlerReadsAgain DEF Security!Reads
<1>9. CASE Security!LandDisable(r) \/ Security!LandRevoked(r)
    <2>1. /\ r.kind \notin Security!Makes /\ UNCHANGED <<account, sheet, count, entries, spent, unseen>>
          /\ Security!Then(r, "refresh") \/ Security!Then(r, "sessions")
        BY <1>9 DEF Security!LandDisable, Security!LandRevoked, Security!Makes, Security!Sessional
    <2>2. Landed(r)
        BY <1>2, <2>1 DEF Landed
    <2> QED
        BY <2>1, <2>2, HandlerReadsAgain DEF Security!Reads
<1>10. CASE Security!LandFailed(r)
    <2>1. /\ sheet' = Security!Released(sheet, r.by) /\ securityAsks' = securityAsks \ {r}
          /\ unseen' = IF r.kind \in Security!Makes /\ r.stage = "done" THEN unseen \cup {r.n} ELSE unseen
          /\ UNCHANGED <<account, count, entries, spent>>
        BY <1>10 DEF Security!LandFailed
    <2>2. Landed(r)
        BY <1>2, <2>1, ReleasedSheet DEF Landed, Made
    <2> QED
        BY <1>2, <2>1, <2>2, ReleasedSheet, HandlerIsOver
<1> QED
    BY <1>3, <1>4, <1>5, <1>6, <1>7, <1>8, <1>9, <1>10

-----------------------------------------------------------------------------
(* The reader presses.                                                      *)

LEMMA ReaderPresses ==
    ASSUME SheetInv, NEW kind \in Security!Kinds, NEW arg \in Nat \cup Devices, NEW pw \in {0, sheet.pw},
           Security!Press(kind, arg, pw), kind \in {"setup", "register", "remove"} => pw # 0,
           sheet' \in Sheet, sheet'.codes = sheet.codes, sheet'.pw = sheet.pw,
           kind \in Security!Guarded => ~sheet.loading,
           kind \in Security!Sessional => ~sheet.sessionsBusy,
           kind = "password" => ~sheet.pwBusy,
           sheet'.loading <=> sheet.loading \/ kind \in Security!Guarded,
           sheet'.sessionsBusy <=> sheet.sessionsBusy \/ kind \in Security!Sessional,
           sheet'.pwBusy <=> sheet.pwBusy \/ kind = "password"
    PROVE SheetInv'
<1>1. PICK p : p = Security!Ask(count + 1, kind, arg, pw, kind)
    OBVIOUS
<1>2. /\ count \in Nat /\ entries \in Nat /\ sheet.pw \in Nat /\ sheet.pw <= entries /\ pw \in Nat /\ pw <= entries
      /\ account.codes \in Nat /\ account.codes <= count /\ sheet.codes \in Nat /\ sheet.codes <= count
    BY DEF SheetInv, StateInv, PasswordInv, Sheet, Stored
<1>3. /\ p \in SheetAsk /\ p.n = count + 1 /\ p.kind = kind /\ p.pw = pw /\ p.by = kind /\ p.stage = "asked" /\ p.codes = 0
    <2>1. count + 1 \in Nat /\ kind \in SheetKinds
        BY <1>2 DEF SheetKinds
    <2> QED
        <3>1. PICK n \in Nat : n = count + 1
            BY <2>1
        <3>2. p = Security!Ask(n, kind, arg, pw, kind)
            BY <1>1, <3>1
        <3>3. kind \in SheetKinds \cup {"mount"} /\ pw \in Nat /\ arg \in Nat \cup Devices
            BY <1>2, <2>1
        <3>4. /\ Security!Ask(n, kind, arg, pw, kind) \in SheetAsk
              /\ Security!Ask(n, kind, arg, pw, kind).n = n /\ Security!Ask(n, kind, arg, pw, kind).kind = kind
              /\ Security!Ask(n, kind, arg, pw, kind).pw = pw /\ Security!Ask(n, kind, arg, pw, kind).by = kind
              /\ Security!Ask(n, kind, arg, pw, kind).stage = "asked" /\ Security!Ask(n, kind, arg, pw, kind).codes = 0
            BY <2>1, <3>3, FreshAsk
        <3> QED
            BY <3>1, <3>2, <3>4
<1>4. /\ count' = count + 1 /\ securityAsks' = securityAsks \cup {p} /\ UNCHANGED <<account, entries, spent, unseen>>
    BY <1>1 DEF Security!Press
<1>5. StateInv' /\ PasswordInv'
    BY <1>2, <1>4 DEF SheetInv, StateInv, PasswordInv
<1>6. ShownInv'
    BY <1>4 DEF SheetInv, ShownInv
<1>7. SheetAsksInv'
    <2>1. SheetAskOK(p)'
        BY <1>2, <1>3, <1>4 DEF SheetAskOK
    <2>2. \A o \in securityAsks : SheetAskOK(o)'
        BY <1>2, <1>4 DEF SheetInv, SheetAsksInv, SheetAskOK, SheetAsk
    <2> QED
        BY <1>4, <2>1, <2>2 DEF SheetAsksInv
<1>8. CodesInv'
    <2>1. CodesOf(p, account)
        BY <1>2, <1>3 DEF CodesOf, Made
    <2> QED
        BY <1>4, <2>1 DEF SheetInv, CodesInv
<1>9. FlagsInv'
    <2>1. /\ FlagIs(sheet.loading, Security!Guarded, securityAsks)
          /\ FlagIs(sheet.sessionsBusy, Security!Sessional, securityAsks)
          /\ FlagIs(sheet.pwBusy, {"password"}, securityAsks)
        BY DEF SheetInv, FlagsInv
    <2>2. FlagIs(sheet'.loading, Security!Guarded, securityAsks \cup {p})
        BY <1>3, <2>1, FlagGoesUp
    <2>3. FlagIs(sheet'.sessionsBusy, Security!Sessional, securityAsks \cup {p})
        BY <1>3, <2>1, FlagGoesUp
    <2>4. FlagIs(sheet'.pwBusy, {"password"}, securityAsks \cup {p})
        BY <1>3, <2>1, FlagGoesUp
    <2> QED
        BY <1>4, <2>2, <2>3, <2>4 DEF FlagsInv
<1> QED
    BY <1>5, <1>6, <1>7, <1>8, <1>9 DEF SheetInv

LEMMA PressesInvariant ==
    ASSUME SheetInv,
           \/ Security!StartTotp \/ Security!ConfirmTotp \/ Security!AddPasskey \/ Security!RegenerateCodes
           \/ Security!DisableAll \/ Security!SubmitPasswordChange \/ Security!RevokeOthers
           \/ \E k \in sheet.keys : Security!RemovePasskey(k)
           \/ \E s \in Devices : Security!RevokeOne(s)
    PROVE SheetInv'
<1>1. sheet \in Sheet /\ sheet.secret \in Nat /\ sheet.keys \subseteq Nat
    BY DEF SheetInv, StateInv, Sheet
<1>2. ASSUME NEW kind \in {"setup", "remove"}, NEW arg \in Nat, sheet.pw # 0, Security!Press(kind, arg, sheet.pw),
             UNCHANGED sheet
      PROVE SheetInv'
    <2>1. /\ kind \in Security!Kinds /\ kind \notin Security!Guarded /\ kind \notin Security!Sessional /\ kind # "password"
        BY DEF Security!Kinds, Security!Guarded, Security!Sessional
    <2>2. /\ sheet' \in Sheet /\ sheet'.codes = sheet.codes /\ sheet'.pw = sheet.pw /\ (sheet'.loading <=> sheet.loading)
          /\ (sheet'.sessionsBusy <=> sheet.sessionsBusy) /\ (sheet'.pwBusy <=> sheet.pwBusy)
        BY <1>1, <1>2
    <2> QED
        BY <1>2, <2>1, <2>2, ReaderPresses
<1>3. ASSUME NEW kind \in Security!Guarded, NEW arg \in Nat, NEW pw \in {0, sheet.pw}, kind = "register" => pw # 0,
             Security!PressGuarded(kind, arg, pw)
      PROVE SheetInv'
    <2>1. /\ kind \in Security!Kinds /\ kind \notin Security!Sessional /\ kind \notin {"password", "setup", "remove"}
        BY DEF Security!Kinds, Security!Guarded, Security!Sessional
    <2>2. /\ ~sheet.loading /\ Security!Press(kind, arg, pw) /\ sheet' = [sheet EXCEPT !.loading = TRUE]
        BY <1>3 DEF Security!PressGuarded
    <2>3. /\ sheet' \in Sheet /\ sheet'.codes = sheet.codes /\ sheet'.pw = sheet.pw /\ sheet'.loading
          /\ (sheet'.sessionsBusy <=> sheet.sessionsBusy) /\ (sheet'.pwBusy <=> sheet.pwBusy)
        BY <1>1, <2>2 DEF Sheet
    <2> QED
        BY <1>3, <2>1, <2>2, <2>3, ReaderPresses
<1>4. ASSUME NEW kind \in Security!Sessional, NEW arg \in Nat \cup Devices, ~sheet.sessionsBusy,
             Security!Press(kind, arg, 0), sheet' = [sheet EXCEPT !.sessionsBusy = TRUE]
      PROVE SheetInv'
    <2>1. /\ kind \in Security!Kinds /\ kind \notin Security!Guarded
          /\ kind \notin {"password", "setup", "register", "remove"}
        BY DEF Security!Kinds, Security!Guarded, Security!Sessional
    <2>2. /\ sheet' \in Sheet /\ sheet'.codes = sheet.codes /\ sheet'.pw = sheet.pw /\ sheet'.sessionsBusy
          /\ (sheet'.loading <=> sheet.loading) /\ (sheet'.pwBusy <=> sheet.pwBusy)
        BY <1>1, <1>4 DEF Sheet
    <2> QED
        BY <1>4, <2>1, <2>2, ReaderPresses
<1>5. CASE Security!StartTotp
    BY <1>2, <1>5 DEF Security!StartTotp
<1>6. CASE Security!ConfirmTotp
    BY <1>1, <1>3, <1>6 DEF Security!ConfirmTotp, Security!Guarded
<1>7. CASE Security!AddPasskey
    BY <1>3, <1>7 DEF Security!AddPasskey, Security!Guarded
<1>8. CASE Security!RegenerateCodes \/ Security!DisableAll
    BY <1>3, <1>8 DEF Security!RegenerateCodes, Security!DisableAll, Security!Guarded
<1>9. CASE Security!SubmitPasswordChange
    <2>1. /\ ~sheet.pwBusy /\ Security!Press("password", 0, 0) /\ sheet' = [sheet EXCEPT !.pwBusy = TRUE]
        BY <1>9 DEF Security!SubmitPasswordChange
    <2>2. /\ sheet' \in Sheet /\ sheet'.codes = sheet.codes /\ sheet'.pw = sheet.pw /\ sheet'.pwBusy
          /\ (sheet'.loading <=> sheet.loading) /\ (sheet'.sessionsBusy <=> sheet.sessionsBusy)
        BY <1>1, <2>1 DEF Sheet
    <2>3. "password" \in Security!Kinds /\ "password" \notin Security!Guarded /\ "password" \notin Security!Sessional
        BY DEF Security!Kinds, Security!Guarded, Security!Sessional
    <2> QED
        BY <2>1, <2>2, <2>3, ReaderPresses
<1>10. CASE Security!RevokeOthers
    BY <1>4, <1>10 DEF Security!RevokeOthers, Security!Sessional
<1>11. CASE \E k \in sheet.keys : Security!RemovePasskey(k)
    BY <1>1, <1>2, <1>11 DEF Security!RemovePasskey
<1>12. CASE \E s \in Devices : Security!RevokeOne(s)
    BY <1>4, <1>12 DEF Security!RevokeOne, Security!Sessional
<1> QED
    BY <1>5, <1>6, <1>7, <1>8, <1>9, <1>10, <1>11, <1>12

(* A password is typed, the codes are acknowledged; nobody is asked.        *)
LEMMA FormsInvariant ==
    ASSUME SheetInv, Security!EnterPassword \/ Security!AcceptCodes \/ Security!DismissCodes
    PROVE SheetInv'
<1>1. UNCHANGED <<account, securityAsks, count, spent, unseen>>
    BY DEF Security!EnterPassword, Security!AcceptCodes, Security!DismissCodes
<1>2. sheet \in Sheet /\ entries \in Nat /\ sheet.pw \in Nat /\ sheet.codes \in Nat
    BY DEF SheetInv, StateInv, Sheet
<1>3. /\ sheet' \in Sheet /\ sheet'.codes \in {sheet.codes, 0} /\ sheet'.loading = sheet.loading
      /\ sheet'.sessionsBusy = sheet.sessionsBusy /\ sheet'.pwBusy = sheet.pwBusy
      /\ \/ sheet'.pw = sheet.pw /\ entries' = entries
         \/ sheet'.pw = entries + 1 /\ entries' = entries + 1
    <2>1. CASE Security!EnterPassword
        BY <1>2, <2>1 DEF Security!EnterPassword, Sheet
    <2>2. CASE Security!AcceptCodes
        BY <1>2, <2>2 DEF Security!AcceptCodes, Sheet
    <2>3. CASE Security!DismissCodes
        BY <1>2, <2>3 DEF Security!DismissCodes, Sheet
    <2> QED
        BY <2>1, <2>2, <2>3
<1>4. StateInv'
    BY <1>1, <1>2, <1>3 DEF SheetInv, StateInv
<1>5. PasswordInv'
    BY <1>1, <1>2, <1>3 DEF SheetInv, PasswordInv
<1>6. ShownInv'
    BY <1>1, <1>3 DEF SheetInv, ShownInv
<1>7. SheetAsksInv'
    <2>1. \A r \in securityAsks : r.pw \in Nat
        BY DEF SheetInv, SheetAsksInv, SheetAskOK, SheetAsk
    <2>2. \A r \in securityAsks : r.pw <= entries'
        BY <1>2, <1>3, <2>1 DEF SheetInv, SheetAsksInv, SheetAskOK
    <2> QED
        BY <1>1, <2>2 DEF SheetInv, SheetAsksInv, SheetAskOK
<1>8. FlagsInv' /\ CodesInv'
    BY <1>1, <1>3 DEF SheetInv, FlagsInv, CodesInv
<1> QED
    BY <1>4, <1>5, <1>6, <1>7, <1>8 DEF SheetInv

LEMMA SheetStep == SheetInv /\ [Security!Next]_(Security!securityVars) => SheetInv'
<1> SUFFICES ASSUME SheetInv, [Security!Next]_(Security!securityVars) PROVE SheetInv'
    OBVIOUS
<1>1. CASE UNCHANGED Security!securityVars
    BY <1>1 DEF Security!securityVars, SheetInv, StateInv, SheetAsksInv, SheetAskOK, FlagsInv, CodesInv, ShownInv, PasswordInv
<1>2. CASE Security!Next
    BY <1>2, ServesInvariant, LandsOfTheSheet, PressesInvariant, FormsInvariant DEF Security!Next
<1> QED
    BY <1>1, <1>2

LEMMA SheetInvShows == SheetInv => Security!TypeOK /\ Security!NewestCodesShown
<1> SUFFICES ASSUME SheetInv PROVE Security!TypeOK /\ Security!NewestCodesShown
    OBVIOUS
<1>1. sheet \in Sheet /\ sheet.sessions \subseteq Devices /\ sheet.pw \in 0 .. entries /\ sheet.codes \in 0 .. count
    BY DEF SheetInv, StateInv, PasswordInv, Sheet
<1>2. sheet.sessionsBusy \in BOOLEAN /\ sheet.pwBusy \in BOOLEAN
    BY <1>1 DEF Sheet
<1>3. sheet.loading => \E r \in securityAsks : r.by \in Security!Guarded
    BY DEF SheetInv, FlagsInv, FlagIs
<1>4. sheet.sessionsBusy = (\E r \in securityAsks : r.by \in Security!Sessional)
    BY <1>2 DEF SheetInv, FlagsInv, FlagIs
<1>5. sheet.pwBusy = (\E r \in securityAsks : r.by = "password")
    BY <1>2 DEF SheetInv, FlagsInv, FlagIs
<1>6. Security!NewestCodesShown
    BY DEF SheetInv, ShownInv, Security!NewestCodesShown
<1> QED
    BY <1>1, <1>3, <1>4, <1>5, <1>6 DEF Security!TypeOK

(* A step asks with the password that is in its box, or with none.          *)
LEMMA AsksWithThePassword ==
    ASSUME SheetInv, [Security!Next]_(Security!securityVars), NEW r \in securityAsks' \ securityAsks, r.stage = "asked"
    PROVE r.pw \notin spent
<1>1. sheet.pw \notin spent /\ 0 \notin spent
    BY DEF SheetInv, StateInv, PasswordInv
<1>2. ASSUME NEW kind, NEW arg, NEW pw \in {0, sheet.pw}, Security!Press(kind, arg, pw) PROVE r.pw \notin spent
    <2>1. r = Security!Ask(count + 1, kind, arg, pw, kind)
        BY <1>2 DEF Security!Press
    <2>2. r.pw = pw
        BY <2>1 DEF Security!Ask
    <2> QED
        BY <1>1, <2>2
<1>3. ASSUME NEW o \in securityAsks, NEW kind, Security!Then(o, kind) PROVE r.pw \notin spent
    <2>1. r = Security!Ask(o.n, kind, 0, 0, o.by)
        BY <1>3 DEF Security!Then
    <2>2. r.pw = 0
        BY <2>1 DEF Security!Ask
    <2> QED
        BY <1>1, <2>2
<1>4. ASSUME NEW o \in securityAsks,
             \/ Security!ServeRead(o) \/ Security!ServeSetup(o) \/ Security!ServeConfirm(o)
             \/ Security!ServeRegisterBegin(o) \/ Security!ServeRegister(o) \/ Security!ServeRemove(o)
             \/ Security!ServeRegenerate(o) \/ Security!ServeDisable(o) \/ Security!ServeSessions(o)
      PROVE FALSE
    <2>1. o \in SheetAsk
        BY StoredFields
    <2>2. ASSUME NEW st \in {"ceremony", "done"}, NEW codes,
                 r = [o EXCEPT !.stage = st] \/ r = [o EXCEPT !.stage = st, !.codes = codes]
          PROVE FALSE
        BY <2>1, <2>2 DEF SheetAsk
    <2>3. CASE Security!ServeRead(o)
        <3>1. r = [o EXCEPT !.stage = "done", !.totp = account.totp, !.keys = account.keys, !.sessions = account.sessions]
            BY <2>3 DEF Security!ServeRead, Security!Becomes
        <3> QED
            BY <2>1, <3>1 DEF SheetAsk
    <2>4. CASE Security!ServeRegisterBegin(o)
        BY <2>2, <2>4 DEF Security!ServeRegisterBegin, Security!Becomes
    <2>5. CASE Security!ServeRegister(o)
        BY <2>2, <2>5 DEF Security!ServeRegister, Security!Becomes
    <2>6. ASSUME NEW kind, NEW stage, NEW after, Security!Serve(o, kind, stage, after) PROVE FALSE
        BY <2>2, <2>6 DEF Security!Serve, Security!Becomes
    <2> QED
        BY <1>4, <2>3, <2>4, <2>5, <2>6 DEF Security!ServeSetup, Security!ServeConfirm, Security!ServeRemove,
           Security!ServeRegenerate, Security!ServeDisable, Security!ServeSessions
<1>5. CASE UNCHANGED securityAsks
    BY <1>5
<1>6. CASE Security!Next
    <2>1. CASE Security!EnterPassword \/ Security!AcceptCodes \/ Security!DismissCodes
        BY <1>5, <2>1 DEF Security!EnterPassword, Security!AcceptCodes, Security!DismissCodes
    <2>2. CASE \/ Security!StartTotp \/ Security!ConfirmTotp \/ Security!AddPasskey \/ Security!RegenerateCodes
               \/ Security!DisableAll \/ Security!SubmitPasswordChange \/ Security!RevokeOthers
               \/ \E k \in sheet.keys : Security!RemovePasskey(k)
               \/ \E s \in Devices : Security!RevokeOne(s)
        BY <1>2, <2>2 DEF Security!StartTotp, Security!ConfirmTotp, Security!AddPasskey, Security!RegenerateCodes,
           Security!DisableAll, Security!SubmitPasswordChange, Security!RevokeOthers, Security!RemovePasskey,
           Security!RevokeOne, Security!PressGuarded
    <2>3. ASSUME NEW o \in securityAsks,
                 \/ Security!LandConfirm(o) \/ Security!LandRegister(o) \/ Security!LandRemove(o)
                 \/ Security!LandRegenerate(o) \/ Security!LandDisable(o) \/ Security!LandRevoked(o)
          PROVE r.pw \notin spent
        BY <1>3, <2>3 DEF Security!LandConfirm, Security!LandRegister, Security!LandRemove, Security!LandRegenerate,
           Security!LandDisable, Security!LandRevoked
    <2>4. ASSUME NEW o \in securityAsks,
                 \/ Security!LandRefresh(o) \/ Security!LandSessions(o) \/ Security!LandSetup(o) \/ Security!LandFailed(o)
          PROVE r.pw \notin spent
        <3>1. securityAsks' \subseteq securityAsks
            BY <2>4 DEF Security!LandRefresh, Security!LandSessions, Security!LandSetup, Security!LandFailed
        <3> QED
            BY <3>1
    <2> QED
        BY <1>4, <1>6, <2>1, <2>2, <2>3, <2>4 DEF Security!Next
<1> QED
    BY <1>5, <1>6 DEF Security!securityVars

(* The account security page, for any devices and any number of presses:    *)
(* the recovery codes on screen are the newest the page could know of.      *)
THEOREM CodesOnScreenAreNewest == Security!Spec => [](Security!TypeOK /\ Security!NewestCodesShown)
<1>1. Security!Spec => []SheetInv
    BY SheetStarts, SheetStep, PTL DEF Security!Spec
<1> QED
    BY <1>1, SheetInvShows, PTL

(* The password of an action that went through is not sent again.           *)
THEOREM SpentPasswordsStay == Security!Spec => Security!SpentPasswordNotSent
<1>1. Security!Spec => []SheetInv
    BY SheetStarts, SheetStep, PTL DEF Security!Spec
<1>2. SheetInv /\ [Security!Next]_(Security!securityVars)
        => [\A r \in securityAsks' \ securityAsks : r.stage = "asked" => r.pw \notin spent]_(Security!securityVars)
    BY AsksWithThePassword
<1> QED
    BY <1>1, <1>2, PTL DEF Security!Spec, Security!SpentPasswordNotSent

-----------------------------------------------------------------------------
(* The service worker.                                                      *)

(* An entry under the name of an asset is that asset.                       *)
IsItself(e) == \A b \in Worker!Builds : e.url = Worker!Asset(b) => e.build = b

HasOffline(v) == \E e \in cached : e.cache = v /\ e.url = Worker!Offline

(* Caches belong to the worker in control and the one installed, unless a   *)
(* write came late; and that one has the offline page, unless a fetch       *)
(* failed.                                                                  *)
WorkerInv ==
    /\ version \in Nat \ {0} /\ active \in Nat /\ installing \in Nat
    /\ \A e \in cached \cup puts : IsItself(e)
    /\ answered.by = "cache" => IsItself(answered)
    /\ \A e \in puts : e.cache # 0
    /\ ~workerLate => \A e \in cached : e.cache \in {active, installing} \ {0}
    /\ ~short /\ installing # 0 => HasOffline(installing)

\* The shell's own names are no asset's.
LEMMA ShellIsNoAsset ==
    ASSUME NEW url \in Worker!PRECACHE, NEW b PROVE url # Worker!Asset(b)
<1>1. Len(url) = 1
    BY DEF Worker!PRECACHE, Worker!Index, Worker!Offline, Worker!Manifest
<1>2. Len(Worker!Asset(b)) = 2
    BY DEF Worker!Asset
<1> QED
    BY <1>1, <1>2

\* While a build is deployed the server has its asset only.
LEMMA ServedIsItself ==
    ASSUME NEW b \in Worker!Builds, Worker!Served(Worker!Asset(b)) # 0
    PROVE  Worker!Served(Worker!Asset(b)) = b
<1>1. CASE b = build
    BY <1>1 DEF Worker!Served
<1>2. CASE b # build
    BY <1>2 DEF Worker!Served
<1> QED
    BY <1>1, <1>2

LEMMA WorkerStarts == Worker!Init => WorkerInv
<1> SUFFICES ASSUME Worker!Init PROVE WorkerInv
    OBVIOUS
<1> QED
    BY DEF Worker!Init, WorkerInv, Worker!Nothing, HasOffline

LEMMA InstallKeeps == ASSUME WorkerInv, Worker!Install PROVE WorkerInv' /\ (~short' => HasOffline(installing)')
<1> PICK got \in SUBSET Worker!PRECACHE :
        /\ cached' = {e \in cached : e.cache # version} \cup {Worker!Entry(version, url, build) : url \in got}
        /\ short' = (short \/ got # Worker!PRECACHE)
    BY DEF Worker!Install
<1>1. /\ installing = 0 /\ installing' = version /\ version # active
      /\ UNCHANGED <<build, version, online, active, puts, answered, workerLate>>
    BY DEF Worker!Install
<1>2. \A url \in got : IsItself(Worker!Entry(version, url, build))
    BY ShellIsNoAsset DEF IsItself, Worker!Entry
<1>3. \A e \in cached' \cup puts' : IsItself(e)
    BY <1>1, <1>2 DEF WorkerInv
<1>4. ~short' => HasOffline(installing)'
    <2> SUFFICES ASSUME ~short' PROVE HasOffline(installing)'
        OBVIOUS
    <2>1. Worker!Offline \in got
        BY DEF Worker!PRECACHE
    <2>2. Worker!Entry(version, Worker!Offline, build) \in cached'
        BY <2>1
    <2> QED
        BY <1>1, <2>2 DEF HasOffline, Worker!Entry
<1>5. ~workerLate' => \A e \in cached' : e.cache \in {active', installing'} \ {0}
    BY <1>1 DEF WorkerInv, Worker!Entry
<1> QED
    BY <1>1, <1>3, <1>4, <1>5 DEF WorkerInv, IsItself

LEMMA FetchKeeps ==
    ASSUME WorkerInv, NEW url \in {Worker!Manifest} \cup {Worker!Asset(b) : b \in Worker!Builds}, Worker!FetchStatic(url)
    PROVE  WorkerInv'
<1>1. active # 0 /\ UNCHANGED <<build, version, online, active, installing, cached, short, workerLate>>
    BY DEF Worker!FetchStatic
<1>2. \A e \in Worker!Kept(url) : IsItself(e) /\ e.cache # 0
    <2> SUFFICES ASSUME NEW e \in Worker!Kept(url), NEW b \in Worker!Builds, url = Worker!Asset(b)
                 PROVE  e.build = b
        BY <1>1 DEF Worker!Kept, IsItself, Worker!Entry
    <2> QED
        BY ServedIsItself DEF Worker!Kept, Worker!Entry
<1>3. CASE (\E e \in Worker!Cached(url) : answered' = [url |-> url, build |-> e.build, by |-> "cache"]) /\ UNCHANGED puts
    BY <1>1, <1>3 DEF WorkerInv, Worker!Cached, IsItself, HasOffline
<1>4. CASE answered' = [url |-> url, build |-> Worker!Served(url), by |-> "network"] /\ puts' = puts \cup Worker!Kept(url)
    BY <1>1, <1>2, <1>4 DEF WorkerInv, HasOffline, IsItself
<1> QED
    BY <1>3, <1>4 DEF Worker!FetchStatic

LEMMA NavigateKeeps == ASSUME WorkerInv, Worker!Navigate PROVE WorkerInv'
<1>1. UNCHANGED <<build, version, online, active, installing, cached, puts, short, workerLate>>
    BY DEF Worker!Navigate
<1>2. answered'.by = "cache" => \E e \in cached : answered'.url = e.url /\ answered'.build = e.build
    BY DEF Worker!Navigate, Worker!Cached
<1> QED
    BY <1>1, <1>2 DEF WorkerInv, IsItself, HasOffline

LEMMA PutKeeps ==
    ASSUME WorkerInv, NEW e \in puts, Worker!Put(e)
    PROVE  WorkerInv' /\ \A v : HasOffline(v) => HasOffline(v)'
<1>1. /\ puts' = puts \ {e}
      /\ cached' = {o \in cached : o.cache # e.cache \/ o.url # e.url} \cup {e}
      /\ workerLate' = (workerLate \/ e.cache # active)
      /\ UNCHANGED <<build, version, online, active, installing, answered, short>>
    BY DEF Worker!Put
<1>2. \A v : HasOffline(v) => HasOffline(v)'
    BY <1>1 DEF HasOffline
<1>3. HasOffline(installing) => HasOffline(installing)'
    BY <1>1, <1>2 DEF HasOffline
<1>4. \A o \in cached' \cup puts' : IsItself(o)
    BY <1>1 DEF WorkerInv
<1>5. ~workerLate' => \A o \in cached' : o.cache \in {active', installing'} \ {0}
    BY <1>1 DEF WorkerInv
<1> QED
    BY <1>1, <1>2, <1>3, <1>4, <1>5 DEF WorkerInv, IsItself

LEMMA ActivateKeeps ==
    ASSUME WorkerInv, Worker!Activate PROVE WorkerInv'
BY DEF WorkerInv, Worker!Activate, IsItself, HasOffline

LEMMA WorkerStep == WorkerInv /\ [Worker!Next]_(Worker!workerVars) => WorkerInv'
<1> SUFFICES ASSUME WorkerInv, [Worker!Next]_(Worker!workerVars) PROVE WorkerInv'
    OBVIOUS
<1>1. CASE UNCHANGED Worker!workerVars
    BY <1>1 DEF Worker!workerVars, WorkerInv, IsItself, HasOffline
<1>2. ASSUME NEW bump \in BOOLEAN, Worker!Deploy(bump) PROVE WorkerInv'
    BY <1>2 DEF Worker!Deploy, WorkerInv, IsItself, HasOffline
<1>3. CASE Worker!Connect
    BY <1>3 DEF Worker!Connect, WorkerInv, IsItself, HasOffline
<1> QED
    BY <1>1, <1>2, <1>3, InstallKeeps, ActivateKeeps, NavigateKeeps, FetchKeeps, PutKeeps DEF Worker!Next

(* An update keeps the offline page: the worker that takes over has one of  *)
(* its own, and a write puts back what it replaces.                         *)
LEMMA OfflinePageStays ==
    WorkerInv /\ [Worker!Next]_(Worker!workerVars)
        => [~short' /\ Worker!Cached(Worker!Offline) # {}
               => \E e \in cached' : e.url = Worker!Offline]_(Worker!workerVars)
<1> SUFFICES ASSUME WorkerInv, Worker!Next, ~short', NEW o \in cached, o.url = Worker!Offline
             PROVE  \E e \in cached' : e.url = Worker!Offline
    BY DEF Worker!Cached
<1>1. CASE Worker!Install
    BY <1>1, InstallKeeps DEF HasOffline
<1>2. CASE Worker!Activate
    BY <1>2 DEF Worker!Activate, WorkerInv, HasOffline
<1>3. ASSUME NEW e \in puts, Worker!Put(e) PROVE \E f \in cached' : f.url = Worker!Offline
    BY <1>3, PutKeeps DEF HasOffline
<1>4. CASE UNCHANGED cached
    BY <1>4
<1> QED
    BY <1>1, <1>2, <1>3, <1>4 DEF Worker!Next, Worker!Deploy, Worker!Connect, Worker!Navigate, Worker!FetchStatic

(* Of the worker alone.                                                     *)
LEMMA CachesOfTheWorker ==
    Worker!Spec => [](Worker!AssetHitIsRight /\ Worker!OldCachesCleared) /\ Worker!OfflineStays
<1>1. Worker!Spec => []WorkerInv
    BY WorkerStarts, WorkerStep, PTL DEF Worker!Spec
<1>2. WorkerInv => Worker!AssetHitIsRight /\ Worker!OldCachesCleared
    BY DEF WorkerInv, Worker!AssetHitIsRight, Worker!OldCachesCleared, IsItself
<1> QED
    BY <1>1, <1>2, OfflinePageStays, PTL DEF Worker!Spec, Worker!OfflineStays

-----------------------------------------------------------------------------
(* The drafts page.                                                         *)

DraftAsk ==
    [n : Nat, kind : {"list", "publish", "delete"}, id : Drafts \cup {"none"}, stage : {"asked", "done"},
     list : SUBSET Drafts]

(* A request that is under way on a row names one of the author's posts; an *)
(* answer to it has changed that post, and a list leaves out only posts     *)
(* that are no drafts any more, which they never become again.              *)
DraftAskOK(r) ==
    /\ r.kind # "list" => r.id \in Drafts
    /\ r.stage = "done" /\ r.kind # "list" => draftPosts[r.id] # "draft"
    /\ r.stage = "done" /\ r.kind = "list" => \A d \in Drafts \ r.list : draftPosts[d] # "draft"

(* The flags of the page stand for requests.                                *)
DraftInv ==
    /\ draftPosts \in [Drafts -> {"draft", "published", "deleted"}]
    /\ drafts \subseteq Drafts /\ draftPresses \in Nat
    /\ draftAsks \subseteq DraftAsk
    /\ \A r \in draftAsks : DraftAskOK(r)
    /\ draftLoading => \E r \in draftAsks : r.kind = "list"
    /\ draftBusyId # "none" => \E r \in draftAsks : r.kind # "list" /\ r.id = draftBusyId

LEMMA DraftsStart == Draft!Init => DraftInv
BY DEF Draft!Init, Draft!Ask, DraftInv, DraftAsk, DraftAskOK

\* A post that is no draft stays none, so that what a request has found stays found.
LEMMA AskStaysFound ==
    ASSUME NEW r \in DraftAsk, DraftAskOK(r), \A d \in Drafts : draftPosts[d] # "draft" => draftPosts'[d] # "draft"
    PROVE  DraftAskOK(r)'
BY DEF DraftAsk, DraftAskOK

LEMMA DraftPressed ==
    ASSUME DraftInv, NEW d, NEW kind \in {"publish", "delete"}, Draft!Press(kind, d) PROVE DraftInv'
<1> PICK s : s = Draft!Ask(draftPresses', kind, d)
    OBVIOUS
<1>1. /\ d \in drafts /\ draftPresses' = draftPresses + 1 /\ draftBusyId' = d /\ draftAsks' = draftAsks \cup {s}
      /\ UNCHANGED <<draftPosts, drafts, draftLoading>>
    BY DEF Draft!Press
<1>2. s \in DraftAsk /\ DraftAskOK(s) /\ s.kind # "list" /\ s.id = d
    BY <1>1 DEF Draft!Ask, DraftAsk, DraftAskOK, DraftInv
<1>3. \A r \in draftAsks' : DraftAskOK(r)'
    BY <1>1, <1>2, AskStaysFound DEF DraftInv
<1> QED
    BY <1>1, <1>2, <1>3 DEF DraftInv

LEMMA DraftServed ==
    ASSUME DraftInv, NEW r \in draftAsks, Draft!Serve(r)
    PROVE  DraftInv' /\ \A d \in Drafts : draftPosts[d] # "draft" => draftPosts'[d] # "draft"
<1> PICK s : s = [r EXCEPT !.stage = "done",
                           !.list = IF r.kind = "list" THEN {d \in Drafts : draftPosts[d] = "draft"} ELSE {}]
    OBVIOUS
<1>1. /\ draftPosts' = IF r.kind = "list" THEN draftPosts ELSE [draftPosts EXCEPT ![r.id] = Draft!Outcome(r.kind, @)]
      /\ draftAsks' = (draftAsks \ {r}) \cup {s}
      /\ UNCHANGED <<drafts, draftLoading, draftBusyId, draftPresses>>
    BY DEF Draft!Serve
<1>2. r \in DraftAsk /\ DraftAskOK(r)
    BY DEF DraftInv
<1>3. /\ draftPosts' \in [Drafts -> {"draft", "published", "deleted"}]
      /\ \A d \in Drafts : draftPosts[d] # "draft" => draftPosts'[d] # "draft"
      /\ r.kind # "list" => draftPosts'[r.id] # "draft"
    BY <1>1, <1>2 DEF DraftInv, DraftAsk, DraftAskOK, Draft!Outcome
<1>4. s \in DraftAsk /\ s.kind = r.kind /\ s.id = r.id
    BY <1>2 DEF DraftAsk
<1>5. DraftAskOK(s)'
    BY <1>1, <1>2, <1>3 DEF DraftAsk, DraftAskOK
<1>6. \A o \in draftAsks' : DraftAskOK(o)'
    BY <1>1, <1>3, <1>5, AskStaysFound DEF DraftInv
<1> QED
    BY <1>1, <1>3, <1>4, <1>6 DEF DraftInv

LEMMA DraftLanded ==
    ASSUME DraftInv, NEW r \in draftAsks, Draft!LandList(r) \/ Draft!LandDone(r) \/ Draft!LandFailed(r)
    PROVE  DraftInv' /\ \A d \in drafts \ drafts' : draftPosts[d] # "draft"
<1>1. draftAsks' = draftAsks \ {r} /\ UNCHANGED <<draftPosts, draftPresses>>
    BY DEF Draft!LandList, Draft!LandDone, Draft!LandFailed, Draft!Land
<1>2. r \in DraftAsk /\ DraftAskOK(r)
    BY DEF DraftInv
<1>3. \A o \in draftAsks' : DraftAskOK(o)'
    BY <1>1, AskStaysFound DEF DraftInv
<1>4. /\ drafts' \subseteq Drafts /\ \A d \in drafts \ drafts' : draftPosts[d] # "draft"
      /\ draftLoading' => \E o \in draftAsks' : o.kind = "list"
      /\ draftBusyId' # "none" => \E o \in draftAsks' : o.kind # "list" /\ o.id = draftBusyId'
    BY <1>1, <1>2 DEF DraftInv, DraftAsk, DraftAskOK, Draft!LandList, Draft!LandDone, Draft!LandFailed
<1> QED
    BY <1>1, <1>3, <1>4 DEF DraftInv

LEMMA DraftDue ==
    ASSUME DraftInv, NEW d \in Drafts, Draft!ComesDue(d) PROVE DraftInv'
<1>1. \A o \in Drafts : draftPosts[o] # "draft" => draftPosts'[o] # "draft"
    BY DEF DraftInv, Draft!ComesDue
<1>2. \A r \in draftAsks : DraftAskOK(r)'
    BY <1>1, AskStaysFound DEF DraftInv
<1> QED
    BY <1>2 DEF DraftInv, Draft!ComesDue

LEMMA DraftStep ==
    DraftInv /\ [Draft!Next]_(Draft!draftVars)
        => DraftInv' /\ \A d \in drafts \ drafts' : draftPosts[d] # "draft"
<1> SUFFICES ASSUME DraftInv, [Draft!Next]_(Draft!draftVars)
             PROVE  DraftInv' /\ \A d \in drafts \ drafts' : draftPosts[d] # "draft"
    OBVIOUS
<1>1. CASE UNCHANGED Draft!draftVars
    BY <1>1 DEF Draft!draftVars, DraftInv, DraftAskOK
<1>2. ASSUME NEW d \in Drafts, Draft!Publish(d) \/ Draft!Discard(d) \/ Draft!ComesDue(d)
      PROVE  DraftInv' /\ drafts' = drafts
    BY <1>2, DraftPressed, DraftDue DEF Draft!Publish, Draft!Discard, Draft!Press, Draft!ComesDue
<1>3. ASSUME NEW r \in draftAsks, Draft!Serve(r) PROVE drafts' = drafts
    BY <1>3 DEF Draft!Serve
<1> QED
    BY <1>1, <1>2, <1>3, DraftServed, DraftLanded DEF Draft!Next

(* Of the drafts page alone, for any posts and any number of presses: the   *)
(* rows are the author's, no flag outlives its request, and a draft leaves  *)
(* the page only when it is one no more.                                    *)
THEOREM DraftsStayListed == Draft!Spec => []Draft!TypeOK /\ Draft!DraftStaysListed
<1>1. Draft!Spec => []DraftInv
    BY DraftsStart, DraftStep, PTL DEF Draft!Spec
<1>2. DraftInv => Draft!TypeOK
    BY DEF DraftInv, Draft!TypeOK
<1>3. DraftInv /\ [Draft!Next]_(Draft!draftVars)
        => [\A d \in drafts \ drafts' : draftPosts[d] # "draft"]_(Draft!draftVars)
    BY DraftStep
<1> QED
    BY <1>1, <1>2, <1>3, PTL DEF Draft!Spec, Draft!DraftStaysListed

-----------------------------------------------------------------------------
(* The moderation queue.                                                    *)

QueueKinds == Queue!Tabs \cup {"dismiss", "hide", "resolve", "unhide", "report"}

QueueAsk ==
    [n : Nat, kind : QueueKinds, id : Reports \cup Content \cup Reported \cup {Queue!Nothing},
     note : Reports \cup {Queue!Nothing}, stage : {"asked", "done"}, list : SUBSET Reports]

Resolved == {"actioned", "dismissed"}

(* What is acted on was filed; the second call of an action follows an      *)
(* answer to the first; and what was answered has been resolved.            *)
QueueAskOK(r) ==
    /\ r.kind \in {"dismiss", "hide", "resolve", "report"} => r.id \in Reports
    /\ r.kind \in {"dismiss", "hide", "resolve"} => reports[r.id] # "none"
    /\ r.kind = "resolve" => r.id \in ours
    /\ r.stage = "done" /\ r.kind \in {"dismiss", "resolve"} => reports[r.id] \in Resolved
    /\ \A id \in r.list : reports[id] # "none"

QueueInv ==
    /\ reports \in [Reports -> {"none", "open"} \cup Resolved]
    /\ \A id \in queueShown : id \in Reports /\ reports[id] # "none"
    /\ {actingOn, queueBusyId, note} \subseteq Reports \cup {Queue!Nothing}
    /\ ours \subseteq Reports /\ queuePresses \in Nat
    /\ queueAsks \subseteq QueueAsk
    /\ \A r \in queueAsks : QueueAskOK(r)

(* A report is filed once and resolved once, and what this page has hidden  *)
(* it remembers.                                                            *)
ReportsGoOn ==
    /\ reports' \in [Reports -> {"none", "open"} \cup Resolved]
    /\ \A id \in Reports : reports[id] # "none" => reports'[id] # "none"
    /\ \A id \in Reports : reports[id] \in Resolved => reports'[id] \in Resolved
    /\ ours \subseteq ours'

LEMMA QueueStarts == Queue!Init => QueueInv
BY DEF Queue!Init, Queue!Ask, Queue!Tabs, Queue!Nothing, QueueInv, QueueAsk, QueueKinds, QueueAskOK

LEMMA QueueAskStays ==
    ASSUME NEW r \in QueueAsk, QueueAskOK(r), ReportsGoOn PROVE QueueAskOK(r)'
BY DEF QueueAsk, QueueAskOK, ReportsGoOn

\* Of a step it is enough to look at what it asks, and at what it shows.
LEMMA QueueGoesOn ==
    ASSUME QueueInv, ReportsGoOn,
           \A r \in queueAsks' \ queueAsks : r \in QueueAsk /\ QueueAskOK(r)',
           \A id \in queueShown' \ queueShown : id \in Reports /\ reports'[id] # "none",
           {actingOn', queueBusyId', note'} \subseteq Reports \cup {Queue!Nothing},
           ours' \subseteq Reports, queuePresses' \in Nat
    PROVE  QueueInv'
<1>1. \A r \in queueAsks' : r \in QueueAsk /\ QueueAskOK(r)'
    BY QueueAskStays DEF QueueInv
<1>2. \A id \in queueShown' : id \in Reports /\ reports'[id] # "none"
    BY DEF QueueInv, ReportsGoOn
<1> QED
    BY <1>1, <1>2 DEF QueueInv, ReportsGoOn

LEMMA ReportsRest == ASSUME QueueInv, UNCHANGED <<reports, ours>> PROVE ReportsGoOn
BY DEF QueueInv, ReportsGoOn

LEMMA NewQueueAsk ==
    ASSUME NEW n \in Nat, NEW kind \in QueueKinds, NEW id \in Reports \cup Content \cup Reported \cup {Queue!Nothing},
           NEW text, text \in Reports \cup {Queue!Nothing}
    PROVE  /\ Queue!Ask(n, kind, id, text) \in QueueAsk /\ Queue!Ask(n, kind, id, text).kind = kind
           /\ Queue!Ask(n, kind, id, text).id = id /\ Queue!Ask(n, kind, id, text).stage = "asked"
           /\ Queue!Ask(n, kind, id, text).list = {}
BY DEF Queue!Ask, QueueAsk

\* A button of the moderator sends a request at most.
LEMMA ModeratorSends ==
    ASSUME QueueInv, NEW kind \in QueueKinds, NEW id \in Reports \cup Content \cup Reported \cup {Queue!Nothing},
           Queue!Press, Queue!Send(kind, id),
           kind \notin {"resolve", "report"}, kind \in {"dismiss", "hide"} => id \in Reports /\ reports[id] # "none",
           queueShown' = queueShown, {actingOn', queueBusyId', note'} \subseteq Reports \cup {Queue!Nothing}
    PROVE  QueueInv'
<1> PICK s : s = Queue!Ask(queuePresses + 1, kind, id, Queue!Nothing)
    OBVIOUS
<1>1. /\ queueAsks' = queueAsks \cup {s} /\ queuePresses' = queuePresses + 1 /\ UNCHANGED <<reports, ours>>
    BY DEF Queue!Press, Queue!Send
<1>2. s \in QueueAsk /\ s.kind = kind /\ s.id = id /\ s.stage = "asked" /\ s.list = {}
    <2>1. queuePresses + 1 \in Nat /\ Queue!Nothing \in Reports \cup {Queue!Nothing}
        BY DEF QueueInv
    <2> HIDE DEF Queue!Nothing
    <2> QED
        BY <2>1, NewQueueAsk
<1>3. QueueAskOK(s)'
    BY <1>1, <1>2 DEF QueueAskOK
<1>4. ReportsGoOn
    BY <1>1, ReportsRest
<1> QED
    BY <1>1, <1>2, <1>3, <1>4, QueueGoesOn DEF QueueInv

LEMMA ModeratorActs ==
    ASSUME QueueInv,
           \/ \E tab \in Queue!Tabs : Queue!SwitchTab(tab)
           \/ \E id \in Reports : Queue!StartAction(id) \/ Queue!Dismiss(id) \/ Queue!TakeAction(id)
           \/ \E t \in Content \cup Reported : Queue!RunManual(t)
           \/ Queue!CancelAction
    PROVE  QueueInv' /\ queueShown' = queueShown /\ reports' = reports
<1>1. ASSUME NEW tab \in Queue!Tabs, Queue!SwitchTab(tab) PROVE QueueInv' /\ queueShown' = queueShown /\ reports' = reports
    <2>1. /\ Queue!Press /\ Queue!Send(tab, Queue!Nothing) /\ actingOn' = Queue!Nothing
          /\ UNCHANGED <<queueShown, note, queueBusyId, reports>>
        BY <1>1 DEF Queue!SwitchTab, Queue!Press
    <2>2. tab \in QueueKinds /\ tab \notin {"resolve", "report", "dismiss", "hide"}
        BY DEF QueueKinds, Queue!Tabs
    <2> QED
        BY <2>1, <2>2, ModeratorSends DEF QueueInv
<1>2. ASSUME NEW id \in Reports, Queue!Dismiss(id) \/ Queue!TakeAction(id)
      PROVE  QueueInv' /\ queueShown' = queueShown /\ reports' = reports
    <2>1. /\ Queue!Press /\ (Queue!Send("dismiss", id) \/ Queue!Send("hide", id))
          /\ id \in queueShown /\ queueBusyId' = id /\ UNCHANGED <<queueShown, actingOn, note, reports>>
        BY <1>2 DEF Queue!Dismiss, Queue!TakeAction, Queue!Offered, Queue!Press
    <2> QED
        BY <2>1, ModeratorSends DEF QueueInv, QueueKinds
<1>3. ASSUME NEW t \in Content \cup Reported, Queue!RunManual(t)
      PROVE  QueueInv' /\ queueShown' = queueShown /\ reports' = reports
    <2>1. Queue!Press /\ Queue!Send("unhide", t) /\ UNCHANGED <<queueShown, actingOn, note, queueBusyId, reports>>
        BY <1>3 DEF Queue!RunManual, Queue!Press, Queue!pageVars
    <2> QED
        BY <2>1, ModeratorSends DEF QueueInv, QueueKinds
<1>4. CASE Queue!CancelAction \/ \E id \in Reports : Queue!StartAction(id)
    <2>1. /\ UNCHANGED <<queueShown, queueBusyId, queueAsks, reports, ours>> /\ queuePresses' = queuePresses + 1
          /\ {actingOn', note'} \subseteq Reports \cup {Queue!Nothing, note}
        BY <1>4 DEF Queue!CancelAction, Queue!StartAction, Queue!Press
    <2> QED
        BY <2>1, ReportsRest, QueueGoesOn DEF QueueInv
<1> QED
    BY <1>1, <1>2, <1>3, <1>4

\* The button of a reader, with its request and the answer.
LEMMA ReaderReports ==
    ASSUME QueueInv,
           \/ Queue!StartReport \/ Queue!CloseReport
           \/ \E id \in Reports : Queue!SubmitReport(id)
           \/ \E r \in queueAsks : Queue!LandReport(r)
    PROVE  QueueInv' /\ queueShown' = queueShown /\ reports' = reports
<1>1. UNCHANGED <<reports, queueShown, actingOn, queueBusyId, note, ours, queuePresses>>
    BY DEF Queue!StartReport, Queue!CloseReport, Queue!SubmitReport, Queue!LandReport, Queue!Button, Queue!pageVars
<1>2. CASE queueAsks' \subseteq queueAsks
    BY <1>1, <1>2, ReportsRest, QueueGoesOn DEF QueueInv
<1>3. ASSUME NEW id \in Reports, Queue!SubmitReport(id) PROVE QueueInv'
    <2> PICK s : s = Queue!Ask(0, "report", id, Queue!Nothing)
        OBVIOUS
    <2>1. queueAsks' = queueAsks \cup {s}
        BY <1>3 DEF Queue!SubmitReport
    <2>2. s \in QueueAsk /\ s.kind = "report" /\ s.id = id /\ s.stage = "asked" /\ s.list = {}
        <3>1. /\ 0 \in Nat /\ "report" \in QueueKinds /\ id \in Reports \cup Content \cup Reported \cup {Queue!Nothing}
              /\ Queue!Nothing \in Reports \cup {Queue!Nothing}
            BY DEF QueueKinds
        <3> QED
            BY <3>1, NewQueueAsk
    <2>3. QueueAskOK(s)'
        BY <2>2 DEF QueueAskOK
    <2> QED
        BY <1>1, <2>1, <2>2, <2>3, ReportsRest, QueueGoesOn DEF QueueInv
<1> QED
    BY <1>1, <1>2, <1>3 DEF Queue!StartReport, Queue!CloseReport, Queue!LandReport

\* An answer is the request with what the backend did.
LEMMA AnswersKeepAsks ==
    ASSUME QueueInv, ReportsGoOn, NEW r \in queueAsks, NEW s \in QueueAsk,
           s.kind = r.kind, s.id = r.id, s.stage = "done", queueAsks' = (queueAsks \ {r}) \cup {s},
           r.kind \in {"dismiss", "resolve"} => reports'[r.id] \in Resolved,
           \A id \in s.list : reports'[id] # "none",
           UNCHANGED <<queueShown, actingOn, queueBusyId, note, ours, queuePresses>>
    PROVE  QueueInv'
<1>1. QueueAskOK(r)' /\ r \in QueueAsk
    BY QueueAskStays DEF QueueInv
<1>2. QueueAskOK(s)'
    BY <1>1 DEF QueueAskOK
<1> QED
    BY <1>2, QueueGoesOn DEF QueueInv

LEMMA BackendServes ==
    ASSUME QueueInv, NEW r \in queueAsks,
           Queue!ServeList(r) \/ Queue!ServeHide(r) \/ Queue!ServeUnhide(r) \/ Queue!ServeResolve(r) \/ Queue!ServeReport(r)
    PROVE  /\ QueueInv' /\ queueShown' = queueShown
           /\ \A id \in Reports : reports'[id] = "actioned" => reports[id] = "actioned" \/ id \in ours
<1>1. UNCHANGED <<queueShown, actingOn, queueBusyId, note, ours, queuePresses>>
    BY DEF Queue!ServeList, Queue!ServeHide, Queue!ServeUnhide, Queue!ServeResolve, Queue!ServeReport, Queue!Serve,
       Queue!pageVars
<1>2. r \in QueueAsk /\ QueueAskOK(r)
    BY DEF QueueInv
<1>3. CASE Queue!ServeList(r)
    <2> PICK s : s = [r EXCEPT !.stage = "done", !.list = {id \in Reports : reports[id] = r.kind}]
        OBVIOUS
    <2>1. queueAsks' = (queueAsks \ {r}) \cup {s} /\ reports' = reports /\ r.kind \in Queue!Tabs
        BY <1>3 DEF Queue!ServeList
    <2>2. s \in QueueAsk /\ s.kind = r.kind /\ s.id = r.id /\ s.stage = "done" /\ s.list = {id \in Reports : reports[id] = r.kind}
        BY <1>2 DEF QueueAsk
    <2> QED
        BY <1>1, <2>1, <2>2, AnswersKeepAsks, ReportsRest DEF Queue!Tabs, QueueInv
<1> PICK s : s = [r EXCEPT !.stage = "done"]
    OBVIOUS
<1>4. s \in QueueAsk /\ s.kind = r.kind /\ s.id = r.id /\ s.stage = "done" /\ s.list = r.list
    BY <1>2 DEF QueueAsk
<1>5. CASE Queue!ServeHide(r) \/ Queue!ServeUnhide(r)
    <2>1. queueAsks' = (queueAsks \ {r}) \cup {s} /\ reports' = reports /\ r.kind \notin {"dismiss", "resolve"}
        BY <1>5 DEF Queue!ServeHide, Queue!ServeUnhide, Queue!Done
    <2> QED
        BY <1>1, <1>2, <1>4, <2>1, AnswersKeepAsks, ReportsRest DEF QueueAskOK
<1>6. CASE Queue!ServeResolve(r)
    <2>1. /\ r.kind \in {"dismiss", "resolve"} /\ reports[r.id] = "open"
          /\ reports' = [reports EXCEPT ![r.id] = Queue!Outcome(r.kind)] /\ queueAsks' = (queueAsks \ {r}) \cup {s}
        BY <1>6 DEF Queue!ServeResolve, Queue!Done
    <2>2. /\ ReportsGoOn /\ reports'[r.id] \in Resolved /\ \A id \in Reports \ {r.id} : reports'[id] = reports[id]
          /\ reports'[r.id] = "actioned" => r.id \in ours
        BY <1>1, <1>2, <2>1 DEF QueueInv, ReportsGoOn, Resolved, QueueAskOK, Queue!Outcome
    <2>3. \A id \in s.list : reports'[id] # "none"
        BY <1>2, <1>4, <2>2 DEF QueueAsk, QueueAskOK, ReportsGoOn
    <2> QED
        BY <1>1, <1>4, <2>1, <2>2, <2>3, AnswersKeepAsks
<1>7. CASE Queue!ServeReport(r)
    <2>1. /\ r.kind = "report" /\ r.id \in Reports
          /\ reports' = [reports EXCEPT ![r.id] = IF @ = "none" THEN "open" ELSE @] /\ queueAsks' = (queueAsks \ {r}) \cup {s}
        BY <1>2, <1>7 DEF Queue!ServeReport, Queue!Done, QueueAskOK
    <2>2. ReportsGoOn /\ \A id \in Reports : reports'[id] = "actioned" => reports[id] = "actioned"
        BY <1>1, <2>1 DEF QueueInv, ReportsGoOn, Resolved
    <2>3. \A id \in s.list : reports'[id] # "none"
        BY <1>2, <1>4, <2>2 DEF QueueAsk, QueueAskOK, ReportsGoOn
    <2> QED
        BY <1>1, <1>4, <2>1, <2>2, <2>3, AnswersKeepAsks
<1> QED
    BY <1>3, <1>5, <1>6, <1>7

LEMMA SomebodyModerates ==
    ASSUME QueueInv, NEW id \in Reports, Queue!SomebodyActs(id)
    PROVE  /\ QueueInv' /\ queueShown' = queueShown
           /\ \A o \in Reports : reports'[o] = "actioned" => reports[o] = "actioned"
<1>1. /\ reports' = reports \/ (reports[id] = "open" /\ reports' = [reports EXCEPT ![id] = "dismissed"])
      /\ UNCHANGED <<queueShown, actingOn, queueBusyId, note, ours, queuePresses, queueAsks>>
    BY DEF Queue!SomebodyActs, Queue!pageVars
<1>2. ReportsGoOn /\ \A o \in Reports : reports'[o] = "actioned" => reports[o] = "actioned"
    BY <1>1 DEF QueueInv, ReportsGoOn, Resolved
<1> QED
    BY <1>1, <1>2, QueueGoesOn DEF QueueInv

\* A row goes with an answer that its report is resolved, or with a new list.
LEMMA ModeratorHears ==
    ASSUME QueueInv, NEW r \in queueAsks,
           Queue!LandList(r) \/ Queue!LandResolved(r) \/ Queue!LandHidden(r) \/ Queue!LandUnhidden(r) \/ Queue!LandFailed(r)
    PROVE  /\ QueueInv' /\ reports' = reports
           /\ \A id \in queueShown \ queueShown' : reports[id] # "open" \/ \E o \in queueAsks \ queueAsks' : o.kind \in Queue!Tabs
<1>1. r \in QueueAsk /\ QueueAskOK(r)
    BY DEF QueueInv
<1>2. CASE Queue!LandHidden(r)
    <2> PICK s : s = Queue!Ask(r.n, "resolve", r.id, note)
        OBVIOUS
    <2>1. /\ r.kind = "hide" /\ queueAsks' = (queueAsks \ {r}) \cup {s} /\ ours' = ours \cup {r.id}
          /\ UNCHANGED <<reports, queueShown, actingOn, queueBusyId, note, queuePresses>>
        BY <1>2 DEF Queue!LandHidden, Queue!pageVars
    <2>2. r.n \in Nat /\ r.id \in Reports /\ reports[r.id] # "none"
        BY <1>1, <2>1 DEF QueueAsk, QueueAskOK
    <2>3. s \in QueueAsk /\ s.kind = "resolve" /\ s.id = r.id /\ s.stage = "asked" /\ s.list = {}
        <3>1. /\ "resolve" \in QueueKinds /\ r.id \in Reports \cup Content \cup Reported \cup {Queue!Nothing}
              /\ note \in Reports \cup {Queue!Nothing}
            BY <2>2 DEF QueueKinds, QueueInv
        <3> QED
            BY <2>2, <3>1, NewQueueAsk
    <2>4. ReportsGoOn /\ QueueAskOK(s)'
        BY <2>1, <2>2, <2>3 DEF QueueInv, ReportsGoOn, QueueAskOK
    <2> QED
        BY <2>1, <2>2, <2>3, <2>4, QueueGoesOn DEF QueueInv
<1>3. CASE Queue!LandList(r)
    <2>1. /\ r.kind \in Queue!Tabs /\ queueAsks' = queueAsks \ {r} /\ queueShown' \in {r.list, queueShown}
          /\ UNCHANGED <<reports, actingOn, queueBusyId, note, ours, queuePresses>>
        BY <1>3 DEF Queue!LandList, Queue!Land
    <2>2. \A id \in queueShown' \ queueShown : id \in Reports /\ reports[id] # "none"
        BY <1>1, <2>1 DEF QueueAsk, QueueAskOK
    <2>3. ReportsGoOn
        BY <2>1, ReportsRest
    <2> QED
        BY <2>1, <2>2, <2>3, QueueGoesOn DEF QueueInv
<1>4. CASE Queue!LandResolved(r)
    <2>1. /\ r.kind \in {"dismiss", "resolve"} /\ r.stage = "done" /\ queueAsks' = queueAsks \ {r}
          /\ queueShown' = queueShown \ {r.id} /\ actingOn' = Queue!Nothing /\ queueBusyId' = Queue!Nothing
          /\ UNCHANGED <<reports, note, ours, queuePresses>>
        BY <1>4 DEF Queue!LandResolved, Queue!Land, Queue!Drop
    <2>2. reports[r.id] # "open"
        BY <1>1, <2>1 DEF QueueAskOK, Resolved
    <2>3. ReportsGoOn
        BY <2>1, ReportsRest
    <2> QED
        BY <2>1, <2>2, <2>3, QueueGoesOn DEF QueueInv
<1>5. CASE Queue!LandUnhidden(r) \/ Queue!LandFailed(r)
    <2>1. /\ queueAsks' = queueAsks \ {r} /\ queueBusyId' \in {queueBusyId, Queue!Nothing}
          /\ UNCHANGED <<reports, queueShown, actingOn, note, ours, queuePresses>>
        BY <1>5 DEF Queue!LandUnhidden, Queue!LandFailed, Queue!Land, Queue!pageVars
    <2>2. ReportsGoOn
        BY <2>1, ReportsRest
    <2> QED
        BY <2>1, <2>2, QueueGoesOn DEF QueueInv
<1> QED
    BY <1>2, <1>3, <1>4, <1>5

(* What a step may do to the reports and to the rows.                       *)
QueueStepIsRight ==
    /\ \A id \in Reports : reports'[id] = "actioned" => reports[id] = "actioned" \/ id \in ours
    /\ \A id \in queueShown \ queueShown' : reports[id] # "open" \/ \E r \in queueAsks \ queueAsks' : r.kind \in Queue!Tabs

LEMMA QueueStep == QueueInv /\ [Queue!Next]_(Queue!queueVars) => QueueInv' /\ QueueStepIsRight
<1> SUFFICES ASSUME QueueInv, [Queue!Next]_(Queue!queueVars) PROVE QueueInv' /\ QueueStepIsRight
    OBVIOUS
<1>1. CASE UNCHANGED Queue!queueVars
    <2>1. /\ UNCHANGED <<reports, queueShown, actingOn, queueBusyId, note, ours, queuePresses, queueAsks>>
        BY <1>1 DEF Queue!queueVars
    <2> QED
        BY <2>1, ReportsRest, QueueGoesOn DEF QueueInv, QueueStepIsRight
<1> QED
    BY <1>1, ModeratorActs, ReaderReports, BackendServes, SomebodyModerates, ModeratorHears DEF Queue!Next, QueueStepIsRight

(* Of the moderation queue alone, for any reports, moderators and failures: *)
(* a report becomes "actioned" only after this page was told that its       *)
(* target is hidden, and a row goes only when its report is resolved or a   *)
(* new list comes.                                                          *)
THEOREM QueueActsInOrder == Queue!Spec => []Queue!TypeOK /\ Queue!ActionedAfterHidden /\ Queue!DroppedIsResolved
<1>1. Queue!Spec => []QueueInv
    BY QueueStarts, QueueStep, PTL DEF Queue!Spec
<1>2. QueueInv => Queue!TypeOK
    BY DEF QueueInv, QueueAskOK, Queue!TypeOK
<1>3. QueueInv /\ [Queue!Next]_(Queue!queueVars)
        => [\A id \in Reports : reports'[id] = "actioned" => reports[id] = "actioned" \/ id \in ours]_(Queue!queueVars)
    BY QueueStep DEF QueueStepIsRight
<1>4. QueueInv /\ [Queue!Next]_(Queue!queueVars)
        => [\A id \in queueShown \ queueShown' :
                reports[id] # "open" \/ \E r \in queueAsks \ queueAsks' : r.kind \in Queue!Tabs]_(Queue!queueVars)
    BY QueueStep DEF QueueStepIsRight
<1> QED
    BY <1>1, <1>2, <1>3, <1>4, PTL DEF Queue!Spec, Queue!ActionedAfterHidden, Queue!DroppedIsResolved

-----------------------------------------------------------------------------
(* The notification badge.                                                  *)

BadgeRows == UNION {[ids -> BOOLEAN] : ids \in SUBSET Notes}

BadgeAsk ==
    [n : Nat, kind : {"count", "list", "read", "all"}, gen : Nat, ids : SUBSET Notes, stage : {"asked", "done"},
     rows : BadgeRows, count : Nat]

(* A call that marks rows of the list on screen finds them marked and not   *)
(* confirmed, ...                                                           *)
BadgeAskOK(r) ==
    /\ r.gen <= items.gen
    /\ r.count <= Cardinality(arrived) /\ DOMAIN r.rows \subseteq arrived
    /\ r.ids \subseteq arrived /\ (r.kind \in {"count", "list"} => r.ids = {})
    /\ r.gen = items.gen => \A id \in r.ids : id \in DOMAIN items.rows /\ items.rows[id] /\ id \notin confirmed

(* ... and no two calls mark the same row of it, so that a rollback of one  *)
(* leaves the rows of the others alone.                                     *)
BadgeInv ==
    /\ arrived \subseteq Notes /\ readAt \subseteq arrived /\ nudges \in Nat /\ badgePresses \in Nat
    /\ items \in [gen : Nat, rows : BadgeRows] /\ DOMAIN items.rows \subseteq arrived
    /\ unread \in Nat /\ unread <= Cardinality(arrived)
    /\ \A id \in confirmed : id \in DOMAIN items.rows /\ items.rows[id]
    /\ badgeAsks \subseteq BadgeAsk
    /\ \A r \in badgeAsks : BadgeAskOK(r)
    /\ \A o, r \in badgeAsks : o # r /\ o.gen = items.gen /\ r.gen = items.gen => o.ids \cap r.ids = {}

\* Of the notifications that have arrived there are finitely many.
LEMMA ArrivedIsFinite ==
    ASSUME NEW S \in SUBSET Notes, NEW T \in SUBSET S
    PROVE  /\ Cardinality(S) \in Nat /\ Cardinality(T) \in Nat /\ Cardinality(T) <= Cardinality(S)
           /\ Cardinality(S \ T) \in Nat /\ Cardinality(S \ T) <= Cardinality(S)
<1>1. IsFiniteSet(S)
    BY NotesAssumption, FS_Subset
<1> QED
    BY <1>1, FS_Subset, FS_CardinalityType

\* The two names of the same operator.
LEMMA SameCardinality == \A S : Badge!Cardinality(S) = Cardinality(S)
BY DEF Badge!Cardinality, Cardinality

LEMMA BadgeStarts == Badge!Init => BadgeInv
<1> SUFFICES ASSUME Badge!Init PROVE BadgeInv
    OBVIOUS
<1> PICK s : s = Badge!Ask("count", {})
    OBVIOUS
<1>1. /\ arrived \subseteq Notes /\ readAt = {} /\ nudges = 0 /\ badgePresses = 0 /\ unread = 0 /\ confirmed = {}
      /\ items = [gen |-> 0, rows |-> Badge!NoRows] /\ badgeAsks = {s}
    BY DEF Badge!Init
<1>2. Badge!NoRows \in BadgeRows /\ DOMAIN Badge!NoRows = {}
    <2>1. Badge!NoRows \in [{} -> BOOLEAN]
        BY DEF Badge!NoRows
    <2> QED
        BY <2>1 DEF BadgeRows
<1>3. s \in BadgeAsk /\ s.gen = 0 /\ s.count = 0 /\ s.rows = Badge!NoRows /\ s.ids = {}
    BY <1>1, <1>2 DEF Badge!Ask, BadgeAsk
<1>4. Cardinality(arrived) \in Nat
    BY <1>1, ArrivedIsFinite
<1>5. items \in [gen : Nat, rows : BadgeRows] /\ items.gen = 0 /\ items.rows = Badge!NoRows
    BY <1>1, <1>2
<1>6. BadgeAskOK(s)
    BY <1>2, <1>3, <1>4, <1>5 DEF BadgeAskOK
<1> QED
    BY <1>1, <1>2, <1>3, <1>4, <1>5, <1>6 DEF BadgeInv

\* What a request asks for.
LEMMA NewBadgeAsk ==
    ASSUME BadgeInv, NEW kind \in {"count", "list", "read", "all"}, NEW ids \in SUBSET Notes, NEW s, s = Badge!Ask(kind, ids)
    PROVE  /\ s \in BadgeAsk /\ s.kind = kind /\ s.ids = ids /\ s.gen = items.gen /\ s.stage = "asked"
           /\ s.count = 0 /\ DOMAIN s.rows = {}
<1>1. Badge!NoRows \in BadgeRows /\ DOMAIN Badge!NoRows = {}
    <2>1. Badge!NoRows \in [{} -> BOOLEAN]
        BY DEF Badge!NoRows
    <2> QED
        BY <2>1 DEF BadgeRows
<1>2. items.gen \in Nat /\ badgePresses \in Nat
    BY DEF BadgeInv
<1> QED
    BY <1>1, <1>2 DEF BadgeAsk, Badge!Ask

\* As long as the list stays, it is enough to look at what a step asks.
LEMMA BadgeGoesOn ==
    ASSUME BadgeInv, UNCHANGED <<items, confirmed>>, arrived \subseteq arrived', arrived' \subseteq Notes, readAt' \subseteq arrived',
           nudges' \in Nat, badgePresses' \in Nat, unread' \in Nat, unread' <= Cardinality(arrived'),
           \A r \in badgeAsks' \ badgeAsks : /\ r \in BadgeAsk /\ r.gen <= items.gen
                                            /\ r.count <= Cardinality(arrived') /\ DOMAIN r.rows \subseteq arrived'
                                            /\ \/ r.ids = {}
                                               \/ /\ r.kind \notin {"count", "list"}
                                                  /\ \E o \in badgeAsks \ badgeAsks' : o.gen = r.gen /\ o.ids = r.ids,
           \A o, r \in badgeAsks' \ badgeAsks : o = r
    PROVE  BadgeInv'
<1>1. \A r \in badgeAsks : BadgeAskOK(r)'
    <2> TAKE r \in badgeAsks
    <2>1. BadgeAskOK(r) /\ r.count \in Nat
        BY DEF BadgeInv, BadgeAsk
    <2>2. Cardinality(arrived) \in Nat /\ Cardinality(arrived') \in Nat /\ Cardinality(arrived) <= Cardinality(arrived')
        BY ArrivedIsFinite
    <2> QED
        BY <2>1, <2>2 DEF BadgeAskOK
<1>2. \A r \in badgeAsks' \ badgeAsks : BadgeAskOK(r)'
    BY <1>1 DEF BadgeAskOK, BadgeInv
<1>3. \A o, r \in badgeAsks' : o # r /\ o.gen = items.gen /\ r.gen = items.gen => o.ids \cap r.ids = {}
    <2> TAKE o, r \in badgeAsks'
    <2> HAVE o # r /\ o.gen = items.gen /\ r.gen = items.gen
    <2>1. CASE o \in badgeAsks /\ r \in badgeAsks
        BY <2>1 DEF BadgeInv
    <2>2. CASE o \notin badgeAsks
        BY <2>2 DEF BadgeInv
    <2>3. CASE r \notin badgeAsks
        BY <2>3 DEF BadgeInv
    <2> QED
        BY <2>1, <2>2, <2>3
<1>4. badgeAsks' \subseteq BadgeAsk
    BY DEF BadgeInv
<1> QED
    BY <1>1, <1>2, <1>3, <1>4 DEF BadgeInv

\* With a new list there are no calls that mark rows of it.
LEMMA BadgeListReplaced ==
    ASSUME BadgeInv, NEW rows \in BadgeRows, DOMAIN rows \subseteq arrived,
           items' = [gen |-> items.gen + 1, rows |-> rows], confirmed' = {},
           UNCHANGED <<arrived, readAt, nudges>>, badgePresses' \in Nat, unread' \in Nat, unread' <= Cardinality(arrived),
           badgeAsks' \subseteq badgeAsks
    PROVE  BadgeInv' /\ items'.gen # items.gen
<1>1. items.gen \in Nat
    BY DEF BadgeInv
<1>2. items' \in [gen : Nat, rows : BadgeRows] /\ items'.gen = items.gen + 1 /\ items'.rows = rows
    BY <1>1
<1>3. \A r \in badgeAsks : r.gen \in Nat /\ r.gen <= items.gen
    BY DEF BadgeInv, BadgeAsk, BadgeAskOK
<1>4. \A r \in badgeAsks' : BadgeAskOK(r)' /\ r.gen # items'.gen
    BY <1>1, <1>2, <1>3 DEF BadgeInv, BadgeAskOK
<1> QED
    BY <1>1, <1>2, <1>4 DEF BadgeInv

\* Rows that are marked, or put back, are rows of the same list.
ShownRead(ids)   == Badge!Show(ids, TRUE)
ShownUnread(ids) == Badge!Show(ids, FALSE)

LEMMA ShowMarks ==
    ASSUME BadgeInv, NEW ids, NEW new, new \in {ShownRead(ids), ShownUnread(ids)}
    PROVE  /\ new \in [gen : Nat, rows : BadgeRows] /\ new.gen = items.gen /\ DOMAIN new.rows = DOMAIN items.rows
           /\ \A id \in DOMAIN items.rows \ ids : new.rows[id] = items.rows[id]
           /\ new = ShownRead(ids) => \A id \in ids \cap DOMAIN items.rows : new.rows[id]
<1>1. /\ items.gen \in Nat /\ items = [gen |-> items.gen, rows |-> items.rows] /\ DOMAIN items.rows \in SUBSET Notes
      /\ items.rows \in [DOMAIN items.rows -> BOOLEAN]
    BY DEF BadgeInv, BadgeRows
<1>2. ASSUME NEW flag \in BOOLEAN, new = Badge!Show(ids, flag)
      PROVE  /\ new \in [gen : Nat, rows : BadgeRows] /\ new.gen = items.gen /\ DOMAIN new.rows = DOMAIN items.rows
             /\ \A id \in DOMAIN items.rows : new.rows[id] = IF id \in ids THEN flag ELSE items.rows[id]
    <2> DEFINE rows == [id \in DOMAIN items.rows |-> IF id \in ids THEN flag ELSE items.rows[id]]
    <2>1. new = [items EXCEPT !.rows = rows]
        BY <1>2 DEF Badge!Show
    <2>2. rows \in [DOMAIN items.rows -> BOOLEAN]
        BY <1>1
    <2> HIDE DEF rows
    <2>3. rows \in BadgeRows
        BY <1>1, <2>2 DEF BadgeRows
    <2>4. new = [gen |-> items.gen, rows |-> rows]
        BY <1>1, <2>1
    <2> QED
        BY <1>1, <2>2, <2>3, <2>4 DEF rows
<1>3. CASE new = ShownRead(ids)
    <2>1. new = Badge!Show(ids, TRUE)
        BY <1>3 DEF ShownRead
    <2> QED
        BY <1>2, <2>1
<1>4. CASE new # ShownRead(ids) /\ new = ShownUnread(ids)
    BY <1>2, <1>4 DEF ShownUnread
<1> QED
    BY <1>3, <1>4

\* A call marks rows that are unread, which no other call has marked.
LEMMA BadgeMarked ==
    ASSUME BadgeInv, NEW ids \in SUBSET Badge!Unread, NEW kind \in {"read", "all"},
           items' = ShownRead(ids), badgeAsks' = badgeAsks \cup {Badge!Ask(kind, ids)},
           UNCHANGED <<arrived, readAt, nudges, confirmed>>, badgePresses' \in Nat, unread' \in Nat, unread' <= Cardinality(arrived)
    PROVE  BadgeInv' /\ \A id \in confirmed : items'.rows[id]
<1> PICK s : s = Badge!Ask(kind, ids)
    OBVIOUS
<1>1. ids \subseteq DOMAIN items.rows /\ ids \in SUBSET Notes /\ \A id \in ids : ~items.rows[id]
    BY DEF Badge!Unread, BadgeInv
<1>2. /\ s \in BadgeAsk /\ s.kind = kind /\ s.ids = ids /\ s.gen = items.gen /\ s.count = 0 /\ DOMAIN s.rows = {}
    BY <1>1, NewBadgeAsk
<1>3. /\ items' \in [gen : Nat, rows : BadgeRows] /\ items'.gen = items.gen /\ DOMAIN items'.rows = DOMAIN items.rows
      /\ \A id \in DOMAIN items.rows \ ids : items'.rows[id] = items.rows[id]
      /\ \A id \in ids \cap DOMAIN items.rows : items'.rows[id]
    BY ShowMarks
<1>4. \A id \in ids : id \notin confirmed /\ \A r \in badgeAsks : r.gen = items.gen => id \notin r.ids
    BY <1>1 DEF BadgeInv, BadgeAskOK
<1>5. \A r \in badgeAsks : BadgeAskOK(r)'
    BY <1>1, <1>3 DEF BadgeInv, BadgeAskOK
<1>6. BadgeAskOK(s)'
    <2>1. items.gen \in Nat /\ Cardinality(arrived) \in Nat /\ arrived' = arrived
        BY ArrivedIsFinite DEF BadgeInv
    <2>2. s.gen <= items'.gen
        BY <1>2, <1>3, <2>1
    <2>5. s.count <= Cardinality(arrived')
        BY <1>2, <2>1
    <2>6. DOMAIN s.rows \subseteq arrived' /\ s.ids \subseteq arrived'
        BY <1>1, <1>2, <2>1 DEF BadgeInv
    <2>3. \A id \in s.ids : id \in DOMAIN items'.rows /\ items'.rows[id] /\ id \notin confirmed'
        BY <1>1, <1>2, <1>3, <1>4
    <2>4. s.kind \notin {"count", "list"}
        BY <1>2
    <2> QED
        BY <2>2, <2>3, <2>4, <2>5, <2>6 DEF BadgeAskOK
<1>7. \A id \in confirmed : id \in DOMAIN items.rows /\ items'.rows[id]
    BY <1>3 DEF BadgeInv
<1>8. badgeAsks' = badgeAsks \cup {s}
    OBVIOUS
<1>9. \A o, r \in badgeAsks' : o # r /\ o.gen = items'.gen /\ r.gen = items'.gen => o.ids \cap r.ids = {}
    BY <1>2, <1>3, <1>4, <1>8 DEF BadgeInv
<1> QED
    BY <1>2, <1>3, <1>5, <1>6, <1>7, <1>8, <1>9 DEF BadgeInv

LEMMA ReaderMarks ==
    ASSUME BadgeInv, Badge!MarkAllRead \/ \E id \in Notes : Badge!MarkRead(id)
    PROVE  BadgeInv' /\ \A id \in confirmed : items'.rows[id]
<1>1. unread \in Nat /\ badgePresses \in Nat /\ Cardinality(arrived) \in Nat /\ unread <= Cardinality(arrived)
    BY ArrivedIsFinite DEF BadgeInv
<1>2. CASE Badge!MarkAllRead
    <2>1. /\ items' = ShownRead(Badge!Unread) /\ badgeAsks' = badgeAsks \cup {Badge!Ask("all", Badge!Unread)}
          /\ UNCHANGED <<arrived, readAt, nudges, confirmed>> /\ badgePresses' = badgePresses + 1 /\ unread' = 0
        BY <1>2 DEF Badge!MarkAllRead, Badge!Press, Badge!Sends, ShownRead
    <2>2. Badge!Unread \in SUBSET Badge!Unread /\ badgePresses' \in Nat /\ unread' \in Nat /\ unread' <= Cardinality(arrived)
        BY <1>1, <2>1
    <2> QED
        BY <2>1, <2>2, BadgeMarked
<1>3. ASSUME NEW id \in Notes, Badge!MarkRead(id) PROVE BadgeInv' /\ \A c \in confirmed : items'.rows[c]
    <2>1. /\ items' = ShownRead({id}) /\ badgeAsks' = badgeAsks \cup {Badge!Ask("read", {id})} /\ id \in Badge!Unread
          /\ UNCHANGED <<arrived, readAt, nudges, confirmed>> /\ badgePresses' = badgePresses + 1
          /\ unread' = IF unread = 0 THEN 0 ELSE unread - 1
        BY <1>3 DEF Badge!MarkRead, Badge!Press, Badge!Sends, ShownRead
    <2>2. unread' \in Nat /\ unread' <= Cardinality(arrived) /\ badgePresses' \in Nat /\ {id} \in SUBSET Badge!Unread
        BY <1>1, <2>1
    <2> QED
        BY <2>1, <2>2, BadgeMarked
<1> QED
    BY <1>2, <1>3

\* The other things the reader does, and the nudges that come.
LEMMA BadgeAsksAnew ==
    ASSUME BadgeInv, UNCHANGED <<items, confirmed, arrived, readAt>>, nudges' \in Nat, badgePresses' \in Nat,
           unread' \in {0, unread}, NEW s, s = Badge!Ask("count", {}) \/ s = Badge!Ask("list", {}),
           NEW set \in SUBSET badgeAsks, badgeAsks' = set \cup {s}
    PROVE  BadgeInv'
<1>1. s \in BadgeAsk /\ s.ids = {} /\ s.gen = items.gen /\ s.count = 0 /\ DOMAIN s.rows = {}
    BY NewBadgeAsk
<1>2. items.gen \in Nat /\ Cardinality(arrived) \in Nat
    BY ArrivedIsFinite DEF BadgeInv
<1>3. s.gen <= items.gen /\ s.count <= Cardinality(arrived) /\ badgeAsks' = set \cup {s}
    BY <1>1, <1>2
<1>4. unread' \in Nat /\ unread' <= Cardinality(arrived)
    BY <1>2 DEF BadgeInv
<1> QED
    BY <1>1, <1>3, <1>4, BadgeGoesOn DEF BadgeInv

LEMMA BadgeRests ==
    ASSUME BadgeInv, UNCHANGED <<items, confirmed, arrived, readAt>>, nudges' \in Nat, badgePresses' \in Nat,
           unread' \in Nat, unread' <= Cardinality(arrived), badgeAsks' \subseteq badgeAsks
    PROVE  BadgeInv'
BY BadgeGoesOn DEF BadgeInv

LEMMA ReaderLooks ==
    ASSUME BadgeInv, Badge!Load \/ Badge!SignOut \/ Badge!SignIn \/ Badge!Nudge
    PROVE  BadgeInv' /\ \A id \in confirmed : items'.gen = items.gen => items'.rows[id]
<1>0. \A id \in confirmed : items.rows[id]
    BY DEF BadgeInv
<1>1. CASE Badge!Load \/ Badge!SignIn
    <2>1. /\ UNCHANGED <<items, confirmed, arrived, readAt, nudges, unread>> /\ badgePresses' = badgePresses + 1
          /\ \/ badgeAsks' = badgeAsks \cup {Badge!Ask("list", {})}
             \/ badgeAsks' = badgeAsks \cup {Badge!Ask("count", {})}
        BY <1>1 DEF Badge!Load, Badge!SignIn, Badge!Press, Badge!Sends
    <2>2. badgePresses' \in Nat /\ nudges' \in Nat /\ unread' \in {0, unread} /\ badgeAsks \in SUBSET badgeAsks
        BY <2>1 DEF BadgeInv
    <2>3. CASE badgeAsks' = badgeAsks \cup {Badge!Ask("list", {})}
        BY <1>0, <2>1, <2>2, <2>3, BadgeAsksAnew
    <2>4. CASE badgeAsks' = badgeAsks \cup {Badge!Ask("count", {})}
        BY <1>0, <2>1, <2>2, <2>4, BadgeAsksAnew
    <2> QED
        BY <2>1, <2>3, <2>4
<1>2. CASE Badge!SignOut
    <2>1. /\ items' = [gen |-> items.gen + 1, rows |-> Badge!NoRows] /\ confirmed' = {} /\ badgeAsks' = badgeAsks
          /\ UNCHANGED <<arrived, readAt, nudges>> /\ badgePresses' = badgePresses + 1 /\ unread' = 0
        BY <1>2 DEF Badge!SignOut, Badge!Press
    <2>2. Badge!NoRows \in BadgeRows /\ DOMAIN Badge!NoRows = {}
        <3>1. Badge!NoRows \in [{} -> BOOLEAN]
            BY DEF Badge!NoRows
        <3> QED
            BY <3>1 DEF BadgeRows
    <2>3. badgePresses' \in Nat /\ unread' \in Nat /\ unread' <= Cardinality(arrived)
        BY <2>1, ArrivedIsFinite DEF BadgeInv
    <2> QED
        BY <2>1, <2>2, <2>3, BadgeListReplaced
<1>3. CASE Badge!Nudge
    <2>1. /\ UNCHANGED <<items, confirmed, arrived, readAt, badgePresses>> /\ nudges > 0 /\ nudges' = nudges - 1
          /\ \/ unread' = unread /\ badgeAsks' = badgeAsks \cup {Badge!Ask("count", {})}
             \/ unread' = 0 /\ badgeAsks' = badgeAsks
        BY <1>3 DEF Badge!Nudge, Badge!Sends
    <2>2. nudges' \in Nat /\ Cardinality(arrived) \in Nat
        BY <2>1, ArrivedIsFinite DEF BadgeInv
    <2>3. CASE unread' = unread /\ badgeAsks' = badgeAsks \cup {Badge!Ask("count", {})}
        <3>1. badgePresses' \in Nat /\ unread' \in {0, unread} /\ badgeAsks \in SUBSET badgeAsks
            BY <2>1, <2>3 DEF BadgeInv
        <3> QED
            BY <1>0, <2>1, <2>2, <2>3, <3>1, BadgeAsksAnew
    <2>4. CASE unread' = 0 /\ badgeAsks' = badgeAsks
        <3>1. badgePresses' \in Nat /\ unread' \in Nat /\ unread' <= Cardinality(arrived)
            BY <2>1, <2>2, <2>4 DEF BadgeInv
        <3> QED
            BY <1>0, <2>1, <2>2, <2>4, <3>1, BadgeRests
    <2> QED
        BY <2>1, <2>3, <2>4
<1> QED
    BY <1>1, <1>2, <1>3 DEF BadgeInv

LEMMA BadgeServed ==
    ASSUME BadgeInv, (\E id \in Notes : Badge!Arrive(id)) \/ \E r \in badgeAsks : Badge!Serve(r)
    PROVE  BadgeInv' /\ UNCHANGED <<items, confirmed>>
<1>1. ASSUME NEW id \in Notes, Badge!Arrive(id) PROVE BadgeInv' /\ UNCHANGED <<items, confirmed>>
    <2>1. /\ arrived' = arrived \cup {id} /\ nudges' \in {nudges, nudges + 1}
          /\ UNCHANGED <<readAt, items, unread, badgeAsks, badgePresses, confirmed>>
        BY <1>1 DEF Badge!Arrive
    <2>2. arrived' \in SUBSET Notes /\ arrived \in SUBSET arrived'
        BY <2>1 DEF BadgeInv
    <2>3. unread' \in Nat /\ unread' <= Cardinality(arrived')
        <3>1. Cardinality(arrived) \in Nat /\ Cardinality(arrived') \in Nat /\ Cardinality(arrived) <= Cardinality(arrived')
            BY <2>2, ArrivedIsFinite
        <3> QED
            BY <2>1, <3>1 DEF BadgeInv
    <2> QED
        BY <2>1, <2>2, <2>3, BadgeGoesOn DEF BadgeInv
<1>2. ASSUME NEW r \in badgeAsks, Badge!Serve(r) PROVE BadgeInv' /\ UNCHANGED <<items, confirmed>>
    <2> PICK rows : rows = IF r.kind = "list" THEN [id \in arrived |-> id \in readAt] ELSE Badge!NoRows
        OBVIOUS
    <2> PICK s : s = [r EXCEPT !.stage = "done", !.count = Cardinality(arrived \ Badge!Marked(r)), !.rows = rows]
        OBVIOUS
    <2>1. /\ readAt' = Badge!Marked(r) /\ badgeAsks' = (badgeAsks \ {r}) \cup {s}
          /\ UNCHANGED <<arrived, nudges, items, unread, badgePresses, confirmed>>
        BY <1>2, SameCardinality DEF Badge!Serve
    <2>2. r \in BadgeAsk /\ BadgeAskOK(r)
        BY DEF BadgeInv
    <2>3. rows \in BadgeRows /\ DOMAIN rows \subseteq arrived
        <3>1. [id \in arrived |-> id \in readAt] \in [arrived -> BOOLEAN] /\ Badge!NoRows \in [{} -> BOOLEAN]
            BY DEF Badge!NoRows
        <3> QED
            BY <3>1 DEF BadgeRows, BadgeInv
    <2>4. Cardinality(arrived \ Badge!Marked(r)) \in Nat /\ Cardinality(arrived \ Badge!Marked(r)) <= Cardinality(arrived)
        <3>1. arrived \ Badge!Marked(r) \in SUBSET arrived /\ arrived \in SUBSET Notes
            BY DEF BadgeInv
        <3> QED
            BY <3>1, ArrivedIsFinite
    <2>5. /\ s \in BadgeAsk /\ s.gen = r.gen /\ s.ids = r.ids /\ s.kind = r.kind
          /\ s.count <= Cardinality(arrived) /\ DOMAIN s.rows \subseteq arrived
        BY <2>2, <2>3, <2>4 DEF BadgeAsk
    <2>6. readAt' \subseteq arrived
        BY <2>1, <2>2 DEF Badge!Marked, BadgeInv, BadgeAskOK
    <2>7. CASE s = r
        BY <2>1, <2>6, <2>7, BadgeGoesOn DEF BadgeInv
    <2>8. CASE s # r
        <3>1. /\ s.gen <= items.gen /\ r \notin badgeAsks'
              /\ s.ids = {} \/ (s.kind \notin {"count", "list"} /\ r.gen = s.gen /\ r.ids = s.ids)
            BY <2>1, <2>2, <2>5, <2>8 DEF BadgeAsk, BadgeAskOK
        <3>2. \A o \in badgeAsks' \ badgeAsks : o = s
            BY <2>1
        <3>3. unread' \in Nat /\ unread' <= Cardinality(arrived') /\ nudges' \in Nat /\ badgePresses' \in Nat
            BY <2>1 DEF BadgeInv
        <3>4. arrived \subseteq arrived' /\ arrived' \subseteq Notes /\ readAt' \subseteq arrived'
            BY <2>1, <2>6 DEF BadgeInv
        <3>5. \A o \in badgeAsks' \ badgeAsks :
                  /\ o \in BadgeAsk /\ o.gen <= items.gen /\ o.count <= Cardinality(arrived') /\ DOMAIN o.rows \subseteq arrived'
                  /\ \/ o.ids = {}
                     \/ /\ o.kind \notin {"count", "list"}
                        /\ \E q \in badgeAsks \ badgeAsks' : q.gen = o.gen /\ q.ids = o.ids
            BY <2>1, <2>5, <3>1, <3>2
        <3> QED
            BY <2>1, <3>2, <3>3, <3>4, <3>5, BadgeGoesOn
    <2> QED
        BY <2>7, <2>8
<1> QED
    BY <1>1, <1>2

\* An answer, or none.  The rows of a call that is put back are those of no
\* other call, and of none that has succeeded.
LEMMA BadgeAnswered ==
    ASSUME BadgeInv, NEW r \in badgeAsks, Badge!LandCount(r) \/ Badge!LandList(r) \/ Badge!LandUnansweredCount(r)
    PROVE  BadgeInv' /\ \A id \in confirmed : items'.gen = items.gen => items'.rows[id]
<1>0. \A id \in confirmed : items.rows[id]
    BY DEF BadgeInv
<1>1. r \in BadgeAsk /\ BadgeAskOK(r) /\ r.count \in Nat /\ r.rows \in BadgeRows
    BY DEF BadgeInv, BadgeAsk
<1>2. CASE Badge!LandCount(r) \/ Badge!LandUnansweredCount(r)
    <2>1. /\ UNCHANGED <<items, confirmed, arrived, readAt, nudges, badgePresses>> /\ badgeAsks' = badgeAsks \ {r}
          /\ unread' \in {unread, r.count}
        BY <1>2 DEF Badge!LandCount, Badge!LandUnansweredCount, Badge!Land
    <2>2. /\ nudges' \in Nat /\ badgePresses' \in Nat /\ unread' \in Nat /\ unread' <= Cardinality(arrived)
          /\ badgeAsks' \subseteq badgeAsks
        BY <1>1, <2>1 DEF BadgeInv, BadgeAskOK
    <2> QED
        BY <1>0, <2>1, <2>2, BadgeRests
<1>3. CASE Badge!LandList(r)
    <2>1. /\ items' = [gen |-> items.gen + 1, rows |-> r.rows] /\ confirmed' = {} /\ badgeAsks' = badgeAsks \ {r}
          /\ UNCHANGED <<arrived, readAt, nudges, badgePresses>> /\ unread' = r.count
        BY <1>3 DEF Badge!LandList, Badge!Land
    <2>2. /\ badgePresses' \in Nat /\ unread' \in Nat /\ unread' <= Cardinality(arrived) /\ badgeAsks' \subseteq badgeAsks
          /\ DOMAIN r.rows \subseteq arrived
        BY <1>1, <2>1 DEF BadgeInv, BadgeAskOK
    <2> QED
        BY <1>1, <2>1, <2>2, BadgeListReplaced
<1> QED
    BY <1>2, <1>3

LEMMA BadgeConfirms ==
    ASSUME BadgeInv, NEW r \in badgeAsks, Badge!LandMarked(r)
    PROVE  BadgeInv' /\ \A id \in confirmed : items'.gen = items.gen => items'.rows[id]
<1>1. /\ UNCHANGED <<items, arrived, readAt, nudges, badgePresses>> /\ badgeAsks' = badgeAsks \ {r} /\ unread' \in {unread, r.count}
      /\ confirmed' = IF r.gen = items.gen THEN confirmed \cup r.ids ELSE confirmed
    BY DEF Badge!LandMarked, Badge!Land
<1>2. r \in BadgeAsk /\ BadgeAskOK(r) /\ r.count \in Nat
    BY DEF BadgeInv, BadgeAsk
<1>3. unread' \in Nat /\ unread' <= Cardinality(arrived)
    BY <1>1, <1>2 DEF BadgeInv, BadgeAskOK
<1>4. \A id \in confirmed' : id \in DOMAIN items.rows /\ items.rows[id]
    BY <1>1, <1>2 DEF BadgeInv, BadgeAskOK
<1>5. \A o \in badgeAsks' : BadgeAskOK(o)'
    <2> TAKE o \in badgeAsks'
    <2>1. o \in badgeAsks /\ o # r /\ BadgeAskOK(o)
        BY <1>1 DEF BadgeInv
    <2>2. o.gen = items.gen => \A id \in o.ids : id \in DOMAIN items.rows /\ items.rows[id] /\ id \notin confirmed'
        BY <1>1, <2>1 DEF BadgeInv, BadgeAskOK
    <2> QED
        BY <1>1, <2>1, <2>2 DEF BadgeAskOK
<1> QED
    BY <1>1, <1>3, <1>4, <1>5 DEF BadgeInv

LEMMA BadgePutBack ==
    ASSUME BadgeInv, NEW r \in badgeAsks, Badge!LandUnmarked(r)
    PROVE  BadgeInv' /\ \A id \in confirmed : items'.gen = items.gen => items'.rows[id]
<1>1. /\ UNCHANGED <<arrived, readAt, nudges, badgePresses, confirmed>> /\ items' = Badge!RolledBack(r)
      /\ \/ unread' = unread /\ badgeAsks' = (badgeAsks \ {r}) \cup {Badge!Ask("count", {})}
         \/ unread' = 0 /\ badgeAsks' = badgeAsks \ {r}
    BY DEF Badge!LandUnmarked, Badge!Land, Badge!Sends
<1> PICK s : s = Badge!Ask("count", {})
    OBVIOUS
<1>2. s \in BadgeAsk /\ s.ids = {} /\ s.gen = items.gen /\ s.count = 0 /\ DOMAIN s.rows = {}
    BY NewBadgeAsk
<1>3. /\ items' \in [gen : Nat, rows : BadgeRows] /\ items'.gen = items.gen /\ DOMAIN items'.rows = DOMAIN items.rows
      /\ \A id \in DOMAIN items.rows : ~(r.gen = items.gen /\ id \in r.ids) => items'.rows[id] = items.rows[id]
    <2>1. CASE r.gen = items.gen
        <3>1. items' = ShownUnread(r.ids)
            BY <1>1, <2>1 DEF Badge!RolledBack, ShownUnread
        <3>2. /\ items' \in [gen : Nat, rows : BadgeRows] /\ items'.gen = items.gen
              /\ DOMAIN items'.rows = DOMAIN items.rows
              /\ \A id \in DOMAIN items.rows \ r.ids : items'.rows[id] = items.rows[id]
            BY <3>1, ShowMarks
        <3> QED
            BY <2>1, <3>2
    <2>2. CASE r.gen # items.gen
        <3>1. items' = items
            BY <1>1, <2>2 DEF Badge!RolledBack
        <3> QED
            BY <2>2, <3>1 DEF BadgeInv
    <2> QED
        BY <2>1, <2>2
<1>4. \A id \in confirmed : id \in DOMAIN items'.rows /\ items'.rows[id]
    BY <1>3 DEF BadgeInv, BadgeAskOK
<1>5. \A o \in badgeAsks \ {r} : BadgeAskOK(o)'
    <2> TAKE o \in badgeAsks \ {r}
    <2>1. BadgeAskOK(o) /\ (o.gen = items.gen /\ r.gen = items.gen => o.ids \cap r.ids = {})
        BY DEF BadgeInv
    <2>2. o.gen = items.gen => \A id \in o.ids : id \in DOMAIN items'.rows /\ items'.rows[id] /\ id \notin confirmed
        BY <1>3, <2>1 DEF BadgeAskOK
    <2> QED
        BY <1>1, <1>3, <2>1, <2>2 DEF BadgeAskOK
<1>6. BadgeAskOK(s)'
    <2>1. items.gen \in Nat /\ Cardinality(arrived) \in Nat
        BY ArrivedIsFinite DEF BadgeInv
    <2>2. s.gen <= items'.gen /\ s.count <= Cardinality(arrived') /\ s.ids = {} /\ DOMAIN s.rows = {}
        BY <1>1, <1>2, <1>3, <2>1
    <2> QED
        BY <2>2 DEF BadgeAskOK
<1>7. \A o \in badgeAsks' : o \in BadgeAsk /\ BadgeAskOK(o)' /\ (o \in badgeAsks \/ o = s)
    BY <1>1, <1>2, <1>5, <1>6 DEF BadgeInv
<1>8. \A o, q \in badgeAsks' : o # q /\ o.gen = items'.gen /\ q.gen = items'.gen => o.ids \cap q.ids = {}
    BY <1>2, <1>3, <1>7 DEF BadgeInv
<1>9. unread' \in Nat /\ unread' <= Cardinality(arrived)
    BY <1>1, ArrivedIsFinite DEF BadgeInv
<1> QED
    BY <1>1, <1>3, <1>4, <1>7, <1>8, <1>9 DEF BadgeInv

LEMMA BadgeStep ==
    BadgeInv /\ [Badge!Next]_(Badge!badgeVars)
        => BadgeInv' /\ \A id \in confirmed : items'.gen = items.gen => items'.rows[id]
<1> SUFFICES ASSUME BadgeInv, [Badge!Next]_(Badge!badgeVars)
             PROVE  BadgeInv' /\ \A id \in confirmed : items'.gen = items.gen => items'.rows[id]
    OBVIOUS
<1>1. \A id \in confirmed : items.rows[id]
    BY DEF BadgeInv
<1>2. CASE UNCHANGED Badge!badgeVars
    BY <1>1, <1>2 DEF Badge!badgeVars, BadgeInv, BadgeAskOK
<1> QED
    BY <1>1, <1>2, ReaderLooks, ReaderMarks, BadgeServed, BadgeAnswered, BadgeConfirms, BadgePutBack DEF Badge!Next

(* As long as no two requests were in flight at once, the only one carries  *)
(* the count, or leaves none to be counted; a nudge on its way, a lost      *)
(* answer and a time without a session excuse the badge.                    *)
BadgeDue == Cardinality(arrived \ readAt)

AnswerIsDue(r) == r.count = BadgeDue /\ (r.kind = "all" => BadgeDue = 0)

BadgeSettling ==
    ~overlapped =>
        /\ \A o, r \in badgeAsks : o = r
        /\ \A r \in badgeAsks : r.kind = "all" => unread = 0
        /\ signedIn /\ ~stale /\ nudges = 0 =>
            /\ badgeAsks = {} => unread = BadgeDue
            /\ \A r \in badgeAsks : r.stage = "done" => AnswerIsDue(r)

LEMMA SettlingStarts == Badge!Init => BadgeSettling
<1> SUFFICES ASSUME Badge!Init PROVE BadgeSettling
    OBVIOUS
<1> PICK s : s = Badge!Ask("count", {})
    OBVIOUS
<1>1. badgeAsks = {s} /\ s.kind = "count" /\ s.stage = "asked"
    BY DEF Badge!Init, Badge!Ask
<1> QED
    BY <1>1 DEF BadgeSettling

\* A request that is the only one has everything before it.
LEMMA FirstRequest ==
    ASSUME BadgeInv, NEW kind \in {"count", "list", "read", "all"}, NEW ids \in SUBSET Notes, NEW s, s = Badge!Ask(kind, ids),
           NEW set \in SUBSET badgeAsks, badgeAsks' = set \cup {s}, ~overlapped' => set = {},
           kind = "all" => unread' = 0
    PROVE  BadgeSettling'
<1>1. s.kind = kind /\ s.stage = "asked"
    BY NewBadgeAsk
<1> QED
    BY <1>1 DEF BadgeSettling

LEMMA ReaderSettles ==
    ASSUME BadgeInv, BadgeSettling,
           Badge!Load \/ Badge!MarkAllRead \/ Badge!SignOut \/ Badge!SignIn \/ \E id \in Notes : Badge!MarkRead(id)
    PROVE  BadgeSettling'
<1>1. CASE Badge!Load
    <2>1. badgeAsks' = badgeAsks \cup {Badge!Ask("list", {})} /\ (~overlapped' => badgeAsks = {})
        BY <1>1 DEF Badge!Load, Badge!Sends
    <2> QED
        BY <2>1, FirstRequest
<1>2. CASE Badge!SignIn
    <2>1. badgeAsks' = badgeAsks \cup {Badge!Ask("count", {})} /\ (~overlapped' => badgeAsks = {})
        BY <1>2 DEF Badge!SignIn, Badge!Sends
    <2> QED
        BY <2>1, FirstRequest
<1>3. CASE Badge!MarkAllRead
    <2>1. badgeAsks' = badgeAsks \cup {Badge!Ask("all", Badge!Unread)} /\ (~overlapped' => badgeAsks = {}) /\ unread' = 0
        BY <1>3 DEF Badge!MarkAllRead, Badge!Sends
    <2>2. Badge!Unread \in SUBSET Notes
        BY DEF Badge!Unread, BadgeInv
    <2> QED
        BY <2>1, <2>2, FirstRequest
<1>4. ASSUME NEW id \in Notes, Badge!MarkRead(id) PROVE BadgeSettling'
    <2>1. badgeAsks' = badgeAsks \cup {Badge!Ask("read", {id})} /\ (~overlapped' => badgeAsks = {})
        BY <1>4 DEF Badge!MarkRead, Badge!Sends
    <2> QED
        BY <2>1, FirstRequest
<1>5. CASE Badge!SignOut
    <2>1. UNCHANGED <<badgeAsks, overlapped>> /\ ~signedIn' /\ unread' = 0
        BY <1>5 DEF Badge!SignOut
    <2> QED
        BY <2>1 DEF BadgeSettling
<1> QED
    BY <1>1, <1>2, <1>3, <1>4, <1>5

LEMMA ServerSettles ==
    ASSUME BadgeInv, BadgeSettling,
           Badge!Nudge \/ (\E id \in Notes : Badge!Arrive(id)) \/ \E r \in badgeAsks : Badge!Serve(r)
    PROVE  BadgeSettling'
<1>1. CASE Badge!Nudge /\ signedIn
    <2>1. badgeAsks' = badgeAsks \cup {Badge!Ask("count", {})} /\ (~overlapped' => badgeAsks = {})
        BY <1>1 DEF Badge!Nudge, Badge!Sends
    <2> QED
        BY <2>1, FirstRequest
<1>2. CASE Badge!Nudge /\ ~signedIn
    <2>1. UNCHANGED <<badgeAsks, overlapped>> /\ ~signedIn' /\ unread' = 0
        BY <1>2 DEF Badge!Nudge
    <2> QED
        BY <2>1 DEF BadgeSettling
<1>3. ASSUME NEW id \in Notes, Badge!Arrive(id) PROVE BadgeSettling'
    <2>1. UNCHANGED <<badgeAsks, overlapped, unread>> /\ (nudges' = nudges + 1 \/ stale')
        BY <1>3 DEF Badge!Arrive
    <2>2. nudges' # 0 \/ stale'
        BY <2>1 DEF BadgeInv
    <2> QED
        BY <2>1, <2>2 DEF BadgeSettling
<1>4. ASSUME NEW r \in badgeAsks, Badge!Serve(r) PROVE BadgeSettling'
    <2> PICK rows : rows = IF r.kind = "list" THEN [id \in arrived |-> id \in readAt] ELSE Badge!NoRows
        OBVIOUS
    <2> PICK s : s = [r EXCEPT !.stage = "done", !.count = Cardinality(arrived \ Badge!Marked(r)), !.rows = rows]
        OBVIOUS
    <2>1. /\ readAt' = Badge!Marked(r) /\ badgeAsks' = (badgeAsks \ {r}) \cup {s}
          /\ UNCHANGED <<arrived, unread, overlapped>>
        BY <1>4, SameCardinality DEF Badge!Serve
    <2>2. s.kind = r.kind /\ s.count = BadgeDue'
        BY <2>1 DEF BadgeDue, BadgeInv, BadgeAsk
    <2>3. r.kind = "all" => BadgeDue' = 0
        BY <2>1, FS_EmptySet DEF BadgeDue, Badge!Marked
    <2>4. ~overlapped => badgeAsks' = {s}
        BY <2>1 DEF BadgeSettling
    <2> QED
        BY <2>1, <2>2, <2>3, <2>4 DEF BadgeSettling, AnswerIsDue
<1> QED
    BY <1>1, <1>2, <1>3, <1>4

LEMMA AnswersSettle ==
    ASSUME BadgeInv, BadgeSettling, NEW r \in badgeAsks,
           Badge!LandCount(r) \/ Badge!LandList(r) \/ Badge!LandMarked(r) \/ Badge!LandUnansweredCount(r) \/ Badge!LandUnmarked(r)
    PROVE  BadgeSettling'
<1>1. CASE Badge!LandUnmarked(r) /\ signedIn
    <2>1. badgeAsks' = (badgeAsks \ {r}) \cup {Badge!Ask("count", {})} /\ (~overlapped' => badgeAsks \ {r} = {})
        BY <1>1 DEF Badge!LandUnmarked, Badge!Sends
    <2>2. PICK set \in SUBSET badgeAsks : set = badgeAsks \ {r}
        OBVIOUS
    <2> QED
        BY <2>1, <2>2, FirstRequest
<1>2. CASE ~(Badge!LandUnmarked(r) /\ signedIn)
    <2>1. badgeAsks' = badgeAsks \ {r} /\ UNCHANGED <<overlapped, arrived, readAt, nudges, signedIn>>
        BY <1>2 DEF Badge!LandCount, Badge!LandList, Badge!LandMarked, Badge!LandUnansweredCount, Badge!LandUnmarked, Badge!Land
    <2>2. ~overlapped => badgeAsks' = {}
        BY <2>1 DEF BadgeSettling
    <2>3. CASE Badge!LandUnmarked(r) \/ Badge!LandUnansweredCount(r)
        <3>1. ~signedIn' \/ stale'
            BY <1>2, <2>1, <2>3 DEF Badge!LandUnansweredCount, Badge!LandUnmarked
        <3> QED
            BY <2>1, <2>2, <3>1 DEF BadgeSettling
    <2>4. CASE Badge!LandCount(r) \/ Badge!LandList(r) \/ Badge!LandMarked(r)
        <3>1. /\ r.stage = "done" /\ stale' = stale
              /\ unread' = r.count \/ (r.kind = "all" /\ unread' = unread)
            BY <2>4 DEF Badge!LandCount, Badge!LandList, Badge!LandMarked
        <3>2. ~overlapped /\ signedIn /\ ~stale /\ nudges = 0 => unread' = BadgeDue
            BY <3>1 DEF BadgeSettling, AnswerIsDue
        <3>3. BadgeDue' = BadgeDue
            BY <2>1 DEF BadgeDue
        <3> QED
            BY <2>1, <2>2, <3>1, <3>2, <3>3 DEF BadgeSettling
    <2> QED
        BY <2>3, <2>4
<1> QED
    BY <1>1, <1>2

LEMMA SettlingStep == BadgeInv /\ BadgeSettling /\ [Badge!Next]_(Badge!badgeVars) => BadgeSettling'
<1> SUFFICES ASSUME BadgeInv, BadgeSettling, [Badge!Next]_(Badge!badgeVars) PROVE BadgeSettling'
    OBVIOUS
<1>1. CASE UNCHANGED Badge!badgeVars
    <2>1. BadgeDue' = BadgeDue /\ UNCHANGED <<overlapped, badgeAsks, unread, signedIn, stale, nudges>>
        BY <1>1 DEF Badge!badgeVars, BadgeDue
    <2> QED
        BY <2>1 DEF BadgeSettling, AnswerIsDue
<1> QED
    BY <1>1, ReaderSettles, ServerSettles, AnswersSettle DEF Badge!Next

(* Of the badge alone, for any notifications and bounds: the rows and the   *)
(* number are those of notifications there are, the number is right when    *)
(* everything is answered in turn, and a row whose call has succeeded stays *)
(* read until there is a new list.                                          *)
THEOREM BadgeIsRight == Badge!Spec => [](Badge!TypeOK /\ Badge!BadgeIsCount) /\ Badge!ConfirmedStaysRead
<1>1. Badge!Spec => [](BadgeInv /\ BadgeSettling)
    BY BadgeStarts, BadgeStep, SettlingStarts, SettlingStep, PTL DEF Badge!Spec
<1>2. BadgeInv => Badge!TypeOK
    <2> SUFFICES ASSUME BadgeInv PROVE Badge!TypeOK
        OBVIOUS
    <2>1. Badge!Cardinality(arrived) = Cardinality(arrived) /\ Cardinality(arrived) \in Nat
        BY SameCardinality, ArrivedIsFinite DEF BadgeInv
    <2>2. unread \in 0 .. Badge!Cardinality(arrived)
        BY <2>1 DEF BadgeInv
    <2> QED
        BY <2>2 DEF BadgeInv, Badge!TypeOK
<1>3. BadgeSettling => Badge!BadgeIsCount
    BY SameCardinality DEF BadgeSettling, BadgeDue, Badge!BadgeIsCount
<1>4. BadgeInv /\ [Badge!Next]_(Badge!badgeVars)
        => [\A id \in confirmed : items'.gen = items.gen => items'.rows[id]]_(Badge!badgeVars)
    BY BadgeStep
<1> QED
    BY <1>1, <1>2, <1>3, <1>4, PTL DEF Badge!Spec, Badge!ConfirmedStaysRead

-----------------------------------------------------------------------------
(* The follow button.                                                       *)

FollowAsk ==
    [n : Nat, kind : {"stats", "follow", "unfollow"}, id : People, visit : Nat, stage : {"asked", "done"}, following : BOOLEAN]

(* What the button shows: the reader is the one follower that is told apart.*)
StatsOK ==
    /\ stats \in [following : BOOLEAN, followers : Nat]
    /\ stats.followers = IF stats.following THEN 1 ELSE 0

(* A call of this button is the only one, and the button shows its guess;   *)
(* while its first numbers are awaited there is none.                       *)
FollowAskOK(r) ==
    /\ r.visit <= followVisit
    /\ r.visit = followVisit =>
        /\ r.id = followId
        /\ r.kind = "stats" => stats = NoStats /\ ~busy
        /\ r.kind # "stats" => busy /\ StatsOK /\ (stats.following <=> r.kind = "follow")

FollowInv ==
    /\ followId \in People /\ followVisit \in Nat /\ followPresses \in Nat
    /\ stats = NoStats \/ StatsOK
    /\ followAsks \subseteq FollowAsk
    /\ \A r \in followAsks : FollowAskOK(r)
    /\ busy => \E r \in followAsks : r.visit = followVisit /\ r.kind # "stats"
    /\ \A q, r \in followAsks : q.visit = followVisit /\ r.visit = followVisit => q = r

(* What the server has is what the button shows, or showed before its call; *)
(* a page that is left with a call, and an answer that is lost, excuse it.  *)
FollowDue(r) ==
    /\ r.kind = "stats" /\ r.visit = followVisit /\ r.stage = "done" => (r.following <=> followId \in follows)
    /\ r.kind = "follow" => r.visit = followVisit /\ (followId \in follows <=> r.stage = "done")
    /\ r.kind = "unfollow" => r.visit = followVisit /\ (followId \in follows <=> r.stage = "asked")

FollowSettling ==
    ~followLeft /\ ~followLost =>
        /\ \A r \in followAsks : FollowDue(r)
        /\ stats # NoStats /\ ~busy => (stats.following <=> followId \in follows)

LEMMA FollowStarts == Follow!Init => FollowInv /\ FollowSettling
<1> SUFFICES ASSUME Follow!Init PROVE FollowInv /\ FollowSettling
    OBVIOUS
<1> PICK s : s = Follow!Ask("stats", followId, 1)
    OBVIOUS
<1>1. followAsks = {s} /\ followId \in People /\ stats = NoStats /\ ~busy /\ followPresses = 0 /\ followVisit = 1
    BY DEF Follow!Init
<1>2. s \in FollowAsk /\ s.kind = "stats" /\ s.visit = 1 /\ s.id = followId /\ s.stage = "asked"
    BY <1>1 DEF Follow!Ask, FollowAsk
<1>3. FollowAskOK(s)
    BY <1>1, <1>2 DEF FollowAskOK
<1>4. FollowDue(s)
    BY <1>2 DEF FollowDue
<1> QED
    BY <1>1, <1>2, <1>3, <1>4 DEF FollowInv, FollowSettling

LEMMA FollowGoes ==
    ASSUME FollowInv, FollowSettling, NEW who \in People, Follow!Go(who)
    PROVE  FollowInv' /\ FollowSettling'
<1> PICK s : s = Follow!Ask("stats", who, followVisit + 1)
    OBVIOUS
<1>1. /\ followId' = who /\ followVisit' = followVisit + 1 /\ stats' = NoStats /\ ~busy' /\ followPresses' = followPresses + 1
      /\ followAsks' = followAsks \cup {s} /\ followLost' = followLost /\ (~followLeft' => ~followLeft /\ ~busy)
    BY DEF Follow!Go, Follow!Press
<1>2. /\ s \in FollowAsk /\ s.kind = "stats" /\ s.visit = followVisit + 1 /\ s.id = who /\ s.stage = "asked"
    BY DEF Follow!Ask, FollowAsk, FollowInv
<1>3. \A r \in followAsks : r \in FollowAsk /\ FollowAskOK(r) /\ r.visit \in Nat /\ r.visit <= followVisit /\ followVisit \in Nat
    BY DEF FollowInv, FollowAsk, FollowAskOK
<1>4. \A r \in followAsks : FollowAskOK(r)' /\ r.visit # followVisit'
    BY <1>1, <1>3 DEF FollowAskOK
<1>5. FollowAskOK(s)' /\ FollowDue(s)'
    <2>1. followVisit' \in Nat
        BY <1>1 DEF FollowInv
    <2>2. FollowAskOK(s)'
        BY <1>1, <1>2, <2>1 DEF FollowAskOK
    <2> QED
        BY <1>2, <2>2 DEF FollowDue
<1>6. FollowInv'
    BY <1>1, <1>2, <1>4, <1>5 DEF FollowInv
<1>7. ASSUME ~followLeft', ~followLost' PROVE \A r \in followAsks : FollowDue(r)'
    <2> TAKE r \in followAsks
    <2>1. r.kind = "stats"
        BY <1>1, <1>3, <1>7 DEF FollowSettling, FollowDue, FollowAskOK, FollowAsk
    <2> QED
        BY <1>4, <2>1 DEF FollowDue
<1> QED
    BY <1>1, <1>5, <1>6, <1>7 DEF FollowSettling

\* The button and the number change together.
LEMMA StatsChanged ==
    ASSUME StatsOK, NEW flag \in BOOLEAN, stats.following <=> ~flag,
           stats' = [following |-> flag, followers |-> IF flag THEN stats.followers + 1 ELSE stats.followers - 1]
    PROVE  StatsOK' /\ (stats'.following <=> flag)
BY DEF StatsOK

LEMMA StatsKept == ASSUME StatsOK, UNCHANGED stats PROVE StatsOK' /\ stats'.following = stats.following
BY DEF StatsOK

LEMMA FollowToggles ==
    ASSUME FollowInv, FollowSettling, Follow!Toggle
    PROVE  FollowInv' /\ FollowSettling'
<1> PICK kind \in {"follow", "unfollow"} : kind = "unfollow" <=> stats.following
    OBVIOUS
<1> PICK s : s = Follow!Ask(kind, followId, followVisit)
    OBVIOUS
<1>1. /\ stats # NoStats /\ ~busy /\ busy' /\ followAsks' = followAsks \cup {s}
      /\ UNCHANGED <<follows, followId, followVisit, followLeft, followLost>>
    BY DEF Follow!Toggle, Follow!Toggling, Follow!Press
<1>2. followPresses' \in Nat /\ StatsOK
    BY <1>1 DEF Follow!Toggle, Follow!Press, FollowInv
<1>3. StatsOK' /\ (stats'.following <=> ~stats.following)
    <2> PICK flag \in BOOLEAN : flag <=> ~stats.following
        OBVIOUS
    <2>1. stats' = [following |-> flag, followers |-> IF flag THEN stats.followers + 1 ELSE stats.followers - 1]
        <3>1. stats' = Follow!Flip(stats.following) /\ stats.following \in BOOLEAN
            BY <1>2 DEF Follow!Toggle, Follow!Toggling, StatsOK
        <3>2. CASE stats.following = TRUE /\ flag = FALSE
            BY <3>1, <3>2 DEF Follow!Flip
        <3>3. CASE stats.following = FALSE /\ flag = TRUE
            BY <3>1, <3>3 DEF Follow!Flip
        <3> QED
            BY <3>1, <3>2, <3>3
    <2> QED
        BY <1>2, <2>1, StatsChanged
<1>4. s \in FollowAsk /\ s.kind = kind /\ s.visit = followVisit /\ s.id = followId /\ s.stage = "asked"
    BY DEF Follow!Ask, FollowAsk, FollowInv
<1>5. \A r \in followAsks : r \in FollowAsk /\ FollowAskOK(r) /\ r.visit # followVisit
    BY <1>1 DEF FollowInv, FollowAsk, FollowAskOK
<1>6. \A r \in followAsks : FollowAskOK(r)'
    BY <1>1, <1>5 DEF FollowAskOK
<1>7. FollowAskOK(s)'
    BY <1>1, <1>3, <1>4 DEF FollowAskOK, FollowInv
<1>8. FollowInv'
    BY <1>1, <1>2, <1>3, <1>4, <1>5, <1>6, <1>7 DEF FollowInv
<1>9. ASSUME ~followLeft', ~followLost' PROVE \A r \in followAsks' : FollowDue(r)'
    <2>1. stats.following <=> followId \in follows
        BY <1>1, <1>9 DEF FollowSettling
    <2>2. FollowDue(s)'
        BY <1>1, <1>4, <2>1 DEF FollowDue
    <2>3. \A r \in followAsks : FollowDue(r)'
        BY <1>1, <1>5, <1>9 DEF FollowSettling, FollowDue, FollowAsk
    <2> QED
        BY <1>1, <2>2, <2>3
<1> QED
    BY <1>1, <1>8, <1>9 DEF FollowSettling

LEMMA FollowServed ==
    ASSUME FollowInv, FollowSettling, NEW r \in followAsks, Follow!Serve(r)
    PROVE  FollowInv' /\ FollowSettling'
<1> PICK flag \in BOOLEAN : flag <=> r.id \in follows
    OBVIOUS
<1> PICK s : s = [r EXCEPT !.stage = "done", !.following = flag]
    OBVIOUS
<1>1. /\ followAsks' = (followAsks \ {r}) \cup {s} /\ r.stage = "asked"
      /\ UNCHANGED <<followId, stats, busy, followPresses, followVisit, followLeft, followLost>>
      /\ r.kind = "follow" => follows' = follows \cup {r.id}
      /\ r.kind = "unfollow" => follows' = follows \ {r.id}
      /\ r.kind = "stats" => follows' = follows
    BY DEF Follow!Serve
<1>2. r \in FollowAsk /\ FollowAskOK(r)
    BY DEF FollowInv
<1>3. /\ s \in FollowAsk /\ s.kind = r.kind /\ s.visit = r.visit /\ s.id = r.id /\ s.stage = "done"
      /\ s.following <=> r.id \in follows
    BY <1>2 DEF FollowAsk
<1>4. \A o \in followAsks' : FollowAskOK(o)'
    BY <1>1, <1>2, <1>3 DEF FollowInv, FollowAskOK, StatsOK
<1>5. FollowInv'
    <2>1. \A o, q \in followAsks' : o.visit = followVisit /\ q.visit = followVisit => o = q
        <3>1. \A o \in followAsks' : o = s \/ (o \in followAsks /\ o # r)
            BY <1>1
        <3>2. \A o, q \in followAsks : o.visit = followVisit /\ q.visit = followVisit => o = q
            BY DEF FollowInv
        <3>3. s.visit = r.visit
            BY <1>3
        <3> QED
            BY <3>1, <3>2, <3>3
    <2>2. busy => \E o \in followAsks' : o.visit = followVisit /\ o.kind # "stats"
        BY <1>1, <1>3 DEF FollowInv
    <2>3. stats' = NoStats \/ StatsOK'
        BY <1>1, StatsKept DEF FollowInv
    <2> QED
        BY <1>1, <1>3, <1>4, <2>1, <2>2, <2>3 DEF FollowInv
<1>6. ASSUME ~followLeft, ~followLost PROVE \A o \in followAsks' : FollowDue(o)'
    <2>1. FollowDue(s)'
        BY <1>1, <1>2, <1>3, <1>6 DEF FollowDue, FollowAsk, FollowAskOK, FollowSettling
    <2>2. ASSUME NEW o \in followAsks \ {r} PROVE FollowDue(o)'
        <3>1. o \in FollowAsk /\ FollowDue(o) /\ FollowDue(r) /\ (o.visit = followVisit => r.visit # followVisit)
            BY <1>6, <2>2 DEF FollowSettling, FollowInv
        <3>2. o.visit = followVisit => r.kind = "stats"
            BY <1>2, <3>1 DEF FollowDue, FollowAsk
        <3> QED
            BY <1>1, <3>1, <3>2 DEF FollowDue, FollowAsk
    <2> QED
        BY <1>1, <2>1, <2>2
<1>7. ASSUME ~followLeft, ~followLost, stats # NoStats, ~busy PROVE stats.following <=> followId \in follows'
    <2>1. FollowDue(r)
        BY <1>7 DEF FollowSettling
    <2>2. r.kind = "stats"
        BY <1>2, <1>7, <2>1 DEF FollowDue, FollowAskOK, FollowAsk
    <2> QED
        BY <1>1, <1>7, <2>2 DEF FollowSettling
<1> QED
    BY <1>1, <1>5, <1>6, <1>7 DEF FollowSettling

\* The answers.
LEMMA FollowLands ==
    ASSUME FollowInv, FollowSettling, NEW r \in followAsks, Follow!LandStats(r) \/ Follow!LandNowhere(r)
    PROVE  FollowInv' /\ FollowSettling'
<1>1. /\ followAsks' = followAsks \ {r}
      /\ UNCHANGED <<follows, followId, busy, followPresses, followVisit, followLeft, followLost>>
    BY DEF Follow!LandStats, Follow!LandNowhere, Follow!Land
<1>2. r \in FollowAsk /\ FollowAskOK(r)
    BY DEF FollowInv
<1>3. CASE Follow!LandNowhere(r)
    <2>1. stats' = stats /\ r.visit # followVisit
        BY <1>3 DEF Follow!LandNowhere
    <2>2. StatsOK => StatsOK'
        BY <2>1, StatsKept
    <2>3. \A o \in followAsks : FollowAskOK(o)'
        BY <1>1, <2>1, <2>2 DEF FollowInv, FollowAskOK
    <2>4. FollowInv'
        BY <1>1, <2>1, <2>2, <2>3 DEF FollowInv
    <2> QED
        BY <1>1, <2>1, <2>4 DEF FollowSettling, FollowDue
<1>4. CASE Follow!LandStats(r)
    <2>1. /\ r.kind = "stats" /\ r.visit = followVisit
          /\ stats' = IF r.stage = "done" THEN [following |-> r.following, followers |-> IF r.following THEN 1 ELSE 0] ELSE NoStats
        BY <1>4 DEF Follow!LandStats, Follow!Land
    <2>2. stats' = NoStats \/ (StatsOK' /\ r.stage = "done" /\ (stats'.following <=> r.following))
        BY <1>2, <2>1 DEF StatsOK, FollowAsk
    <2>3. \A o \in followAsks' : o \in followAsks /\ o \in FollowAsk /\ FollowAskOK(o) /\ o.visit # followVisit
        BY <1>1, <2>1 DEF FollowInv
    <2>4. \A o \in followAsks' : FollowAskOK(o)'
        BY <1>1, <2>3 DEF FollowAskOK
    <2>5. FollowInv'
        <3>1. ~busy
            BY <1>2, <2>1 DEF FollowAskOK
        <3> QED
            BY <1>1, <2>2, <2>3, <2>4, <3>1 DEF FollowInv
    <2>6. ASSUME ~followLeft, ~followLost PROVE \A o \in followAsks' : FollowDue(o)'
        BY <1>1, <2>3, <2>6 DEF FollowSettling, FollowDue, FollowAsk
    <2>7. ASSUME ~followLeft, ~followLost, stats' # NoStats PROVE stats'.following <=> followId \in follows
        <3>1. FollowDue(r)
            BY <2>7 DEF FollowSettling
        <3> QED
            BY <2>1, <2>2, <2>7, <3>1 DEF FollowDue
    <2> QED
        BY <1>1, <2>5, <2>6, <2>7 DEF FollowSettling
<1> QED
    BY <1>3, <1>4

LEMMA FollowAnswered ==
    ASSUME FollowInv, FollowSettling, NEW r \in followAsks, Follow!LandToggled(r) \/ Follow!LandUntoggled(r)
    PROVE  FollowInv' /\ FollowSettling'
<1>1. /\ followAsks' = followAsks \ {r} /\ r.kind # "stats" /\ r.visit = followVisit /\ ~busy'
      /\ UNCHANGED <<follows, followId, followPresses, followVisit, followLeft>>
    BY DEF Follow!LandToggled, Follow!LandUntoggled, Follow!Land
<1>2. r \in FollowAsk /\ FollowAskOK(r) /\ StatsOK /\ r.kind \in {"follow", "unfollow"} /\ (stats.following <=> r.kind = "follow")
    BY <1>1 DEF FollowInv, FollowAskOK, FollowAsk
<1>3. \A o \in followAsks' : o \in followAsks /\ o \in FollowAsk /\ FollowAskOK(o) /\ o.visit # followVisit
    BY <1>1 DEF FollowInv
<1>4. \A o \in followAsks' : FollowAskOK(o)'
    BY <1>1, <1>3 DEF FollowAskOK
<1>5. /\ StatsOK'
      /\ \/ r.stage = "done" /\ followLost' = followLost /\ (stats'.following <=> r.kind = "follow")
         \/ (~followLost' => ~followLost /\ r.stage # "done") /\ (stats'.following <=> r.kind = "unfollow")
    <2>1. CASE Follow!LandToggled(r)
        <3>1. stats' = stats /\ r.stage = "done" /\ followLost' = followLost
            BY <2>1 DEF Follow!LandToggled
        <3> QED
            BY <1>2, <3>1 DEF StatsOK
    <2>2. CASE Follow!LandUntoggled(r)
        <3>1. stats' = Follow!Rollback(r.kind = "unfollow") /\ (~followLost' => ~followLost /\ r.stage # "done")
            BY <2>2 DEF Follow!LandUntoggled
        <3> PICK flag \in BOOLEAN : flag = (r.kind = "unfollow")
            OBVIOUS
        <3>2. stats' = [following |-> flag, followers |-> IF flag THEN stats.followers + 1 ELSE stats.followers - 1]
            BY <3>1 DEF Follow!Rollback
        <3>3. StatsOK' /\ (stats'.following <=> flag)
            BY <1>2, <3>2, StatsChanged
        <3> QED
            BY <3>1, <3>3
    <2> QED
        BY <2>1, <2>2
<1>6. FollowInv'
    BY <1>1, <1>3, <1>4, <1>5 DEF FollowInv
<1>7. ASSUME ~followLeft', ~followLost' PROVE \A o \in followAsks' : FollowDue(o)'
    <2>1. \A o \in followAsks' : FollowDue(o) /\ o.kind \in {"stats", "follow", "unfollow"}
        BY <1>1, <1>3, <1>5, <1>7 DEF FollowSettling, FollowAsk
    <2> QED
        BY <1>1, <1>3, <2>1 DEF FollowDue
<1>8. ASSUME ~followLeft', ~followLost' PROVE stats'.following <=> followId \in follows
    <2>1. FollowDue(r)
        BY <1>1, <1>5, <1>8 DEF FollowSettling
    <2> QED
        BY <1>2, <1>5, <1>8, <2>1 DEF FollowDue, FollowAsk
<1> QED
    BY <1>1, <1>6, <1>7, <1>8 DEF FollowSettling

LEMMA FollowStep == FollowInv /\ FollowSettling /\ [Follow!Next]_(Follow!followVars) => FollowInv' /\ FollowSettling'
<1> SUFFICES ASSUME FollowInv, FollowSettling, [Follow!Next]_(Follow!followVars) PROVE FollowInv' /\ FollowSettling'
    OBVIOUS
<1>1. CASE UNCHANGED Follow!followVars
    BY <1>1 DEF Follow!followVars, FollowInv, FollowAskOK, StatsOK, FollowSettling, FollowDue
<1> QED
    BY <1>1, FollowGoes, FollowToggles, FollowServed, FollowLands, FollowAnswered DEF Follow!Next

(* Of the follow button alone, for any profiles and any bounds: the number  *)
(* goes with the button, and both with the server once all is answered.     *)
THEOREM FollowButtonIsRight == Follow!Spec => [](Follow!CountAgrees /\ Follow!ButtonSettles)
<1>1. Follow!Spec => [](FollowInv /\ FollowSettling)
    BY FollowStarts, FollowStep, PTL DEF Follow!Spec
<1>2. FollowInv => Follow!CountAgrees
    BY DEF FollowInv, StatsOK, Follow!CountAgrees
<1>3. FollowInv /\ FollowSettling => Follow!ButtonSettles
    <2> SUFFICES ASSUME FollowInv, FollowSettling, followAsks = {}, ~followLeft, ~followLost, stats # NoStats
                 PROVE  stats.following = (followId \in follows)
        BY DEF Follow!ButtonSettles
    <2>1. stats.following \in BOOLEAN /\ ~busy
        BY DEF FollowInv, StatsOK
    <2> QED
        BY <2>1 DEF FollowSettling
<1> QED
    BY <1>1, <1>2, <1>3, PTL

-----------------------------------------------------------------------------
(* The listings.                                                            *)

(* What is asked is a question, and the page is busy with it; the search    *)
(* sets its hits and the line over them together.                           *)
ListInv ==
    /\ \A r \in listAsks : r.q \in Questions
    /\ List!TypeOK
    /\ List!LabelIsOfTheHits

LEMMA ListStarts == List!Init => ListInv
<1> SUFFICES ASSUME List!Init PROVE ListInv
    OBVIOUS
<1>1. listQ \in Questions \cup {""} /\ listRows = "no rows" /\ label = "" /\ (listLoading <=> listQ # "")
    BY DEF List!Init, List!Mounted, List!Searched, List!Fresh
<1>2. CASE listQ = ""
    <2>1. listAsks = {}
        BY <1>2 DEF List!Init
    <2> QED
        BY <1>1, <1>2, <2>1 DEF ListInv, List!TypeOK, List!LabelIsOfTheHits
<1>3. CASE listQ # ""
    <2> PICK s : s = [n |-> 0, q |-> listQ]
        OBVIOUS
    <2>1. listAsks = {s} /\ s.q = listQ /\ listQ \in Questions
        BY <1>1, <1>3 DEF List!Init
    <2> QED
        BY <1>1, <2>1 DEF ListInv, List!TypeOK, List!LabelIsOfTheHits
<1> QED
    BY <1>2, <1>3

LEMMA ListMoves ==
    ASSUME ListInv, List!SearchNothing \/ \E what \in Questions : List!Search(what) \/ List!ShowTag(what)
    PROVE  ListInv'
<1>1. CASE List!SearchNothing
    BY <1>1 DEF List!SearchNothing, List!Move, ListInv, List!TypeOK, List!LabelIsOfTheHits
<1>2. ASSUME NEW what \in Questions, List!Search(what) \/ List!ShowTag(what) PROVE ListInv'
    <2> PICK s : s = List!Ask(what)
        OBVIOUS
    <2>1. listAsks' = listAsks \cup {s} /\ s.q = what /\ UNCHANGED <<listPage, listRows, label>>
        BY <1>2 DEF List!Search, List!ShowTag, List!Move, List!Run, List!Ask
    <2> QED
        BY <2>1 DEF ListInv, List!TypeOK, List!LabelIsOfTheHits
<1> QED
    BY <1>1, <1>2

LEMMA ListAnswered ==
    ASSUME ListInv, NEW r \in listAsks,
           \/ List!LandHits(r) \/ List!LandTagged(r) \/ List!LandRelated(r) \/ List!LandBookmarks(r) \/ List!LandTags(r)
           \/ List!FailSearch(r) \/ List!FailTag(r) \/ List!FailRelated(r) \/ List!FailBookmarks(r) \/ List!FailTags(r)
    PROVE  ListInv'
<1>1. /\ listAsks' = listAsks \ {r} /\ ~listLoading' /\ listPage' = listPage /\ listRows' \in {listRows, r.q, "no rows"}
      /\ listPage = "search" => (label' = r.q /\ listRows' = r.q) \/ UNCHANGED <<listRows, label>>
    BY DEF List!LandHits, List!LandTagged, List!LandRelated, List!LandBookmarks, List!LandTags, List!FailSearch, List!FailTag,
           List!FailRelated, List!FailBookmarks, List!FailTags, List!Land
<1> QED
    BY <1>1 DEF ListInv, List!TypeOK, List!LabelIsOfTheHits

LEMMA ListStep == ListInv /\ [List!Next]_(List!listingVars) => ListInv'
<1> SUFFICES ASSUME ListInv, [List!Next]_(List!listingVars) PROVE ListInv'
    OBVIOUS
<1>1. CASE UNCHANGED List!listingVars
    BY <1>1 DEF List!listingVars, ListInv, List!TypeOK, List!LabelIsOfTheHits
<1> QED
    BY <1>1, ListMoves, ListAnswered DEF List!Next

(* Of the listings alone, for any questions and bounds: rows are of a       *)
(* question, no page is busy with nothing, and the line over the hits of a  *)
(* search names their query.                                                *)
THEOREM HitsAreLabelled == List!Spec => [](List!TypeOK /\ List!LabelIsOfTheHits)
BY ListStarts, ListStep, PTL DEF List!Spec, ListInv

-----------------------------------------------------------------------------
(* The profile.                                                             *)

Bio     == Bios \cup {"me", "other", ""}
Address == {"mine", "changed", ""}
Shown   == [id : {"me", "other"}, bio : Bio, email : Address, avatar : Nat]

ProfileAsk ==
    [n : Nat, kind : {"user", "save", "avatar", "lateSave", "lateAvatar"}, id : {"me", "other"}, stage : {"asked", "done"}, bio : Bio, email : Address,
     password : BOOLEAN, avatar : Nat]

(* Somebody has been drawn once there is a form to send; and the reader's   *)
(* own copy waits for the answer to the save, or to the upload, that the    *)
(* server has done.  What was given up has ended the proviso of that copy.  *)
ProfileAskOK(r) ==
    /\ r.kind \in {"lateSave", "lateAvatar"} => profileLost
    /\ r.kind \in {"save", "avatar"} => user # NoUser
    /\ ~profileLost /\ r.kind = "save" => IF r.stage = "done" THEN bio["me"] = r.bio ELSE own.bio = bio["me"]
    /\ ~profileLost /\ r.kind = "avatar" => IF r.stage = "done" THEN avatar = r.avatar ELSE own.avatar = avatar

(* The flags of the page stand for requests, of the save and of the upload  *)
(* for the only one.                                                        *)
ProfileInv ==
    /\ bio \in [{"me", "other"} -> Bio] /\ avatar \in Nat /\ own \in [bio : Bio, avatar : Nat]
    /\ profileId \in {"me", "other"} /\ profilePresses \in Nat
    /\ user \in Shown \cup {NoUser} /\ editBio \in Bio /\ editEmail \in Address
    /\ profileLoading \/ profileError \/ user # NoUser
    /\ profileAsks \subseteq ProfileAsk
    /\ \A r \in profileAsks : ProfileAskOK(r)
    /\ profileLoading => \E r \in profileAsks : r.kind = "user"
    /\ profileSaving <=> \E r \in profileAsks : r.kind = "save"
    /\ uploadingAvatar <=> \E r \in profileAsks : r.kind = "avatar"
    /\ \A o, r \in profileAsks : o.kind = r.kind /\ r.kind \in {"save", "avatar"} => o = r
    /\ Profile!OwnCopyIsServers

\* What a form, or a page, asks for.
Asked(kind, who, text, address) ==
    [n : Nat, kind : {kind}, id : {who}, stage : {"asked"}, bio : {text}, email : {address}, password : BOOLEAN, avatar : Nat]

GoAsk(who)     == Profile!Ask("user", who, "", "", FALSE)
PlainAsk(kind) == Profile!Ask(kind, profileId, "", "", FALSE)
FormAsk        == Profile!Ask("save", profileId, editBio, editEmail, Profile!emailChanged)

LEMMA NewProfileAsk ==
    ASSUME ProfileInv
    PROVE  /\ \A kind : PlainAsk(kind) \in Asked(kind, profileId, "", "")
           /\ FormAsk \in Asked("save", profileId, editBio, editEmail)
<1>1. \A flag \in BOOLEAN : \A kind, text, address :
          Profile!Ask(kind, profileId, text, address, flag) \in Asked(kind, profileId, text, address)
    BY DEF Profile!Ask, Asked, ProfileInv
<1>2. Profile!emailChanged \in BOOLEAN
    BY DEF Profile!emailChanged
<1> QED
    BY <1>1, <1>2 DEF PlainAsk, FormAsk

LEMMA ProfileStarts == Profile!Init => ProfileInv
<1> SUFFICES ASSUME Profile!Init PROVE ProfileInv
    OBVIOUS
<1> PICK s : s = Profile!Ask("user", profileId, "", "", FALSE)
    OBVIOUS
<1>1. /\ profileAsks = {s} /\ profilePresses = 0 /\ profileId \in {"me", "other"} /\ user = NoUser /\ profileLoading
      /\ ~profileSaving /\ ~uploadingAvatar /\ avatar = 0 /\ editBio = "" /\ editEmail = ""
    BY DEF Profile!Init
<1>2. s \in ProfileAsk /\ s.kind = "user"
    BY <1>1 DEF Profile!Ask, ProfileAsk, Bio, Address
<1>3. own = [bio |-> "me", avatar |-> 0] /\ bio = [u \in {"me", "other"} |-> u]
    BY DEF Profile!Init
<1> QED
    BY <1>1, <1>2, <1>3 DEF ProfileInv, ProfileAskOK, Profile!OwnCopyIsServers, Bio, Address

\* As long as the server and the reader's copy stay.
LEMMA ProfileGoesOn ==
    ASSUME ProfileInv, UNCHANGED <<bio, avatar, own, profileLost>>, profileId' \in {"me", "other"}, profilePresses' \in Nat,
           user' \in Shown \cup {NoUser}, user # NoUser => user' # NoUser, editBio' \in Bio, editEmail' \in Address,
           profileLoading' \/ profileError' \/ user' # NoUser,
           profileAsks' \subseteq ProfileAsk,
           \A r \in profileAsks' \ profileAsks :
               r.kind \in {"user", "save", "avatar"}
               /\ (r.kind # "user" => user' # NoUser /\ r.stage = "asked" /\ \A o \in profileAsks : o.kind # r.kind),
           \A r \in profileAsks \ profileAsks' : r.kind = "user",
           \A o, r \in profileAsks' \ profileAsks : o = r,
           profileLoading' => \E r \in profileAsks' : r.kind = "user",
           profileSaving' <=> \E r \in profileAsks' : r.kind = "save",
           uploadingAvatar' <=> \E r \in profileAsks' : r.kind = "avatar"
    PROVE  ProfileInv'
<1>1. \A r \in profileAsks : ProfileAskOK(r)'
    BY DEF ProfileInv, ProfileAskOK
<1>2. \A r \in profileAsks' \ profileAsks : ProfileAskOK(r)'
    BY DEF ProfileInv, ProfileAskOK, Profile!OwnCopyIsServers
<1>3. \A o, r \in profileAsks' : o.kind = r.kind /\ r.kind \in {"save", "avatar"} => o = r
    BY DEF ProfileInv
<1>4. Profile!OwnCopyIsServers'
    BY DEF ProfileInv, Profile!OwnCopyIsServers
<1> QED
    BY <1>1, <1>2, <1>3, <1>4 DEF ProfileInv

LEMMA ProfileRead ==
    ASSUME ProfileInv, Profile!Go \/ Profile!StartEditing \/ Profile!Type \/ Profile!Cancel PROVE ProfileInv'
<1>1. CASE Profile!Go
    <2> PICK s : s = GoAsk(profileId')
        OBVIOUS
    <2>1. /\ UNCHANGED <<bio, avatar, own, profileLost, user, editBio, editEmail, profileSaving, uploadingAvatar>>
          /\ profilePresses' = profilePresses + 1 /\ profileLoading' /\ profileAsks' = profileAsks \cup {s}
          /\ profileId' = IF profileId = "me" THEN "other" ELSE "me"
        BY <1>1 DEF Profile!Go, Profile!Press, Profile!Send, Profile!form, GoAsk
    <2>2. s \in ProfileAsk /\ s.kind = "user"
        BY <2>1 DEF GoAsk, Profile!Ask, ProfileAsk, Bio, Address, ProfileInv
    <2>3. /\ profileLoading' => \E r \in profileAsks' : r.kind = "user"
          /\ profileSaving' <=> \E r \in profileAsks' : r.kind = "save"
          /\ uploadingAvatar' <=> \E r \in profileAsks' : r.kind = "avatar"
        BY <2>1, <2>2 DEF ProfileInv
    <2>4. profileAsks' \subseteq ProfileAsk /\ profilePresses' \in Nat
        BY <2>1, <2>2 DEF ProfileInv
    <2>5. \A r \in profileAsks' \ profileAsks : r = s
        BY <2>1
    <2>6. user' \in Shown \cup {NoUser} /\ editBio' \in Bio /\ editEmail' \in Address
        BY <2>1 DEF ProfileInv
    <2>7. profileId' \in {"me", "other"}
        BY <2>1
    <2> QED
        BY <2>1, <2>2, <2>3, <2>4, <2>5, <2>6, <2>7, ProfileGoesOn
<1>2. CASE Profile!StartEditing \/ Profile!Type \/ Profile!Cancel
    <2>1. /\ UNCHANGED <<bio, avatar, own, profileLost, profileId, user, profileLoading, profileError, profileSaving, uploadingAvatar,
                         profileAsks>>
          /\ profilePresses' = profilePresses + 1
        BY <1>2 DEF Profile!StartEditing, Profile!Type, Profile!Cancel, Profile!Press
    <2>2. editBio' \in Bio /\ editEmail' \in Address
        BY <1>2 DEF Profile!StartEditing, Profile!Type, Profile!Cancel, Profile!Drawn, ProfileInv, Shown, Bio, Address
    <2> QED
        BY <2>1, <2>2, ProfileGoesOn DEF ProfileInv
<1> QED
    BY <1>1, <1>2

LEMMA ProfileSends ==
    ASSUME ProfileInv, Profile!SaveProfile \/ Profile!Upload PROVE ProfileInv'
<1>1. CASE Profile!SaveProfile
    <2> PICK s : s = FormAsk
        OBVIOUS
    <2>1. /\ UNCHANGED <<bio, avatar, own, profileLost, profileId, user, profileLoading, profileError, editBio, editEmail, uploadingAvatar>>
          /\ profilePresses' = profilePresses + 1 /\ profileAsks' = profileAsks \cup {s}
          /\ ~profileSaving /\ profileSaving' /\ user # NoUser
        BY <1>1 DEF Profile!SaveProfile, Profile!Saving, Profile!Press, Profile!Send, Profile!form, Profile!Drawn, FormAsk
    <2>2. s \in ProfileAsk /\ s.kind = "save" /\ s.stage = "asked"
        <3>1. s \in Asked("save", profileId, editBio, editEmail)
            BY NewProfileAsk
        <3>2. profileId \in {"me", "other"} /\ editBio \in Bio /\ editEmail \in Address
            BY DEF ProfileInv
        <3> QED
            BY <3>1, <3>2 DEF Asked, ProfileAsk
    <2> QED
        BY <2>1, <2>2, ProfileGoesOn DEF ProfileInv
<1>2. CASE Profile!Upload
    <2> PICK s : s = PlainAsk("avatar")
        OBVIOUS
    <2>1. /\ UNCHANGED <<bio, avatar, own, profileLost, profileId, user, profileLoading, profileError, editBio, editEmail, profileSaving>>
          /\ profilePresses' = profilePresses + 1 /\ profileAsks' = profileAsks \cup {s}
          /\ ~uploadingAvatar /\ uploadingAvatar' /\ user # NoUser
        BY <1>2 DEF Profile!Upload, Profile!Press, Profile!Send, Profile!form, Profile!Drawn, PlainAsk
    <2>2. s \in ProfileAsk /\ s.kind = "avatar" /\ s.stage = "asked"
        <3>1. s \in Asked("avatar", profileId, "", "")
            BY NewProfileAsk
        <3>2. profileId \in {"me", "other"} /\ "" \in Bio /\ "" \in Address
            BY DEF ProfileInv, Bio, Address
        <3> QED
            BY <3>1, <3>2 DEF Asked, ProfileAsk
    <2> QED
        BY <2>1, <2>2, ProfileGoesOn DEF ProfileInv
<1> QED
    BY <1>1, <1>2

\* The server.
LEMMA ProfileServed ==
    ASSUME ProfileInv, NEW r \in profileAsks, Profile!ServeUser(r) \/ Profile!ServeSave(r) \/ Profile!ServeAvatar(r)
    PROVE  ProfileInv'
<1>1. /\ r \in ProfileAsk /\ ProfileAskOK(r) /\ r.id \in {"me", "other"} /\ r.n \in Nat /\ r.bio \in Bio
      /\ r.kind \in {"user", "save", "avatar"}
    BY DEF ProfileInv, ProfileAsk, Profile!ServeUser, Profile!ServeSave, Profile!ServeAvatar
<1>2. PICK s \in ProfileAsk :
          /\ s.kind = r.kind /\ s.stage = "done" /\ profileAsks' = (profileAsks \ {r}) \cup {s}
          /\ r.kind = "save" => s.bio = r.bio
          /\ r.kind = "avatar" => s.avatar = r.n
    <2>1. CASE Profile!ServeUser(r)
        <3> PICK s : s = [r EXCEPT !.stage = "done", !.bio = bio[r.id], !.avatar = IF r.id = "me" THEN avatar ELSE 0]
            OBVIOUS
        <3>1. profileAsks' = (profileAsks \ {r}) \cup {s} /\ r.kind = "user"
            BY <2>1 DEF Profile!ServeUser
        <3>2. s \in ProfileAsk /\ s.kind = r.kind /\ s.stage = "done"
            BY <1>1 DEF ProfileAsk, ProfileInv
        <3> QED
            BY <3>1, <3>2
    <2>2. CASE Profile!ServeSave(r)
        <3> PICK s : s = [r EXCEPT !.stage = "done"]
            OBVIOUS
        <3>1. profileAsks' = (profileAsks \ {r}) \cup {s} /\ r.kind = "save"
            BY <2>2 DEF Profile!ServeSave, Profile!Done
        <3>2. s \in ProfileAsk /\ s.kind = r.kind /\ s.stage = "done" /\ s.bio = r.bio
            BY <1>1 DEF ProfileAsk
        <3> QED
            BY <3>1, <3>2
    <2>3. CASE Profile!ServeAvatar(r)
        <3> PICK s : s = [r EXCEPT !.stage = "done", !.avatar = r.n]
            OBVIOUS
        <3>1. profileAsks' = (profileAsks \ {r}) \cup {s} /\ r.kind = "avatar"
            BY <2>3 DEF Profile!ServeAvatar
        <3>2. s \in ProfileAsk /\ s.kind = r.kind /\ s.stage = "done" /\ s.avatar = r.n
            BY <1>1 DEF ProfileAsk
        <3> QED
            BY <3>1, <3>2
    <2> QED
        BY <2>1, <2>2, <2>3
<1>3. /\ UNCHANGED <<own, profileId, user, profileLoading, profileError, editBio, editEmail, profileSaving, uploadingAvatar,
                     profilePresses, profileLost>>
      /\ r.kind = "user" => UNCHANGED <<bio, avatar>>
      /\ r.kind = "save" => avatar' = avatar /\ bio' = [bio EXCEPT !["me"] = r.bio]
      /\ r.kind = "avatar" => bio' = bio /\ avatar' = r.n
    BY DEF Profile!ServeUser, Profile!ServeSave, Profile!ServeAvatar, Profile!Serve, Profile!form
<1>4. /\ bio' \in [{"me", "other"} -> Bio] /\ avatar' \in Nat
      /\ r.kind = "save" => bio'["me"] = r.bio
      /\ r.kind # "save" => bio' = bio
      /\ r.kind # "avatar" => avatar' = avatar
    BY <1>1, <1>3 DEF ProfileInv, ProfileAsk
<1>5. ProfileAskOK(s)'
    BY <1>1, <1>2, <1>3, <1>4 DEF ProfileAskOK
<1>6. \A o \in profileAsks \ {r} : ProfileAskOK(o)'
    <2> TAKE o \in profileAsks \ {r}
    <2>1. ProfileAskOK(o) /\ (o.kind = r.kind => r.kind = "user")
        BY <1>1 DEF ProfileInv, ProfileAsk
    <2> QED
        BY <1>3, <1>4, <2>1 DEF ProfileAskOK
<1>7. \A o \in profileAsks' : o \in ProfileAsk /\ ProfileAskOK(o)'
    BY <1>2, <1>5, <1>6 DEF ProfileInv
<1>8. \A kind : (\E o \in profileAsks' : o.kind = kind) <=> \E o \in profileAsks : o.kind = kind
    BY <1>2
<1>9. \A o, q \in profileAsks' : o.kind = q.kind /\ q.kind \in {"save", "avatar"} => o = q
    BY <1>2 DEF ProfileInv
<1>10. Profile!OwnCopyIsServers'
    <2>1. profileLost' = profileLost /\ own' = own
        BY <1>3
    <2>2. r.kind # "save" => ((\A o \in profileAsks' : o.kind # "save") => \A o \in profileAsks : o.kind # "save")
        BY <1>2
    <2>3. r.kind # "avatar" => ((\A o \in profileAsks' : o.kind # "avatar") => \A o \in profileAsks : o.kind # "avatar")
        BY <1>2
    <2>4. s \in profileAsks' /\ s.kind = r.kind
        BY <1>2
    <2> QED
        BY <1>4, <2>1, <2>2, <2>3, <2>4 DEF ProfileInv, Profile!OwnCopyIsServers
<1> QED
    BY <1>3, <1>4, <1>7, <1>8, <1>9, <1>10 DEF ProfileInv

LEMMA ProfileServedLate ==
    ASSUME ProfileInv, NEW r \in profileAsks, Profile!ServeLate(r) PROVE ProfileInv'
<1>1. r \in ProfileAsk /\ r.n \in Nat /\ r.bio \in Bio /\ r.kind \in {"lateSave", "lateAvatar"} /\ profileLost
    BY DEF ProfileInv, ProfileAsk, ProfileAskOK, Profile!ServeLate
<1>2. /\ UNCHANGED <<own, profileId, user, profileLoading, profileError, editBio, editEmail, profileSaving, uploadingAvatar,
                     profilePresses, profileLost>>
      /\ profileAsks' = profileAsks \ {r}
      /\ bio' = bio \/ bio' = [bio EXCEPT !["me"] = r.bio]
      /\ avatar' = avatar \/ avatar' = r.n
    BY DEF Profile!ServeLate, Profile!Serve, Profile!form
<1>3. bio' \in [{"me", "other"} -> Bio] /\ avatar' \in Nat
    BY <1>1, <1>2 DEF ProfileInv
<1>4. \A o \in profileAsks' : ProfileAskOK(o)'
    BY <1>1, <1>2 DEF ProfileInv, ProfileAskOK
<1>5. /\ profileLoading' => \E o \in profileAsks' : o.kind = "user"
      /\ profileSaving' <=> \E o \in profileAsks' : o.kind = "save"
      /\ uploadingAvatar' <=> \E o \in profileAsks' : o.kind = "avatar"
    BY <1>1, <1>2 DEF ProfileInv
<1>6. Profile!OwnCopyIsServers'
    BY <1>1, <1>2 DEF Profile!OwnCopyIsServers
<1> QED
    BY <1>2, <1>3, <1>4, <1>5, <1>6 DEF ProfileInv

\* A request goes, or a late one of no other kind stays for it.
Leaves(r, L) ==
    /\ profileAsks' = (profileAsks \ {r}) \cup L
    /\ \A o \in L : o \in ProfileAsk /\ o.kind \in {"lateSave", "lateAvatar"} /\ profileLost'

LEMMA LandLeaves ==
    ASSUME ProfileInv, NEW r \in profileAsks, NEW late \in {"lateSave", "lateAvatar"},
           (Profile!Land(r) /\ profileLost' = profileLost) \/ Profile!Errs(r, late)
    PROVE  /\ \E L : Leaves(r, L)
           /\ UNCHANGED <<bio, avatar, profileId, profilePresses>>
           /\ ~profileLost' => ~profileLost
           /\ Profile!Errs(r, late) /\ ~profileLost' => r.stage # "done"
<1>1. r \in ProfileAsk
    BY DEF ProfileInv
<1>2. CASE profileAsks' = profileAsks \ {r}
    <2>1. Leaves(r, {})
        BY <1>2 DEF Leaves
    <2>2. Profile!Errs(r, late) => (~profileLost' => ~profileLost) /\ (~profileLost' => r.stage # "done")
        <3> SUFFICES ASSUME Profile!Errs(r, late), ~profileLost' PROVE ~profileLost /\ r.stage # "done"
            OBVIOUS
        <3>1. profileLost' = (profileLost \/ r.stage = "done") \/ profileLost' = TRUE
            BY DEF Profile!Errs
        <3> QED
            BY <3>1, Zenon
    <2> QED
        BY <2>1, <2>2 DEF Profile!Land, Profile!Errs, Profile!Stays
<1>3. CASE profileAsks' # profileAsks \ {r}
    <2> PICK o : o = [r EXCEPT !.kind = late]
        OBVIOUS
    <2>1. profileAsks' = (profileAsks \ {r}) \cup {o} /\ profileLost' /\ profileLost' = TRUE /\ r.stage = "asked"
        BY <1>3 DEF Profile!Land, Profile!Errs
    <2>2. o \in ProfileAsk /\ o.kind = late
        BY <1>1 DEF ProfileAsk
    <2>3. Leaves(r, {o})
        BY <2>1, <2>2 DEF Leaves
    <2> QED
        BY <2>1, <2>3 DEF Profile!Land, Profile!Errs, Profile!Stays
<1> QED
    BY <1>2, <1>3

\* The answers: a flag goes with the request it stood for.
LEMMA UserLands ==
    ASSUME ProfileInv, NEW r \in profileAsks, Profile!LandUser(r) \/ Profile!LandNoUser(r)
    PROVE  ProfileInv'
<1>1. r \in ProfileAsk
    BY DEF ProfileInv
<1>2. /\ r.kind = "user" /\ profileAsks' = profileAsks \ {r} /\ ~profileLoading'
      /\ UNCHANGED <<bio, avatar, own, profileId, profilePresses, profileSaving, uploadingAvatar, profileLost>>
    BY DEF Profile!LandUser, Profile!LandNoUser, Profile!Land, Profile!Stays
<1>3. /\ user' \in Shown \cup {NoUser} /\ (user # NoUser => user' # NoUser) /\ (profileError' \/ user' # NoUser)
      /\ editBio' \in Bio /\ editEmail' \in Address
    <2>1. CASE Profile!LandUser(r)
        <3>1. user' = [id |-> r.id, bio |-> r.bio, email |-> "", avatar |-> r.avatar] /\ editBio' = r.bio /\ editEmail' = ""
            BY <2>1 DEF Profile!LandUser
        <3>2. user' \in Shown /\ editBio' \in Bio /\ editEmail' \in Address
            BY <1>1, <3>1 DEF Shown, ProfileAsk, Address
        <3> QED
            BY <3>2, ProfileAssumption DEF Shown, Bio, Address
    <2>2. CASE Profile!LandNoUser(r)
        BY <2>2 DEF Profile!LandNoUser, Profile!form, ProfileInv
    <2> QED
        BY <2>1, <2>2
<1>4. /\ profileSaving' <=> \E o \in profileAsks' : o.kind = "save"
      /\ uploadingAvatar' <=> \E o \in profileAsks' : o.kind = "avatar"
    BY <1>2 DEF ProfileInv
<1>5. profileAsks' \subseteq ProfileAsk /\ profileId' \in {"me", "other"} /\ profilePresses' \in Nat
    BY <1>2 DEF ProfileInv
<1> QED
    BY <1>2, <1>3, <1>4, <1>5, ProfileGoesOn

LEMMA SaveLands ==
    ASSUME ProfileInv, NEW r \in profileAsks, Profile!LandSaved(r) \/ Profile!LandUnsaved(r)
    PROVE  ProfileInv'
<1>1. r \in ProfileAsk /\ ProfileAskOK(r)
    BY DEF ProfileInv
<1>2. /\ r.kind = "save" /\ ~profileSaving'
      /\ UNCHANGED <<bio, avatar, profileId, profilePresses, profileLoading, profileError, editBio, editEmail, uploadingAvatar>>
      /\ ~profileLost' => ~profileLost
    BY LandLeaves DEF Profile!LandSaved, Profile!LandUnsaved, Profile!form
<1> PICK L : Leaves(r, L)
    BY LandLeaves DEF Profile!LandSaved, Profile!LandUnsaved
<1>3. /\ user' \in Shown /\ user' # NoUser /\ own' \in [bio : Bio, avatar : Nat] /\ own'.avatar = own.avatar
      /\ ~profileLost' => ~profileLost /\ own'.bio = bio["me"]
    <2>1. user \in Shown /\ user # NoUser
        BY <1>1, <1>2 DEF ProfileInv, ProfileAskOK
    <2>2. CASE Profile!LandSaved(r)
        <3>1. /\ user' = [user EXCEPT !.bio = r.bio, !.email = r.email] /\ own' = [own EXCEPT !.bio = r.bio]
              /\ r.stage = "done" /\ profileLost' = profileLost
            BY <2>2 DEF Profile!LandSaved
        <3>2. user' \in Shown
            BY <1>1, <2>1, <3>1 DEF Shown, ProfileAsk
        <3>3. own' \in [bio : Bio, avatar : Nat] /\ own'.avatar = own.avatar /\ own'.bio = r.bio
            BY <1>1, <3>1 DEF ProfileAsk, ProfileInv
        <3>4. ~profileLost => r.bio = bio["me"]
            BY <1>1, <1>2, <3>1 DEF ProfileAskOK
        <3> QED
            BY <3>1, <3>2, <3>3, <3>4, ProfileAssumption DEF Shown, Bio, Address
    <2>3. CASE Profile!LandUnsaved(r)
        <3>1. user' = user /\ own' = own /\ (~profileLost' => ~profileLost /\ r.stage # "done")
            BY <2>3, LandLeaves DEF Profile!LandUnsaved
        <3> QED
            BY <1>1, <1>2, <2>1, <3>1 DEF ProfileInv, ProfileAskOK
    <2> QED
        BY <2>2, <2>3
<1>4. /\ \A o \in profileAsks' : o \in L \/ (o \in profileAsks /\ o.kind # "save")
      /\ \A o \in profileAsks : o # r => o \in profileAsks'
      /\ \A o \in L : o \in ProfileAsk /\ o.kind \in {"lateSave", "lateAvatar"} /\ profileLost'
    BY <1>2 DEF ProfileInv, Leaves
<1>5. \A o \in profileAsks' : o \in ProfileAsk /\ ProfileAskOK(o)'
    BY <1>2, <1>3, <1>4 DEF ProfileInv, ProfileAskOK
<1>6. Profile!OwnCopyIsServers'
    BY <1>2, <1>3, <1>4 DEF ProfileInv, Profile!OwnCopyIsServers
<1>7. /\ profileLoading' => \E o \in profileAsks' : o.kind = "user"
      /\ profileSaving' <=> \E o \in profileAsks' : o.kind = "save"
      /\ uploadingAvatar' <=> \E o \in profileAsks' : o.kind = "avatar"
    BY <1>2, <1>4 DEF ProfileInv
<1>8. \A o, q \in profileAsks' : o.kind = q.kind /\ q.kind \in {"save", "avatar"} => o = q
    BY <1>4 DEF ProfileInv
<1> QED
    BY <1>2, <1>3, <1>5, <1>6, <1>7, <1>8 DEF ProfileInv

LEMMA UploadLands ==
    ASSUME ProfileInv, NEW r \in profileAsks, Profile!LandUploaded(r) \/ Profile!LandNotUploaded(r)
    PROVE  ProfileInv'
<1>1. r \in ProfileAsk /\ ProfileAskOK(r)
    BY DEF ProfileInv
<1>2. /\ r.kind = "avatar" /\ ~uploadingAvatar'
      /\ UNCHANGED <<bio, avatar, profileId, profilePresses, profileLoading, profileError, editBio, editEmail, profileSaving>>
      /\ ~profileLost' => ~profileLost
    BY LandLeaves DEF Profile!LandUploaded, Profile!LandNotUploaded, Profile!form
<1> PICK L : Leaves(r, L)
    BY LandLeaves DEF Profile!LandUploaded, Profile!LandNotUploaded
<1>3. /\ user' \in Shown /\ user' # NoUser /\ own' \in [bio : Bio, avatar : Nat] /\ own'.bio = own.bio
      /\ ~profileLost' => ~profileLost /\ own'.avatar = avatar
    <2>1. user \in Shown /\ user # NoUser
        BY <1>1, <1>2 DEF ProfileInv, ProfileAskOK
    <2>2. CASE Profile!LandUploaded(r)
        <3>1. /\ user' = [user EXCEPT !.avatar = r.avatar] /\ own' = [own EXCEPT !.avatar = r.avatar]
              /\ r.stage = "done" /\ profileLost' = profileLost
            BY <2>2 DEF Profile!LandUploaded
        <3>2. user' \in Shown
            BY <1>1, <2>1, <3>1 DEF Shown, ProfileAsk
        <3>3. own' \in [bio : Bio, avatar : Nat] /\ own'.bio = own.bio /\ own'.avatar = r.avatar
            BY <1>1, <3>1 DEF ProfileAsk, ProfileInv
        <3>4. ~profileLost => r.avatar = avatar
            BY <1>1, <1>2, <3>1 DEF ProfileAskOK
        <3> QED
            BY <3>1, <3>2, <3>3, <3>4, ProfileAssumption DEF Shown, Bio, Address
    <2>3. CASE Profile!LandNotUploaded(r)
        <3>1. user' = user /\ own' = own /\ (~profileLost' => ~profileLost /\ r.stage # "done")
            BY <2>3, LandLeaves DEF Profile!LandNotUploaded
        <3> QED
            BY <1>1, <1>2, <2>1, <3>1 DEF ProfileInv, ProfileAskOK
    <2> QED
        BY <2>2, <2>3
<1>4. /\ \A o \in profileAsks' : o \in L \/ (o \in profileAsks /\ o.kind # "avatar")
      /\ \A o \in profileAsks : o # r => o \in profileAsks'
      /\ \A o \in L : o \in ProfileAsk /\ o.kind \in {"lateSave", "lateAvatar"} /\ profileLost'
    BY <1>2 DEF ProfileInv, Leaves
<1>5. \A o \in profileAsks' : o \in ProfileAsk /\ ProfileAskOK(o)'
    BY <1>2, <1>3, <1>4 DEF ProfileInv, ProfileAskOK
<1>6. Profile!OwnCopyIsServers'
    BY <1>2, <1>3, <1>4 DEF ProfileInv, Profile!OwnCopyIsServers
<1>7. /\ profileLoading' => \E o \in profileAsks' : o.kind = "user"
      /\ profileSaving' <=> \E o \in profileAsks' : o.kind = "save"
      /\ uploadingAvatar' <=> \E o \in profileAsks' : o.kind = "avatar"
    BY <1>2, <1>4 DEF ProfileInv
<1>8. \A o, q \in profileAsks' : o.kind = q.kind /\ q.kind \in {"save", "avatar"} => o = q
    BY <1>4 DEF ProfileInv
<1> QED
    BY <1>2, <1>3, <1>5, <1>6, <1>7, <1>8 DEF ProfileInv

LEMMA ProfileStep == ProfileInv /\ [Profile!Next]_(Profile!profileVars) => ProfileInv'
<1> SUFFICES ASSUME ProfileInv, [Profile!Next]_(Profile!profileVars) PROVE ProfileInv'
    OBVIOUS
<1>1. CASE UNCHANGED Profile!profileVars
    BY <1>1 DEF Profile!profileVars, ProfileInv, ProfileAskOK, Profile!OwnCopyIsServers
<1> QED
    BY <1>1, ProfileRead, ProfileSends, ProfileServed, ProfileServedLate, UserLands, SaveLands, UploadLands DEF Profile!Next

(* Of the profile alone, for any texts and bounds: there is somebody to     *)
(* draw, no flag outlives its request, and the reader's own copy is the     *)
(* server's whenever its saves and uploads have been answered.              *)
THEOREM OwnCopyGoesAlong == Profile!Spec => [](Profile!TypeOK /\ Profile!OwnCopyIsServers)
<1>1. Profile!Spec => []ProfileInv
    BY ProfileStarts, ProfileStep, PTL DEF Profile!Spec
<1>2. ProfileInv => Profile!TypeOK /\ Profile!OwnCopyIsServers
    BY DEF ProfileInv, Profile!TypeOK
<1> QED
    BY <1>1, <1>2, PTL

-----------------------------------------------------------------------------
(* The shell: its overlays and the focus.                                   *)

(* What the keyboard reaches when both overlays are closed.                 *)
Outside(f, signed) ==
    f \in {"body", "page"} \/ (narrow /\ f = "toggle") \/ (~narrow /\ signed /\ f = "trigger")

InDrawer(f, signed) == f \in {"close", "feed", "theme"} \/ (signed /\ f = "logout") \/ (~signed /\ f = "login")
InMenu(f)           == f \in {"profile", "menuLogout"}

(* The drawer knows where the focus came from, and what that was is there   *)
(* as long as the drawer is, signed in or not.                              *)
OverlayInv ==
    /\ {narrow, authed, drawer, menu} \subseteq BOOLEAN
    /\ drawer => narrow /\ lastFocused \in {"toggle", "body"} /\ (InDrawer(focus, authed) \/ focus = "body")
    /\ ~drawer => lastFocused = "none"
    /\ menu => ~narrow /\ authed /\ InMenu(focus)
    /\ Outside(focus, authed) \/ (drawer /\ InDrawer(focus, authed)) \/ (menu /\ InMenu(focus))

LEMMA OutsideIsPresent == ASSUME narrow \in BOOLEAN, NEW f
    PROVE  \A signed \in BOOLEAN : f \in Shell!Present(FALSE, FALSE, signed) <=> Outside(f, signed)
BY DEF Shell!Present, Outside, Shell!Body

LEMMA DrawerHas ==
    \A signed \in BOOLEAN :
        /\ Shell!DrawerItems(signed) = <<"close", "feed", IF signed THEN "logout" ELSE "login", "theme">>
        /\ DOMAIN Shell!DrawerItems(signed) = 1 .. 4
        /\ \A f : f \in Shell!Range(Shell!DrawerItems(signed)) <=> InDrawer(f, signed)
BY DEF Shell!DrawerItems, Shell!Range, InDrawer

LEMMA MenuHas ==
    /\ DOMAIN Shell!MenuItems = 1 .. 2 /\ Shell!MenuItems[1] = "profile" /\ Shell!MenuItems[2] = "menuLogout"
    /\ Len(Shell!MenuItems) = 2 /\ Head(Shell!MenuItems) = "profile"
    /\ \A f : f \in Shell!Range(Shell!MenuItems) <=> InMenu(f)
<1>1. Shell!MenuItems = <<"profile", "menuLogout">>
    BY DEF Shell!MenuItems
<1>2. /\ DOMAIN Shell!MenuItems = 1 .. 2 /\ Shell!MenuItems[1] = "profile" /\ Shell!MenuItems[2] = "menuLogout"
      /\ Len(Shell!MenuItems) = 2 /\ Head(Shell!MenuItems) = "profile"
    BY <1>1
<1> QED
    BY <1>2 DEF Shell!Range, InMenu

LEMMA ShellStarts == Shell!Init => OverlayInv
BY DEF Shell!Init, Shell!Body, Shell!None, OverlayInv, Outside

\* Inside, Tab stays inside.
LEMMA TabStays ==
    ASSUME OverlayInv, drawer, NEW back \in BOOLEAN
    PROVE  InDrawer(Shell!TabTarget(Shell!DrawerItems(authed), back), authed)
<1> PICK stops : stops = Shell!DrawerItems(authed)
    OBVIOUS
<1>1. /\ DOMAIN stops = 1 .. 4 /\ Len(stops) = 4 /\ \A f : f \in Shell!Range(stops) <=> InDrawer(f, authed)
      /\ stops = <<"close", "feed", IF authed THEN "logout" ELSE "login", "theme">>
    BY DrawerHas DEF OverlayInv
<1>2. \A i \in 1 .. 4 : InDrawer(stops[i], authed)
    BY <1>1 DEF InDrawer
<1>3. \A b \in BOOLEAN : Shell!Edge(stops, b) = IF b THEN stops[1] ELSE stops[4]
    BY <1>1 DEF Shell!Edge
<1>4. CASE focus \notin Shell!Range(stops) \/ focus = Shell!Edge(stops, back)
    <2>1. Shell!TabTarget(stops, back) = Shell!Edge(stops, ~back)
        BY <1>4 DEF Shell!TabTarget
    <2>2. Shell!Edge(stops, ~back) \in {stops[1], stops[4]}
        BY <1>1 DEF Shell!Edge
    <2> QED
        BY <1>2, <2>1, <2>2
<1>5. CASE focus \in Shell!Range(stops) /\ focus # Shell!Edge(stops, back)
    <2>1. PICK i \in 1 .. 4 : i = CHOOSE j \in DOMAIN stops : stops[j] = focus
        BY <1>1, <1>5 DEF Shell!Range
    <2>2. stops[i] = focus
        BY <1>1, <1>5, <2>1 DEF Shell!Range
    <2>3. Shell!TabTarget(stops, back) = stops[IF back THEN i - 1 ELSE i + 1]
        BY <1>5, <2>1 DEF Shell!TabTarget, Shell!Neighbour
    <2>4. IF back THEN i # 1 ELSE i # 4
        BY <1>3, <1>5, <2>2
    <2> QED
        BY <1>2, <2>3, <2>4
<1> QED
    BY <1>4, <1>5

LEMMA DrawerKeepsFocus ==
    ASSUME OverlayInv, Shell!OpenDrawer \/ Shell!CloseDrawer \/ Shell!DoLogout \/ \E back \in BOOLEAN : Shell!TabInDrawer(back)
    PROVE  OverlayInv' /\ shellRoute' = shellRoute
<1>1. CASE Shell!OpenDrawer
    <2>1. /\ narrow /\ drawer' /\ lastFocused' \in {"toggle", "body"} /\ focus' = "close"
          /\ UNCHANGED <<narrow, authed, menu, shellRoute>>
        BY <1>1 DEF Shell!OpenDrawer, Shell!DrawerItems, Shell!nav, Shell!Body
    <2> QED
        BY <2>1 DEF OverlayInv, InDrawer
<1>2. CASE Shell!CloseDrawer \/ Shell!DoLogout
    <2>1. UNCHANGED <<narrow, authed, menu, shellRoute>> /\ Shell!Shut
        BY <1>2 DEF Shell!CloseDrawer, Shell!DoLogout, Shell!nav
    <2>2. drawer' = FALSE /\ (drawer => focus' = lastFocused /\ lastFocused' = "none") /\ (~drawer => UNCHANGED <<focus, lastFocused>>)
        BY <2>1 DEF Shell!Shut, Shell!None
    <2> QED
        BY <2>1, <2>2 DEF OverlayInv, Outside
<1>3. ASSUME NEW back \in BOOLEAN, Shell!TabInDrawer(back) PROVE OverlayInv' /\ shellRoute' = shellRoute
    <2>1. drawer /\ UNCHANGED <<narrow, authed, drawer, menu, lastFocused, shellRoute>> /\ InDrawer(focus', authed)
        BY <1>3, TabStays DEF Shell!TabInDrawer, Shell!nav
    <2> QED
        BY <2>1 DEF OverlayInv, InDrawer
<1> QED
    BY <1>1, <1>2, <1>3

\* The menu closes before the focus leaves it.
LEMMA MenuKeepsFocus ==
    ASSUME OverlayInv,
           Shell!ToggleMenu \/ Shell!EscapeMenu \/ Shell!PressOutside \/ \E back \in BOOLEAN : Shell!TabInMenu(back)
    PROVE  OverlayInv' /\ shellRoute' = shellRoute
<1>1. UNCHANGED <<narrow, authed, drawer, lastFocused, shellRoute>> /\ (menu \/ (~narrow /\ authed))
    BY DEF Shell!ToggleMenu, Shell!EscapeMenu, Shell!PressOutside, Shell!TabInMenu, Shell!nav
<1>2. menu' \in BOOLEAN /\ (IF menu' THEN InMenu(focus') ELSE focus' \in {"trigger", "page", "body"})
    <2>1. CASE Shell!ToggleMenu
        <3>1. menu' = ~menu /\ focus' = IF menu THEN "trigger" ELSE "profile"
            BY <2>1, MenuHas DEF Shell!ToggleMenu
        <3>2. menu' \in BOOLEAN
            BY <3>1
        <3>3. IF menu' THEN InMenu(focus') ELSE focus' \in {"trigger", "page", "body"}
            BY <3>1 DEF InMenu
        <3> QED
            BY <3>2, <3>3
    <2>2. CASE Shell!EscapeMenu \/ Shell!PressOutside
        BY <2>2 DEF Shell!EscapeMenu, Shell!PressOutside, Shell!Body
    <2>3. ASSUME NEW back \in BOOLEAN, Shell!TabInMenu(back)
          PROVE  menu' \in BOOLEAN /\ (IF menu' THEN InMenu(focus') ELSE focus' \in {"trigger", "page", "body"})
        <3>1. menu /\ InMenu(focus) /\ menu' = (focus # Shell!Edge(Shell!MenuItems, back))
              /\ focus' = IF menu' THEN Shell!Neighbour(Shell!MenuItems, focus, back) ELSE IF back THEN "trigger" ELSE "page"
            BY <2>3 DEF Shell!TabInMenu, OverlayInv
        <3>2. \A b \in BOOLEAN : Shell!Edge(Shell!MenuItems, b) = IF b THEN "profile" ELSE "menuLogout"
            BY MenuHas DEF Shell!Edge
        <3>3. CASE focus = Shell!Edge(Shell!MenuItems, back)
            BY <3>1, <3>3
        <3>4. CASE focus # Shell!Edge(Shell!MenuItems, back)
            <4>1. PICK i \in 1 .. 2 : i = CHOOSE j \in DOMAIN Shell!MenuItems : Shell!MenuItems[j] = focus
                BY <3>1, MenuHas DEF InMenu
            <4>2. Shell!MenuItems[i] = focus
                BY <3>1, <4>1, MenuHas DEF InMenu
            <4>3. IF back THEN i = 2 ELSE i = 1
                BY <3>2, <3>4, <4>2, MenuHas
            <4>4. Shell!Neighbour(Shell!MenuItems, focus, back) = Shell!MenuItems[IF back THEN i - 1 ELSE i + 1]
                BY <4>1 DEF Shell!Neighbour
            <4>5. InMenu(Shell!Neighbour(Shell!MenuItems, focus, back))
                BY <4>3, <4>4, MenuHas DEF InMenu
            <4> QED
                BY <3>1, <3>4, <4>5
        <3> QED
            BY <3>3, <3>4
    <2> QED
        BY <2>1, <2>2, <2>3
<1> QED
    BY <1>1, <1>2 DEF OverlayInv, Outside

\* A navigation ends both, and the focus goes back to what is there.
LEMMA OverlaysEnding ==
    ASSUME OverlayInv, narrow' = narrow, authed' \in BOOLEAN, Shell!OverlaysEnd(authed')
    PROVE  OverlayInv' /\ ~drawer' /\ ~menu'
<1> PICK kept : kept = IF drawer THEN lastFocused ELSE focus
    OBVIOUS
<1>1. /\ menu' = FALSE /\ drawer' = FALSE /\ lastFocused' = "none"
      /\ focus' = IF kept \in Shell!Present(FALSE, FALSE, authed') THEN kept ELSE "body"
    BY DEF Shell!OverlaysEnd, Shell!Body, Shell!None
<1>2. Outside(focus', authed')
    BY <1>1, OutsideIsPresent DEF OverlayInv, Outside
<1> QED
    BY <1>1, <1>2 DEF OverlayInv, Outside

LEMMA ShellNavigates ==
    ASSUME OverlayInv, Shell!SkipToContent \/ Shell!SignsIn \/ (\E to \in Shell!Routes : Shell!Navigate(to))
    PROVE  OverlayInv' /\ ~drawer' /\ ~menu'
<1>1. narrow' = narrow /\ authed' \in BOOLEAN /\ Shell!OverlaysEnd(authed')
    BY DEF Shell!SkipToContent, Shell!SignsIn, Shell!Navigate, OverlayInv
<1> QED
    BY <1>1, OverlaysEnding

\* A sign-out that lands late takes the items of the account out of the drawer.
LEMMA LogoutKeepsFocus ==
    ASSUME OverlayInv, Shell!LogoutLands PROVE OverlayInv' /\ (shellRoute' # shellRoute => ~drawer' /\ ~menu')
<1>1. narrow' = narrow /\ ~authed' /\ authed' \in BOOLEAN /\ shellRoute' = "home"
    BY DEF Shell!LogoutLands
<1>2. CASE shellRoute = "home"
    <2>1. /\ ~menu' /\ UNCHANGED <<drawer, lastFocused>> /\ menu' \in BOOLEAN
          /\ focus' = IF focus \in Shell!Present(drawer, FALSE, FALSE) THEN focus ELSE "body"
        BY <1>2 DEF Shell!LogoutLands, Shell!Body
    <2>2. CASE drawer
        <3>1. narrow
            BY <2>2 DEF OverlayInv
        <3>2. focus \in Shell!Present(TRUE, FALSE, FALSE) <=> focus \in {"body", "page", "toggle"} \/ InDrawer(focus, FALSE)
            BY <3>1, DrawerHas DEF Shell!Present, Shell!Body
        <3>3. InDrawer(focus, authed) \/ focus = "body"
            BY <2>2 DEF OverlayInv
        <3>4. drawer = TRUE
            BY <2>2 DEF OverlayInv
        <3>5. InDrawer(focus', FALSE) \/ focus' = "body"
            BY <2>1, <3>2, <3>3, <3>4 DEF InDrawer
        <3>6. authed' = FALSE /\ drawer' = TRUE /\ menu' = FALSE /\ narrow' \in BOOLEAN
            BY <1>1, <2>1, <3>4 DEF OverlayInv
        <3>7. lastFocused' \in {"toggle", "body"} /\ narrow'
            BY <1>1, <2>1, <2>2 DEF OverlayInv
        <3>8. InDrawer(focus', authed') \/ focus' = "body"
            BY <3>5, <3>6 DEF InDrawer
        <3> QED
            BY <1>1, <1>2, <3>6, <3>7, <3>8 DEF OverlayInv, Outside
    <2>3. CASE ~drawer
        <3>1. drawer = FALSE
            BY <2>3 DEF OverlayInv
        <3>2. Outside(focus', FALSE)
            BY <2>1, <3>1, OutsideIsPresent DEF Outside, OverlayInv
        <3> QED
            BY <1>1, <2>1, <2>3, <3>2 DEF OverlayInv, Outside
    <2> QED
        BY <1>1, <1>2, <2>2, <2>3
<1>3. CASE shellRoute # "home"
    <2>1. Shell!OverlaysEnd(authed')
        <3>1. Shell!OverlaysEnd(FALSE) /\ authed' = FALSE
            BY <1>3 DEF Shell!LogoutLands
        <3> QED
            BY <3>1, Zenon
    <2> QED
        BY <1>1, <2>1, OverlaysEnding
<1> QED
    BY <1>2, <1>3

-----------------------------------------------------------------------------
(* The shell: its routes, and the title of the page.                        *)

ShellCounts ==
    /\ shellRoute \in Shell!Routes
    /\ {logouts, shellPresses, shellMoves} \subseteq Nat
    /\ logouts <= shellPresses /\ shellPresses <= MaxLogouts /\ shellMoves <= MovesOf["shell"]

(* A page is mounted on a post's route only, and every load was asked for   *)
(* by a page that was mounted once.                                         *)
PageInv ==
    /\ view \in [owner : 1 .. shellMoves, post : PostIds \cup {"none"}, loading : BOOLEAN, error : BOOLEAN] \cup {Shell!NoView}
    /\ view = Shell!NoView <=> shellRoute \notin PostIds
    /\ \A r \in loads : r.post \in PostIds /\ r.owner \in 1 .. shellMoves

LEMMA MetaStarts == Shell!Init => ShellCounts /\ PageInv /\ Shell!TitleIsOfThePage
<1> SUFFICES ASSUME Shell!Init PROVE ShellCounts /\ PageInv /\ Shell!TitleIsOfThePage
    OBVIOUS
<1>1. /\ shellRoute = "home" /\ announced = "home" /\ view = Shell!NoView /\ override = Shell!NoTitle /\ loads = {}
      /\ logouts = 0 /\ shellPresses = 0 /\ shellMoves = 0 /\ "home" \notin PostIds
    BY RouteAssumption DEF Shell!Init
<1>2. ShellCounts
    BY <1>1, BoundAssumption DEF ShellCounts, Shell!Routes
<1> QED
    BY <1>1, <1>2 DEF PageInv, Shell!TitleIsOfThePage, Shell!GenericPageLabel, Shell!NoView

\* A mounted page is none that is not there.
LEMMA MountedIsThere == Shell!NoView.owner = 0 /\ \A o : Shell!Mounted(o).owner = o /\ Shell!Mounted(o).loading
BY DEF Shell!NoView, Shell!Mounted

\* A new route: the title before is gone, and a page that is shown loads.
LEMMA ShowsStartsOver ==
    ASSUME ShellCounts, PageInv, NEW to \in Shell!Routes, Shell!Shows(to), shellRoute' = to,
           shellMoves' \in Nat, shellMoves <= shellMoves', to \in PostIds => shellMoves' = shellMoves + 1
    PROVE  PageInv' /\ Shell!TitleIsOfThePage'
<1>1. override' = Shell!NoTitle /\ announced' = Shell!GenericPageLabel(to)
    BY DEF Shell!Shows, Shell!OverrideAfter, Shell!PageLabel
<1>2. CASE to \notin PostIds
    <2>1. view' = Shell!NoView /\ loads' = loads
        <3>1. view' = Shell!NoView
            BY <1>2 DEF Shell!Shows
        <3>2. loads' = loads
            BY <1>2 DEF Shell!Shows
        <3> QED
            BY <3>1, <3>2
    <2>2. \A r \in loads' : r.post \in PostIds /\ r.owner \in 1 .. shellMoves'
        BY <2>1 DEF PageInv, ShellCounts
    <2>3. PageInv'
        BY <1>2, <2>1, <2>2 DEF PageInv
    <2> QED
        BY <1>1, <2>1, <2>3 DEF Shell!TitleIsOfThePage, Shell!NoView
<1>3. CASE to \in PostIds
    <2>1. /\ view' = IF view = Shell!NoView THEN Shell!Mounted(shellMoves + 1) ELSE Shell!Reloading(view)
          /\ loads' = loads \cup {[post |-> to, owner |-> view'.owner, move |-> shellMoves]}
        BY <1>3 DEF Shell!Shows
    <2>2. view' \in [owner : 1 .. shellMoves', post : PostIds \cup {"none"}, loading : BOOLEAN, error : BOOLEAN] /\ view'.loading
        <3>1. CASE view = Shell!NoView
            BY <1>3, <2>1, <3>1 DEF Shell!Mounted, Shell!None, ShellCounts
        <3>2. CASE view # Shell!NoView
            BY <1>3, <2>1, <3>2 DEF PageInv, ShellCounts, Shell!Reloading
        <3> QED
            BY <3>1, <3>2
    <2>3. view'.owner \in 1 .. shellMoves' /\ view' # Shell!NoView
        BY <2>2, MountedIsThere
    <2>4. \A r \in loads' : r.post \in PostIds /\ r.owner \in 1 .. shellMoves'
        BY <1>3, <2>1, <2>3 DEF PageInv, ShellCounts
    <2>5. PageInv'
        BY <1>3, <2>2, <2>3, <2>4 DEF PageInv
    <2>6. \E r \in loads' : r.owner = view'.owner /\ r.post = shellRoute'
        <3> PICK q : q = [post |-> to, owner |-> view'.owner, move |-> shellMoves]
            OBVIOUS
        <3>1. q \in loads'
            BY <2>1
        <3>2. q.owner = view'.owner /\ q.post = shellRoute'
            OBVIOUS
        <3> QED
            BY <3>1, <3>2
    <2> QED
        BY <1>1, <2>2, <2>5, <2>6 DEF Shell!TitleIsOfThePage
<1> QED
    BY <1>2, <1>3

\* A publication reads the post again: the title stays that of the page.
LEMMA PublicationLoads ==
    ASSUME ShellCounts, PageInv, Shell!TitleIsOfThePage, Shell!PublishLands
    PROVE  /\ ShellCounts' /\ PageInv' /\ Shell!TitleIsOfThePage'
           /\ UNCHANGED <<narrow, shellRoute, authed, drawer, menu, focus, lastFocused>>
<1>1. /\ view.post # "none" /\ shellMoves < MovesOf["shell"] /\ shellMoves' = shellMoves + 1
      /\ view' = Shell!Reloading(view)
      /\ loads' = loads \cup {[post |-> shellRoute, owner |-> view.owner, move |-> shellMoves]}
      /\ UNCHANGED <<shellRoute, override, announced, logouts, shellPresses>>
      /\ UNCHANGED <<narrow, authed, drawer, menu, focus, lastFocused>>
    BY DEF Shell!PublishLands, Shell!None, Shell!nav, Shell!overlays
<1>2. ShellCounts' /\ shellMoves \in Nat
    BY <1>1, BoundAssumption DEF ShellCounts
<1>3. view # Shell!NoView
    BY <1>1 DEF Shell!NoView, Shell!None
<1>4. /\ view \in [owner : 1 .. shellMoves, post : PostIds \cup {"none"}, loading : BOOLEAN, error : BOOLEAN]
      /\ shellRoute \in PostIds
    BY <1>3 DEF PageInv
<1>5. /\ view' \in [owner : 1 .. shellMoves', post : PostIds \cup {"none"}, loading : BOOLEAN, error : BOOLEAN]
      /\ view'.owner = view.owner /\ view'.post = view.post /\ view'.loading
    BY <1>1, <1>2, <1>4 DEF Shell!Reloading
<1>6. view' # Shell!NoView
    BY <1>1, <1>5 DEF Shell!NoView, Shell!None
<1>7. \A r \in loads' : r.post \in PostIds /\ r.owner \in 1 .. shellMoves'
    BY <1>1, <1>2, <1>4 DEF PageInv
<1>8. \E r \in loads' : r.owner = view'.owner /\ r.post = shellRoute'
    <2> PICK q : q = [post |-> shellRoute, owner |-> view.owner, move |-> shellMoves]
        OBVIOUS
    <2>1. q \in loads'
        BY <1>1
    <2>2. q.owner = view'.owner /\ q.post = shellRoute'
        BY <1>1, <1>5
    <2> QED
        BY <2>1, <2>2
<1>9. PageInv'
    BY <1>1, <1>4, <1>5, <1>6, <1>7 DEF PageInv
<1> QED
    BY <1>1, <1>2, <1>5, <1>8, <1>9 DEF Shell!TitleIsOfThePage, Shell!GenericPageLabel

\* A load that lands sets the title of the page that asked for it, and of none other.
LEMMA LoadsLand ==
    ASSUME ShellCounts, PageInv, Shell!TitleIsOfThePage, NEW r \in loads, Shell!LandLoad(r) \/ Shell!LoadFails(r)
    PROVE  /\ ShellCounts' /\ PageInv' /\ Shell!TitleIsOfThePage'
           /\ UNCHANGED <<narrow, shellRoute, authed, drawer, menu, focus, lastFocused>>
<1> DEFINE Views == [owner : 1 .. shellMoves, post : PostIds \cup {"none"}, loading : BOOLEAN, error : BOOLEAN]
<1>1. /\ loads' = loads \ {r} /\ UNCHANGED <<shellRoute, announced, logouts, shellPresses, shellMoves>>
      /\ UNCHANGED <<narrow, authed, drawer, menu, focus, lastFocused>>
    BY DEF Shell!LandLoad, Shell!LoadFails, Shell!Landed, Shell!nav, Shell!overlays
<1>2. ShellCounts'
    BY <1>1 DEF ShellCounts
<1>3. announced' = Shell!GenericPageLabel(shellRoute')
    BY <1>1 DEF Shell!TitleIsOfThePage
<1>4. r.post \in PostIds /\ r.owner \in 1 .. shellMoves
    BY DEF PageInv
<1>5. CASE r.owner # view.owner
    <2>1. UNCHANGED <<view, override>>
        BY <1>5 DEF Shell!LandLoad, Shell!LoadFails
    <2>2. view.loading => \E q \in loads' : q.owner = view.owner /\ q.post = shellRoute
        BY <1>1, <1>5 DEF Shell!TitleIsOfThePage
    <2> QED
        BY <1>1, <1>2, <1>3, <2>1, <2>2 DEF PageInv, Shell!TitleIsOfThePage
<1>6. CASE r.owner = view.owner
    <2>1. view # Shell!NoView
        BY <1>4, <1>6, MountedIsThere
    <2>2. view \in Views
        BY <2>1 DEF PageInv
    <2>3. view' \in Views /\ view'.owner = view.owner /\ ~view'.loading
        BY <1>4, <1>6, <2>2 DEF Shell!LandLoad, Shell!LoadFails
    <2>4. view' # Shell!NoView
        BY <1>4, <1>6, <2>3, MountedIsThere
    <2>5. PageInv'
        BY <1>1, <2>1, <2>3, <2>4 DEF PageInv
    <2>6. CASE Shell!LandLoad(r)
        <3>1. view'.post = r.post /\ override' = [owner |-> view.owner, of |-> r.post]
            BY <1>6, <2>2, <2>6 DEF Shell!LandLoad
        <3>2. override' # Shell!NoTitle
            BY <1>4, <1>6, <3>1 DEF Shell!NoTitle
        <3> QED
            BY <1>1, <1>2, <1>3, <2>3, <2>5, <3>1, <3>2 DEF Shell!TitleIsOfThePage
    <2>7. CASE Shell!LoadFails(r)
        <3>1. override' = override /\ view'.error /\ view'.post = view.post
            BY <1>6, <2>2, <2>7 DEF Shell!LoadFails
        <3> QED
            BY <1>1, <1>2, <1>3, <2>3, <2>5, <3>1 DEF Shell!TitleIsOfThePage
    <2> QED
        BY <2>6, <2>7
<1> QED
    BY <1>5, <1>6

ShellInv == OverlayInv /\ ShellCounts /\ PageInv /\ Shell!TitleIsOfThePage

\* The overlays move without the page.
LEMMA PageStays ==
    ASSUME ShellCounts, PageInv, Shell!TitleIsOfThePage, UNCHANGED <<view, override, announced, loads, shellRoute, shellMoves>>,
           {logouts', shellPresses'} \subseteq Nat, logouts' <= shellPresses', shellPresses' <= MaxLogouts
    PROVE  ShellCounts' /\ PageInv' /\ Shell!TitleIsOfThePage'
<1>1. ShellCounts'
    BY DEF ShellCounts
<1>2. PageInv'
    BY DEF PageInv
<1>3. Shell!TitleIsOfThePage'
    BY DEF Shell!TitleIsOfThePage
<1> QED
    BY <1>1, <1>2, <1>3

LEMMA ShellStep ==
    ASSUME ShellInv, [Shell!Next]_(Shell!shellVars)
    PROVE  ShellInv' /\ (shellRoute' # shellRoute => ~drawer' /\ ~menu')
<1> USE DEF ShellInv
<1>1. CASE \/ Shell!OpenDrawer \/ Shell!CloseDrawer \/ Shell!DoLogout
           \/ \E back \in BOOLEAN : Shell!TabInDrawer(back)
    <2>1. UNCHANGED <<view, override, announced, loads, shellMoves>>
        BY <1>1 DEF Shell!OpenDrawer, Shell!CloseDrawer, Shell!DoLogout, Shell!TabInDrawer, Shell!meta
    <2>2. {logouts', shellPresses'} \subseteq Nat /\ logouts' <= shellPresses' /\ shellPresses' <= MaxLogouts
        <3>1. CASE Shell!DoLogout
            BY <3>1, BoundAssumption DEF Shell!DoLogout, ShellCounts
        <3>2. CASE UNCHANGED <<logouts, shellPresses>>
            BY <3>2 DEF ShellCounts
        <3> QED
            BY <1>1, <3>1, <3>2 DEF Shell!OpenDrawer, Shell!CloseDrawer, Shell!TabInDrawer
    <2> QED
        BY <1>1, <2>1, <2>2, DrawerKeepsFocus, PageStays
<1>2. CASE \/ Shell!ToggleMenu \/ Shell!EscapeMenu \/ Shell!PressOutside
           \/ \E back \in BOOLEAN : Shell!TabInMenu(back)
    <2>1. UNCHANGED <<view, override, announced, loads, shellMoves, logouts, shellPresses>>
        BY <1>2 DEF Shell!ToggleMenu, Shell!EscapeMenu, Shell!PressOutside, Shell!TabInMenu, Shell!meta
    <2>2. {logouts', shellPresses'} \subseteq Nat /\ logouts' <= shellPresses' /\ shellPresses' <= MaxLogouts
        BY <2>1 DEF ShellCounts
    <2> QED
        BY <1>2, <2>1, <2>2, MenuKeepsFocus, PageStays
<1>3. CASE Shell!SkipToContent \/ (\E to \in Shell!Routes \ {"missing"} : Shell!Navigate(to))
    <2>1. PICK to \in Shell!Routes : Shell!Navigate(to)
        BY <1>3 DEF Shell!SkipToContent, Shell!Routes
    <2>2. /\ shellMoves' = shellMoves + 1 /\ shellRoute' = to /\ Shell!Shows(to) /\ shellMoves < MovesOf["shell"]
          /\ UNCHANGED <<logouts, shellPresses>>
        BY <2>1 DEF Shell!Navigate
    <2>3. ShellCounts' /\ shellMoves' \in Nat /\ shellMoves <= shellMoves'
        BY <2>2, BoundAssumption DEF ShellCounts
    <2>4. PageInv' /\ Shell!TitleIsOfThePage'
        BY <2>2, <2>3, ShowsStartsOver
    <2> QED
        BY <2>1, <2>3, <2>4, ShellNavigates
<1>4. CASE Shell!SignsIn \/ Shell!LogoutLands
    <2>1. /\ shellRoute' = "home" /\ shellMoves' = shellMoves /\ UNCHANGED shellPresses
          /\ logouts' = logouts \/ (logouts > 0 /\ logouts' = logouts - 1)
        BY <1>4 DEF Shell!SignsIn, Shell!LogoutLands
    <2>2. "home" \in Shell!Routes /\ "home" \notin PostIds
        BY RouteAssumption DEF Shell!Routes
    <2>3. ShellCounts' /\ shellMoves' \in Nat /\ shellMoves <= shellMoves'
        BY <2>1, <2>2 DEF ShellCounts
    <2>4. Shell!Shows("home") \/ (shellRoute = "home" /\ UNCHANGED <<view, override, announced, loads>>)
        BY <1>4 DEF Shell!SignsIn, Shell!LogoutLands, Shell!meta
    <2>5. PageInv' /\ Shell!TitleIsOfThePage'
        <3>1. CASE Shell!Shows("home")
            BY <2>1, <2>2, <2>3, <3>1, ShowsStartsOver
        <3>2. CASE shellRoute = "home" /\ UNCHANGED <<view, override, announced, loads>>
            BY <2>1, <3>2 DEF PageInv, Shell!TitleIsOfThePage
        <3> QED
            BY <2>4, <3>1, <3>2
    <2> QED
        BY <1>4, <2>3, <2>5, ShellNavigates, LogoutKeepsFocus
<1>5. CASE \E r \in loads : Shell!LandLoad(r) \/ Shell!LoadFails(r)
    <2>1. /\ ShellCounts' /\ PageInv' /\ Shell!TitleIsOfThePage'
          /\ UNCHANGED <<narrow, shellRoute, authed, drawer, menu, focus, lastFocused>>
        BY <1>5, LoadsLand
    <2> QED
        BY <2>1 DEF OverlayInv, Outside
<1>6. CASE Shell!PublishLands
    <2>1. /\ ShellCounts' /\ PageInv' /\ Shell!TitleIsOfThePage'
          /\ UNCHANGED <<narrow, shellRoute, authed, drawer, menu, focus, lastFocused>>
        BY <1>6, PublicationLoads
    <2> QED
        BY <2>1 DEF OverlayInv, Outside
<1>7. CASE UNCHANGED Shell!shellVars
    <2>1. /\ UNCHANGED <<narrow, shellRoute, authed, drawer, menu, focus, lastFocused>>
          /\ UNCHANGED <<view, override, announced, loads, shellMoves, logouts, shellPresses>>
        BY <1>7 DEF Shell!shellVars, Shell!nav, Shell!overlays, Shell!meta
    <2>2. {logouts', shellPresses'} \subseteq Nat /\ logouts' <= shellPresses' /\ shellPresses' <= MaxLogouts
        BY <2>1 DEF ShellCounts
    <2>3. ShellCounts' /\ PageInv' /\ Shell!TitleIsOfThePage'
        BY <2>1, <2>2, PageStays
    <2> QED
        BY <2>1, <2>3 DEF OverlayInv, Outside
<1> QED
    BY <1>1, <1>2, <1>3, <1>4, <1>5, <1>6, <1>7 DEF Shell!Next

LEMMA ShellIsSafe == ShellInv => Shell!TypeOK /\ Shell!TitleIsOfThePage /\ Shell!FocusIsKept
<1> SUFFICES ASSUME ShellInv PROVE Shell!TypeOK /\ Shell!FocusIsKept
    BY DEF ShellInv
<1>1. OverlayInv /\ ShellCounts /\ PageInv
    BY DEF ShellInv
<1>2. menu => focus \in Shell!Range(Shell!MenuItems)
    BY <1>1, MenuHas DEF OverlayInv
<1>3. drawer = (lastFocused # "none")
    BY <1>1 DEF OverlayInv
<1>4. (view = Shell!NoView) = (shellRoute \notin PostIds)
    BY <1>1 DEF PageInv
<1>5. Shell!TypeOK
    BY <1>1, <1>2, <1>3, <1>4 DEF Shell!TypeOK, Shell!None, OverlayInv, ShellCounts, PageInv
<1>6. drawer => focus \in Shell!Range(Shell!DrawerItems(authed)) \cup {"body"}
    BY <1>1, DrawerHas DEF OverlayInv
<1>7. focus \in Shell!Present(drawer, menu, authed)
    <2>1. Outside(focus, authed) => focus \in Shell!Present(drawer, menu, authed)
        BY DEF Outside, Shell!Present, Shell!Body
    <2>2. drawer => focus \in Shell!Present(drawer, menu, authed)
        BY <1>6 DEF Shell!Present, Shell!Body
    <2>3. menu => focus \in Shell!Present(drawer, menu, authed)
        BY <1>2 DEF Shell!Present
    <2> QED
        BY <1>1, <2>1, <2>2, <2>3 DEF OverlayInv
<1> QED
    BY <1>5, <1>6, <1>7 DEF Shell!FocusIsKept, Shell!Body

\* App.vue, AccountMenu.vue, usePageMeta.ts: the focus is on an element that is
\* there and not behind the open drawer, the title is that of the post on
\* screen, and no navigation leaves an overlay over its page.
THEOREM ShellKeepsFocusAndTitle ==
    Shell!Spec => [](Shell!TypeOK /\ Shell!TitleIsOfThePage /\ Shell!FocusIsKept) /\ Shell!OverlaysAreLeft
<1>1. Shell!Init => ShellInv
    BY ShellStarts, MetaStarts DEF ShellInv
<1>2. ShellInv /\ [Shell!Next]_(Shell!shellVars) => ShellInv'
    BY ShellStep
<1>3. ShellInv /\ [Shell!Next]_(Shell!shellVars) => [shellRoute' # shellRoute => ~drawer' /\ ~menu']_(Shell!shellVars)
    BY ShellStep
<1> QED
    BY <1>1, <1>2, <1>3, ShellIsSafe, PTL DEF Shell!Spec, Shell!OverlaysAreLeft

-----------------------------------------------------------------------------
(* What a function that is defined over 0 .. n by recursion is: it exists,  *)
(* and what holds at 0 and goes along with each step holds of all of it.    *)

LEMMA LeastOf == ASSUME NEW T \in SUBSET Nat, T # {} PROVE \E x \in T : \A y \in T : x <= y
<1>1. PICK x \in T : \A y \in T : <<y, x>> \notin OpToRel(<, Nat)
    BY NatLessThanWellFounded, WFMin
<1>2. \A y \in T : ~(y < x)
    BY <1>1 DEF OpToRel
<1> QED
    BY <1>2

\* Else there is a first index at which it does not hold.
LEMMA StepwiseAll ==
    ASSUME NEW n \in Nat, NEW Good, 0 \in Good, \A k \in 1 .. n : k - 1 \in Good => k \in Good
    PROVE  0 .. n \subseteq Good
<1> DEFINE Bad == {k \in 0 .. n : k \notin Good}
<1> SUFFICES ASSUME Bad # {} PROVE FALSE
    OBVIOUS
<1>1. Bad \in SUBSET Nat
    OBVIOUS
<1>2. PICK k \in Bad : \A j \in Bad : k <= j
    BY <1>1, LeastOf
<1>3. k \in 1 .. n /\ k - 1 \in 0 .. n /\ ~(k <= k - 1)
    OBVIOUS
<1> QED
    BY <1>2, <1>3

LEMMA StepwiseStays ==
    ASSUME NEW n \in Nat, NEW f, NEW X, f[0] \in X, \A k \in 1 .. n : f[k - 1] \in X => f[k] \in X
    PROVE  \A k \in 0 .. n : f[k] \in X
<1> PICK Good : Good = {k \in 0 .. n : f[k] \in X}
    OBVIOUS
<1>1. 0 \in Good /\ \A k \in 1 .. n : k - 1 \in Good => k \in Good
    OBVIOUS
<1>2. 0 .. n \subseteq Good
    BY <1>1, StepwiseAll
<1> QED
    BY <1>2

IsStepwise(f, n, base, step) == f = [k \in 0 .. n |-> IF k = 0 THEN base ELSE step[<<k, f[k - 1]>>]]

LEMMA StepwiseExists ==
    ASSUME NEW n \in Nat, NEW X, NEW base \in X, NEW step \in [(1 .. n) \X X -> X]
    PROVE  \E f \in [0 .. n -> X] : IsStepwise(f, n, base, step)
<1> DEFINE Runs(m, f) == f \in [0 .. m -> X] /\ f = [k \in 0 .. m |-> IF k = 0 THEN base ELSE step[<<k, f[k - 1]>>]]
<1> PICK Good : Good = {m \in 0 .. n : \E f : Runs(m, f)}
    OBVIOUS
<1>1. 0 \in Good
    <2> DEFINE f == [k \in 0 .. 0 |-> base]
    <2>1. Runs(0, f)
        OBVIOUS
    <2> HIDE DEF Runs, f
    <2> QED
        BY <2>1
<1>2. ASSUME NEW m \in 1 .. n, m - 1 \in Good PROVE m \in Good
    <2>1. PICK f : Runs(m - 1, f)
        BY <1>2
    <2>2. f \in [0 .. m - 1 -> X] /\ \A k \in 0 .. m - 1 : f[k] = IF k = 0 THEN base ELSE step[<<k, f[k - 1]>>]
        BY <2>1
    <2> DEFINE g == [k \in 0 .. m |-> IF k = m THEN step[<<m, f[m - 1]>>] ELSE f[k]]
    <2>3. f[m - 1] \in X /\ <<m, f[m - 1]>> \in (1 .. n) \X X
        BY <2>2
    <2>4. g \in [0 .. m -> X]
        BY <2>2, <2>3
    <2>5. \A k \in 0 .. m : g[k] = IF k = 0 THEN base ELSE step[<<k, g[k - 1]>>]
        <3> SUFFICES ASSUME NEW k \in 0 .. m PROVE g[k] = IF k = 0 THEN base ELSE step[<<k, g[k - 1]>>]
            OBVIOUS
        <3>1. CASE k = m
            <4>1. g[m] = step[<<m, f[m - 1]>>] /\ g[m - 1] = f[m - 1] /\ m # 0
                OBVIOUS
            <4> QED
                BY <3>1, <4>1
        <3>2. CASE k # m
            <4>1. k \in 0 .. m - 1 /\ g[k] = f[k] /\ (k # 0 => g[k - 1] = f[k - 1])
                BY <3>2
            <4> QED
                BY <2>2, <4>1
        <3> QED
            BY <3>1, <3>2
    <2>6. Runs(m, g)
        BY <2>4, <2>5
    <2> HIDE DEF Runs, g
    <2> QED
        BY <2>6
<1>3. n \in Good
    <2>1. 0 .. n \subseteq Good
        BY <1>1, <1>2, StepwiseAll
    <2> QED
        BY <2>1
<1> QED
    BY <1>3 DEF IsStepwise

-----------------------------------------------------------------------------
(* The post's page: its lists.                                              *)

LEMMA AppendAdds ==
    ASSUME NEW C, NEW l \in Seq(C), NEW c \in C
    PROVE  /\ Append(l, c) \in Seq(C)
           /\ Post!Range(Append(l, c)) = Post!Range(l) \cup {c}
           /\ Post!IsInjective(l) /\ c \notin Post!Range(l) => Post!IsInjective(Append(l, c))
<1>1. /\ Append(l, c) \in Seq(C)
      /\ DOMAIN Append(l, c) = DOMAIN l \cup {Len(l) + 1} /\ DOMAIN l = 1 .. Len(l)
      /\ \A i \in DOMAIN l : Append(l, c)[i] = l[i]
      /\ Append(l, c)[Len(l) + 1] = c
    OBVIOUS
<1>2. Post!Range(Append(l, c)) = Post!Range(l) \cup {c}
    BY <1>1 DEF Post!Range
<1>3. ASSUME Post!IsInjective(l), c \notin Post!Range(l) PROVE Post!IsInjective(Append(l, c))
    BY <1>1, <1>3 DEF Post!IsInjective, Post!Range
<1> QED
    BY <1>1, <1>2, <1>3

LEMMA TakenAdds ==
    ASSUME NEW l \in Seq(Nat), NEW c \in Nat
    PROVE  /\ Post!Taken(l, c) \in Seq(Nat)
           /\ Post!Range(Post!Taken(l, c)) \subseteq Post!Range(l) \cup ({c} \ removed)
           /\ Post!IsInjective(l) => Post!IsInjective(Post!Taken(l, c))
BY AppendAdds DEF Post!Taken

\* Merged: what was removed from the page is not added, nor what is there.
LEMMA MergedAdds ==
    ASSUME NEW ids \in Seq(Nat), NEW incoming \in Seq(Nat)
    PROVE  /\ Post!Merged(ids, incoming) \in Seq(Nat)
           /\ Post!Range(Post!Merged(ids, incoming)) \subseteq Post!Range(ids) \cup (Post!Range(incoming) \ removed)
           /\ Post!IsInjective(ids) => Post!IsInjective(Post!Merged(ids, incoming))
<1> DEFINE X == {l \in Seq(Nat) : /\ Post!Range(l) \subseteq Post!Range(ids) \cup (Post!Range(incoming) \ removed)
                                  /\ Post!IsInjective(ids) => Post!IsInjective(l)}
           Runs(f) == f = [k \in 0 .. Len(incoming) |-> IF k = 0 THEN ids ELSE Post!Taken(f[k - 1], incoming[k])]
           step == [z \in (1 .. Len(incoming)) \X X |-> Post!Taken(z[2], incoming[z[1]])]
<1>1. Len(incoming) \in Nat /\ \A k \in 1 .. Len(incoming) : incoming[k] \in Nat /\ incoming[k] \in Post!Range(incoming)
    BY DEF Post!Range
<1>2. ASSUME NEW k \in 1 .. Len(incoming), NEW l \in X PROVE Post!Taken(l, incoming[k]) \in X
    <2>1. l \in Seq(Nat) /\ incoming[k] \in Nat /\ incoming[k] \in Post!Range(incoming)
        BY <1>1
    <2>2. /\ Post!Taken(l, incoming[k]) \in Seq(Nat)
          /\ Post!Range(Post!Taken(l, incoming[k])) \subseteq Post!Range(l) \cup ({incoming[k]} \ removed)
          /\ Post!IsInjective(l) => Post!IsInjective(Post!Taken(l, incoming[k]))
        BY <2>1, TakenAdds
    <2> QED
        BY <2>1, <2>2
<1>3. ids \in X
    OBVIOUS
<1>4. step \in [(1 .. Len(incoming)) \X X -> X]
    BY <1>2
<1> HIDE DEF X
<1>5. \E f : Runs(f)
    <2> HIDE DEF step
    <2>1. PICK f \in [0 .. Len(incoming) -> X] : IsStepwise(f, Len(incoming), ids, step)
        BY <1>1, <1>3, <1>4, StepwiseExists
    <2>0. f = [k \in 0 .. Len(incoming) |-> IF k = 0 THEN ids ELSE step[<<k, f[k - 1]>>]]
        BY <2>1 DEF IsStepwise
    <2> USE DEF step
    <2>2. \A k \in 0 .. Len(incoming) : f[k] = IF k = 0 THEN ids ELSE Post!Taken(f[k - 1], incoming[k])
        <3> SUFFICES ASSUME NEW k \in 0 .. Len(incoming), k # 0 PROVE f[k] = Post!Taken(f[k - 1], incoming[k])
            BY <2>0
        <3>0. k - 1 \in 0 .. Len(incoming) /\ k \in 1 .. Len(incoming)
            BY <1>1
        <3>1. f[k - 1] \in X /\ k \in 1 .. Len(incoming)
            BY <2>1, <3>0
        <3>2. step[<<k, f[k - 1]>>] = Post!Taken(f[k - 1], incoming[k])
            BY <3>1
        <3> QED
            BY <2>0, <3>2
    <2>3. Runs(f)
        BY <2>0, <2>2
    <2> QED
        BY <2>3
<1> DEFINE upTo == CHOOSE f : Runs(f)
<1>6. Runs(upTo)
    BY <1>5
<1>7. Post!Merged(ids, incoming) = upTo[Len(incoming)]
    BY DEF Post!Merged
<1> HIDE DEF upTo
<1>8. upTo[0] \in X /\ \A k \in 1 .. Len(incoming) : upTo[k - 1] \in X => upTo[k] \in X
    <2>1. \A k \in 0 .. Len(incoming) : upTo[k] = IF k = 0 THEN ids ELSE Post!Taken(upTo[k - 1], incoming[k])
        BY <1>6
    <2> QED
        BY <1>1, <1>2, <1>3, <2>1
<1>9. \A k \in 0 .. Len(incoming) : upTo[k] \in X
    BY <1>1, <1>8, StepwiseStays
<1>10. Post!Merged(ids, incoming) \in X
    BY <1>1, <1>7, <1>9
<1> QED
    BY <1>10 DEF X

\* Listed: the comments of the post, each of them once.
LEMMA ListedOnce ==
    ASSUME NEW p, Len(postRows) \in Nat
    PROVE  /\ Post!Listed(p) \in Seq(Nat)
           /\ Post!Range(Post!Listed(p)) \subseteq 1 .. Len(postRows)
           /\ Post!IsInjective(Post!Listed(p))
<1> PICK n \in Nat : n = Len(postRows)
    OBVIOUS
<1> DEFINE Has(k) == postRows[k].post = p /\ postRows[k].state \in {"there", "tombstone"}
           Upto(k) == {l \in Seq(Nat) : Post!Range(l) \subseteq 1 .. k /\ Post!IsInjective(l)}
           Runs(f) == f = [k \in 0 .. n |-> IF k = 0 THEN <<>> ELSE IF Has(k) THEN Append(f[k - 1], k) ELSE f[k - 1]]
           step == [z \in (1 .. n) \X Seq(Nat) |-> IF Has(z[1]) THEN Append(z[2], z[1]) ELSE z[2]]
<1>1. step \in [(1 .. n) \X Seq(Nat) -> Seq(Nat)] /\ <<>> \in Seq(Nat)
    OBVIOUS
<1> HIDE DEF Has
<1>2. \E f : Runs(f)
    <2> HIDE DEF step
    <2>1. PICK f \in [0 .. n -> Seq(Nat)] : IsStepwise(f, n, <<>>, step)
        BY <1>1, StepwiseExists
    <2>0. f = [k \in 0 .. n |-> IF k = 0 THEN <<>> ELSE step[<<k, f[k - 1]>>]]
        BY <2>1 DEF IsStepwise
    <2> USE DEF step
    <2>2. \A k \in 0 .. n : f[k] = IF k = 0 THEN <<>> ELSE IF Has(k) THEN Append(f[k - 1], k) ELSE f[k - 1]
        <3> SUFFICES ASSUME NEW k \in 0 .. n, k # 0
                     PROVE  f[k] = IF Has(k) THEN Append(f[k - 1], k) ELSE f[k - 1]
            BY <2>0
        <3>0. k - 1 \in 0 .. n /\ k \in 1 .. n
            OBVIOUS
        <3>1. f[k - 1] \in Seq(Nat) /\ k \in 1 .. n
            BY <2>1, <3>0
        <3>2. step[<<k, f[k - 1]>>] = IF Has(k) THEN Append(f[k - 1], k) ELSE f[k - 1]
            BY <3>1
        <3> QED
            BY <2>0, <3>2
    <2>3. Runs(f)
        BY <2>0, <2>2
    <2> QED
        BY <2>3
<1> DEFINE upTo == CHOOSE f : Runs(f)
<1>3. Runs(upTo)
    BY <1>2
<1>4. Post!Listed(p) = upTo[n]
    BY DEF Post!Listed, Has
<1> HIDE DEF upTo
<1>5. \A k \in 0 .. n : upTo[k] = IF k = 0 THEN <<>> ELSE IF Has(k) THEN Append(upTo[k - 1], k) ELSE upTo[k - 1]
    BY <1>3
<1> PICK Good : Good = {k \in 0 .. n : upTo[k] \in Upto(k)}
    OBVIOUS
<1>6. 0 \in Good
    <2>1. upTo[0] = <<>>
        BY <1>5
    <2>2. <<>> \in Seq(Nat) /\ Post!Range(<<>>) = {} /\ Post!IsInjective(<<>>)
        BY DEF Post!Range, Post!IsInjective
    <2>3. 0 \in 0 .. n /\ {} \subseteq 1 .. 0
        OBVIOUS
    <2>4. upTo[0] \in Upto(0)
        BY <2>1, <2>2, <2>3
    <2> QED
        BY <2>3, <2>4
<1>7. ASSUME NEW k \in 1 .. n, k - 1 \in Good PROVE k \in Good
    <2> PICK l : l = upTo[k - 1]
        OBVIOUS
    <2>1. l \in Seq(Nat) /\ Post!Range(l) \subseteq 1 .. k - 1 /\ Post!IsInjective(l)
        BY <1>7
    <2>2. k \notin Post!Range(l) /\ 1 .. k - 1 \subseteq 1 .. k /\ k \in 1 .. k /\ k \in Nat
        BY <2>1
    <2>3. Append(l, k) \in Upto(k) /\ l \in Upto(k)
        BY <2>1, <2>2, AppendAdds
    <2>4. upTo[k] \in {Append(l, k), l}
        <3>1. k \in 0 .. n /\ k # 0
            OBVIOUS
        <3> QED
            BY <1>5, <3>1
    <2> HIDE DEF Upto
    <2>5. upTo[k] \in Upto(k)
        BY <2>3, <2>4
    <2>6. k \in 0 .. n
        OBVIOUS
    <2> QED
        BY <2>5, <2>6
<1>8. n \in Good
    <2>1. 0 .. n \subseteq Good
        BY <1>6, <1>7, StepwiseAll
    <2> QED
        BY <2>1
<1> QED
    BY <1>4, <1>8

-----------------------------------------------------------------------------
(* The post's page: its records.                                            *)

PostKinds == {"load", "refetch", "comment", "reply", "edit", "remove", "like", "bookmark", "publish", "delete"}
Switches  == [Post!Toggles -> BOOLEAN]

PageRecords ==
    [post : PostIds \cup {"nopost"}, comments : Seq(Nat), dead : SUBSET Nat, on : Switches, busy : Switches,
     posting : BOOLEAN, publishing : BOOLEAN, text : Nat, loading : BOOLEAN, error : BOOLEAN]

PostAskRecords ==
    [kind : PostKinds, post : PostIds, arg : Nat, visit : Nat, stage : {"asked", "done"}, list : Seq(Nat),
     dead : SUBSET Nat, on : Switches]

RowRecords ==
    [post : PostIds, parent : Nat, mine : BOOLEAN, draft : Nat, state : {"there", "tombstone", "gone", "hidden", "buried"}]

LEMMA PostAskIs ==
    ASSUME NEW kind \in PostKinds, NEW p \in PostIds, NEW arg \in Nat, NEW v \in Nat, NEW r, r = Post!Ask(kind, p, arg, v)
    PROVE  /\ r \in PostAskRecords
           /\ r.kind = kind /\ r.post = p /\ r.arg = arg /\ r.visit = v /\ r.stage = "asked" /\ r.list = <<>>
<1>1. Post!Off \in Switches
    BY DEF Post!Off, Switches
<1> HIDE DEF Switches
<1> QED
    BY <1>1 DEF Post!Ask, PostAskRecords

\* What a press changes on the page.
LEMMA PagePosts ==
    ASSUME postPage \in PageRecords, postPage' = [postPage EXCEPT !.posting = TRUE]
    PROVE  /\ postPage' \in PageRecords /\ postPage'.posting
           /\ postPage'.comments = postPage.comments /\ postPage'.post = postPage.post
           /\ postPage'.busy = postPage.busy /\ postPage'.text = postPage.text
BY DEF PageRecords

LEMMA PagePostsText ==
    ASSUME postPage \in PageRecords, NEW typed \in Nat, postPage' = [postPage EXCEPT !.posting = TRUE, !.text = typed]
    PROVE  /\ postPage' \in PageRecords /\ postPage'.posting
           /\ postPage'.comments = postPage.comments /\ postPage'.post = postPage.post
           /\ postPage'.busy = postPage.busy /\ postPage'.text = typed
BY DEF PageRecords

LEMMA FlipIsSwitch ==
    ASSUME NEW o \in Switches, NEW t \in Post!Toggles PROVE [o EXCEPT ![t] = ~@] \in Switches
BY DEF Switches

LEMMA OnIsSwitch ==
    ASSUME NEW o \in Switches, NEW t \in Post!Toggles
    PROVE  /\ [o EXCEPT ![t] = TRUE] \in Switches
           /\ [o EXCEPT ![t] = TRUE][t] /\ \A u \in Post!Toggles \ {t} : [o EXCEPT ![t] = TRUE][u] = o[u]
BY DEF Switches

LEMMA OffIsSwitch ==
    ASSUME NEW o \in Switches, NEW t \in Post!Toggles
    PROVE  /\ [o EXCEPT ![t] = FALSE] \in Switches
           /\ ~[o EXCEPT ![t] = FALSE][t] /\ \A u \in Post!Toggles \ {t} : [o EXCEPT ![t] = FALSE][u] = o[u]
BY DEF Switches

LEMMA SetIsSwitch ==
    ASSUME NEW o \in Switches, NEW t \in Post!Toggles, NEW was \in BOOLEAN PROVE [o EXCEPT ![t] = was] \in Switches
BY DEF Switches

LEMMA PageSwitches ==
    ASSUME NEW page \in PageRecords, NEW b \in Switches, NEW o \in Switches, NEW q, q = [page EXCEPT !.busy = b, !.on = o]
    PROVE  q \in PageRecords
BY DEF PageRecords

LEMMA PageToggles ==
    ASSUME postPage \in PageRecords, NEW t \in Post!Toggles,
           postPage' = [postPage EXCEPT !.busy[t] = TRUE, !.on = Post!Flipped(t)]
    PROVE  /\ postPage' \in PageRecords
           /\ postPage'.comments = postPage.comments /\ postPage'.post = postPage.post
           /\ postPage'.busy[t] /\ \A u \in Post!Toggles \ {t} : postPage'.busy[u] = postPage.busy[u]
           /\ postPage'.posting = postPage.posting /\ postPage'.text = postPage.text
<1>1. /\ postPage'.comments = postPage.comments /\ postPage'.post = postPage.post
      /\ postPage'.posting = postPage.posting /\ postPage'.text = postPage.text
    BY DEF PageRecords
<1>2. postPage'.busy = [postPage.busy EXCEPT ![t] = TRUE]
    BY DEF PageRecords
<1>3. postPage'.on = Post!Flipped(t)
    BY DEF PageRecords
<1>4. postPage.busy \in Switches /\ postPage.on \in Switches
    BY DEF PageRecords
<1>5. /\ postPage'.busy \in Switches /\ postPage'.busy[t]
      /\ \A u \in Post!Toggles \ {t} : postPage'.busy[u] = postPage.busy[u]
    BY <1>2, <1>4, OnIsSwitch
<1>6. postPage'.on \in Switches
    BY <1>3, <1>4, FlipIsSwitch DEF Post!Flipped
<1>7. PICK b \in Switches, o \in Switches : b = postPage'.busy /\ o = postPage'.on
    BY <1>5, <1>6
<1>8. postPage' = [postPage EXCEPT !.busy = b, !.on = o]
    BY <1>7 DEF PageRecords
<1>9. postPage' \in PageRecords
    BY <1>8, PageSwitches
<1> QED
    BY <1>1, <1>5, <1>9

LEMMA PageToggled ==
    ASSUME postPage \in PageRecords, NEW t \in Post!Toggles, NEW was \in BOOLEAN,
           \/ postPage' = [postPage EXCEPT !.busy[t] = FALSE]
           \/ postPage' = [postPage EXCEPT !.busy[t] = FALSE, !.on[t] = was]
    PROVE  /\ postPage' \in PageRecords
           /\ postPage'.comments = postPage.comments /\ postPage'.post = postPage.post
           /\ ~postPage'.busy[t] /\ \A u \in Post!Toggles \ {t} : postPage'.busy[u] = postPage.busy[u]
           /\ postPage'.posting = postPage.posting /\ postPage'.text = postPage.text
<1>1. /\ postPage'.comments = postPage.comments /\ postPage'.post = postPage.post
      /\ postPage'.posting = postPage.posting /\ postPage'.text = postPage.text
    BY DEF PageRecords
<1>2. postPage'.busy = [postPage.busy EXCEPT ![t] = FALSE]
    BY DEF PageRecords
<1>3. postPage'.on = postPage.on \/ postPage'.on = [postPage.on EXCEPT ![t] = was]
    BY DEF PageRecords
<1>4. postPage.busy \in Switches /\ postPage.on \in Switches
    BY DEF PageRecords
<1>5. /\ postPage'.busy \in Switches /\ ~postPage'.busy[t]
      /\ \A u \in Post!Toggles \ {t} : postPage'.busy[u] = postPage.busy[u]
    BY <1>2, <1>4, OffIsSwitch
<1>6. postPage'.on \in Switches
    BY <1>3, <1>4, SetIsSwitch
<1>7. PICK b \in Switches, o \in Switches : b = postPage'.busy /\ o = postPage'.on
    BY <1>5, <1>6
<1>8. postPage' = [postPage EXCEPT !.busy = b, !.on = o]
    BY <1>7 DEF PageRecords
<1>9. postPage' \in PageRecords
    BY <1>8, PageSwitches
<1> QED
    BY <1>1, <1>5, <1>9

\* The flags of load() and of the button Publish are not those of the writes.
LEMMA PageLoads ==
    ASSUME postPage \in PageRecords, NEW isLoading \in BOOLEAN, NEW isError \in BOOLEAN, NEW publishing \in BOOLEAN,
           \/ postPage' = [postPage EXCEPT !.loading = isLoading, !.error = isError]
           \/ postPage' = [postPage EXCEPT !.error = isError, !.loading = isLoading, !.publishing = publishing]
           \/ postPage' = [postPage EXCEPT !.publishing = publishing]
    PROVE  /\ postPage' \in PageRecords
           /\ postPage'.comments = postPage.comments /\ postPage'.post = postPage.post
           /\ postPage'.busy = postPage.busy /\ postPage'.posting = postPage.posting /\ postPage'.text = postPage.text
BY DEF PageRecords

LEMMA PagePublishes ==
    ASSUME postPage \in PageRecords, postPage' = [postPage EXCEPT !.publishing = TRUE]
    PROVE  /\ postPage' \in PageRecords
           /\ postPage'.comments = postPage.comments /\ postPage'.post = postPage.post
           /\ postPage'.busy = postPage.busy /\ postPage'.posting = postPage.posting /\ postPage'.text = postPage.text
BY DEF PageRecords

LEMMA PageLoaded ==
    ASSUME postPage \in PageRecords, NEW r \in PostAskRecords, NEW isLoading \in BOOLEAN, NEW publishing \in BOOLEAN,
           postPage' = [postPage EXCEPT !.post = r.post, !.comments = r.list, !.dead = r.dead, !.on = r.on,
                                        !.loading = isLoading, !.publishing = publishing]
    PROVE  /\ postPage' \in PageRecords
           /\ postPage'.comments = r.list /\ postPage'.post = r.post
           /\ postPage'.busy = postPage.busy /\ postPage'.posting = postPage.posting /\ postPage'.text = postPage.text
BY DEF PageRecords, PostAskRecords

LEMMA PageRefetched ==
    ASSUME postPage \in PageRecords, NEW ids \in Seq(Nat), NEW dead \in SUBSET Nat,
           postPage' = [postPage EXCEPT !.comments = ids, !.dead = dead, !.posting = FALSE]
    PROVE  /\ postPage' \in PageRecords /\ ~postPage'.posting
           /\ postPage'.comments = ids /\ postPage'.post = postPage.post
           /\ postPage'.busy = postPage.busy /\ postPage'.text = postPage.text
BY DEF PageRecords

LEMMA PageStopsPosting ==
    ASSUME postPage \in PageRecords, postPage' = [postPage EXCEPT !.posting = FALSE]
    PROVE  /\ postPage' \in PageRecords /\ ~postPage'.posting
           /\ postPage'.comments = postPage.comments /\ postPage'.post = postPage.post
           /\ postPage'.busy = postPage.busy /\ postPage'.text = postPage.text
BY DEF PageRecords

LEMMA PageTakes ==
    ASSUME postPage \in PageRecords, NEW ids \in Seq(Nat), postPage' = [postPage EXCEPT !.comments = ids]
    PROVE  /\ postPage' \in PageRecords
           /\ postPage'.comments = ids /\ postPage'.post = postPage.post
           /\ postPage'.busy = postPage.busy /\ postPage'.posting = postPage.posting /\ postPage'.text = postPage.text
BY DEF PageRecords

LEMMA PageMerges ==
    ASSUME postPage \in PageRecords, NEW ids \in Seq(Nat), NEW isLoading \in BOOLEAN, NEW isError \in BOOLEAN,
           postPage' = [postPage EXCEPT !.loading = isLoading, !.error = isError, !.comments = ids]
    PROVE  /\ postPage' \in PageRecords
           /\ postPage'.comments = ids /\ postPage'.post = postPage.post
           /\ postPage'.busy = postPage.busy /\ postPage'.posting = postPage.posting /\ postPage'.text = postPage.text
BY DEF PageRecords

\* The text of a comment that is made is gone from its box.
LEMMA PageEmpties ==
    ASSUME postPage \in PageRecords, postPage' = [postPage EXCEPT !.text = 0]
    PROVE  /\ postPage' \in PageRecords /\ postPage'.text = 0
           /\ postPage'.comments = postPage.comments /\ postPage'.post = postPage.post
           /\ postPage'.busy = postPage.busy /\ postPage'.posting = postPage.posting
BY DEF PageRecords

-----------------------------------------------------------------------------
(* The post's page: its types, and that what is listed was written.         *)

PostWithin ==
    /\ postBound \in PostBounds /\ postId \in postBound.posts
    /\ visit \in Nat /\ 1 <= visit /\ visit <= postBound.visits
    /\ pressed \in Nat /\ pressed <= postBound.presses

RowsIn == postRows \in Seq(RowRecords)

AskIn(r) ==
    /\ r \in PostAskRecords
    /\ r.post \in postBound.posts /\ r.visit <= visit
    /\ Post!Range(r.list) \subseteq 1 .. Len(postRows) /\ Post!IsInjective(r.list)
    /\ r.kind \in {"reply", "edit", "remove"} => r.arg \in 1 .. Len(postRows)

PageIn ==
    /\ postPage \in PageRecords /\ postPage.post \in postBound.posts \cup {"nopost"}
    /\ Post!Range(postPage.comments) \subseteq 1 .. Len(postRows)
    /\ Post!NoDuplicateComments

ListsIn ==
    /\ live \in [PostIds -> Seq(Nat)] /\ postPushes \in Seq(Nat)
    /\ \A p \in PostIds : Post!Range(live[p]) \subseteq 1 .. Len(postRows)
    /\ Post!Range(postPushes) \cup removed \subseteq 1 .. Len(postRows)

PostTyped == PostWithin /\ RowsIn /\ (\A r \in postAsks : AskIn(r)) /\ PageIn /\ ListsIn

LEMMA BoundIs ==
    ASSUME PostWithin PROVE postBound.posts \subseteq PostIds /\ postBound.visits \in Nat /\ postBound.presses \in Nat
BY PostBoundsAssumption DEF PostWithin

LEMMA EmptyList == <<>> \in Seq(Nat) /\ Post!Range(<<>>) = {} /\ Post!IsInjective(<<>>)
BY DEF Post!Range, Post!IsInjective

LEMMA PostTypesStart == Post!Init => PostTyped
<1> SUFFICES ASSUME Post!Init PROVE PostTyped
    OBVIOUS
<1>1. PostWithin
    BY PostBoundsAssumption DEF Post!Init, PostWithin
<1>2. RowsIn /\ Len(postRows) = 0
    BY DEF Post!Init, RowsIn
<1>3. \A r \in postAsks : AskIn(r)
    <2> SUFFICES ASSUME NEW r, r = Post!Ask("load", postId, 0, 1) PROVE AskIn(r)
        BY DEF Post!Init
    <2>1. /\ r \in PostAskRecords
          /\ r.kind = "load" /\ r.post = postId /\ r.arg = 0 /\ r.visit = 1 /\ r.stage = "asked" /\ r.list = <<>>
        BY <1>1, BoundIs, PostAskIs DEF PostKinds, PostWithin
    <2>2. visit = 1
        BY DEF Post!Init
    <2> QED
        BY <1>1, <2>1, <2>2, EmptyList DEF AskIn, PostWithin
<1>4. PageIn
    <2>1. Post!Off \in Switches
        BY DEF Post!Off, Switches
    <2>2. postPage \in PageRecords /\ postPage.post = "nopost" /\ postPage.comments = <<>>
        BY <2>1 DEF Post!Init, Post!Blank, PageRecords, Post!NoPost
    <2> QED
        BY <2>2, EmptyList DEF PageIn, Post!NoDuplicateComments
<1>5. ListsIn
    <2>1. live = [p \in PostIds |-> <<>>] /\ postPushes = <<>> /\ removed = {}
        BY DEF Post!Init
    <2> QED
        BY <2>1, EmptyList DEF ListsIn
<1> QED
    BY <1>1, <1>2, <1>3, <1>4, <1>5 DEF PostTyped

\* The table grows, and what was written stays what it was.
RowsGrow ==
    /\ RowsIn' /\ Len(postRows) \in Nat /\ Len(postRows') \in Nat /\ Len(postRows) <= Len(postRows')
    /\ \A i \in 1 .. Len(postRows) : postRows'[i].draft = postRows[i].draft

LEMMA RowsStay == ASSUME RowsIn, postRows' = postRows PROVE RowsGrow
BY DEF RowsIn, RowsGrow

LEMMA InsertGrows ==
    ASSUME RowsIn, NEW p \in PostIds, NEW parent \in Nat, NEW mine \in BOOLEAN, NEW typed \in Nat,
           Post!Insert(p, parent, mine, typed)
    PROVE  /\ RowsGrow
           /\ Len(postRows') = Len(postRows) + 1 /\ postRows'[Len(postRows) + 1].draft = typed
           /\ postPushes' = postPushes \/ postPushes' = Append(postPushes, Len(postRows) + 1)
<1> PICK row \in RowRecords :
        row = [post |-> p, parent |-> parent, mine |-> mine, draft |-> typed, state |-> "there"]
    BY DEF RowRecords
<1>1. postRows' = Append(postRows, row) /\ row.draft = typed
    BY DEF Post!Insert
<1>2. postPushes' = postPushes \/ postPushes' = Append(postPushes, Len(postRows) + 1)
    BY DEF Post!Insert
<1> QED
    BY <1>1, <1>2 DEF RowsIn, RowsGrow

LEMMA RowChanges ==
    ASSUME RowsIn, NEW c \in 1 .. Len(postRows), NEW s \in {"there", "tombstone", "gone", "hidden", "buried"},
           postRows' = [postRows EXCEPT ![c].state = s]
    PROVE  RowsGrow /\ Len(postRows') = Len(postRows)
<1>1. PICK o \in RowRecords : o = postRows[c]
    BY DEF RowsIn
<1>2. PICK row : row = [o EXCEPT !.state = s]
    OBVIOUS
<1>3. row \in RowRecords /\ row.draft = o.draft
    BY <1>2 DEF RowRecords
<1>4. postRows' = [postRows EXCEPT ![c] = row]
    BY <1>1, <1>2
<1> QED
    BY <1>1, <1>3, <1>4 DEF RowsIn, RowsGrow

LEMMA DeletedChanges ==
    ASSUME RowsIn, NEW c \in 1 .. Len(postRows), postRows' = Post!Deleted(c)
    PROVE  RowsGrow /\ Len(postRows') = Len(postRows)
<1> PICK s \in {"tombstone", "gone", "buried"} :
        s = IF ~Post!HasReplies(c) THEN "gone" ELSE IF postRows[c].state = "hidden" THEN "buried" ELSE "tombstone"
    OBVIOUS
<1>1. postRows' = [postRows EXCEPT ![c].state = s]
    BY DEF Post!Deleted
<1> QED
    BY <1>1, RowChanges

\* What was right of a request, a page or a list stays so.
LEMMA AskStays ==
    ASSUME NEW r, AskIn(r), RowsGrow, postBound' = postBound, visit \in Nat, visit' \in Nat, visit <= visit'
    PROVE  AskIn(r)'
<1>1. r.visit \in Nat
    BY DEF AskIn, PostAskRecords
<1> QED
    BY <1>1 DEF AskIn, RowsGrow

LEMMA PageStaysIn ==
    ASSUME PageIn, RowsGrow, postBound' = postBound, postPage' \in PageRecords,
           postPage'.comments = postPage.comments, postPage'.post = postPage.post
    PROVE  PageIn'
BY DEF PageIn, RowsGrow, Post!NoDuplicateComments

LEMMA ListsStayIn ==
    ASSUME ListsIn, RowsGrow, UNCHANGED <<live, removed>>,
           postPushes' = postPushes \/ (postPushes' = Append(postPushes, Len(postRows) + 1) /\ Len(postRows') = Len(postRows) + 1)
    PROVE  ListsIn'
<1>1. postPushes' \in Seq(Nat) /\ Post!Range(postPushes') \subseteq 1 .. Len(postRows')
    <2>1. CASE postPushes' = postPushes
        BY <2>1 DEF ListsIn, RowsGrow
    <2>2. CASE postPushes' = Append(postPushes, Len(postRows) + 1) /\ Len(postRows') = Len(postRows) + 1
        <3>1. postPushes \in Seq(Nat) /\ Len(postRows) + 1 \in Nat /\ Post!Range(postPushes) \subseteq 1 .. Len(postRows)
            BY DEF ListsIn, RowsGrow
        <3>2. postPushes' \in Seq(Nat) /\ Post!Range(postPushes') = Post!Range(postPushes) \cup {Len(postRows) + 1}
            BY <2>2, <3>1, AppendAdds
        <3> QED
            BY <2>2, <3>1, <3>2 DEF RowsGrow
    <2> QED
        BY <2>1, <2>2
<1> QED
    BY <1>1 DEF ListsIn, RowsGrow

\* A new request.
LEMMA NewAskIn ==
    ASSUME PostWithin', NEW kind \in PostKinds, NEW arg \in Nat, NEW r, r = Post!Ask(kind, postId', arg, visit'),
           kind \in {"reply", "edit", "remove"} => arg \in 1 .. Len(postRows')
    PROVE  AskIn(r)' /\ r.kind = kind /\ r.arg = arg /\ r.stage = "asked"
<1>1. postId' \in PostIds /\ visit' \in Nat /\ postId' \in postBound'.posts
    BY PostBoundsAssumption DEF PostWithin
<1>2. /\ r \in PostAskRecords
      /\ r.kind = kind /\ r.post = postId' /\ r.arg = arg /\ r.visit = visit' /\ r.stage = "asked" /\ r.list = <<>>
    BY <1>1, PostAskIs
<1> QED
    BY <1>1, <1>2, EmptyList DEF AskIn

-----------------------------------------------------------------------------
(* The post's page: what the steps do, by their sort.                       *)

PostRest == UNCHANGED <<postBound, postId, visit>>
RoomRest == PostRest /\ UNCHANGED <<live, removed>>

\* The fields of the page that the other lists and requests hang on.
SameLists == postPage'.comments = postPage.comments /\ postPage'.post = postPage.post
SameFlags == postPage'.busy = postPage.busy /\ postPage'.posting = postPage.posting
SameText  == postPage'.text = postPage.text

\* A press: of a write when none is under way, of a switch when it is not busy.
PressedAs(kind, arg) ==
    /\ kind \in PostKinds \ {"load", "refetch"} /\ arg \in Nat
    /\ RoomRest /\ UNCHANGED <<postRows, postPushes, postLost>>
    /\ pressed' = pressed + 1 /\ pressed < postBound.presses
    /\ postAsks' = postAsks \cup {Post!Ask(kind, postId, arg, visit)}
    /\ kind \in {"reply", "edit", "remove"} => arg \in 1 .. Len(postRows)
    /\ postPage' \in PageRecords /\ SameLists
    /\ IF kind \in Post!Writes THEN ~postPage.posting /\ postPage'.posting ELSE postPage'.posting = postPage.posting
    /\ \A t \in Post!Toggles : IF t = kind THEN ~postPage.busy[t] /\ postPage'.busy[t]
                               ELSE postPage'.busy[t] = postPage.busy[t]
    /\ IF kind = "comment"
       THEN postPage'.text = arg /\ arg = IF postPage.text = 0 THEN pressed + 1 ELSE postPage.text
       ELSE SameText

PostPressed ==
    \/ Post!SubmitComment \/ Post!PublishDraft \/ Post!DeletePost
    \/ \E c \in 1 .. Len(postRows) : Post!SubmitReply(c) \/ Post!EditComment(c) \/ Post!RemoveComment(c)
    \/ \E t \in Post!Toggles : Post!Toggle(t)

LEMMA PressIs ==
    ASSUME NEW kind, NEW arg, Post!Press(kind, arg)
    PROVE  /\ RoomRest /\ UNCHANGED <<postRows, postPushes, postLost>>
           /\ pressed' = pressed + 1 /\ pressed < postBound.presses
           /\ postAsks' = postAsks \cup {Post!Ask(kind, postId, arg, visit)}
BY DEF Post!Press, RoomRest, PostRest

LEMMA WriteIs ==
    ASSUME postPage \in PageRecords, NEW kind \in {"reply", "edit", "remove"}, NEW c \in 1 .. Len(postRows), RowsIn,
           Post!Write(kind, c), postPage' = [postPage EXCEPT !.posting = TRUE]
    PROVE  PressedAs(kind, c)
<1>1. c \in Nat /\ kind \in PostKinds \ {"load", "refetch"} /\ kind \in Post!Writes /\ kind \notin Post!Toggles
    BY DEF RowsIn, PostKinds, Post!Writes, Post!Toggles
<1>2. ~postPage.posting /\ Post!Press(kind, c)
    BY DEF Post!Write
<1>3. /\ postPage' \in PageRecords /\ postPage'.posting
      /\ postPage'.comments = postPage.comments /\ postPage'.post = postPage.post
      /\ postPage'.busy = postPage.busy /\ postPage'.text = postPage.text
    BY PagePosts
<1>4. /\ RoomRest /\ UNCHANGED <<postRows, postPushes, postLost>>
      /\ pressed' = pressed + 1 /\ pressed < postBound.presses
      /\ postAsks' = postAsks \cup {Post!Ask(kind, postId, c, visit)}
    BY <1>2, PressIs
<1>5. SameLists /\ SameText /\ kind # "comment"
    BY <1>3 DEF SameLists, SameText
<1>6. \A t \in Post!Toggles : t # kind /\ postPage'.busy[t] = postPage.busy[t]
    BY <1>1, <1>3
<1> QED
    BY <1>1, <1>2, <1>3, <1>4, <1>5, <1>6, Zenon DEF PressedAs

LEMMA PressesAre ==
    ASSUME PostTyped, PostPressed
    PROVE  \E kind, arg : PressedAs(kind, arg)
<1>0. postPage \in PageRecords /\ RowsIn /\ pressed \in Nat /\ postPage.text \in Nat
    BY DEF PostTyped, PageIn, PostWithin, PageRecords
<1>1. CASE Post!SubmitComment
    <2> PICK typed : typed = IF postPage.text = 0 THEN pressed + 1 ELSE postPage.text
        OBVIOUS
    <2>1. typed \in Nat
        BY <1>0
    <2>2. Post!Write("comment", typed) /\ postPage' = [postPage EXCEPT !.posting = TRUE, !.text = typed]
        BY <1>1 DEF Post!SubmitComment
    <2>3. ~postPage.posting /\ Post!Press("comment", typed)
        BY <2>2 DEF Post!Write
    <2>4. /\ postPage' \in PageRecords /\ postPage'.posting
          /\ postPage'.comments = postPage.comments /\ postPage'.post = postPage.post
          /\ postPage'.busy = postPage.busy /\ postPage'.text = typed
        BY <1>0, <2>1, <2>2, PagePostsText
    <2>5. /\ RoomRest /\ UNCHANGED <<postRows, postPushes, postLost>>
          /\ pressed' = pressed + 1 /\ pressed < postBound.presses
          /\ postAsks' = postAsks \cup {Post!Ask("comment", postId, typed, visit)}
        BY <2>3, PressIs
    <2>6. "comment" \in PostKinds \ {"load", "refetch"} /\ "comment" \in Post!Writes /\ "comment" \notin Post!Toggles
          /\ "comment" \notin {"reply", "edit", "remove"}
        BY DEF PostKinds, Post!Writes, Post!Toggles
    <2>7. SameLists /\ \A t \in Post!Toggles : t # "comment" /\ postPage'.busy[t] = postPage.busy[t]
        BY <2>4, <2>6 DEF SameLists
    <2>8. PressedAs("comment", typed)
        BY <2>1, <2>3, <2>4, <2>5, <2>6, <2>7, Zenon DEF PressedAs
    <2> QED
        BY <2>8
<1>2. ASSUME NEW c \in 1 .. Len(postRows), Post!SubmitReply(c) \/ Post!EditComment(c) \/ Post!RemoveComment(c)
      PROVE  \E kind, arg : PressedAs(kind, arg)
    <2>1. PICK kind \in {"reply", "edit", "remove"} :
             Post!Write(kind, c) /\ postPage' = [postPage EXCEPT !.posting = TRUE]
        BY <1>2 DEF Post!SubmitReply, Post!EditComment, Post!RemoveComment
    <2>2. PressedAs(kind, c)
        BY <1>0, <2>1, WriteIs
    <2> QED
        BY <2>2
<1>3. ASSUME NEW t \in Post!Toggles, Post!Toggle(t) PROVE \E kind, arg : PressedAs(kind, arg)
    <2>1. PICK arg \in {0, 1} : Post!Press(t, arg)
        BY <1>3 DEF Post!Toggle
    <2>2. ~postPage.busy[t] /\ postPage' = [postPage EXCEPT !.busy[t] = TRUE, !.on = Post!Flipped(t)]
        BY <1>3 DEF Post!Toggle
    <2>3. /\ postPage' \in PageRecords
          /\ postPage'.comments = postPage.comments /\ postPage'.post = postPage.post
          /\ postPage'.busy[t] /\ \A u \in Post!Toggles \ {t} : postPage'.busy[u] = postPage.busy[u]
          /\ postPage'.posting = postPage.posting /\ postPage'.text = postPage.text
        BY <1>0, <2>2, PageToggles
    <2>4. /\ RoomRest /\ UNCHANGED <<postRows, postPushes, postLost>>
          /\ pressed' = pressed + 1 /\ pressed < postBound.presses
          /\ postAsks' = postAsks \cup {Post!Ask(t, postId, arg, visit)}
        BY <2>1, PressIs
    <2>5. t \in PostKinds \ {"load", "refetch"} /\ t \notin Post!Writes /\ t \notin {"reply", "edit", "remove"} /\ t # "comment"
        BY DEF PostKinds, Post!Writes, Post!Toggles
    <2>6. SameLists /\ SameText /\ arg \in Nat
        BY <2>3 DEF SameLists, SameText
    <2>7. PressedAs(t, arg)
        BY <2>2, <2>3, <2>4, <2>5, <2>6, Zenon DEF PressedAs
    <2> QED
        BY <2>7
<1>4. CASE Post!PublishDraft \/ Post!DeletePost
    <2>1. PICK kind \in {"publish", "delete"} : Post!Press(kind, 0)
        BY <1>4 DEF Post!PublishDraft, Post!DeletePost
    <2>2. postPage' = [postPage EXCEPT !.publishing = TRUE] \/ postPage' = postPage
        BY <1>4 DEF Post!PublishDraft, Post!DeletePost
    <2>3. /\ postPage' \in PageRecords
          /\ postPage'.comments = postPage.comments /\ postPage'.post = postPage.post
          /\ postPage'.busy = postPage.busy /\ postPage'.posting = postPage.posting /\ postPage'.text = postPage.text
        <3>1. CASE postPage' = [postPage EXCEPT !.publishing = TRUE]
            BY <1>0, <3>1, PagePublishes
        <3>2. CASE postPage' = postPage
            BY <1>0, <3>2
        <3> QED
            BY <2>2, <3>1, <3>2
    <2>4. /\ RoomRest /\ UNCHANGED <<postRows, postPushes, postLost>>
          /\ pressed' = pressed + 1 /\ pressed < postBound.presses
          /\ postAsks' = postAsks \cup {Post!Ask(kind, postId, 0, visit)}
        BY <2>1, PressIs
    <2>5. /\ kind \in PostKinds \ {"load", "refetch"} /\ kind \notin Post!Writes /\ kind \notin Post!Toggles
          /\ kind \notin {"reply", "edit", "remove"} /\ kind # "comment"
        BY DEF PostKinds, Post!Writes, Post!Toggles
    <2>6. SameLists /\ SameText /\ 0 \in Nat /\ \A t \in Post!Toggles : t # kind /\ postPage'.busy[t] = postPage.busy[t]
        BY <2>3, <2>5 DEF SameLists, SameText
    <2>7. PressedAs(kind, 0)
        BY <2>3, <2>4, <2>5, <2>6, Zenon DEF PressedAs
    <2> QED
        BY <2>7
<1> QED
    BY <1>1, <1>2, <1>3, <1>4 DEF PostPressed

\* A request is served: a read takes the list of its moment, and a create makes a row.
ServedAs(r, s) ==
    /\ r \in postAsks /\ r.stage = "asked" /\ postAsks' = (postAsks \ {r}) \cup {s}
    /\ AskIn(s)' /\ s.kind = r.kind /\ s.arg = r.arg /\ s.stage = "done"
    /\ RoomRest /\ UNCHANGED <<pressed, postPage, postLost>>
    /\ RowsGrow
    /\ \/ Len(postRows') = Len(postRows) /\ UNCHANGED postPushes
       \/ /\ Len(postRows') = Len(postRows) + 1
          /\ postRows'[Len(postRows) + 1].draft = 0 \/ (r.kind = "comment" /\ postRows'[Len(postRows) + 1].draft = r.arg)
          /\ postPushes' = postPushes \/ postPushes' = Append(postPushes, Len(postRows) + 1)

PostServed(r) ==
    Post!ServeRead(r) \/ Post!ServeCreate(r) \/ Post!ServeChange(r) \/ Post!ServeToggle(r) \/ Post!ServeOther(r)

LEMMA AskServed ==
    ASSUME NEW r, NEW s, AskIn(r), RowsGrow, visit \in Nat, UNCHANGED <<postBound, visit>>,
           NEW dead \in SUBSET Nat,
           s = [r EXCEPT !.stage = "done"] \/ s = [r EXCEPT !.stage = "done", !.dead = dead]
    PROVE  AskIn(s)' /\ s.kind = r.kind /\ s.arg = r.arg /\ s.stage = "done"
<1>1. /\ s \in PostAskRecords
      /\ s.kind = r.kind /\ s.arg = r.arg /\ s.post = r.post /\ s.visit = r.visit /\ s.list = r.list /\ s.stage = "done"
    BY DEF AskIn, PostAskRecords
<1>2. AskIn(s)
    BY <1>1 DEF AskIn
<1>3. AskIn(s)'
    BY <1>2, AskStays
<1> QED
    BY <1>1, <1>3

LEMMA AskRead ==
    ASSUME NEW r, NEW s, AskIn(r), RowsGrow, visit \in Nat, UNCHANGED <<postBound, visit>>,
           NEW ids \in Seq(Nat), NEW dead \in SUBSET Nat, NEW on \in Switches,
           Post!Range(ids) \subseteq 1 .. Len(postRows), Post!IsInjective(ids),
           s = [r EXCEPT !.stage = "done", !.list = ids, !.dead = dead, !.on = on]
    PROVE  AskIn(s)' /\ s.kind = r.kind /\ s.arg = r.arg /\ s.stage = "done"
<1>1. /\ s \in PostAskRecords
      /\ s.kind = r.kind /\ s.arg = r.arg /\ s.post = r.post /\ s.visit = r.visit /\ s.list = ids /\ s.stage = "done"
    BY DEF AskIn, PostAskRecords
<1>2. AskIn(s)
    BY <1>1 DEF AskIn
<1>3. AskIn(s)'
    BY <1>2, AskStays
<1> QED
    BY <1>1, <1>3

\* What was liked or saved, as the answer of a load has it.
LEMMA LikesAreSwitches == \A p : [t \in Post!Toggles |-> p \in stored[t]] \in Switches
BY DEF Switches

LEMMA ServesAre ==
    ASSUME PostTyped, NEW r \in postAsks, PostServed(r)
    PROVE  \E s : ServedAs(r, s)
<1>1. AskIn(r) /\ RowsIn /\ visit \in Nat /\ Len(postRows) \in Nat /\ r.arg \in Nat /\ r.post \in PostIds
    BY DEF PostTyped, PostWithin, RowsIn, AskIn, PostAskRecords
<1>2. /\ r.stage = "asked" /\ RoomRest /\ UNCHANGED <<pressed, postPage, postLost>>
    BY DEF PostServed, Post!ServeRead, Post!ServeCreate, Post!ServeChange, Post!ServeToggle, Post!ServeOther,
           Post!Serve, RoomRest, PostRest
<1>3. UNCHANGED <<postBound, visit>>
    BY <1>2 DEF RoomRest, PostRest
<1>4. CASE Post!ServeRead(r)
    <2>1. UNCHANGED <<postRows, postPushes>>
        BY <1>4 DEF Post!ServeRead
    <2>2. RowsGrow
        BY <1>1, <2>1, RowsStay
    <2>3. PICK ids \in {Post!Listed(r.post), <<>>} :
             postAsks' = (postAsks \ {r}) \cup {[r EXCEPT !.stage = "done", !.list = ids,
                             !.dead = Post!Tombstones \cap Post!Range(ids), !.on = [t \in Post!Toggles |-> r.post \in stored[t]]]}
        BY <1>4 DEF Post!ServeRead
    <2>4. ids \in Seq(Nat) /\ Post!Range(ids) \subseteq 1 .. Len(postRows) /\ Post!IsInjective(ids)
        BY <1>1, <2>3, ListedOnce, EmptyList
    <2>5. Post!Tombstones \cap Post!Range(ids) \in SUBSET Nat
        BY <2>4
    <2> PICK on \in Switches : on = [t \in Post!Toggles |-> r.post \in stored[t]]
        BY LikesAreSwitches
    <2> PICK dead \in SUBSET Nat : dead = Post!Tombstones \cap Post!Range(ids)
        BY <2>5
    <2>6. PICK s : s = [r EXCEPT !.stage = "done", !.list = ids, !.dead = dead, !.on = on]
        OBVIOUS
    <2>7. postAsks' = (postAsks \ {r}) \cup {s}
        BY <2>3, <2>6, Zenon
    <2>8. AskIn(s)' /\ s.kind = r.kind /\ s.arg = r.arg /\ s.stage = "done"
        BY <1>1, <1>3, <2>2, <2>4, <2>6, AskRead
    <2>9. ServedAs(r, s)
        BY <1>2, <2>1, <2>2, <2>7, <2>8 DEF ServedAs
    <2> QED
        BY <2>9
<1>5. CASE Post!ServeCreate(r)
    <2>1. PICK s : s = [r EXCEPT !.stage = "done"]
        OBVIOUS
    <2>2. postAsks' = (postAsks \ {r}) \cup {s} /\ r.kind \in {"comment", "reply"}
        BY <1>5, <2>1 DEF Post!ServeCreate, Post!Done
    <2>3. /\ RowsGrow /\ Len(postRows') = Len(postRows) + 1
          /\ postRows'[Len(postRows) + 1].draft = 0 \/ (r.kind = "comment" /\ postRows'[Len(postRows) + 1].draft = r.arg)
          /\ postPushes' = postPushes \/ postPushes' = Append(postPushes, Len(postRows) + 1)
        <3>1. CASE r.kind = "comment"
            <4>1. PICK mine \in BOOLEAN : Post!Insert(r.post, 0, mine, r.arg)
                BY <1>5, <3>1 DEF Post!ServeCreate
            <4>2. 0 \in Nat
                OBVIOUS
            <4> QED
                BY <1>1, <3>1, <4>1, <4>2, InsertGrows
        <3>2. CASE r.kind # "comment"
            <4>1. PICK mine \in BOOLEAN : Post!Insert(r.post, r.arg, mine, 0)
                BY <1>5, <3>2 DEF Post!ServeCreate
            <4>2. 0 \in Nat
                OBVIOUS
            <4> QED
                BY <1>1, <4>1, <4>2, InsertGrows
        <3> QED
            BY <3>1, <3>2
    <2>4. AskIn(s)' /\ s.kind = r.kind /\ s.arg = r.arg /\ s.stage = "done"
        BY <1>1, <1>3, <2>1, <2>3, AskServed
    <2>5. ServedAs(r, s)
        BY <1>2, <2>2, <2>3, <2>4 DEF ServedAs
    <2> QED
        BY <2>5
<1>6. CASE Post!ServeChange(r)
    <2>1. r.kind \in {"edit", "remove"} /\ r.arg \in 1 .. Len(postRows)
        BY <1>1, <1>6 DEF Post!ServeChange, AskIn
    <2>2. postPushes' = postPushes /\ (postRows' = postRows \/ postRows' = Post!Deleted(r.arg))
        BY <1>6 DEF Post!ServeChange
    <2>3. RowsGrow /\ Len(postRows') = Len(postRows)
        BY <1>1, <2>1, <2>2, RowsStay, DeletedChanges DEF RowsGrow
    <2>4. PICK dead \in SUBSET Nat : dead = IF Post!HasReplies(r.arg) THEN {r.arg} ELSE {}
        BY <1>1
    <2>5. PICK s : s = [r EXCEPT !.stage = "done", !.dead = dead]
        OBVIOUS
    <2>6. postAsks' = (postAsks \ {r}) \cup {s}
        BY <1>6, <2>4, <2>5 DEF Post!ServeChange
    <2>7. AskIn(s)' /\ s.kind = r.kind /\ s.arg = r.arg /\ s.stage = "done"
        BY <1>1, <1>3, <2>3, <2>5, AskServed
    <2>8. ServedAs(r, s)
        BY <1>2, <2>2, <2>3, <2>6, <2>7 DEF ServedAs
    <2> QED
        BY <2>8
<1>7. CASE Post!ServeToggle(r) \/ Post!ServeOther(r)
    <2>1. PICK s : s = [r EXCEPT !.stage = "done"]
        OBVIOUS
    <2>2. postAsks' = (postAsks \ {r}) \cup {s} /\ UNCHANGED <<postRows, postPushes>>
        BY <1>7, <2>1 DEF Post!ServeToggle, Post!ServeOther, Post!Done
    <2>3. RowsGrow
        BY <1>1, <2>2, RowsStay
    <2>4. AskIn(s)' /\ s.kind = r.kind /\ s.arg = r.arg /\ s.stage = "done"
        BY <1>1, <1>3, <2>1, <2>3, AskServed
    <2>5. ServedAs(r, s)
        BY <1>2, <2>2, <2>3, <2>4 DEF ServedAs
    <2> QED
        BY <2>5
<1> QED
    BY <1>4, <1>5, <1>6, <1>7 DEF PostServed

\* An answer lands: it ends its request, or another one goes on with it.
LandedAs(r) ==
    /\ r \in postAsks /\ PostRest /\ UNCHANGED <<pressed, live, postRows, postPushes>>
    /\ removed' = removed \/ (r.kind = "remove" /\ removed' = removed \cup {r.arg})
    /\ postPage' \in PageRecords
    /\ \/ SameLists
       \/ r.kind \in {"load", "refetch"} /\ postPage'.comments = r.list /\ postPage'.post \in {postPage.post, r.post}
    /\ \/ postAsks' = postAsks \ {r} /\ (r.kind \in Post!Writes \cup {"refetch"} => ~postPage'.posting)
       \/ /\ r.kind \in Post!Writes /\ postPage'.posting = postPage.posting
          /\ postAsks' = (postAsks \ {r}) \cup {Post!Ask("refetch", postId, 0, visit)}
       \/ r.kind = "publish" /\ postAsks' = (postAsks \ {r}) \cup {Post!Ask("load", postId, 1, visit)}
    /\ r.kind \notin Post!Writes \cup {"refetch"} => postPage'.posting = postPage.posting
    /\ \A t \in Post!Toggles : IF t = r.kind THEN ~postPage'.busy[t] ELSE postPage'.busy[t] = postPage.busy[t]
    /\ postLost \subseteq postLost' /\ (SameText \/ (r.kind = "comment" /\ postPage'.text = 0))
    /\ r.kind = "comment" /\ r.stage = "done" /\ postPage'.text # 0 => r.arg \in postLost'

PostLanded(r) ==
    \/ Post!LandLoad(r) \/ Post!LandWrite(r) \/ Post!LandRefetch(r) \/ Post!LandFailedWrite(r)
    \/ Post!LandToggle(r) \/ Post!LandPublish(r) \/ Post!LandDelete(r)

\* The kinds are told apart.
LEMMA KindsDiffer ==
    /\ Post!Writes \subseteq PostKinds /\ Post!Toggles \subseteq PostKinds
    /\ \A t \in Post!Toggles : t \notin Post!Writes \cup {"load", "refetch", "publish", "delete", "remove", "comment"}
    /\ \A k \in Post!Writes : k \notin {"load", "refetch", "publish", "delete"}
    /\ {"load", "refetch", "publish", "delete"} \subseteq PostKinds /\ "remove" \in Post!Writes /\ "comment" \in Post!Writes
    /\ Post!Toggles \subseteq {"like", "bookmark"}
BY DEF PostKinds, Post!Writes, Post!Toggles

\* Of LandLoad and LandPublish.
LEMMA LoadLands ==
    ASSUME PostTyped, NEW r \in postAsks, Post!LandLoad(r) PROVE LandedAs(r)
<1>1. postPage \in PageRecords /\ r \in PostAskRecords /\ postPage.publishing \in BOOLEAN
    BY DEF PostTyped, PageIn, AskIn, PageRecords
<1>2. r.kind = "load" /\ PostRest /\ UNCHANGED <<pressed, live, removed, postRows, postPushes, postLost>> /\ postAsks' = postAsks \ {r}
    BY DEF Post!LandLoad, Post!Land, PostRest
<1> PICK publishing \in BOOLEAN : publishing = (postPage.publishing /\ r.arg = 0)
    OBVIOUS
<1> PICK yes \in BOOLEAN, no \in BOOLEAN : yes = TRUE /\ no = FALSE
    OBVIOUS
<1>3. \/ postPage' = [postPage EXCEPT !.post = r.post, !.comments = r.list, !.dead = r.dead, !.on = r.on,
                                     !.loading = no, !.publishing = publishing]
      \/ postPage' = [postPage EXCEPT !.error = yes, !.loading = no, !.publishing = publishing]
    BY Zenon DEF Post!LandLoad
<1>4. /\ postPage' \in PageRecords
      /\ \/ postPage'.comments = r.list /\ postPage'.post = r.post
         \/ postPage'.comments = postPage.comments /\ postPage'.post = postPage.post
      /\ postPage'.busy = postPage.busy /\ postPage'.posting = postPage.posting /\ postPage'.text = postPage.text
    <2>1. CASE postPage' = [postPage EXCEPT !.post = r.post, !.comments = r.list, !.dead = r.dead, !.on = r.on,
                                            !.loading = no, !.publishing = publishing]
        BY <1>1, <2>1, PageLoaded, Zenon
    <2>2. CASE postPage' = [postPage EXCEPT !.error = yes, !.loading = no, !.publishing = publishing]
        BY <1>1, <2>2, PageLoads, Zenon
    <2> QED
        BY <1>3, <2>1, <2>2
<1>5. r.kind \notin Post!Writes \cup {"refetch", "comment", "publish"} /\ \A t \in Post!Toggles : t # r.kind
    BY <1>2, KindsDiffer
<1>6. \A t \in Post!Toggles : IF t = r.kind THEN ~postPage'.busy[t] ELSE postPage'.busy[t] = postPage.busy[t]
    BY <1>4, <1>5
<1>7. SameText /\ postLost \subseteq postLost'
    BY <1>2, <1>4 DEF SameText
<1> QED
    BY <1>2, <1>4, <1>5, <1>6, <1>7, Zenon DEF LandedAs, SameLists

LEMMA PublishLands ==
    ASSUME PostTyped, NEW r \in postAsks, Post!LandPublish(r) PROVE LandedAs(r)
<1>1. postPage \in PageRecords /\ r \in PostAskRecords
    BY DEF PostTyped, PageIn, AskIn
<1>2. r.kind = "publish" /\ PostRest /\ UNCHANGED <<pressed, live, removed, postRows, postPushes, postLost>>
    BY DEF Post!LandPublish, PostRest
<1>3. postAsks' = postAsks \ {r} \/ postAsks' = (postAsks \ {r}) \cup {Post!Ask("load", postId, 1, visit)}
    BY DEF Post!LandPublish
<1> PICK yes \in BOOLEAN, no \in BOOLEAN : yes = TRUE /\ no = FALSE
    OBVIOUS
<1>4. postPage' = [postPage EXCEPT !.loading = yes, !.error = no] \/ postPage' = [postPage EXCEPT !.publishing = no]
    BY Zenon DEF Post!LandPublish
<1>5. /\ postPage' \in PageRecords
      /\ postPage'.comments = postPage.comments /\ postPage'.post = postPage.post
      /\ postPage'.busy = postPage.busy /\ postPage'.posting = postPage.posting /\ postPage'.text = postPage.text
    BY <1>1, <1>4, PageLoads
<1>6. r.kind \notin Post!Writes \cup {"refetch", "comment"} /\ \A t \in Post!Toggles : t # r.kind
    BY <1>2, KindsDiffer
<1>7. \A t \in Post!Toggles : IF t = r.kind THEN ~postPage'.busy[t] ELSE postPage'.busy[t] = postPage.busy[t]
    BY <1>5, <1>6
<1>8. SameText /\ SameLists /\ postLost \subseteq postLost'
    BY <1>2, <1>5 DEF SameText, SameLists
<1> QED
    BY <1>2, <1>3, <1>5, <1>6, <1>7, <1>8, Zenon DEF LandedAs

LEMMA ToggleLands ==
    ASSUME PostTyped, NEW r \in postAsks, Post!LandToggle(r) PROVE LandedAs(r)
<1>1. postPage \in PageRecords /\ r \in PostAskRecords /\ r.kind \in Post!Toggles
    BY DEF PostTyped, PageIn, AskIn, Post!LandToggle
<1>2. PostRest /\ UNCHANGED <<pressed, live, removed, postRows, postPushes, postLost>> /\ postAsks' = postAsks \ {r}
    BY DEF Post!LandToggle, Post!Land, PostRest
<1> PICK was \in BOOLEAN : was = (r.arg = 1)
    OBVIOUS
<1>3. \/ postPage' = [postPage EXCEPT !.busy[r.kind] = FALSE]
      \/ postPage' = [postPage EXCEPT !.busy[r.kind] = FALSE, !.on[r.kind] = was]
    BY Zenon DEF Post!LandToggle
<1>4. /\ postPage' \in PageRecords
      /\ postPage'.comments = postPage.comments /\ postPage'.post = postPage.post
      /\ ~postPage'.busy[r.kind] /\ \A u \in Post!Toggles \ {r.kind} : postPage'.busy[u] = postPage.busy[u]
      /\ postPage'.posting = postPage.posting /\ postPage'.text = postPage.text
    BY <1>1, <1>3, PageToggled
<1>5. r.kind \notin Post!Writes \cup {"refetch", "comment"}
    BY <1>1, KindsDiffer
<1>6. \A t \in Post!Toggles : IF t = r.kind THEN ~postPage'.busy[t] ELSE postPage'.busy[t] = postPage.busy[t]
    BY <1>4
<1>7. SameText /\ SameLists /\ postLost \subseteq postLost'
    BY <1>2, <1>4 DEF SameText, SameLists
<1> QED
    BY <1>2, <1>4, <1>5, <1>6, <1>7, Zenon DEF LandedAs

LEMMA WriteLands ==
    ASSUME PostTyped, NEW r \in postAsks, Post!LandWrite(r) PROVE LandedAs(r)
<1>1. postPage \in PageRecords /\ r \in PostAskRecords /\ r.kind \in Post!Writes /\ r.stage = "done"
    BY DEF PostTyped, PageIn, AskIn, Post!LandWrite
<1>2. /\ PostRest /\ UNCHANGED <<pressed, live, postRows, postPushes, postLost>>
      /\ postAsks' = (postAsks \ {r}) \cup {Post!Ask("refetch", postId, 0, visit)}
      /\ removed' = removed \/ (r.kind = "remove" /\ removed' = removed \cup {r.arg})
    BY DEF Post!LandWrite, PostRest
<1>3. /\ postPage' \in PageRecords
      /\ postPage'.comments = postPage.comments /\ postPage'.post = postPage.post
      /\ postPage'.busy = postPage.busy /\ postPage'.posting = postPage.posting
      /\ IF r.kind = "comment" THEN postPage'.text = 0 ELSE postPage'.text = postPage.text
    <2>1. CASE r.kind = "comment"
        <3>1. postPage' = [postPage EXCEPT !.text = 0]
            BY <2>1 DEF Post!LandWrite
        <3> QED
            BY <1>1, <2>1, <3>1, PageEmpties
    <2>2. CASE r.kind # "comment"
        <3>1. postPage' = postPage
            BY <2>2 DEF Post!LandWrite
        <3> QED
            BY <1>1, <2>2, <3>1
    <2> QED
        BY <2>1, <2>2
<1>4. \A t \in Post!Toggles : IF t = r.kind THEN ~postPage'.busy[t] ELSE postPage'.busy[t] = postPage.busy[t]
    BY <1>1, <1>3, KindsDiffer
<1>5. SameLists /\ postLost \subseteq postLost' /\ (SameText \/ (r.kind = "comment" /\ postPage'.text = 0))
    BY <1>2, <1>3 DEF SameLists, SameText
<1>6. ~(r.kind = "comment" /\ r.stage = "done" /\ postPage'.text # 0)
    BY <1>3
<1> QED
    BY <1>1, <1>2, <1>3, <1>4, <1>5, <1>6, Zenon DEF LandedAs

LEMMA RefetchLands ==
    ASSUME PostTyped, NEW r \in postAsks, Post!LandRefetch(r) PROVE LandedAs(r)
<1>1. postPage \in PageRecords /\ r.kind = "refetch" /\ r.list \in Seq(Nat) /\ r.dead \in SUBSET Nat
    BY DEF PostTyped, PageIn, AskIn, Post!LandRefetch, PostAskRecords
<1>2. PostRest /\ UNCHANGED <<pressed, live, removed, postRows, postPushes, postLost>> /\ postAsks' = postAsks \ {r}
    BY DEF Post!LandRefetch, Post!Land, PostRest
<1>3. postPage' = [postPage EXCEPT !.comments = r.list, !.dead = r.dead, !.posting = FALSE]
    BY Zenon DEF Post!LandRefetch
<1>4. /\ postPage' \in PageRecords /\ ~postPage'.posting
      /\ postPage'.comments = r.list /\ postPage'.post = postPage.post
      /\ postPage'.busy = postPage.busy /\ postPage'.text = postPage.text
    BY <1>1, <1>3, PageRefetched
<1>5. \A t \in Post!Toggles : IF t = r.kind THEN ~postPage'.busy[t] ELSE postPage'.busy[t] = postPage.busy[t]
    BY <1>1, <1>4, KindsDiffer
<1>6. SameText /\ postLost \subseteq postLost' /\ r.kind # "comment" /\ r.kind \in Post!Writes \cup {"refetch"}
    BY <1>1, <1>2, <1>4 DEF SameText
<1> QED
    BY <1>1, <1>2, <1>4, <1>5, <1>6, Zenon DEF LandedAs

LEMMA FailedWriteLands ==
    ASSUME PostTyped, NEW r \in postAsks, Post!LandFailedWrite(r) PROVE LandedAs(r)
<1>1. postPage \in PageRecords /\ r.kind \in Post!Writes \cup {"refetch"}
    BY DEF PostTyped, PageIn, Post!LandFailedWrite
<1>2. /\ PostRest /\ UNCHANGED <<pressed, live, removed, postRows, postPushes>> /\ postAsks' = postAsks \ {r}
      /\ postLost' = IF r.kind = "comment" /\ r.stage = "done" THEN postLost \cup {r.arg} ELSE postLost
    BY DEF Post!LandFailedWrite, PostRest
<1>3. postPage' = [postPage EXCEPT !.posting = FALSE]
    BY DEF Post!LandFailedWrite
<1>4. /\ postPage' \in PageRecords /\ ~postPage'.posting
      /\ postPage'.comments = postPage.comments /\ postPage'.post = postPage.post
      /\ postPage'.busy = postPage.busy /\ postPage'.text = postPage.text
    BY <1>1, <1>3, PageStopsPosting
<1>5. \A t \in Post!Toggles : IF t = r.kind THEN ~postPage'.busy[t] ELSE postPage'.busy[t] = postPage.busy[t]
    BY <1>1, <1>4, KindsDiffer
<1>6. /\ SameText /\ SameLists /\ postLost \subseteq postLost'
      /\ r.kind = "comment" /\ r.stage = "done" => r.arg \in postLost'
    BY <1>2, <1>4 DEF SameText, SameLists
<1> QED
    BY <1>1, <1>2, <1>4, <1>5, <1>6, Zenon DEF LandedAs

LEMMA DeleteLands ==
    ASSUME PostTyped, NEW r \in postAsks, Post!LandDelete(r) PROVE LandedAs(r)
<1>1. /\ PostRest /\ UNCHANGED <<pressed, live, removed, postRows, postPushes, postLost, postPage>>
      /\ postAsks' = postAsks \ {r} /\ r.kind = "delete"
    BY DEF Post!LandDelete, PostRest
<1>2. /\ r.kind \notin Post!Writes \cup {"refetch"} /\ r.kind # "comment"
      /\ \A t \in Post!Toggles : IF t = r.kind THEN ~postPage'.busy[t] ELSE postPage'.busy[t] = postPage.busy[t]
    BY <1>1, KindsDiffer
<1>3. postPage' \in PageRecords /\ SameLists /\ SameText /\ postPage'.posting = postPage.posting /\ postLost \subseteq postLost'
    BY <1>1 DEF PostTyped, PageIn, SameLists, SameText
<1> QED
    BY <1>1, <1>2, <1>3, Zenon DEF LandedAs

LEMMA LandsAre == ASSUME PostTyped, NEW r \in postAsks, PostLanded(r) PROVE LandedAs(r)
BY LoadLands, PublishLands, ToggleLands, WriteLands, RefetchLands, FailedWriteLands, DeleteLands DEF PostLanded

\* A comment arrives over the socket, or the reader steps to another post.
StaysQuiet ==
    /\ UNCHANGED <<postBound, pressed, postRows, removed, postLost>>
    /\ SameFlags /\ SameText /\ postPage'.post = postPage.post

\* Only what was not removed, and is not there, is added.
OnlyAdds ==
    /\ postPage' \in PageRecords
    /\ Post!IsInjective(postPage'.comments)
    /\ Post!Range(postPage'.comments) \subseteq Post!Range(postPage.comments) \cup ((1 .. Len(postRows)) \ removed)

LEMMA DeliverIs ==
    ASSUME PostTyped, Post!Deliver
    PROVE  StaysQuiet /\ OnlyAdds /\ UNCHANGED <<postId, visit, postAsks>> /\ ListsIn'
<1>1. postPage \in PageRecords /\ ListsIn /\ RowsIn /\ Len(postRows) \in Nat /\ postPage.comments \in Seq(Nat)
      /\ Post!Range(postPage.comments) \subseteq 1 .. Len(postRows) /\ Post!IsInjective(postPage.comments)
    BY DEF PostTyped, PageIn, PageRecords, RowsIn, Post!NoDuplicateComments
<1>2. PICK c : c = Head(postPushes)
    OBVIOUS
<1>3. postPushes # <<>> /\ postPushes \in Seq(Nat) /\ Post!Range(postPushes) \subseteq 1 .. Len(postRows)
    BY <1>1 DEF ListsIn, Post!Deliver
<1>4. /\ c \in 1 .. Len(postRows) /\ c \in Nat
      /\ Tail(postPushes) \in Seq(Nat) /\ Post!Range(Tail(postPushes)) \subseteq 1 .. Len(postRows)
    <2>1. c = postPushes[1] /\ 1 \in DOMAIN postPushes
        BY <1>2, <1>3
    <2>2. \A i \in DOMAIN Tail(postPushes) : i + 1 \in DOMAIN postPushes /\ Tail(postPushes)[i] = postPushes[i + 1]
        BY <1>3
    <2>3. c \in 1 .. Len(postRows) /\ c \in Nat
        BY <1>1, <1>3, <2>1 DEF Post!Range
    <2>4. Tail(postPushes) \in Seq(Nat)
        BY <1>3
    <2>5. Post!Range(Tail(postPushes)) \subseteq Post!Range(postPushes)
        BY <2>2 DEF Post!Range
    <2> QED
        BY <1>3, <2>3, <2>4, <2>5
<1>5. PICK p : p = postRows[c].post
    OBVIOUS
<1>6. p \in PostIds
    <2>1. postRows[c] \in RowRecords
        BY <1>1, <1>4 DEF RowsIn
    <2> QED
        BY <1>5, <2>1 DEF RowRecords
<1>7. /\ live[p] \in Seq(Nat) /\ Post!Range(live[p]) \subseteq 1 .. Len(postRows)
      /\ Append(live[p], c) \in Seq(Nat) /\ Post!Range(Append(live[p], c)) \subseteq 1 .. Len(postRows)
    <2>1. live[p] \in Seq(Nat) /\ Post!Range(live[p]) \subseteq 1 .. Len(postRows)
        BY <1>1, <1>6 DEF ListsIn
    <2>2. Append(live[p], c) \in Seq(Nat) /\ Post!Range(Append(live[p], c)) = Post!Range(live[p]) \cup {c}
        BY <1>4, <2>1, AppendAdds
    <2> QED
        BY <1>4, <2>1, <2>2
<1>8. /\ live' = [live EXCEPT ![p] = Append(@, c)] /\ postPushes' = Tail(postPushes)
      /\ UNCHANGED <<postBound, postId, visit, pressed, removed, postAsks, postRows, postLost>>
    BY <1>2, <1>5 DEF Post!Deliver
<1>9. ListsIn'
    BY <1>1, <1>4, <1>6, <1>7, <1>8 DEF ListsIn
<1>10. PICK ids : ids = Post!Merged(postPage.comments, Append(live[p], c))
    OBVIOUS
<1>11. /\ ids \in Seq(Nat) /\ Post!IsInjective(ids)
       /\ Post!Range(ids) \subseteq Post!Range(postPage.comments) \cup (Post!Range(Append(live[p], c)) \ removed)
    BY <1>1, <1>7, <1>10, MergedAdds
<1>12. postPage' = [postPage EXCEPT !.comments = ids] \/ postPage' = postPage
    BY <1>2, <1>5, <1>10 DEF Post!Deliver
<1>13. /\ postPage' \in PageRecords
       /\ postPage'.comments \in {ids, postPage.comments} /\ postPage'.post = postPage.post
       /\ postPage'.busy = postPage.busy /\ postPage'.posting = postPage.posting /\ postPage'.text = postPage.text
    <2>1. CASE postPage' = [postPage EXCEPT !.comments = ids]
        BY <1>1, <1>11, <2>1, PageTakes
    <2>2. CASE postPage' = postPage
        BY <1>1, <2>2
    <2> QED
        BY <1>12, <2>1, <2>2
<1>14. OnlyAdds
    BY <1>1, <1>7, <1>11, <1>13 DEF OnlyAdds
<1>15. StaysQuiet
    BY <1>8, <1>13 DEF StaysQuiet, SameFlags, SameText
<1> QED
    BY <1>8, <1>9, <1>14, <1>15

LEMMA StepToIs ==
    ASSUME PostTyped, NEW p \in postBound.posts, Post!StepTo(p)
    PROVE  /\ StaysQuiet /\ OnlyAdds /\ ListsIn' /\ PostWithin' /\ visit <= visit'
           /\ postAsks' = postAsks \cup {Post!Ask("load", postId', 0, visit')}
<1>1. postPage \in PageRecords /\ ListsIn /\ RowsIn /\ Len(postRows) \in Nat /\ postPage.comments \in Seq(Nat)
      /\ Post!Range(postPage.comments) \subseteq 1 .. Len(postRows) /\ Post!IsInjective(postPage.comments) /\ PostWithin
    BY DEF PostTyped, PageIn, PageRecords, RowsIn, Post!NoDuplicateComments
<1>2. p \in PostIds /\ postId \in PostIds /\ postBound.visits \in Nat
    BY <1>1, BoundIs DEF PostWithin
<1>3. /\ postId' = p /\ visit' = visit + 1 /\ visit < postBound.visits /\ live' = [live EXCEPT ![postId] = <<>>]
      /\ postAsks' = postAsks \cup {Post!Ask("load", p, 0, visit + 1)}
      /\ UNCHANGED <<postBound, pressed, removed, postRows, postPushes, postLost>>
    BY DEF Post!StepTo
<1>4. PostWithin' /\ visit <= visit'
    BY <1>1, <1>2, <1>3 DEF PostWithin
<1>5. ListsIn'
    BY <1>1, <1>2, <1>3, EmptyList DEF ListsIn
<1>6. live[p] \in Seq(Nat) /\ Post!Range(live[p]) \subseteq 1 .. Len(postRows)
    BY <1>1, <1>2 DEF ListsIn
<1>7. PICK ids : ids = IF Len(live[p]) = Len(live[postId]) THEN postPage.comments ELSE Post!Merged(postPage.comments, live[p])
    OBVIOUS
<1>8. /\ ids \in Seq(Nat) /\ Post!IsInjective(ids)
      /\ Post!Range(ids) \subseteq Post!Range(postPage.comments) \cup (Post!Range(live[p]) \ removed)
    BY <1>1, <1>6, <1>7, MergedAdds
<1> PICK yes \in BOOLEAN, no \in BOOLEAN : yes = TRUE /\ no = FALSE
    OBVIOUS
<1>9. postPage' = [postPage EXCEPT !.loading = yes, !.error = no, !.comments = ids]
    BY <1>7, Zenon DEF Post!StepTo
<1>10. /\ postPage' \in PageRecords
       /\ postPage'.comments = ids /\ postPage'.post = postPage.post
       /\ postPage'.busy = postPage.busy /\ postPage'.posting = postPage.posting /\ postPage'.text = postPage.text
    BY <1>1, <1>8, <1>9, PageMerges, Zenon
<1>11. OnlyAdds
    BY <1>6, <1>8, <1>10 DEF OnlyAdds
<1>12. StaysQuiet
    BY <1>3, <1>10 DEF StaysQuiet, SameFlags, SameText
<1> QED
    BY <1>3, <1>4, <1>5, <1>11, <1>12

\* Somebody else writes, deletes or hides a comment.
SomebodyElse ==
    /\ UNCHANGED <<postBound, postId, visit, pressed, postPage, live, removed, postAsks, postLost>>
    /\ RowsGrow
    /\ \/ Len(postRows') = Len(postRows) /\ UNCHANGED postPushes
       \/ /\ Len(postRows') = Len(postRows) + 1 /\ postRows'[Len(postRows) + 1].draft = 0
          /\ postPushes' = postPushes \/ postPushes' = Append(postPushes, Len(postRows) + 1)

LEMMA SomebodyIs ==
    ASSUME PostTyped,
           \/ \E p \in postBound.posts, c \in 0 .. Len(postRows) : Post!SomebodyComments(p, c)
           \/ \E c \in DOMAIN postRows : Post!SomebodyRemoves(c)
    PROVE  SomebodyElse
<1>1. RowsIn /\ Len(postRows) \in Nat /\ DOMAIN postRows = 1 .. Len(postRows) /\ postBound.posts \subseteq PostIds
    BY BoundIs DEF PostTyped, RowsIn
<1>2. ASSUME NEW p \in postBound.posts, NEW c \in 0 .. Len(postRows), Post!SomebodyComments(p, c) PROVE SomebodyElse
    <2>1. PICK mine \in BOOLEAN : Post!Insert(p, c, mine, 0)
        BY <1>2 DEF Post!SomebodyComments
    <2>2. /\ RowsGrow /\ Len(postRows') = Len(postRows) + 1 /\ postRows'[Len(postRows) + 1].draft = 0
          /\ postPushes' = postPushes \/ postPushes' = Append(postPushes, Len(postRows) + 1)
        <3>1. p \in PostIds /\ c \in Nat /\ 0 \in Nat
            BY <1>1
        <3> QED
            BY <1>1, <2>1, <3>1, InsertGrows
    <2> QED
        BY <1>2, <2>2 DEF Post!SomebodyComments, SomebodyElse
<1>3. ASSUME NEW c \in 1 .. Len(postRows), Post!SomebodyRemoves(c) PROVE SomebodyElse
    <2>1. postRows' = Post!Deleted(c) \/ postRows' = [postRows EXCEPT ![c].state = "hidden"]
        BY <1>3 DEF Post!SomebodyRemoves
    <2>2. RowsGrow /\ Len(postRows') = Len(postRows)
        BY <1>1, <2>1, DeletedChanges, RowChanges
    <2> QED
        BY <1>3, <2>2 DEF Post!SomebodyRemoves, SomebodyElse
<1> QED
    BY <1>1, <1>2, <1>3

LEMMA PressKeepsTypes ==
    ASSUME PostTyped, NEW kind, NEW arg, PressedAs(kind, arg) PROVE PostTyped'
<1>1. /\ kind \in PostKinds /\ arg \in Nat /\ RoomRest /\ UNCHANGED <<postRows, postPushes>>
      /\ pressed' = pressed + 1 /\ pressed < postBound.presses
      /\ postAsks' = postAsks \cup {Post!Ask(kind, postId, arg, visit)}
      /\ kind \in {"reply", "edit", "remove"} => arg \in 1 .. Len(postRows)
      /\ postPage' \in PageRecords /\ SameLists
    BY DEF PressedAs
<1>2. UNCHANGED <<postBound, postId, visit, live, removed>> /\ PostWithin /\ RowsIn /\ PageIn /\ ListsIn
    BY <1>1 DEF RoomRest, PostRest, PostTyped
<1>3. PostWithin'
    BY <1>1, <1>2, BoundIs DEF PostWithin
<1>4. RowsGrow
    BY <1>1, <1>2, RowsStay
<1>5. \A r \in postAsks' : AskIn(r)'
    <2> SUFFICES ASSUME NEW r \in postAsks' PROVE AskIn(r)'
        OBVIOUS
    <2>1. CASE r \in postAsks
        <3>1. visit \in Nat /\ visit' \in Nat /\ visit <= visit'
            BY <1>2 DEF PostWithin
        <3> QED
            BY <1>2, <1>4, <2>1, <3>1, AskStays DEF PostTyped
    <2>2. CASE r = Post!Ask(kind, postId', arg, visit')
        <3>1. kind \in {"reply", "edit", "remove"} => arg \in 1 .. Len(postRows')
            BY <1>1
        <3> QED
            BY <1>1, <1>3, <2>2, <3>1, NewAskIn
    <2> QED
        BY <1>1, <1>2, <2>1, <2>2
<1>6. PageIn'
    BY <1>1, <1>2, <1>4, PageStaysIn DEF SameLists
<1>7. ListsIn'
    BY <1>1, <1>2, <1>4, ListsStayIn
<1> QED
    BY <1>3, <1>4, <1>5, <1>6, <1>7 DEF PostTyped, RowsGrow

LEMMA ServeKeepsTypes ==
    ASSUME PostTyped, NEW r, NEW s, ServedAs(r, s) PROVE PostTyped'
<1>1. /\ UNCHANGED <<postBound, postId, visit, pressed, postPage, live, removed>> /\ RowsGrow
      /\ postAsks' = (postAsks \ {r}) \cup {s} /\ AskIn(s)'
      /\ postPushes' = postPushes \/ (postPushes' = Append(postPushes, Len(postRows) + 1) /\ Len(postRows') = Len(postRows) + 1)
    BY DEF ServedAs, RoomRest, PostRest
<1>2. PostWithin /\ PageIn /\ ListsIn
    BY DEF PostTyped
<1>3. PostWithin'
    BY <1>1, <1>2 DEF PostWithin
<1>4. \A q \in postAsks' : AskIn(q)'
    <2>1. visit \in Nat /\ visit' \in Nat /\ visit <= visit'
        BY <1>1, <1>2 DEF PostWithin
    <2>2. \A q \in postAsks : AskIn(q)'
        BY <1>1, <2>1, AskStays DEF PostTyped
    <2> QED
        BY <1>1, <2>2
<1>5. PageIn'
    <2>1. postPage' \in PageRecords /\ postPage'.comments = postPage.comments /\ postPage'.post = postPage.post
        BY <1>1, <1>2 DEF PageIn
    <2> QED
        BY <1>1, <1>2, <2>1, PageStaysIn
<1>6. ListsIn'
    BY <1>1, <1>2, ListsStayIn
<1> QED
    BY <1>1, <1>3, <1>4, <1>5, <1>6 DEF PostTyped, RowsGrow

LEMMA LandKeepsTypes ==
    ASSUME PostTyped, NEW r, LandedAs(r) PROVE PostTyped'
<1>1. /\ UNCHANGED <<postBound, postId, visit, pressed, live, postRows, postPushes>> /\ r \in postAsks
      /\ removed' = removed \/ (r.kind = "remove" /\ removed' = removed \cup {r.arg})
      /\ postPage' \in PageRecords
      /\ \/ SameLists
         \/ postPage'.comments = r.list /\ postPage'.post \in {postPage.post, r.post}
      /\ \/ postAsks' = postAsks \ {r}
         \/ postAsks' = (postAsks \ {r}) \cup {Post!Ask("refetch", postId, 0, visit)}
         \/ postAsks' = (postAsks \ {r}) \cup {Post!Ask("load", postId, 1, visit)}
    BY DEF LandedAs, PostRest
<1>2. PostWithin /\ RowsIn /\ PageIn /\ ListsIn /\ AskIn(r)
    BY <1>1 DEF PostTyped
<1>3. PostWithin'
    BY <1>1, <1>2 DEF PostWithin
<1>4. RowsGrow
    BY <1>1, <1>2, RowsStay
<1>5. \A q \in postAsks' : AskIn(q)'
    <2>1. visit \in Nat /\ visit' \in Nat /\ visit <= visit'
        BY <1>1, <1>2 DEF PostWithin
    <2>2. \A q \in postAsks : AskIn(q)'
        BY <1>1, <1>4, <2>1, AskStays DEF PostTyped
    <2>3. \A kind \in {"refetch", "load"}, arg \in {0, 1} : \A q : q = Post!Ask(kind, postId', arg, visit') => AskIn(q)'
        <3> SUFFICES ASSUME NEW kind \in {"refetch", "load"}, NEW arg \in {0, 1}, NEW q, q = Post!Ask(kind, postId', arg, visit')
                     PROVE  AskIn(q)'
            OBVIOUS
        <3>1. kind \in PostKinds /\ arg \in Nat /\ kind \notin {"reply", "edit", "remove"}
            BY DEF PostKinds
        <3> QED
            BY <1>3, <3>1, NewAskIn
    <2> QED
        BY <1>1, <2>2, <2>3
<1>6. PageIn'
    <2>1. CASE SameLists
        BY <1>1, <1>2, <1>4, <2>1, PageStaysIn DEF SameLists
    <2>2. CASE postPage'.comments = r.list /\ postPage'.post \in {postPage.post, r.post}
        BY <1>1, <1>2, <2>2 DEF PageIn, AskIn, Post!NoDuplicateComments
    <2> QED
        BY <1>1, <2>1, <2>2
<1>7. ListsIn'
    <2>1. removed' \subseteq 1 .. Len(postRows)
        BY <1>1, <1>2 DEF ListsIn, AskIn
    <2> QED
        BY <1>1, <1>2, <2>1 DEF ListsIn
<1> QED
    BY <1>3, <1>4, <1>5, <1>6, <1>7 DEF PostTyped, RowsGrow

LEMMA QuietKeepsTypes ==
    ASSUME PostTyped, StaysQuiet, OnlyAdds, ListsIn', PostWithin', visit <= visit',
           postAsks' = postAsks \/ postAsks' = postAsks \cup {Post!Ask("load", postId', 0, visit')}
    PROVE  PostTyped'
<1>1. UNCHANGED <<postBound, pressed, postRows, removed>> /\ postPage'.post = postPage.post /\ postPage' \in PageRecords
    BY DEF StaysQuiet, OnlyAdds
<1>2. PostWithin /\ RowsIn /\ PageIn
    BY DEF PostTyped
<1>3. RowsGrow
    BY <1>1, <1>2, RowsStay
<1>4. PageIn'
    BY <1>1, <1>2 DEF PageIn, OnlyAdds, Post!NoDuplicateComments
<1>5. \A q \in postAsks' : AskIn(q)'
    <2>1. visit \in Nat /\ visit' \in Nat /\ visit <= visit'
        BY <1>1, <1>2 DEF PostWithin
    <2>2. \A q \in postAsks : AskIn(q)'
        BY <1>1, <1>3, <2>1, AskStays DEF PostTyped
    <2>3. ASSUME NEW q, q = Post!Ask("load", postId', 0, visit') PROVE AskIn(q)'
        <3>1. "load" \in PostKinds /\ 0 \in Nat /\ "load" \notin {"reply", "edit", "remove"}
            BY DEF PostKinds
        <3> QED
            BY <2>3, <3>1, NewAskIn
    <2> QED
        BY <2>2, <2>3
<1> QED
    BY <1>3, <1>4, <1>5 DEF PostTyped, RowsGrow

LEMMA SomebodyKeepsTypes == ASSUME PostTyped, SomebodyElse PROVE PostTyped'
<1>1. /\ UNCHANGED <<postBound, postId, visit, pressed, postPage, live, removed, postAsks>> /\ RowsGrow
      /\ postPushes' = postPushes \/ (postPushes' = Append(postPushes, Len(postRows) + 1) /\ Len(postRows') = Len(postRows) + 1)
    BY DEF SomebodyElse
<1>2. PostWithin /\ PageIn /\ ListsIn
    BY DEF PostTyped
<1>3. PostWithin'
    BY <1>1, <1>2 DEF PostWithin
<1>4. \A q \in postAsks' : AskIn(q)'
    <2>1. visit \in Nat /\ visit' \in Nat /\ visit <= visit'
        BY <1>1, <1>2 DEF PostWithin
    <2> QED
        BY <1>1, <2>1, AskStays DEF PostTyped
<1>5. PageIn'
    <2>1. postPage' \in PageRecords /\ postPage'.comments = postPage.comments /\ postPage'.post = postPage.post
        BY <1>1, <1>2 DEF PageIn
    <2> QED
        BY <1>1, <1>2, <2>1, PageStaysIn
<1>6. ListsIn'
    BY <1>1, <1>2, ListsStayIn
<1> QED
    BY <1>1, <1>3, <1>4, <1>5, <1>6 DEF PostTyped, RowsGrow

\* A step of the page is of one of these sorts.
PostStep ==
    \/ \E kind, arg : PressedAs(kind, arg)
    \/ \E r, s : ServedAs(r, s)
    \/ \E r : LandedAs(r)
    \/ /\ StaysQuiet /\ OnlyAdds /\ ListsIn' /\ PostWithin' /\ visit <= visit'
       /\ postAsks' = postAsks \/ postAsks' = postAsks \cup {Post!Ask("load", postId', 0, visit')}
    \/ SomebodyElse
    \/ UNCHANGED Post!postVars

LEMMA PostSteps == ASSUME PostTyped, [Post!Next]_(Post!postVars) PROVE PostStep
<1>0. DOMAIN postRows = 1 .. Len(postRows)
    BY DEF PostTyped, RowsIn
<1>1. CASE PostPressed
    BY <1>1, PressesAre DEF PostStep
<1>2. CASE \E r \in postAsks : PostServed(r)
    BY <1>2, ServesAre DEF PostStep
<1>3. CASE \E r \in postAsks : PostLanded(r)
    BY <1>3, LandsAre DEF PostStep
<1>4. CASE Post!Deliver
    <2>1. StaysQuiet /\ OnlyAdds /\ UNCHANGED <<postId, visit, postAsks>> /\ ListsIn'
        BY <1>4, DeliverIs
    <2>2. PostWithin' /\ visit <= visit'
        BY <2>1 DEF PostTyped, PostWithin, StaysQuiet
    <2> QED
        BY <2>1, <2>2 DEF PostStep
<1>5. CASE \E p \in postBound.posts : Post!StepTo(p)
    BY <1>5, StepToIs DEF PostStep
<1>6. CASE \/ \E p \in postBound.posts, c \in 0 .. Len(postRows) : Post!SomebodyComments(p, c)
           \/ \E c \in DOMAIN postRows : Post!SomebodyRemoves(c)
    BY <1>6, SomebodyIs DEF PostStep
<1>7. CASE UNCHANGED Post!postVars
    BY <1>7 DEF PostStep
<1> QED
    BY <1>0, <1>1, <1>2, <1>3, <1>4, <1>5, <1>6, <1>7 DEF Post!Next, PostPressed, PostServed, PostLanded

LEMMA PostKeepsTypes == ASSUME PostTyped, PostStep PROVE PostTyped'
<1>1. CASE UNCHANGED Post!postVars
    BY <1>1 DEF Post!postVars, PostTyped, PostWithin, RowsIn, AskIn, PageIn, ListsIn, Post!NoDuplicateComments
<1> QED
    BY <1>1, PressKeepsTypes, ServeKeepsTypes, LandKeepsTypes, QuietKeepsTypes, SomebodyKeepsTypes DEF PostStep

-----------------------------------------------------------------------------
(* The post's page: a flag is up exactly while a request of its sort is     *)
(* under way, and there is one of them at most.                             *)

SomeOf(A, S) == \E r \in A : r.kind \in S
OneOf(A, S)  == \A r, s \in A : r.kind \in S /\ s.kind \in S => r = s

WriteKinds == Post!Writes \cup {"refetch"}

FlagsIn ==
    /\ OneOf(postAsks, WriteKinds) /\ (postPage.posting <=> SomeOf(postAsks, WriteKinds))
    /\ \A t \in Post!Toggles : OneOf(postAsks, {t}) /\ (postPage.busy[t] <=> SomeOf(postAsks, {t}))

LEMMA KindsAdd ==
    ASSUME NEW A, NEW n, NEW B, B = A \cup {n}, NEW S, OneOf(A, S)
    PROVE  /\ n.kind \notin S => OneOf(B, S) /\ (SomeOf(B, S) <=> SomeOf(A, S))
           /\ n.kind \in S /\ ~SomeOf(A, S) => OneOf(B, S) /\ SomeOf(B, S)
BY DEF OneOf, SomeOf

LEMMA KindsSwap ==
    ASSUME NEW A, NEW r \in A, NEW n, NEW B, B = (A \ {r}) \cup {n}, NEW S, OneOf(A, S),
           r.kind \in S => n.kind \in S, n.kind \in S => r.kind \in S
    PROVE  OneOf(B, S) /\ (SomeOf(B, S) <=> SomeOf(A, S))
BY DEF OneOf, SomeOf

LEMMA KindsDrop ==
    ASSUME NEW A, NEW r \in A, NEW B, B = A \ {r}, NEW S, OneOf(A, S)
    PROVE  OneOf(B, S) /\ IF r.kind \in S THEN ~SomeOf(B, S) ELSE (SomeOf(B, S) <=> SomeOf(A, S))
BY DEF OneOf, SomeOf

LEMMA PostFlagsStart == Post!Init => FlagsIn
<1> SUFFICES ASSUME Post!Init PROVE FlagsIn
    OBVIOUS
<1>1. postAsks = {Post!Ask("load", postId, 0, 1)} /\ postPage = Post!Blank
    BY DEF Post!Init
<1>2. Post!Ask("load", postId, 0, 1).kind = "load"
    BY DEF Post!Ask
<1>3. ~postPage.posting /\ \A t \in Post!Toggles : ~postPage.busy[t]
    BY <1>1 DEF Post!Blank, Post!Off
<1>4. "load" \notin WriteKinds /\ \A t \in Post!Toggles : "load" \notin {t}
    BY DEF WriteKinds, Post!Writes, Post!Toggles
<1> QED
    BY <1>1, <1>2, <1>3, <1>4 DEF FlagsIn, OneOf, SomeOf

LEMMA AskKind == \A kind, p, arg, v : Post!Ask(kind, p, arg, v).kind = kind /\ Post!Ask(kind, p, arg, v).arg = arg
BY DEF Post!Ask

LEMMA PressKeepsFlags ==
    ASSUME FlagsIn, NEW kind, NEW arg, PressedAs(kind, arg) PROVE FlagsIn'
<1> PICK n : n = Post!Ask(kind, postId, arg, visit)
    OBVIOUS
<1>1. postAsks' = postAsks \cup {n} /\ n.kind = kind /\ kind # "refetch"
    BY AskKind DEF PressedAs
<1>2. OneOf(postAsks', WriteKinds) /\ (postPage'.posting <=> SomeOf(postAsks', WriteKinds))
    <2>1. OneOf(postAsks, WriteKinds) /\ (postPage.posting <=> SomeOf(postAsks, WriteKinds))
        BY DEF FlagsIn
    <2>2. CASE kind \in Post!Writes
        <3>1. ~postPage.posting /\ postPage'.posting
            BY <2>2 DEF PressedAs
        <3> QED
            BY <1>1, <2>1, <2>2, <3>1, KindsAdd DEF WriteKinds
    <2>3. CASE kind \notin Post!Writes
        <3>1. postPage'.posting = postPage.posting /\ kind \notin WriteKinds
            BY <1>1, <2>3 DEF PressedAs, WriteKinds
        <3> QED
            BY <1>1, <2>1, <3>1, KindsAdd
    <2> QED
        BY <2>2, <2>3
<1>3. ASSUME NEW t \in Post!Toggles PROVE OneOf(postAsks', {t}) /\ (postPage'.busy[t] <=> SomeOf(postAsks', {t}))
    <2>1. OneOf(postAsks, {t}) /\ (postPage.busy[t] <=> SomeOf(postAsks, {t}))
        BY DEF FlagsIn
    <2>2. IF t = kind THEN ~postPage.busy[t] /\ postPage'.busy[t] ELSE postPage'.busy[t] = postPage.busy[t]
        BY DEF PressedAs
    <2>3. CASE t = kind
        BY <1>1, <2>1, <2>2, <2>3, KindsAdd
    <2>4. CASE t # kind
        BY <1>1, <2>1, <2>2, <2>4, KindsAdd
    <2> QED
        BY <2>3, <2>4
<1> QED
    BY <1>2, <1>3 DEF FlagsIn

\* Nothing but the requests of other kinds changes.
LEMMA SameKindsKeepFlags ==
    ASSUME FlagsIn, SameFlags,
           \A S \in {WriteKinds} \cup {{t} : t \in Post!Toggles} :
               OneOf(postAsks, S) => OneOf(postAsks', S) /\ (SomeOf(postAsks', S) <=> SomeOf(postAsks, S))
    PROVE  FlagsIn'
BY DEF FlagsIn, SameFlags

LEMMA ServeKeepsFlags == ASSUME FlagsIn, NEW r, NEW s, ServedAs(r, s) PROVE FlagsIn'
<1>1. r \in postAsks /\ postAsks' = (postAsks \ {r}) \cup {s} /\ s.kind = r.kind /\ SameFlags
    BY DEF ServedAs, SameFlags
<1>2. ASSUME NEW S, OneOf(postAsks, S) PROVE OneOf(postAsks', S) /\ (SomeOf(postAsks', S) <=> SomeOf(postAsks, S))
    <2>1. (r.kind \in S => s.kind \in S) /\ (s.kind \in S => r.kind \in S)
        BY <1>1
    <2> QED
        BY <1>1, <1>2, <2>1, KindsSwap
<1> QED
    BY <1>1, <1>2, SameKindsKeepFlags

LEMMA QuietKeepsFlags ==
    ASSUME FlagsIn, StaysQuiet, postAsks' = postAsks \/ postAsks' = postAsks \cup {Post!Ask("load", postId', 0, visit')}
    PROVE  FlagsIn'
<1>1. "load" \notin WriteKinds /\ \A t \in Post!Toggles : "load" \notin {t}
    BY DEF WriteKinds, Post!Writes, Post!Toggles
<1>2. SameFlags
    BY DEF StaysQuiet
<1>3. ASSUME NEW S, "load" \notin S, OneOf(postAsks, S)
      PROVE  OneOf(postAsks', S) /\ (SomeOf(postAsks', S) <=> SomeOf(postAsks, S))
    BY <1>3, KindsAdd, AskKind
<1> QED
    BY <1>1, <1>2, <1>3, SameKindsKeepFlags

LEMMA LandKeepsFlags == ASSUME FlagsIn, NEW r, LandedAs(r) PROVE FlagsIn'
<1>0. r \in postAsks
    BY DEF LandedAs
<1>1. \/ postAsks' = postAsks \ {r} /\ (r.kind \in WriteKinds => ~postPage'.posting)
      \/ \E n : /\ postAsks' = (postAsks \ {r}) \cup {n} /\ postPage'.posting = postPage.posting
                /\ (r.kind \in WriteKinds => n.kind \in WriteKinds) /\ (n.kind \in WriteKinds => r.kind \in WriteKinds)
                /\ \A t \in Post!Toggles : t # r.kind /\ n.kind \notin {t}
    <2>1. CASE postAsks' = postAsks \ {r} /\ (r.kind \in Post!Writes \cup {"refetch"} => ~postPage'.posting)
        BY <2>1 DEF WriteKinds
    <2>2. CASE r.kind \in Post!Writes /\ postPage'.posting = postPage.posting
               /\ postAsks' = (postAsks \ {r}) \cup {Post!Ask("refetch", postId, 0, visit)}
        <3>1. PICK n : n = Post!Ask("refetch", postId, 0, visit)
            OBVIOUS
        <3>2. n.kind = "refetch"
            BY <3>1, AskKind
        <3>3. /\ (r.kind \in WriteKinds => n.kind \in WriteKinds) /\ (n.kind \in WriteKinds => r.kind \in WriteKinds)
              /\ \A t \in Post!Toggles : t # r.kind /\ n.kind \notin {t}
            BY <2>2, <3>2, KindsDiffer DEF WriteKinds
        <3> QED
            BY <2>2, <3>1, <3>3
    <2>3. CASE r.kind = "publish" /\ postAsks' = (postAsks \ {r}) \cup {Post!Ask("load", postId, 1, visit)}
        <3>1. PICK n : n = Post!Ask("load", postId, 1, visit)
            OBVIOUS
        <3>2. n.kind = "load"
            BY <3>1, AskKind
        <3>3. "load" \notin WriteKinds /\ "publish" \notin WriteKinds /\ \A t \in Post!Toggles : t \notin {"load", "publish"}
            BY KindsDiffer DEF WriteKinds
        <3>4. /\ (r.kind \in WriteKinds => n.kind \in WriteKinds) /\ (n.kind \in WriteKinds => r.kind \in WriteKinds)
              /\ \A t \in Post!Toggles : t # r.kind /\ n.kind \notin {t}
            BY <2>3, <3>2, <3>3
        <3>5. postPage'.posting = postPage.posting
            BY <2>3, <3>3 DEF LandedAs, WriteKinds
        <3> QED
            BY <2>3, <3>1, <3>4, <3>5
    <2> QED
        BY <2>1, <2>2, <2>3 DEF LandedAs
<1>2. OneOf(postAsks', WriteKinds) /\ (postPage'.posting <=> SomeOf(postAsks', WriteKinds))
    <2>1. OneOf(postAsks, WriteKinds) /\ (postPage.posting <=> SomeOf(postAsks, WriteKinds))
        BY DEF FlagsIn
    <2>2. CASE postAsks' = postAsks \ {r} /\ (r.kind \in WriteKinds => ~postPage'.posting)
        <3>1. r.kind \notin WriteKinds => postPage'.posting = postPage.posting
            BY DEF LandedAs, WriteKinds
        <3> QED
            BY <1>0, <2>1, <2>2, <3>1, KindsDrop
    <2>3. ASSUME NEW n, postAsks' = (postAsks \ {r}) \cup {n}, postPage'.posting = postPage.posting,
                 (r.kind \in WriteKinds => n.kind \in WriteKinds) /\ (n.kind \in WriteKinds => r.kind \in WriteKinds)
          PROVE  OneOf(postAsks', WriteKinds) /\ (postPage'.posting <=> SomeOf(postAsks', WriteKinds))
        <3>1. /\ (r.kind \in WriteKinds => n.kind \in WriteKinds) /\ (n.kind \in WriteKinds => r.kind \in WriteKinds)
              /\ postAsks' = (postAsks \ {r}) \cup {n} /\ OneOf(postAsks, WriteKinds)
            BY <2>1, <2>3
        <3>2. OneOf(postAsks', WriteKinds) /\ (SomeOf(postAsks', WriteKinds) <=> SomeOf(postAsks, WriteKinds))
            BY <1>0, <3>1 DEF OneOf, SomeOf
        <3> QED
            BY <2>1, <2>3, <3>2
    <2> QED
        BY <1>1, <2>2, <2>3
<1>3. ASSUME NEW t \in Post!Toggles PROVE OneOf(postAsks', {t}) /\ (postPage'.busy[t] <=> SomeOf(postAsks', {t}))
    <2>1. OneOf(postAsks, {t}) /\ (postPage.busy[t] <=> SomeOf(postAsks, {t}))
        BY DEF FlagsIn
    <2>2. IF t = r.kind THEN ~postPage'.busy[t] ELSE postPage'.busy[t] = postPage.busy[t]
        BY DEF LandedAs
    <2>3. CASE postAsks' = postAsks \ {r}
        <3>1. OneOf(postAsks', {t})
            BY <1>0, <2>1, <2>3, KindsDrop
        <3>2. IF r.kind \in {t} THEN ~SomeOf(postAsks', {t}) ELSE (SomeOf(postAsks', {t}) <=> SomeOf(postAsks, {t}))
            BY <1>0, <2>1, <2>3, KindsDrop
        <3> QED
            BY <2>1, <2>2, <3>1, <3>2
    <2>4. ASSUME NEW n, postAsks' = (postAsks \ {r}) \cup {n}, t # r.kind, n.kind \notin {t}
          PROVE  OneOf(postAsks', {t}) /\ (postPage'.busy[t] <=> SomeOf(postAsks', {t}))
        <3>1. (r.kind \in {t} => n.kind \in {t}) /\ (n.kind \in {t} => r.kind \in {t})
            BY <2>4
        <3>2. OneOf(postAsks', {t}) /\ (SomeOf(postAsks', {t}) <=> SomeOf(postAsks, {t}))
            BY <1>0, <2>1, <2>4, <3>1, KindsSwap
        <3> QED
            BY <2>1, <2>2, <2>4, <3>2
    <2> QED
        BY <1>1, <2>3, <2>4
<1> QED
    BY <1>2, <1>3 DEF FlagsIn

LEMMA PostKeepsFlags == ASSUME FlagsIn, PostStep PROVE FlagsIn'
<1>1. CASE UNCHANGED <<postPage, postAsks>>
    BY <1>1 DEF FlagsIn
<1>2. SomebodyElse \/ UNCHANGED Post!postVars => UNCHANGED <<postPage, postAsks>>
    BY DEF SomebodyElse, Post!postVars
<1> QED
    BY <1>1, <1>2, PressKeepsFlags, ServeKeepsFlags, LandKeepsFlags, QuietKeepsFlags DEF PostStep

-----------------------------------------------------------------------------
(* The post's page: a text becomes one comment.  The box keeps its text     *)
(* while its create is under way, so no row has it unless that create was   *)
(* done, or was done and answered by an error before.                       *)

DraftOf(i) == postRows[i].draft

DraftsIn ==
    /\ postPage.text <= pressed
    /\ \A i \in 1 .. Len(postRows) : DraftOf(i) <= pressed
    /\ \A r \in postAsks : r.kind = "comment" => r.arg = postPage.text /\ r.arg # 0
    /\ \A i \in 1 .. Len(postRows) :
            DraftOf(i) = postPage.text /\ postPage.text # 0 =>
                DraftOf(i) \in postLost \/ \E r \in postAsks : r.kind = "comment" /\ r.stage = "done"
    /\ \A i, j \in 1 .. Len(postRows) : DraftOf(i) = DraftOf(j) /\ DraftOf(i) \notin postLost \cup {0} => i = j

LEMMA PostDraftsStart == Post!Init => DraftsIn
<1> SUFFICES ASSUME Post!Init PROVE DraftsIn
    OBVIOUS
<1>1. postAsks = {Post!Ask("load", postId, 0, 1)} /\ postPage = Post!Blank /\ postRows = <<>> /\ pressed = 0
    BY DEF Post!Init
<1>2. \A r \in postAsks : r.kind # "comment"
    BY <1>1, AskKind
<1>3. postPage.text = 0 /\ Len(postRows) = 0
    BY <1>1 DEF Post!Blank
<1> QED
    BY <1>1, <1>2, <1>3 DEF DraftsIn

\* A request for a comment is the only write there is.
LEMMA OneComment ==
    ASSUME FlagsIn
    PROVE  /\ \A r, s \in postAsks : r.kind = "comment" /\ s.kind = "comment" => r = s
           /\ ~postPage.posting => \A r \in postAsks : r.kind # "comment"
<1>1. "comment" \in WriteKinds
    BY KindsDiffer DEF WriteKinds
<1>2. OneOf(postAsks, WriteKinds) /\ (~postPage.posting => ~SomeOf(postAsks, WriteKinds))
    BY DEF FlagsIn
<1> QED
    BY <1>1, <1>2 DEF OneOf, SomeOf

\* Rows that are there keep their texts.
LEMMA DraftsStay ==
    ASSUME RowsGrow PROVE \A i \in 1 .. Len(postRows) : i \in 1 .. Len(postRows') /\ DraftOf(i)' = DraftOf(i)
BY DEF RowsGrow, DraftOf

LEMMA PressKeepsDrafts ==
    ASSUME PostTyped, FlagsIn, DraftsIn, NEW kind, NEW arg, PressedAs(kind, arg) PROVE DraftsIn'
<1> PICK n : n = Post!Ask(kind, postId, arg, visit)
    OBVIOUS
<1>1. /\ postAsks' = postAsks \cup {n} /\ n.kind = kind /\ n.arg = arg /\ UNCHANGED <<postRows, postLost>>
      /\ pressed' = pressed + 1 /\ pressed \in Nat
    BY AskKind DEF PressedAs, PostTyped, PostWithin
<1>2. \A i \in 1 .. Len(postRows) : DraftOf(i)' = DraftOf(i) /\ DraftOf(i) \in Nat /\ DraftOf(i) <= pressed
    <2> SUFFICES ASSUME NEW i \in 1 .. Len(postRows)
                 PROVE  DraftOf(i)' = DraftOf(i) /\ DraftOf(i) \in Nat /\ DraftOf(i) <= pressed
        OBVIOUS
    <2>1. postRows[i] \in RowRecords
        BY DEF PostTyped, RowsIn
    <2>2. DraftOf(i) \in Nat
        BY <2>1 DEF DraftOf, RowRecords
    <2>3. DraftOf(i)' = DraftOf(i)
        BY <1>1 DEF DraftOf
    <2>4. DraftOf(i) <= pressed
        BY DEF DraftsIn
    <2> QED
        BY <2>2, <2>3, <2>4
<1>3. postPage.text \in Nat /\ postPage.text <= pressed
    BY DEF PostTyped, PageIn, PageRecords, DraftsIn
<1>4. Len(postRows') = Len(postRows)
    BY <1>1
<1>5. CASE kind # "comment"
    <2>1. postPage'.text = postPage.text
        BY <1>5 DEF PressedAs, SameText
    <2>2. \A r \in postAsks' : r.kind = "comment" => r \in postAsks
        BY <1>1, <1>5
    <2> QED
        BY <1>1, <1>2, <1>3, <1>4, <2>1, <2>2 DEF DraftsIn
<1>6. CASE kind = "comment"
    <2>1. postPage'.text = arg /\ arg = IF postPage.text = 0 THEN pressed + 1 ELSE postPage.text
        BY <1>6 DEF PressedAs
    <2>2. ~postPage.posting
        BY <1>6, KindsDiffer DEF PressedAs
    <2>3. \A r \in postAsks : r.kind # "comment"
        BY <2>2, OneComment
    <2>4. arg \in Nat /\ arg # 0 /\ arg <= pressed'
        BY <1>1, <1>3, <2>1
    <2>5. \A r \in postAsks' : r.kind = "comment" => r.arg = postPage'.text /\ r.arg # 0
        BY <1>1, <2>1, <2>3, <2>4
    <2>6. ASSUME NEW i \in 1 .. Len(postRows), DraftOf(i) = arg PROVE DraftOf(i) \in postLost
        <3>1. postPage.text # 0 /\ arg = postPage.text
            BY <1>1, <1>2, <2>1, <2>6
        <3> QED
            BY <2>3, <2>6, <3>1 DEF DraftsIn
    <2> QED
        BY <1>1, <1>2, <1>4, <2>1, <2>4, <2>5, <2>6 DEF DraftsIn
<1> QED
    BY <1>5, <1>6

LEMMA ServeKeepsDrafts ==
    ASSUME PostTyped, FlagsIn, DraftsIn, NEW r, NEW s, ServedAs(r, s) PROVE DraftsIn'
<1>1. /\ r \in postAsks /\ r.stage = "asked" /\ postAsks' = (postAsks \ {r}) \cup {s}
      /\ s.kind = r.kind /\ s.arg = r.arg /\ s.stage = "done" /\ RowsGrow
      /\ UNCHANGED <<pressed, postPage, postLost>>
    BY DEF ServedAs
<1>2. \A i \in 1 .. Len(postRows) : i \in 1 .. Len(postRows') /\ DraftOf(i)' = DraftOf(i)
    BY <1>1, DraftsStay
<1>3. \A q \in postAsks' : q.kind = "comment" => q.arg = postPage'.text /\ q.arg # 0
    BY <1>1 DEF DraftsIn
<1>4. (\E q \in postAsks : q.kind = "comment" /\ q.stage = "done") => \E q \in postAsks' : q.kind = "comment" /\ q.stage = "done"
    BY <1>1
<1>5. CASE Len(postRows') = Len(postRows)
    BY <1>1, <1>2, <1>3, <1>4, <1>5 DEF DraftsIn
<1>6. CASE Len(postRows') = Len(postRows) + 1
    <2> PICK n : n = Len(postRows) + 1
        OBVIOUS
    <2>1. /\ DraftOf(n)' = 0 \/ (r.kind = "comment" /\ DraftOf(n)' = r.arg)
        BY <1>6 DEF ServedAs, DraftOf
    <2>2. r.kind = "comment" => r.arg = postPage.text /\ r.arg # 0
        BY <1>1 DEF DraftsIn
    <2>3. \A i \in 1 .. Len(postRows') : i \in 1 .. Len(postRows) \/ i = n
        BY <1>1, <1>6 DEF RowsGrow
    <2>4. ASSUME NEW i \in 1 .. Len(postRows), DraftOf(i) = DraftOf(n)', DraftOf(i) \notin postLost \cup {0} PROVE FALSE
        <3>1. r.kind = "comment" /\ DraftOf(i) = postPage.text /\ postPage.text # 0
            BY <2>1, <2>2, <2>4
        <3>2. PICK q \in postAsks : q.kind = "comment" /\ q.stage = "done"
            BY <2>4, <3>1 DEF DraftsIn
        <3>3. q = r
            BY <1>1, <3>1, <3>2, OneComment
        <3> QED
            BY <1>1, <3>2, <3>3
    <2>5. 0 <= pressed /\ postPage.text <= pressed
        BY DEF PostTyped, PostWithin, DraftsIn
    <2>6. DraftOf(n)' <= pressed'
        BY <1>1, <2>1, <2>2, <2>5
    <2>7. DraftOf(n)' = postPage'.text /\ postPage'.text # 0 => \E q \in postAsks' : q.kind = "comment" /\ q.stage = "done"
        BY <1>1, <2>1
    <2>8. \A i \in 1 .. Len(postRows') : DraftOf(i)' <= pressed'
        BY <1>1, <1>2, <2>3, <2>6 DEF DraftsIn
    <2>9. \A i \in 1 .. Len(postRows') :
            DraftOf(i)' = postPage'.text /\ postPage'.text # 0 =>
                DraftOf(i)' \in postLost' \/ \E q \in postAsks' : q.kind = "comment" /\ q.stage = "done"
        BY <1>1, <1>2, <1>4, <2>3, <2>7 DEF DraftsIn
    <2>10. \A i, j \in 1 .. Len(postRows') : DraftOf(i)' = DraftOf(j)' /\ DraftOf(i)' \notin postLost' \cup {0} => i = j
        BY <1>1, <1>2, <2>3, <2>4 DEF DraftsIn
    <2> QED
        BY <1>1, <1>3, <2>5, <2>8, <2>9, <2>10 DEF DraftsIn
<1> QED
    BY <1>5, <1>6 DEF ServedAs

LEMMA LandKeepsDrafts ==
    ASSUME PostTyped, FlagsIn, DraftsIn, NEW r, LandedAs(r) PROVE DraftsIn'
<1>1. /\ r \in postAsks /\ UNCHANGED <<pressed, postRows>> /\ postLost \subseteq postLost'
      /\ SameText \/ (r.kind = "comment" /\ postPage'.text = 0)
      /\ r.kind = "comment" /\ r.stage = "done" /\ postPage'.text # 0 => r.arg \in postLost'
    BY DEF LandedAs
<1>2. \A q \in postAsks' : q.kind = "comment" => q \in postAsks \ {r}
    BY AskKind DEF LandedAs
<1>3. \A q \in postAsks \ {r} : q \in postAsks'
    BY DEF LandedAs
<1>4. postPage'.text <= pressed'
    <2>1. 0 <= pressed /\ postPage.text <= pressed
        BY DEF PostTyped, PostWithin, DraftsIn
    <2> QED
        BY <1>1, <2>1 DEF SameText
<1>5. \A q \in postAsks' : q.kind = "comment" => q.arg = postPage'.text /\ q.arg # 0
    <2> SUFFICES ASSUME NEW q \in postAsks \ {r}, q.kind = "comment" PROVE q.arg = postPage'.text /\ q.arg # 0
        BY <1>2
    <2>1. r.kind # "comment"
        BY <1>1, OneComment
    <2>2. postPage'.text = postPage.text
        BY <1>1, <2>1 DEF SameText
    <2> QED
        BY <2>2 DEF DraftsIn
<1>6. \A i \in 1 .. Len(postRows) : DraftOf(i)' = DraftOf(i)
    BY <1>1 DEF DraftOf
<1>7. \A i \in 1 .. Len(postRows) :
        DraftOf(i)' = postPage'.text /\ postPage'.text # 0 =>
            DraftOf(i)' \in postLost' \/ \E q \in postAsks' : q.kind = "comment" /\ q.stage = "done"
    <2> SUFFICES ASSUME NEW i \in 1 .. Len(postRows), DraftOf(i) = postPage'.text, postPage'.text # 0
                 PROVE  DraftOf(i) \in postLost' \/ \E q \in postAsks' : q.kind = "comment" /\ q.stage = "done"
        BY <1>6
    <2>1. postPage'.text = postPage.text
        BY <1>1 DEF SameText
    <2>2. DraftOf(i) \in postLost \/ \E q \in postAsks : q.kind = "comment" /\ q.stage = "done"
        BY <2>1 DEF DraftsIn
    <2>3. ASSUME NEW q \in postAsks, q.kind = "comment", q.stage = "done"
          PROVE  DraftOf(i) \in postLost' \/ \E p \in postAsks' : p.kind = "comment" /\ p.stage = "done"
        <3>1. CASE q = r
            <4>1. r.arg \in postLost' /\ r.arg = postPage.text
                BY <1>1, <2>3, <3>1 DEF DraftsIn
            <4> QED
                BY <2>1, <4>1
        <3>2. CASE q # r
            BY <1>3, <2>3, <3>2
        <3> QED
            BY <3>1, <3>2
    <2> QED
        BY <1>1, <2>2, <2>3
<1>8. /\ Len(postRows') = Len(postRows)
      /\ \A i \in 1 .. Len(postRows) : DraftOf(i)' <= pressed'
      /\ \A i, j \in 1 .. Len(postRows) : DraftOf(i)' = DraftOf(j)' /\ DraftOf(i)' \notin postLost' \cup {0} => i = j
    BY <1>1, <1>6 DEF DraftsIn
<1> QED
    BY <1>4, <1>5, <1>7, <1>8 DEF DraftsIn

LEMMA RestKeepsDrafts ==
    ASSUME PostTyped, DraftsIn, UNCHANGED <<pressed, postLost>>, SameText,
           postAsks' = postAsks \/ postAsks' = postAsks \cup {Post!Ask("load", postId', 0, visit')},
           RowsGrow,
           \/ Len(postRows') = Len(postRows)
           \/ Len(postRows') = Len(postRows) + 1 /\ postRows'[Len(postRows) + 1].draft = 0
    PROVE  DraftsIn'
<1>1. \A i \in 1 .. Len(postRows) : DraftOf(i)' = DraftOf(i)
    BY DraftsStay
<1>2. \A q \in postAsks' : q.kind = "comment" => q \in postAsks
    BY AskKind
<1>3. \A i \in 1 .. Len(postRows') : i \in 1 .. Len(postRows) \/ DraftOf(i)' = 0
    BY DEF RowsGrow, DraftOf
<1>4. pressed \in Nat /\ postPage'.text = postPage.text
    BY DEF PostTyped, PostWithin, SameText
<1>5. \A q \in postAsks : q \in postAsks'
    OBVIOUS
<1>6. /\ postPage'.text <= pressed'
      /\ \A q \in postAsks' : q.kind = "comment" => q.arg = postPage'.text /\ q.arg # 0
    BY <1>2, <1>4 DEF DraftsIn
<1>7. \A i \in 1 .. Len(postRows') : DraftOf(i)' <= pressed'
    BY <1>1, <1>3, <1>4 DEF DraftsIn
<1>8. \A i \in 1 .. Len(postRows') :
        DraftOf(i)' = postPage'.text /\ postPage'.text # 0 =>
            DraftOf(i)' \in postLost' \/ \E q \in postAsks' : q.kind = "comment" /\ q.stage = "done"
    BY <1>1, <1>3, <1>4, <1>5 DEF DraftsIn
<1>9. \A i, j \in 1 .. Len(postRows') : DraftOf(i)' = DraftOf(j)' /\ DraftOf(i)' \notin postLost' \cup {0} => i = j
    BY <1>1, <1>3 DEF DraftsIn
<1> QED
    BY <1>6, <1>7, <1>8, <1>9 DEF DraftsIn

LEMMA PostKeepsDrafts == ASSUME PostTyped, FlagsIn, DraftsIn, PostStep PROVE DraftsIn'
<1>1. RowsIn
    BY DEF PostTyped
<1>2. CASE StaysQuiet /\ (postAsks' = postAsks \/ postAsks' = postAsks \cup {Post!Ask("load", postId', 0, visit')})
    <2>1. UNCHANGED <<pressed, postLost, postRows>> /\ SameText
        BY <1>2 DEF StaysQuiet
    <2> QED
        BY <1>1, <1>2, <2>1, RowsStay, RestKeepsDrafts
<1>3. CASE SomebodyElse
    <2>1. UNCHANGED <<pressed, postLost, postAsks>> /\ SameText /\ RowsGrow
        BY <1>3 DEF SomebodyElse, SameText
    <2>2. \/ Len(postRows') = Len(postRows)
          \/ Len(postRows') = Len(postRows) + 1 /\ postRows'[Len(postRows) + 1].draft = 0
        BY <1>3 DEF SomebodyElse
    <2> QED
        BY <2>1, <2>2, RestKeepsDrafts
<1>4. CASE UNCHANGED Post!postVars
    BY <1>4 DEF Post!postVars, DraftsIn, DraftOf
<1> QED
    BY <1>2, <1>3, <1>4, PressKeepsDrafts, ServeKeepsDrafts, LandKeepsDrafts DEF PostStep

-----------------------------------------------------------------------------

PostInv == PostTyped /\ FlagsIn /\ DraftsIn

LEMMA PostIsSafe == PostInv => Post!TypeOK /\ Post!NoDuplicateComments /\ Post!CreatedOnce
<1> SUFFICES ASSUME PostInv PROVE Post!TypeOK /\ Post!NoDuplicateComments /\ Post!CreatedOnce
    OBVIOUS
<1>1. PostWithin /\ RowsIn /\ (\A r \in postAsks : AskIn(r)) /\ PageIn /\ ListsIn /\ FlagsIn /\ DraftsIn
    BY DEF PostInv, PostTyped
<1>2. DOMAIN postRows = 1 .. Len(postRows)
    BY <1>1 DEF RowsIn
<1>3. Post!CreatedOnce
    BY <1>1, <1>2 DEF DraftsIn, DraftOf, Post!CreatedOnce
<1>4. postPage.posting = \E r \in postAsks : r.kind \in Post!Writes \cup {"refetch"}
    <2>1. postPage.posting \in BOOLEAN
        BY <1>1 DEF PageIn, PageRecords
    <2>2. postPage.posting <=> \E r \in postAsks : r.kind \in Post!Writes \cup {"refetch"}
        BY <1>1 DEF FlagsIn, SomeOf, WriteKinds
    <2> QED
        BY <2>1, <2>2
<1>5. \A t \in Post!Toggles : postPage.busy[t] = \E r \in postAsks : r.kind = t
    <2> SUFFICES ASSUME NEW t \in Post!Toggles PROVE postPage.busy[t] = \E r \in postAsks : r.kind = t
        OBVIOUS
    <2>1. postPage.busy[t] \in BOOLEAN
        BY <1>1 DEF PageIn, PageRecords, Switches
    <2>2. postPage.busy[t] <=> \E r \in postAsks : r.kind = t
        BY <1>1 DEF FlagsIn, SomeOf
    <2> QED
        BY <2>1, <2>2
<1>6. \A r \in postAsks : r.stage \in {"asked", "done"} /\ r.visit <= visit /\ r.post \in postBound.posts
    BY <1>1 DEF AskIn, PostAskRecords
<1>7. /\ postId \in postBound.posts /\ visit \in 1 .. postBound.visits /\ pressed \in 0 .. postBound.presses
      /\ postPage.post \in postBound.posts \cup {"nopost"}
      /\ Post!Range(postPage.comments) \cup Post!Range(postPushes) \cup removed \subseteq DOMAIN postRows
    BY <1>1, <1>2, BoundIs DEF PostWithin, PageIn, ListsIn
<1>8. Post!TypeOK
    BY <1>4, <1>5, <1>6, <1>7, Zenon DEF Post!TypeOK, Post!NoPost
<1> QED
    BY <1>1, <1>3, <1>8 DEF PageIn

\* Only a list from the server brings back what was removed.
LEMMA RemovedStaysAway ==
    ASSUME PostInv, PostStep
    PROVE  \A c \in removed \cap (Post!Range(postPage'.comments) \ Post!Range(postPage.comments)) :
                \E r \in postAsks \ postAsks' : r.kind \in {"load", "refetch"}
<1> SUFFICES ASSUME NEW c \in removed, c \in Post!Range(postPage'.comments), c \notin Post!Range(postPage.comments)
             PROVE  \E r \in postAsks \ postAsks' : r.kind \in {"load", "refetch"}
    OBVIOUS
<1>1. ~SameLists
    BY DEF SameLists
<1>2. ~(OnlyAdds \/ SomebodyElse \/ UNCHANGED Post!postVars \/ \E r, s : ServedAs(r, s))
    BY DEF OnlyAdds, SomebodyElse, Post!postVars, ServedAs
<1>3. ~\E kind, arg : PressedAs(kind, arg)
    BY <1>1 DEF PressedAs
<1>4. PICK r : LandedAs(r)
    BY <1>2, <1>3 DEF PostStep
<1>5. r \in postAsks /\ r.kind \in {"load", "refetch"}
    BY <1>1, <1>4 DEF LandedAs
<1>6. postAsks' = postAsks \ {r}
    BY <1>4, <1>5, KindsDiffer DEF LandedAs
<1> QED
    BY <1>5, <1>6

LEMMA PostInvariant == Post!Spec => []PostInv
<1>1. Post!Init => PostInv
    BY PostTypesStart, PostFlagsStart, PostDraftsStart DEF PostInv
<1>2. PostInv /\ [Post!Next]_(Post!postVars) => PostInv'
    BY PostSteps, PostKeepsTypes, PostKeepsFlags, PostKeepsDrafts DEF PostInv
<1> QED
    BY <1>1, <1>2, PTL DEF Post!Spec

\* PostView.vue: the comments of the page are each there once, a text becomes
\* one comment, and a comment that was deleted comes back with a list only.
THEOREM CommentsStayDeleted ==
    Post!Spec => [](Post!TypeOK /\ Post!NoDuplicateComments /\ Post!CreatedOnce) /\ Post!RemovedNotRevived
<1>1. PostInv /\ [Post!Next]_(Post!postVars)
      => [\A c \in removed \cap (Post!Range(postPage'.comments) \ Post!Range(postPage.comments)) :
              \E r \in postAsks \ postAsks' : r.kind \in {"load", "refetch"}]_(Post!postVars)
    BY PostSteps, RemovedStaysAway DEF PostInv
<1> QED
    BY <1>1, PostInvariant, PostIsSafe, PTL DEF Post!Spec, Post!RemovedNotRevived

-----------------------------------------------------------------------------
(* Side by side: a behaviour of the pages is one of each of them.           *)

LEMMA EditorIsAPart == PagesSpec => Editor!Spec
<1>1. PagesInit => Editor!Init
    BY DEF PagesInit
<1>2. [PagesNext]_pagesVars => [Editor!Next]_(Editor!editorVars)
    BY DEF PagesNext, pagesVars, editor, Editor!editorVars
<1> QED
    BY <1>1, <1>2, PTL DEF PagesSpec, Editor!Spec

LEMMA AccountLinksAreAPart == PagesSpec => Token!Spec
<1>1. PagesInit => Token!Init
    BY DEF PagesInit
<1>2. [PagesNext]_pagesVars => [Token!Next]_(Token!tokenVars)
    BY DEF PagesNext, pagesVars, tokens, Token!tokenVars
<1> QED
    BY <1>1, <1>2, PTL DEF PagesSpec, Token!Spec

LEMMA SecurityPageIsAPart == PagesSpec => Security!Spec
<1>1. PagesInit => Security!Init
    BY DEF PagesInit
<1>2. [PagesNext]_pagesVars => [Security!Next]_(Security!securityVars)
    BY DEF PagesNext, pagesVars, security, Security!securityVars
<1> QED
    BY <1>1, <1>2, PTL DEF PagesSpec, Security!Spec

LEMMA WorkerIsAPart == PagesSpec => Worker!Spec
<1>1. PagesInit => Worker!Init
    BY DEF PagesInit
<1>2. [PagesNext]_pagesVars => [Worker!Next]_(Worker!workerVars)
    BY DEF PagesNext, pagesVars, worker, Worker!workerVars
<1> QED
    BY <1>1, <1>2, PTL DEF PagesSpec, Worker!Spec

LEMMA FeedIsAPart == PagesSpec => FeedSteps
<1>1. PagesInit => Init
    BY DEF PagesInit
<1>2. [PagesNext]_pagesVars => [Next]_feedVars
    BY DEF PagesNext, pagesVars
<1> QED
    BY <1>1, <1>2, PTL DEF PagesSpec, FeedSteps

LEMMA PostPageIsAPart == PagesSpec => Post!Spec
<1>1. PagesInit => Post!Init
    BY DEF PagesInit
<1>2. [PagesNext]_pagesVars => [Post!Next]_(Post!postVars)
    BY DEF PagesNext, pagesVars, post, Post!postVars
<1> QED
    BY <1>1, <1>2, PTL DEF PagesSpec, Post!Spec

LEMMA QueueIsAPart == PagesSpec => Queue!Spec
<1>1. PagesInit => Queue!Init
    BY DEF PagesInit
<1>2. [PagesNext]_pagesVars => [Queue!Next]_(Queue!queueVars)
    BY DEF PagesNext, pagesVars, queue, Queue!queueVars
<1> QED
    BY <1>1, <1>2, PTL DEF PagesSpec, Queue!Spec

LEMMA BadgeIsAPart == PagesSpec => Badge!Spec
<1>1. PagesInit => Badge!Init
    BY DEF PagesInit
<1>2. [PagesNext]_pagesVars => [Badge!Next]_(Badge!badgeVars)
    BY DEF PagesNext, pagesVars, badge, Badge!badgeVars
<1> QED
    BY <1>1, <1>2, PTL DEF PagesSpec, Badge!Spec

LEMMA FollowButtonIsAPart == PagesSpec => Follow!Spec
<1>1. PagesInit => Follow!Init
    BY DEF PagesInit
<1>2. [PagesNext]_pagesVars => [Follow!Next]_(Follow!followVars)
    BY DEF PagesNext, pagesVars, follow, Follow!followVars
<1> QED
    BY <1>1, <1>2, PTL DEF PagesSpec, Follow!Spec

LEMMA ProfileIsAPart == PagesSpec => Profile!Spec
<1>1. PagesInit => Profile!Init
    BY DEF PagesInit
<1>2. [PagesNext]_pagesVars => [Profile!Next]_(Profile!profileVars)
    BY DEF PagesNext, pagesVars, profile, Profile!profileVars
<1> QED
    BY <1>1, <1>2, PTL DEF PagesSpec, Profile!Spec

LEMMA ListingsAreAPart == PagesSpec => List!Spec
<1>1. PagesInit => List!Init
    BY DEF PagesInit
<1>2. [PagesNext]_pagesVars => [List!Next]_(List!listingVars)
    BY DEF PagesNext, pagesVars, list, List!listingVars
<1> QED
    BY <1>1, <1>2, PTL DEF PagesSpec, List!Spec

LEMMA DraftsAreAPart == PagesSpec => Draft!Spec
<1>1. PagesInit => Draft!Init
    BY DEF PagesInit
<1>2. [PagesNext]_pagesVars => [Draft!Next]_(Draft!draftVars)
    BY DEF PagesNext, pagesVars, draft, Draft!draftVars
<1> QED
    BY <1>1, <1>2, PTL DEF PagesSpec, Draft!Spec

LEMMA ShellIsAPart == PagesSpec => Shell!Spec
<1>1. PagesInit => Shell!Init
    BY DEF PagesInit
<1>2. [PagesNext]_pagesVars => [Shell!Next]_(Shell!shellVars)
    BY DEF PagesNext, pagesVars, shell, Shell!shellVars, Shell!nav, Shell!overlays, Shell!meta
<1> QED
    BY <1>1, <1>2, PTL DEF PagesSpec, Shell!Spec

(* What proves something is good once, and the newest is: the recovery      *)
(* codes on screen, the address of a verified account, the links to set a   *)
(* password (Security2FAView.vue, AuthController.cc).                       *)
THEOREM PagesShowCurrentProofs == PagesSpec => []ProofsAreCurrent
<1>1. (Security!NewestCodesShown /\ Token!VerifiedIsProven /\ Token!ResetOnce /\ Token!OneLinkPerUser)
        => ProofsAreCurrent
    BY DEF ProofsAreCurrent
<1> QED
    BY <1>1, AccountLinksAreAPart, SecurityPageIsAPart, LinksAreCurrent, CodesOnScreenAreNewest, PTL

(* An earlier draft never lands after a later one: runPreview aborts the    *)
(* request before (CreatePostView.vue).                                     *)
THEOREM PagesRenderInOrder == PagesSpec => RendersLandInOrder
BY EditorIsAPart, PreviewsLandInOrder DEF RendersLandInOrder

(* Of an asset the cache gives the build its name stands for; a change of   *)
(* VERSION clears the caches before it, unless a write came late; and who   *)
(* could navigate offline still can, unless a fetch of an install failed    *)
(* (sw.js).                                                                 *)
THEOREM PagesFindTheirCaches == PagesSpec => CachesAreRight
<1>1. Worker!AssetHitIsRight /\ Worker!OldCachesCleared
        => (part = "worker" => Worker!AssetHitIsRight /\ Worker!OldCachesCleared)
    OBVIOUS
<1> QED
    BY <1>1, WorkerIsAPart, CachesOfTheWorker, PTL DEF CachesAreRight

(* A reader who stays while the feed is taken apart misses nothing that was *)
(* there all the time (HomeView.vue); a comment that comes both by an       *)
(* answer and over the socket is listed once, and a text becomes one        *)
(* comment (PostView.vue).                                                  *)
THEOREM PagesMissNothing == PagesSpec => []NothingMissedOrTwice
<1>1. NothingSkipped /\ Post!NoDuplicateComments /\ Post!CreatedOnce => NothingMissedOrTwice
    BY DEF NothingMissedOrTwice
<1> QED
    BY <1>1, FeedIsAPart, FeedSkipsNothing, PostPageIsAPart, CommentsStayDeleted, PTL

(* With its requests answered a page tells the truth: the badge, the follow *)
(* button, the own profile, the line over the hits, the title of the page   *)
(* and the focus (stores/notifications.ts, FollowButton.vue,                *)
(* ProfileView.vue, SearchView.vue, usePageMeta.ts, App.vue).               *)
THEOREM PagesSettleRight == PagesSpec => []SettledPagesAreRight
<1>1. /\ Badge!BadgeIsCount /\ Follow!CountAgrees /\ Follow!ButtonSettles
      /\ Profile!OwnCopyIsServers /\ List!LabelIsOfTheHits
      /\ Shell!TitleIsOfThePage /\ Shell!FocusIsKept
      => SettledPagesAreRight
    BY DEF SettledPagesAreRight
<1> QED
    BY <1>1, BadgeIsAPart, BadgeIsRight, FollowButtonIsAPart, FollowButtonIsRight, ProfileIsAPart, OwnCopyGoesAlong,
       ListingsAreAPart, HitsAreLabelled, ShellIsAPart, ShellKeepsFocusAndTitle, PTL

(* A late answer, push or timer undoes nothing: the action properties of    *)
(* eight pages.                                                             *)
THEOREM PagesUndoNothing == PagesSpec => LateAnswersUndoNothing
<1>1. PagesSpec => Post!RemovedNotRevived /\ OlderOnly
    BY PostPageIsAPart, CommentsStayDeleted, FeedIsAPart, FeedGrowsAtItsEnd
<1>2. PagesSpec => Badge!ConfirmedStaysRead /\ Draft!DraftStaysListed
    BY BadgeIsAPart, BadgeIsRight, DraftsAreAPart, DraftsStayListed
<1>3. PagesSpec => Queue!ActionedAfterHidden /\ Queue!DroppedIsResolved
    BY QueueIsAPart, QueueActsInOrder
<1>4. PagesSpec => Token!RedirectIsOwn /\ Security!SpentPasswordNotSent
    BY AccountLinksAreAPart, RedirectFindsItsView, SecurityPageIsAPart, SpentPasswordsStay
<1>5. PagesSpec => Shell!OverlaysAreLeft
    BY ShellIsAPart, ShellKeepsFocusAndTitle
<1> QED
    BY <1>1, <1>2, <1>3, <1>4, <1>5 DEF LateAnswersUndoNothing

(* Type correctness of all of them.                                         *)
THEOREM PagesTypeCorrect == PagesSpec => []PagesTypeOK
<1>1. /\ TypeOK /\ Post!TypeOK /\ Editor!TypeOK /\ Security!TypeOK /\ Queue!TypeOK /\ Badge!TypeOK
      /\ Profile!TypeOK /\ List!TypeOK /\ Draft!TypeOK /\ Token!TypeOK /\ Shell!TypeOK
      => PagesTypeOK
    BY DEF PagesTypeOK
<1>2. PagesSpec => [](TypeOK /\ Post!TypeOK /\ Editor!TypeOK /\ Security!TypeOK)
    BY FeedIsAPart, FeedTypeCorrect, PostPageIsAPart, CommentsStayDeleted, EditorIsAPart, EditorTypeCorrect,
       SecurityPageIsAPart, CodesOnScreenAreNewest, PTL
<1>3. PagesSpec => [](Queue!TypeOK /\ Badge!TypeOK /\ Profile!TypeOK /\ List!TypeOK)
    BY QueueIsAPart, QueueActsInOrder, BadgeIsAPart, BadgeIsRight, ProfileIsAPart, OwnCopyGoesAlong, ListingsAreAPart,
       HitsAreLabelled, PTL
<1>4. PagesSpec => [](Draft!TypeOK /\ Token!TypeOK /\ Shell!TypeOK)
    BY DraftsAreAPart, DraftsStayListed, AccountLinksAreAPart, LinksAreCurrent, ShellIsAPart, ShellKeepsFocusAndTitle, PTL
<1> QED
    BY <1>1, <1>2, <1>3, <1>4, PTL

=============================================================================
