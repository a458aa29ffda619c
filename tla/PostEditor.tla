----------------------------- MODULE PostEditor -----------------------------
(***************************************************************************)
(* The editor of a new post (views/CreatePostView.vue): the preview that   *)
(* the server renders after a pause in the typing, the upload of an image  *)
(* into the text, and saving.                                              *)
(*                                                                         *)
(* Abstracted: a text is the set of its parts (words, an image); title and *)
(* tags are filled in; a request of the preview is lost or answered.       *)
(***************************************************************************)
EXTENDS Naturals, FiniteSets

CONSTANTS
    Words,     \* what the author can type or delete
    Image,     \* the snippet an upload inserts
    MaxMoves,  \* bound: changes of the text or of the tab by hand
    MaxSaves   \* bound: presses of the save buttons

VARIABLES
    content,   \* the text
    moves,     \* how often the author changed it, or the tab
    wanted,    \* previewWanted: a wide window, or the preview's tab
    timer,     \* whether debounceTimer is set
    rendered,  \* the text the preview was rendered from
    failed,    \* previewError is set
    shown,     \* the render on screen: its number (0: none) and its text
    inflight,  \* the request `inflight` aborts, by number; 0 if null
    renders,   \* preview requests in the air, aborted ones left out
    asked,     \* how many there were
    uploading, \* uploadingImage
    saving,    \* "no", or where a save under way will lead: a scheduled post is a draft
    saves,     \* how often it was pressed
    created,   \* posts the backend has made of it
    leaving    \* router.push was called: "no", "pending", "gone"

editorVars == <<content, moves, wanted, timer, rendered, failed, shown, inflight, renders, asked,
                uploading, saving, saves, created, leaving>>

Texts == SUBSET (Words \cup {Image})
Never == {"never"}

Init ==
    /\ content = {}
    /\ moves = 0
    /\ wanted \in BOOLEAN
    /\ timer = FALSE
    /\ rendered = Never
    /\ failed = FALSE
    /\ shown = [n |-> 0, text |-> {}]
    /\ inflight = 0
    /\ renders = {}
    /\ asked = 0
    /\ uploading = FALSE
    /\ saving = "no"
    /\ saves = 0
    /\ created = 0
    /\ leaving = "no"

Here == leaving # "gone"

-----------------------------------------------------------------------------
(* The preview.                                                            *)

\* schedulePreview, called by the two watchers with what they saw.
Schedule(text, want) == timer' = (timer \/ (want /\ text # rendered))

SetText(text) ==
    /\ content' = text
    /\ IF text = content \/ ~Here THEN UNCHANGED timer ELSE Schedule(text, wanted)

Type(w) ==
    /\ Here /\ moves < MaxMoves
    /\ moves' = moves + 1
    /\ SetText(IF w \in content THEN content \ {w} ELSE content \cup {w})
    /\ UNCHANGED <<wanted, rendered, failed, shown, inflight, renders, asked, uploading, saving, saves, created, leaving>>

SwitchView ==
    /\ Here /\ moves < MaxMoves
    /\ moves' = moves + 1
    /\ wanted' = ~wanted
    /\ Schedule(content, wanted')
    /\ UNCHANGED <<content, rendered, failed, shown, inflight, renders, asked, uploading, saving, saves, created, leaving>>

RunPreviewBlank ==
    /\ timer /\ content = {}
    /\ timer' = FALSE
    /\ shown' = [shown EXCEPT !.text = {}]
    /\ rendered' = {}
    /\ failed' = FALSE
    /\ UNCHANGED <<content, moves, wanted, inflight, renders, asked, uploading, saving, saves, created, leaving>>

\* Mutant: the request before goes on.
RunPreviewNoAbort ==
    /\ timer /\ content # {}
    /\ timer' = FALSE
    /\ asked' = asked + 1
    /\ renders' = renders \cup {[n |-> asked + 1, text |-> content]}
    /\ inflight' = asked + 1
    /\ UNCHANGED <<content, moves, wanted, rendered, failed, shown, uploading, saving, saves, created, leaving>>

\* The controller of the request before is aborted first.
RunPreview ==
    /\ timer /\ content # {}
    /\ timer' = FALSE
    /\ asked' = asked + 1
    /\ renders' = {r \in renders : r.n # inflight} \cup {[n |-> asked + 1, text |-> content]}
    /\ inflight' = asked + 1
    /\ UNCHANGED <<content, moves, wanted, rendered, failed, shown, uploading, saving, saves, created, leaving>>

LandPreview(r) ==
    /\ renders' = renders \ {r}
    /\ inflight' = IF inflight = r.n THEN 0 ELSE inflight
    /\ \/ shown' = r /\ rendered' = r.text /\ failed' = FALSE
       \/ failed' = TRUE /\ UNCHANGED <<shown, rendered>>   \* too many renders, or any other error
    /\ UNCHANGED <<content, moves, wanted, timer, asked, uploading, saving, saves, created, leaving>>

-----------------------------------------------------------------------------
(* The image, and saving.                                                  *)

PickImage ==
    /\ Here /\ ~uploading /\ Image \notin content
    /\ uploading' = TRUE
    /\ UNCHANGED <<content, moves, wanted, timer, rendered, failed, shown, inflight, renders, asked, saving, saves, created, leaving>>

\* Spliced into the text of the moment in which the upload ends.
LandUpload ==
    /\ uploading
    /\ uploading' = FALSE
    /\ SetText(content \cup {Image}) \/ UNCHANGED <<content, timer>>
    /\ UNCHANGED <<moves, wanted, rendered, failed, shown, inflight, renders, asked, saving, saves, created, leaving>>

\* Both buttons are disabled while either save is under way.
Save(how) ==
    /\ Here /\ saving = "no" /\ content # {} /\ saves < MaxSaves
    /\ saving' = how
    /\ saves' = saves + 1
    /\ UNCHANGED <<content, moves, wanted, timer, rendered, failed, shown, inflight, renders, asked, uploading, created, leaving>>

\* The flags are reset at once, the page changes when the next view is there.
LandSave ==
    /\ saving # "no"
    /\ saving' = "no"
    /\ created' = created + 1
    /\ leaving' = IF Here THEN "pending" ELSE leaving
    /\ UNCHANGED <<content, moves, wanted, timer, rendered, failed, shown, inflight, renders, asked, uploading, saves>>

\* Refused, or the answer of a post that was made is lost.
LandFailedSave ==
    /\ saving # "no"
    /\ saving' = "no"
    /\ created' \in {created, created + 1}
    /\ UNCHANGED <<content, moves, wanted, timer, rendered, failed, shown, inflight, renders, asked, uploading, saves, leaving>>

\* Unmounting clears the timer and aborts the preview.
Unmount ==
    /\ leaving = "pending"
    /\ leaving' = "gone"
    /\ timer' = FALSE
    /\ renders' = {r \in renders : r.n # inflight}
    /\ UNCHANGED <<content, moves, wanted, rendered, failed, shown, inflight, asked, uploading, saving, saves, created>>

Next ==
    \/ \E w \in Words : Type(w)
    \/ SwitchView \/ RunPreviewBlank \/ RunPreview
    \/ \E r \in renders : LandPreview(r)
    \/ PickImage \/ LandUpload
    \/ \E how \in {"post", "drafts"} : Save(how)
    \/ LandSave \/ LandFailedSave \/ Unmount

Spec == Init /\ [][Next]_editorVars

-----------------------------------------------------------------------------
(* Properties.                                                             *)

\* The texts are texts, and the controller in `inflight` is that of the one
\* request in the air.
TypeOK ==
    /\ content \in Texts /\ rendered \in Texts \cup {Never}
    /\ renders \in SUBSET [n : 1 .. asked, text : Texts]
    /\ inflight \in {r.n : r \in renders} \cup {0} \/ ~Here
    /\ created <= saves /\ saves \in 0 .. MaxSaves /\ moves \in 0 .. MaxMoves

\* An earlier draft never lands after a later one: the number of the render
\* on screen only grows (CreatePostView.vue, runPreview's abort).
RendersLandInOrder == [][shown'.n >= shown.n]_editorVars

\* With nothing scheduled, nothing in the air and no error, the preview is
\* that of the text beside it.  Does not hold: a text that is what was
\* rendered before, or is empty, returns without aborting the request of the
\* text in between (CreatePostView.vue:111 and 121).
PreviewIsOfTheText ==
    ~timer /\ renders = {} /\ wanted /\ ~failed /\ rendered # Never /\ Here => shown.text = content

\* One text, one post.  Does not hold: the buttons are enabled again while
\* the next view is still loading (CreatePostView.vue:212).
PostedOnce == created > 1 => leaving = "no"

=============================================================================
