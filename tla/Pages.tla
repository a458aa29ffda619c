------------------------------- MODULE Pages -------------------------------
(***************************************************************************)
(* The pages and stores of the browser client that are proved about, and   *)
(* the service worker under them.  They share no state with each other,    *)
(* only the backend: a behaviour moves one `part`, or none of these        *)
(* (ClientPages adds the others).                                          *)
(***************************************************************************)
EXTENDS Feed

CONSTANTS
    Words, MaxSaves,               \* PostEditor
    Devices, MaxEntries,           \* AccountSecurity: its Others
    Names, Addresses, MaxMails,    \* AccountTokens
    MaxBuilds, MaxPuts,            \* ServiceWorker
    PostIds, PostBounds,           \* PostPage: its Posts and Bounds
    Reports, Content, Reported,    \* ModerationQueue: its People
    MaxOthers,
    Notes,                         \* NotificationBadge
    People, NoStats,               \* FollowButton
    Bios,                          \* ProfilePage: its Typed
    Questions,                     \* Listings
    Drafts,                        \* DraftsPage
    MaxLogouts,                    \* AppShell
    NoUser,
    PressesOf, AsksOf, MovesOf     \* bounds of the parts, by name

\* A post's route is none of the others, and what is bounded by a number is
\* bounded by a natural one.
ASSUME RouteAssumption == PostIds \cap {"home", "login", "missing"} = {}
ASSUME BoundAssumption ==
    {MaxLogouts, MaxSaves, MovesOf["shell"], MovesOf["editor"]} \subseteq Nat

\* A behaviour of the post's page runs under bounds.
ASSUME PostBoundsAssumption ==
    PostBounds \subseteq [posts : SUBSET PostIds, comments : Nat, visits : Nat \ {0}, presses : Nat, asks : Nat]

\* The reader has finitely many notifications.
ASSUME NotesAssumption == IsFiniteSet(Notes)

\* No account is "no user".
ASSUME AccountAssumption == NoUser \notin [email : Addresses, verified : BOOLEAN, token : Nat]
ASSUME ProfileAssumption ==
    NoUser \notin [id : {"me", "other"}, bio : Bios \cup {"me", "other", ""}, email : {"mine", "changed", ""}, avatar : Nat]

VARIABLES
    part,
    content, editorMoves, wanted, timer, rendered, failed, render, inflight, renders, asked, uploading, editorSaving,
    saves, created, leaving,
    account, sheet, securityAsks, count, entries, spent, unseen,
    route, tokenVisit, token, tokenBusy, registered, timers, tokenLate, tokenPresses, tokenAsks, users, resets, mails,
    proven, tokenChanges, straddled, tokenOverlapped,
    build, version, online, active, installing, cached, puts, answered, short, workerLate,
    postBound, postId, visit, pressed, postPage, live, removed, postAsks, postRows, stored, postPushes, postLost, away,
    target, reports, hidden, status, queueShown, listed, queueLoading, actingOn, note, queueBusyId, queueAsks,
    queuePresses, others, ours, refused, button,
    arrived, readAt, nudges, signedIn, items, unread, badgeAsks, badgePresses, confirmed, overlapped, stale,
    follows, followId, stats, busy, followAsks, followPresses, followVisit, followLeft, followLost,
    bio, email, avatar, own, profileId, user, profileLoading, profileError, editing, editBio, editEmail, profileSaving,
    uploadingAvatar,
    profileAsks, profilePresses, profileLost,
    listPage, listQ, listRows, label, listLoading, listError, listAsks, listMoves,
    draftPosts, drafts, draftLoading, draftBusyId, draftAsks, draftPresses,
    narrow, shellRoute, authed, drawer, menu, focus, lastFocused, logouts, shellPresses, view, override, announced,
    loads, shellMoves

editor == <<content, editorMoves, wanted, timer, rendered, failed, render, inflight, renders, asked, uploading,
            editorSaving, saves, created, leaving>>
security == <<account, sheet, securityAsks, count, entries, spent, unseen>>
tokens == <<route, tokenVisit, token, tokenBusy, registered, timers, tokenLate, tokenPresses, tokenAsks, users, resets,
            mails, proven, tokenChanges, straddled, tokenOverlapped>>
worker == <<build, version, online, active, installing, cached, puts, answered, short, workerLate>>
post == <<postBound, postId, visit, pressed, postPage, live, removed, postAsks, postRows, stored, postPushes, postLost, away>>
queue == <<target, reports, hidden, status, queueShown, listed, queueLoading, actingOn, note, queueBusyId, queueAsks,
           queuePresses, others, ours, refused, button>>
badge == <<arrived, readAt, nudges, signedIn, items, unread, badgeAsks, badgePresses, confirmed, overlapped, stale>>
follow == <<follows, followId, stats, busy, followAsks, followPresses, followVisit, followLeft, followLost>>
profile == <<bio, email, avatar, own, profileId, user, profileLoading, profileError, editing, editBio, editEmail, profileSaving,
             uploadingAvatar, profileAsks, profilePresses, profileLost>>
list == <<listPage, listQ, listRows, label, listLoading, listError, listAsks, listMoves>>
draft == <<draftPosts, drafts, draftLoading, draftBusyId, draftAsks, draftPresses>>
shell == <<narrow, shellRoute, authed, drawer, menu, focus, lastFocused, logouts, shellPresses, view, override, announced,
           loads, shellMoves>>

Editor == INSTANCE PostEditor WITH
    Image <- "img", MaxMoves <- MovesOf["editor"],
    moves <- editorMoves, shown <- render, saving <- editorSaving

Security == INSTANCE AccountSecurity WITH
    Others <- Devices, MaxPresses <- PressesOf["security"], MaxAsks <- AsksOf["security"], asks <- securityAsks

Token == INSTANCE AccountTokens WITH
    MaxPresses <- PressesOf["token"], MaxAsks <- AsksOf["token"],
    visit <- tokenVisit, busy <- tokenBusy, done <- registered, late <- tokenLate, presses <- tokenPresses,
    asks <- tokenAsks, changes <- tokenChanges, overlapped <- tokenOverlapped

Worker == INSTANCE ServiceWorker WITH
    stored <- cached, shown <- answered, late <- workerLate

Post == INSTANCE PostPage WITH
    Posts <- PostIds, Bounds <- PostBounds, MayFail <- TRUE,
    bound <- postBound, id <- postId, page <- postPage, asks <- postAsks, rows <- postRows, pushes <- postPushes,
    lost <- postLost

Queue == INSTANCE ModerationQueue WITH
    People <- Reported, MaxPresses <- PressesOf["queue"], MaxAsks <- AsksOf["queue"],
    shown <- queueShown, loading <- queueLoading, busyId <- queueBusyId, asks <- queueAsks, presses <- queuePresses

Badge == INSTANCE NotificationBadge WITH
    MaxPresses <- PressesOf["badge"], MaxAsks <- AsksOf["badge"],
    asks <- badgeAsks, presses <- badgePresses

Follow == INSTANCE FollowButton WITH
    MaxPresses <- PressesOf["follow"], MaxAsks <- AsksOf["follow"],
    id <- followId, asks <- followAsks, presses <- followPresses, visit <- followVisit,
    left <- followLeft, lost <- followLost

Profile == INSTANCE ProfilePage WITH
    Me <- "me", Other <- "other", Typed <- Bios, Mine <- "mine", Changed <- "changed", Empty <- "",
    MaxPresses <- PressesOf["profile"], MaxAsks <- AsksOf["profile"],
    id <- profileId, loading <- profileLoading, error <- profileError, saving <- profileSaving,
    uploading <- uploadingAvatar,
    asks <- profileAsks, presses <- profilePresses, lost <- profileLost

List == INSTANCE Listings WITH
    NoQuestion <- "", q <- listQ, NoRows <- "no rows", MaxMoves <- MovesOf["list"], MaxAsks <- AsksOf["list"],
    page <- listPage, rows <- listRows, loading <- listLoading, error <- listError, asks <- listAsks,
    moves <- listMoves

Draft == INSTANCE DraftsPage WITH
    NoDraft <- "none", MaxPresses <- PressesOf["draft"], MaxAsks <- AsksOf["draft"],
    posts <- draftPosts, loading <- draftLoading, busyId <- draftBusyId, asks <- draftAsks, presses <- draftPresses

Shell == INSTANCE AppShell WITH
    Posts <- PostIds, MaxMoves <- MovesOf["shell"],
    route <- shellRoute, presses <- shellPresses, moves <- shellMoves

-----------------------------------------------------------------------------

PagesInit ==
    /\ Init /\ Editor!Init /\ Security!Init /\ Token!Init /\ Worker!Init /\ Post!Init /\ Queue!Init
    /\ Badge!Init /\ Follow!Init /\ Profile!Init /\ List!Init /\ Draft!Init /\ Shell!Init

\* Every step is one of the behaviour's part.
PagesNext ==
    /\ UNCHANGED part
    /\ IF part = "feed" THEN Next ELSE UNCHANGED feedVars
    /\ IF part = "editor" THEN Editor!Next ELSE UNCHANGED editor
    /\ IF part = "security" THEN Security!Next ELSE UNCHANGED security
    /\ IF part = "token" THEN Token!Next ELSE UNCHANGED tokens
    /\ IF part = "worker" THEN Worker!Next ELSE UNCHANGED worker
    /\ IF part = "post" THEN Post!Next ELSE UNCHANGED post
    /\ IF part = "queue" THEN Queue!Next ELSE UNCHANGED queue
    /\ IF part = "badge" THEN Badge!Next ELSE UNCHANGED badge
    /\ IF part = "follow" THEN Follow!Next ELSE UNCHANGED follow
    /\ IF part = "profile" THEN Profile!Next ELSE UNCHANGED profile
    /\ IF part = "list" THEN List!Next ELSE UNCHANGED list
    /\ IF part = "draft" THEN Draft!Next ELSE UNCHANGED draft
    /\ IF part = "shell" THEN Shell!Next ELSE UNCHANGED shell

pagesVars == <<part, feedVars, editor, security, tokens, worker, post, queue, badge, follow, profile, list, draft, shell>>

PagesSpec == PagesInit /\ [][PagesNext]_pagesVars

-----------------------------------------------------------------------------
(* Properties.  Each is stated, and explained, in its own module; those of *)
(* the feed come with it.  A part at rest is in a state that its own       *)
(* behaviours begin in, where its invariants are checked.                  *)

\* The type invariants of the parts.
PagesTypeOK ==
    /\ part = "feed" => TypeOK
    /\ part = "post" => Post!TypeOK
    /\ part = "editor" => Editor!TypeOK
    /\ part = "security" => Security!TypeOK
    /\ part = "queue" => Queue!TypeOK
    /\ part = "badge" => Badge!TypeOK
    /\ part = "profile" => Profile!TypeOK
    /\ part = "list" => List!TypeOK
    /\ part = "draft" => Draft!TypeOK
    /\ part = "token" => Token!TypeOK
    /\ part = "shell" => Shell!TypeOK

\* What proves something is good once, and the newest is: the recovery codes on
\* screen are not replaced ones (Security2FAView.vue), a verified address is one
\* a link was mailed to, a reset link changes a password once and supersedes
\* those before it (AuthController.cc).
ProofsAreCurrent ==
    /\ part = "security" => Security!NewestCodesShown
    /\ part = "token" => Token!VerifiedIsProven /\ Token!ResetOnce /\ Token!OneLinkPerUser

\* A feed that ended without an error shows all that was public all along
\* (HomeView.vue); a comment comes by an answer and over the socket, and is
\* listed once, and a text that was sent becomes one comment, unless an error
\* was reported for one that was made (PostView.vue).
NothingMissedOrTwice ==
    /\ part = "feed" => NothingSkipped
    /\ part = "post" => Post!NoDuplicateComments /\ Post!CreatedOnce

\* CreatePostView.vue: no preview lands after that of a later text.
RendersLandInOrder == Editor!RendersLandInOrder

\* sw.js: a cached asset is the one its name stands for, a new VERSION clears
\* the caches before it, and the offline page survives an update.
CachesAreRight ==
    /\ [](part = "worker" => Worker!AssetHitIsRight /\ Worker!OldCachesCleared)
    /\ Worker!OfflineStays

\* With its requests answered, a page tells the truth: the badge counts the
\* unread rows (stores/notifications.ts), the button and the followers are the
\* server's (FollowButton.vue), so is the own profile (ProfileView.vue), the
\* line over the hits names their query (SearchView.vue), the title is that of
\* the post on screen (usePageMeta.ts), and the focus is not behind the drawer
\* (App.vue).
SettledPagesAreRight ==
    /\ part = "badge" => Badge!BadgeIsCount
    /\ part = "follow" => Follow!CountAgrees /\ Follow!ButtonSettles
    /\ part = "profile" => Profile!OwnCopyIsServers
    /\ part = "list" => List!LabelIsOfTheHits
    /\ part = "shell" => Shell!TitleIsOfThePage /\ Shell!FocusIsKept

\* A late answer, push or timer undoes nothing: a deleted comment stays away
\* (PostView.vue), the feed grows at its end (HomeView.vue), what was marked as
\* read stays so (stores/notifications.ts), a draft stays listed while it is one
\* (DraftsView.vue), a report is "actioned" after its content was hidden and
\* leaves the queue when resolved (ModerationView.vue), a redirect finds the
\* view that asked for it (RegisterView.vue), the password of an action that is
\* done goes no further (Security2FAView.vue), and no navigation, not that of a
\* late sign-out either, leaves the drawer or the menu over its page (App.vue).
LateAnswersUndoNothing ==
    /\ Post!RemovedNotRevived /\ OlderOnly /\ Badge!ConfirmedStaysRead /\ Draft!DraftStaysListed
    /\ Queue!ActionedAfterHidden /\ Queue!DroppedIsResolved
    /\ Token!RedirectIsOwn /\ Security!SpentPasswordNotSent
    /\ Shell!OverlaysAreLeft

=============================================================================
