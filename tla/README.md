# Verification of drogon_blog

TLA+ models of the parts of this blog, server and browser client, whose
correctness depends on the order in which threads, processes, SQL statements,
requests and messages happen to meet, the TLC runs that check them, and
machine-checked proofs of the most important results.

To repeat everything, in this directory:

    tlc -workers 2 -config SessionRegistry_accounts.cfg MCSessionRegistry
    tlapm ShutdownProofs.tla

Every configuration `<Module>_<run>.cfg` belongs to `MC<Module>.tla`, and
`Shutdown_quit.cfg` to `Shutdown.tla`.
`PROJECT.json` lists the runs, the line of the source behind each definition, a
mutation of the code's behaviour that each property rejects, and the hazards the
properties are for.

## 1. The system

A blog server written in C++ on Drogon with PostgreSQL and, optionally, Redis;
the frontend is a Vue application with Pinia stores, one WebSocket per tab and a
service worker. One process runs several event loops, one
thread each; handlers are mostly asynchronous (`execSqlAsync`), and work that
blocks (password hashing, image decoding) runs on two fixed pools. The supported
deployment is one process (the session store is in memory); a rolling update
overlaps two for a moment (`chart/drogon-blog/values.yaml`), and the LISTEN
bridge and presence are written for several.

```
  tab: pages -> stores -> client.ts, messages.ts (socket); sw.js (caches)
    |
 browser --HTTP--> advices (main.cc) --> controllers --SQL--> PostgreSQL
    |                  |  reads g_revoked,     |                   |
    |                  |  suspended accounts   | submit            | NOTIFY (trigger)
    |                  v                       v                   v
    +--WebSocket--> MessageWebSocket <-- Workers pools        PgListener thread
                       ^   |               |                       |
       closeForSession |   | markOnline    | enqueue               | markLocal,
                       |   v               v                       | setSuspended
                Sessions <-+-- Presence   EmailHelper worker       |
                   ^           (Redis)     (SMTP)                  |
                   +-----------------------------------------------+
```

### Inventory

For each component: its state; its operations; what makes it hard; what makes it
correct. "Model" names the module, or says why there is none yet.

| component | state | operations | hard behaviours | correct when | model |
|---|---|---|---|---|---|
| Sign-in, session registry, revocation (`Sessions.cc`, `TwoFactorSession.cc`, the auth controllers) | `user_sessions` rows, the Drogon session object, `g_revoked` of each process | sign in with one or two steps, `begin`, `revoke`, `revokeOthers`, the pre-routing advice, logout, password change and reset, ban, erasure, restart | statements of several handlers interleave on one cookie; notifications are lost while the listener reconnects; the insert or the update fails alone | who is signed in has a registered sid, his own unless sign-ins of two users crossed; a revoked sid is refused everywhere; a closed session never reopens | `SessionRegistry`, `SessionLifecycle` |
| Mail queue (`EmailHelper.cc`) | `g_queue`, `g_running`, the worker | `enqueue`, the worker loop, `stop` | a flag read and written outside the lock; a notification before the wait | accepted mails go out once, in order; stop drains | `EmailQueue`, `Shutdown` |
| WebSocket hub (`MessageWebSocket.cc`) | three indexes of sockets, each socket's context | handshake, `registerConnection`, subscribe, unregister, `closeForSession`, `shutdownAll` | one event loop per socket; indexes by user, session and post that must agree; revocation racing the handshake | the indexes say the same; limits hold; a revoked session's sockets are cut | `MessageHub` |
| Post publishing and the scheduler (`PostController.cc`, `Scheduler.cc`, `PostMeta.cc`) | a row of `posts`, its tags | create, update, delete, the sweep | an update is six statements without a transaction; every process sweeps | a publication keeps its date and is announced | `PostPublishing` |
| Cross-pod presence (`Presence.cc`) | Redis keys with TTL, the online set, `g_localUsers` | `markOnline`, `markOffline`, the heartbeat | commands lost, connections lost, pods that crash; several pods write one key | a tracked user comes to be shown, an unknown one expires | `Presence` |
| Comment threads and erasure (`CommentController.cc`, `AuthControllerPrivacy.cc`) | `comments` with `parent_id` ON DELETE CASCADE, tombstones | create, update, delete, hide, erase an account | row locks, READ COMMITTED snapshots, a cascade nobody wrote | a deletion removes one row; a tombstone stays one; an erasure is whole | `CommentThreads` |
| Worker pools (`Workers.cc`) | the bounded backlog, the threads | `submit`, `offload`, `loop`, `stop` | condition variable, full queue, stop while running | accepted jobs run once, none sleeps, stop drains | `WorkerPool`, `Shutdown` |
| Two-factor enrolment and verification (`AuthController2fa.cc`, `Totp.cc`, `RecoveryCodes.cc`, `WebAuthn.cc`) | factors' rows, recovery codes, the challenge in the session | enrol, confirm, disable, regenerate, verify | read-then-write without a lock; single use | a factor is used once; none is switched off unproved | `TwoFactorFactors` |
| Account tokens (`AuthController.cc`, `UserController.cc`, four views) | `email_verification_tokens`, `password_reset_tokens`, `users.email_verified` | register, verify, resend, change of address, request and consume a reset | a new token supersedes the old ones in two statements; an address changes while a link to it is out | a verified address is proven; a link changes a password once; a timer acts on its own view | `AccountTokens` |
| Start and shutdown (`main.cc`, `Ops.cc`) | the order of the stops | start, drain, `runOnQuit` | jobs still submit, handlers still send mail | everything a job mails goes out before the exit | `Shutdown` |
| Client: session and routing (`auth.ts`, `router/index.ts`, `LoginView`, `Verify2FAView`) | the cookie, the store's `user`, `ready` and `pending2fa`, the view that is up and the one that is loading | probe, sign in by one or two steps, sign out, delete, navigate | answers overtake each other, and so do navigations; the cookie changes before the answer | no private page without a user | `ClientSession` |
| Client: live socket (`messages.ts`, `App.vue`) | the socket, its timer, its failures, subscriptions | connect, reconnect, give up, subscribe, sign out | events of an old socket after a new one was opened; a sign-out during a handshake | one socket, of the page; none without a user; a user gets one or is told | `LiveSocket` |
| Client: post page and thread (`PostView`, `CommentThread`) | the post, its comments, the answers in flight | load, write, edit, remove, like, bookmark, publish, delete; pushed comments | lists, pushes and deletions in any order; the id changes under a request | a comment is there once, drawn, and stays away when deleted | `PostPage`, `CommentThread` |
| Client: private messages (`messages.ts`, `MessagesView`) | conversations with rows, unread counts, marks | inbox, open, send, mark, push | the same message by three ways | each message once, in order; unread is seen | `Conversations` |
| Client: notifications (`notifications.ts`, `NotificationsView`) | the number and the rows | count, list, mark, mark all, nudge | optimistic marks and their rollbacks cross | the badge settles; a confirmed mark stays | `NotificationBadge` |
| Client: moderation and reports (`ModerationView`, `ReportButton`, `ModerationController.cc`) | the rows of a tab, the note, `busyId` | list, dismiss, act, ban by hand, report | two requests with nothing that binds them, other moderators | a report is resolved after its action | `ModerationQueue` |
| Client: account security (`Security2FAView`) | secrets, codes and passwords on the page | enrol, confirm, disable, regenerate, passkeys, sessions, password | many actions share one password field and one card of codes | the codes on screen are the newest; a spent password goes no further | `AccountSecurity` |
| Client: editor (`CreatePostView`) | text, preview, timer, request | type, preview, upload, save | requests are aborted, or answered anyway | previews land in order | `PostEditor` |
| Client: feed (`HomeView`, `PostController::getAllPosts`) | rows, cursor | load more | publications and takedowns between two pages | nothing skipped, nothing twice | `Feed` |
| Client: profile, follow, lists, drafts (`ProfileView`, `FollowButton`, `SearchView`, `TagView`, `TagsView`, `BookmarksView`, `RelatedPosts`, `DraftsView`) | what each shows, and what was asked | load, edit, upload, follow, search, publish, discard | an answer for what was shown before | settled pages show what the server has | `ProfilePage`, `FollowButton`, `Listings`, `DraftsPage` |
| Client: shell and contents list (`App.vue`, `AccountMenu`, `usePageMeta.ts`, `TableOfContents`) | drawer, menu, the focus and where it was, the title and its owner, the ids of headings | open, close, tab, navigate, sign out, load; scan, jump | a sign-out or a load lands after the reader has moved on; headings share words | the focus is in the document and not behind the drawer; the title is that of the post on screen; an entry leads to its heading | `AppShell`, `Contents` |
| Service worker (`sw.js`) | Cache Storage, the active worker | install, activate, fetch | deploys, writes nobody waits for | a hit is what its name says; the offline page survives | `ServiceWorker` |
| Login throttle and rate limiter (`LoginThrottle.cc`, `Security.cc`) | a counter row per key with its window; token buckets | record a failure, check, reset; take a token | boundary at exactly ten; concurrent failures | engages after ten, mails once | planned: `LoginThrottle` |
| Roles, bans, moderation (`Roles.cc`, `ModerationController.cc`) | the set of suspended accounts in memory | load, ban, unban, expire, the write gate | a bulk load racing notifications | a suspended account writes nothing | sessions' part in `SessionRegistry`, reports in `ModerationQueue`; planned: `BanGate` |
| Private messages, social tables (`MessageController.cc`, `SocialController.cc`, `Notifications.cc`) | rows with unique keys | send, follow, like, bookmark, read | each write is one statement | idempotent | where the client meets them |
| Conditional requests (`HttpCache.cc`) | none | weak tags from counts and dates | a tag that stays while the body changes | equal tags mean equal bodies | planned: `ConditionalGet` |
| LISTEN/NOTIFY bridge (`PgListener.cc`) | a connection, a thread | listen, dispatch, reconnect, stop | notifications lost while reconnecting | stop returns; a reconnection re-listens | loss in `SessionRegistry` |
| Images, text and public pages, observability, schema, generated models, deployment; the client's themes, translations and toasts | | | | | not modelled, section 9 |

Interactions that the models keep: a revocation reaches the hub through
`closeForSession` (the observer of `markLocal`); the hub calls presence after it
released its own lock; publication and the sweep call `notifyPostPublished`;
logout goes through the auth pool; the trigger of migration 0010 is the channel
between processes; jobs of a pool call the mail queue (`Shutdown` composes the
two modules). Each of these calls is in both modules that share it, on one side
as an action of its own, on the other as the event it causes. The pages of the
client share no state but the session: `LiveSocket` extends `ClientSession`, the
others meet only in the backend.

## 2. Plan

Order: what several other components rely on first.

1. `SessionRegistry`, `SessionLifecycle` (abstract), proofs -- done
2. `WorkerPool`, proofs -- done; `EmailQueue`, and `Shutdown`, which composes
   them in the order of `runOnQuit` -- done
3. `MessageHub`, `PostPublishing`, `Presence`, proofs -- done
4. `CommentThreads`, `TwoFactorFactors`, proofs -- done
5. the client: `ClientSession` and `LiveSocket`; `PostPage`, `Conversations`,
   `NotificationBadge`, `ModerationQueue`, `AccountSecurity`, `PostEditor`,
   `Feed`, `ProfilePage`, `FollowButton`, `Listings`, `DraftsPage`,
   `ServiceWorker`, `AppShell`, `Contents` -- done, with proofs for all
   but `Conversations` and `Contents`
6. `AccountTokens`, proofs -- done
7. `BanGate` and `LoginThrottle`: the cached set against the rows, the counter
   at its boundary
8. `ConditionalGet` with `MessageController` and `HttpCache`: reference
   definition "same tag, same body" over bounded histories
9. `PgListener`: its thread, back-off and stop

Abstract specifications worth stating: `SessionLifecycle` (done); a FIFO of
mails for `EmailQueue`; a set of jobs each run once for `WorkerPool`; a
single-use token for `AccountTokens` and `TwoFactorFactors`.

Theorems still worth proving: `RowsOnceInOrder` and `UnreadNeverHidden` of
`Conversations`, `EntriesLeadToTheirHeadings` of `Contents`, and of the thread that
it draws every comment, each of which needs a lemma about a fold (section 6). A page
that is proved about moves from `ClientPages` to `Pages` (section 3).

## 3. Modules, and how they correspond to the code

Common conventions. A request handler is a record of the function `req`,
`request` or `conn` whose `pc` names the statement it is about to run; the rest
of the record is the locals it captured. One action is one SQL statement, one
critical section or one operation on a shared object: between two of them other
handlers run. A condition of the code is a guard; an early return is the
disjunct, or the action, that ends the handler. Names of definitions are the
functions' where that is possible. Each module's header gives its constants.

Definitions whose name says what is wrong with them (`LoginClearKeepsSid`,
`HasRoomForOneMore`, `FlipRestamps`, ...) are the mutations: no action uses
them; each is the bug that a property would catch.

In the modules of the client a request is a record with a `stage`: "asked" when
the page sends it, "done" once the server has served it, and gone when its answer
lands; it may fail in either stage (in the second the server has done the work).
What runs between two awaits of a handler is one step. A page that is left and
come back to counts its visits where that matters.

### Sessions: `SessionRegistry.tla`, `SessionLifecycle.tla`

| state | code |
|---|---|
| `owner`, `revoked` | rows of `user_sessions`: `user_id`, `revoked_at` |
| `password`, `banned`, `erased` | `users.password_hash` (its version), `banned_until`, `deleted_at` |
| `session` | the Drogon session object of a cookie: `user_id`, `session_sid`, the pending two-factor identity |
| `revokedMem` | `g_revoked` of each process |
| `notify` | `session_revoked` notifications on their way to a process |
| `jobs` | logout jobs accepted by the auth pool |
| `req` | the handler each worker runs, with its locals |

`LoginVerify`, `LoginCheckErased`, `LoginCheckBanned`, `LoginClear` are
`AuthController::login`; `BeginPendingLogin`, `TwoFactorRead`, `TwoFactorVerify`,
`ClearPending` the two-step sign-in; `BeginInsert`, `BeginPublish`, `BeginFails`
are `sessions::begin`; `RevokeOne`, `RevokeOthers`, `MarkLocal`, `Deliver`
the revocation with its trigger and its listener; `Admit` and `AdviceClears` the
advice of `main.cc`; `LogoutRead`, `LogoutClear`, `RunLogoutJob` logout;
`VerifyCurrent`, `SetPassword`, `KeepCurrent`, `ResetPassword`, `BanUser`,
`EraseAccount`, `Restart` the rest. `Workers` are handlers in flight, not
threads: an asynchronous callback that runs later is the same handler going on.
Nothing keeps two sign-ins of one browser apart, as nothing does in the code.

Two fields of `session` are history. `ver` is the password version its holder
proved. `crossed` is set when the object is emptied (`ClearSession`) while sign-ins
of two users are about to write to it (`SignInsCross`): `Session::insert` leaves a
key that is there alone, so the object may then end up with the identity one of
them wrote and the sid of the other. That is the finding of section 7; the
property `SessionsAreRegistered` says what holds all the same (whoever is signed
in has a sid with a row) and, when nobody crossed, whose row it is.

`SessionLifecycle` is what all this promises about one sid: fresh, open,
closing, closed, never back, and what closes comes to be closed.
`Lifecycle == INSTANCE SessionLifecycle WITH life <- Life`, where `Life`
computes the phase from the row, the revoked sets and the sessions.

### Hub: `MessageHub.tla`

`conn` is each socket's context and how far its loop has gone with it, `byUser`,
`bySid`, `byPost` the three indexes, `subs` the posts of `ctx`, `shown` what
presence was told, `revoked` and `hangups` the revoked set and the sids whose
observer has not run, `draining` that `shutdownAll` ran. `LoopOf` assigns
sockets to event loops: handlers of one loop exclude each other. `Register`,
`Subscribe`, `Unregister`, `CloseForSession`, `ShutdownAll` are the critical
sections; `MarkOnline`, `CheckLast`, `MarkOffline` what runs after the lock is
released.

### Presence: `Presence.tla`

`sock` are the users with sockets on a pod, `running` whether the heartbeat's
thread exists, `up` whether `g_ctx` is set, `local` is `g_localUsers`, `work` the
commands the holder of the mutex has still to run, `beat` and `snapshot` the
heartbeat between its copy and its refresh; `ttl` and `onlineSet` are Redis.
Time is `Period`: every TTL falls by one and every pod owes one heartbeat, so
`Beats` is the number of heartbeats in a TTL.

### Pools: `WorkerPool.tla`

`queue`, `rejected`, `ran` account for the jobs, `thread` and `job` for the
threads (awake, asleep on the condition variable, running, gone), `notifying` for
the notifications sent after the lock is released, `stopping` and `stopper` for
`stop`. Spurious wake-ups are actions.

### Mail: `EmailQueue.tla`

`mail` is how far `enqueue` has gone with each mail (flag read, pushed,
notified), `worker` and `sending` the worker, `running` is `g_running`, written
and read outside the lock as in the code, `stopper` is `stop`. `sent` and
`pushed` are histories.

`Shutdown` extends `WorkerPool` and instantiates `EmailQueue` as `Mail`: a
running job may be inside `enqueue`, mails of callbacks that are no job are
`Loose`, and `Quit` is the main loop in `runOnQuit` (`main.cc:290`): the pool's
`Stop`, notification and join, then the queue's.

### Posts: `PostPublishing.tla`

`post` is the row (state, schedule, date, whose content and whose excerpt),
`tags` the rows of `post_tags` with who inserted them, `request` the handlers,
`sweep` the processes' sweeps between their UPDATE and their notifications.
`published`, `announced`, `lost` count publications and announcements.

### Comments: `CommentThreads.tla`

`comment` are the rows under one post in the order of their ids, with
`parent`, `author`, whether they are hidden or tombstones; `post` and
`erased` the two rows they refer to; `request` the handlers with the rows their
transaction has turned into tombstones (`tomb`) or deleted (`gone`) and not
committed. Other handlers see those writes only after `Commit`; a statement that
needs a locked row waits (`FreeToWrite`, `FreeToReplyTo`): a reply takes a KEY
SHARE lock of its parent, which a DELETE of the parent excludes and an UPDATE of
it does not.

### Second factors: `TwoFactorFactors.tla`

One account. `totp`, `codes` with `used`, and `keys` with `count` are its rows in
`user_totp_secrets`, `user_recovery_codes` and `user_webauthn_credentials`;
`browser` its sessions with what `TwoFactorSession.cc` keeps in them: the pending
sign-in, the enrolment challenge, the sign-in challenge, the authorisation of a
TOTP setup. What a request makes (a secret, a batch of codes, a passkey, a
challenge) bears its name, and a request serves once. A batch of ten codes is one
code. `SetupRead`, `SetupUpsert`, `SetupAuthorize` are `setupTotp`;
`ConfirmCheck`, `ConfirmVerify`, `EnableTotp`, `ConfirmClear` `confirmTotp`;
`Disable`, `ReplaceRecoveryCodes`, `Remove` the removals; `Register...` and
`Passkey...` the four WebAuthn handlers; `TotpVerify`, `TotpClaim`,
`RecoveryMatch`, `RecoveryConsume` the second step of a sign-in. A statement
that deletes and inserts in one go takes its `Snapshot` first and lands later:
what commits in between is not deleted. The unique key of a WebAuthn credential
and the counter a clone would report are in the values a request may carry.

Migration 0003 says of a used code that it is "never DELETEd"; `Disable` and
`NewBatch` delete it with the rest of its batch, as the code does.

### Account tokens: `AccountTokens.tla`

`users`, `resets` and `mails` are the rows and what has been sent; a token is the
number of its mail. `proven` are the addresses a link mailed to them was opened
for. `ForgotWipe` and `ForgotInsert` are the two statements of
`requestPasswordReset`, `ResetProbe` and `ResetConsume` the look and the
transaction of `resetPassword`, `ResendRead` and `ResendWrite`, `ChangeMails` and
`ChangeWrite` the two halves of a resend and of a change of address. `route`,
`visit`, `timers` are the tab: `RegisterView` and `ResetPasswordView` redirect
after a pause.

### The client's session and socket: `ClientSession.tla`, `LiveSocket.tla`

`cookie` is the browser's session and changes when a request is served; `user`,
`ready`, `pending2fa` are the store of `auth.ts`; `view` is what is on screen and
`heading` where the newest navigation goes, which the guard of `router/index.ts`
has let through (`Guarded`). The views are loaded when they are first needed, so
`Go` and `Push` only set `heading` and `Arrive` puts the view up later; a newer
navigation overtakes one that has not arrived. `LiveSocket` adds `net`: the
socket the store holds, events still to come from those it has closed, the timer,
the failures, `unavailable`, and the post it is subscribed to, with `App.vue`'s
watcher (`Watched`) as part of each step that changes the user. `net.cleared` is
history: a sign-out has emptied the store since the page on screen came up, so
that page's subscription is gone until the next page asks for its own.

### The pages: `Feed`, `PostPage`, `PostEditor`, `Conversations`, `NotificationBadge`, `ModerationQueue`, `AccountSecurity`, `ProfilePage`, `FollowButton`, `Listings`, `DraftsPage`

`Pages` puts the pages that are proved about side by side, with the shell, the account's
links and the service worker; `ClientPages` extends it with the conversations, the
list of contents and the drawing of a thread (`CommentThread`).  One `part` moves in a
behaviour, for the parts share no state but the backend's rows, of which each has
its own.  A behaviour of `ClientPages` (`PartsSpec`) is one of `Pages` (`PagesSpec`)
by the first conjunct of `PartsNext`; `PagesProofs` is about the latter.
`MCClientPages` is the small instance; its `MCInit` keeps the parts that rest in
one state each, where `PartsInit` lets them rest in any.

Each page has the component's refs as variables, an action per handler, an action
`Land...` per continuation, and the handlers of the backend behind it as
`Serve...`; other people's writes are actions of their own. The header of each
says what it abstracts. `PostPage` has `PostView.vue`, `CommentThread` the tree that
`CommentThread.vue` draws of its list (`Roots`, `Flat`); `Listings` has five views
that only ask and show.

### The shell and the contents list: `AppShell.tla`, `Contents.tla`

`drawer`, `menu`, `focus` and `lastFocused` are the overlays of `App.vue` and
`AccountMenu.vue`; a handler, its watchers and the tick they await are one step.
`Shut` is the watcher on `drawerOpen`, `OverlaysEnd` those on the route.
`override` is `current` of `usePageMeta.ts`: `Shows` clears it with each
navigation, `LandLoad` sets it through the watcher of a page that is still
mounted; `PublishLands` is the reload of a post after its publication, on the same
route and with the title up (`PostView.vue:249-257`). `Contents` scans the headings of a body (`Slugify`, `Listed`) and finds
them again as `querySelector` does (`Target`).

### Service worker: `ServiceWorker.tla`

`build` is what is deployed, `active` and `installing` the workers, `stored` the
caches by version, `puts` the writes nobody waits for. `Install`, `Activate`,
`Navigate`, `FetchStatic`, `Put` are the listeners of `sw.js`.

## 4. Runs and what they show

| run | configuration | properties | shows |
|---|---|---|---|
| `session_accounts` | `SessionRegistry_accounts` | `TypeOK`, `SessionsAreRegistered`, `ImplementsLifecycle` | however sign-ins of one browser overlap, whoever is signed in has a sid with a row, which is his unless sign-ins of two users crossed; and the registry implements its abstract specification, with a listener that misses notifications and a process that restarts |
| `session_rolling` | `SessionRegistry_rolling` | `RevocationReachesSession`, `RevocationSettles` | during a rolling update with a listener that works, a session with a retired sid is in the revoked set of its process, or the notification or the local mark is on its way; and a revocation comes to an end |
| `session_overlap` | `SessionRegistry_overlap` | `RegistryOwnsSession` (violated) | the first finding of section 7 |
| `hub_indexes` | `MessageHub_indexes` | `TypeOK`, `IndexesAgree`, `RevokedSocketIsCut` | the three indexes and the contexts agree at every moment, the limits of `TypeOK` hold, and a registered socket of a revoked session is about to be closed |
| `presence_pods` | `Presence_pods` | `TypeOK`, `TrackedUserIsShown`, `UnknownUserExpires` | with commands lost, connections lost and pods crashing, whom a pod tracks comes to be shown and whom none tracks expires |
| `shutdown_quit` | `Shutdown_quit` | `ShutdownTypeOK`, `AcceptedOnce`, `NoJobSleeps`, `StopDrains`, `JobsMailGoesOut`, `JobsDone` | whenever the quit comes, no accepted job is lost, run twice or left asleep, the backlog keeps to its capacity, the pool's stop returns, mails go out once and in order, and what a job mails is neither refused nor left behind |
| `posts_edits` | `PostPublishing_edits` | `TypeOK`, `LivePostKeepsItsDate`, `PublicationIsAnnounced` | no interleaving of edits and sweeps re-dates a live post, and every publication is announced unless a statement fails |
| `threads_deletion` | `CommentThreads_threads` | `TypeOK`, `RepliesSurviveDeletion`, `DeletionStands`, `ErasureIsWhole` | `deleteComment` removes no row but its own, nothing restores a tombstone, an erasure happens whole or not at all |
| `threads_erasure` | `CommentThreads_erasure` | `OthersRepliesSurvive` (violated) | the second finding of section 7 |
| `two_factor` | `TwoFactorFactors_factors` | `TypeOK`, `ProofUsedOnce`, `EnabledSecretIsProven`, `EnabledHasCodes`, `CounterNeverFalls` | however requests of two browsers overlap, each code, step and challenge is accepted once, TOTP is enabled only with a secret somebody showed a code of and never without recovery codes, and no counter falls |
| `client_live` | `LiveSocket_live` | `SocketFollowsPage`, `PrivateNeedsUser`, `LiveOrGivenUp` | whatever timers, watchers, handshakes and views do, a signed-in page has one socket, on the post it shows, and a signed-out page none; no step that ends the session leaves the tab going to a private page; whoever is signed in gets a socket or is told that there is none |
| `client_pages` | `ClientPages_pages` | see below | every page and store, one at a time (a behaviour is one of a single `part` of `ClientPages`) |

The properties of `client_pages` put together what the parts promise; each
conjunct is stated and explained in its own module.

| property | says | parts |
|---|---|---|
| `PagesTypeOK` | the type invariants (`EveryRowOnce` has those of `Conversations` and `Contents`) | all |
| `NothingMissedOrTwice` | a feed that ended without an error shows all that was public all along; no comment is listed twice, and a text becomes one comment | `Feed`, `PostPage` |
| `EveryRowOnce` | every row of a list is drawn once and in order: comments in their thread, messages, of which none is unread without a badge, and headings, each under an id of its own | `CommentThread`, `Conversations`, `Contents` |
| `SettledPagesAreRight` | with its requests answered a page agrees with the server; the title is that of the post on screen, and the focus is not behind the drawer | `NotificationBadge`, `FollowButton`, `ProfilePage`, `Listings`, `AppShell` |
| `ProofsAreCurrent` | recovery codes, links and verified addresses are the newest, and good once | `AccountSecurity`, `AccountTokens` |
| `LateAnswersUndoNothing` | a late answer, push or timer takes nothing back, nor leaves a drawer or a menu over another page | `PostPage`, `Feed`, `NotificationBadge`, `DraftsPage`, `ModerationQueue`, `AccountTokens`, `AccountSecurity`, `AppShell` |
| `RendersLandInOrder` | no preview replaces that of a later text | `PostEditor` |
| `CachesAreRight` | a cached asset is what its name says, an update clears the old caches and keeps the offline page | `ServiceWorker` |

Each conjunct has a mutation of its own in `PROJECT.json`, so none of them holds
by accident.

### Bounds, and why they are enough

- Sessions: two sids (this session and another) and two handlers in flight (every
  finding needs two). `session_accounts` has two users (whose row is it?) on one
  browser of one process, no change of password, and a listener that may miss
  what it is sent. `session_rolling` has two processes and one user, who has a
  second factor and one change of password: his browser is served by one process,
  bans and resets come from the other. Its listener hears everything
  (`ListenerLossy` FALSE), without which `RevocationReachesSession` fails
  (section 8). The theorems of section 5 have no such bounds.
- Hub: three sockets of one user exceed the limits of two per user and of two
  per session; two sessions, so that a revocation has sockets to spare; one
  post, limit one. Every socket on a loop of its own is the most permissive case.
- Presence: two pods, one user, a TTL of two heartbeats, which is the code's
  (`kTtlSeconds` 30, a heartbeat every `kTtlSeconds / 2`).
- Shutdown: two threads, two jobs for one place and one mail of somebody else:
  full, refused, one thread asleep while the other runs, a mail being sent, one
  queued, one between its check and its push when the flag falls.
- Posts: three requests (a publish, an unpublish and an edit in any order) and
  two processes' sweeps; one tag and a limit of one; statements may fail.
- Comments: three comments are a parent, its reply and a reply to that or a
  sibling; two handlers, two people, of whom one wrote the post.  Moderators
  hide and show the second comment only (`Hideable`), which is a parent, a
  reply or both.
- Second factors: four requests (two that spend and two that enrol or remove),
  two browsers, two TOTP steps, counters 0 and 1 (0 is the special case of a
  passkey without a counter). The rows start in any combination of factors.

- Live socket: two users, one of them with a second factor (a session there is at
  page load is that of the other: `MCInit`); two presses, two
  requests, two failures and one timer at a time: a sign-out and a sign-in during
  a handshake, a socket that is given up, and a navigation that is overtaken.
- Pages (`MCClientPages`): two requests of one page in flight together, which is
  what an answer out of order needs, and two to five presses; the post page and
  the conversations have several profiles (`PostBounds`, `TalkBounds`), each
  generous in one direction: two comments with two requests, two posts, a thread
  of three; three reads of the inbox or of a conversation, two with failures, or
  with a change of the user. The feed has five
  ids and pages of two: three pages, with two changes and a failure in between.
  Account tokens have one name with two addresses, two mails and four presses
  (two resets at once, a link opened after its address was changed); the service
  worker two builds. The shell has three moves (navigations and publications) between two posts and
  three other routes, which leave two loads in flight over a third page, and two
  sign-outs; the contents list up to four headings, of which any may share their
  words, spell the number another is given, or have no words at all.

Symmetry is used only in runs without liveness properties. `CHECK_DEADLOCK
FALSE` stands where the system may really stop: after `shutdownAll` with every
socket gone, after the post is deleted and every account erased, when every
request to the factors has been served, when a reader does nothing more, and in
the quit, which can hang (`QuitEnds`, section 8).

### Fairness, and why the code justifies it

- Sessions: weak fairness of `MarkLocal` and `Deliver`: a callback of Drogon's
  database client runs, and the listener's thread polls. Nothing makes users act.
- Shutdown: weak fairness of a thread's step, of the notification that follows a
  push, of the mail worker and of the quit: threads are scheduled. Strong
  fairness of the next step of an `enqueue` a job has begun: the worker's wait
  gives the queue's lock up again and again, and who wants it gets it. Spurious
  wake-ups are not fair.
- Live socket: weak fairness of a handshake's end, of the timer of a reconnection
  and of the answer to a sign-out: the browser ends a handshake one way or the
  other and fires its timers. Nothing makes the user act or a socket drop.
- Posts: weak fairness of a handler's next statement and of the sweeps (the
  timer of `Scheduler.cc` repeats for as long as the process runs).
- Presence: weak fairness of `RunCmd` (a command succeeds or times out); strong
  fairness of the heartbeat, of a refresh that gets through and of the passage of
  time: the heartbeat repeats for ever, and an outage of Redis that never ends is
  outside what the TTL promises.

## 5. Proved, for every value of the constants

| theorem | says |
|---|---|
| `SessionRegistryProofs!TypeCorrect` | every reachable state of the registry is well typed |
| `SessionRegistryProofs!SessionsStayRegistered` | `[]SessionsAreRegistered` |
| `SessionRegistryProofs!RevocationReaches` | `[]RevocationReachesSession`, assuming one process or a listener that loses nothing |
| `SessionRegistryProofs!RegistryImplementsLifecycle` | the refinement `ImplementsLifecycle` |
| `ShutdownProofs!PoolTypeCorrect`, `BacklogKeepsToCapacity`, `AcceptedJobRunsOnce`, `NoLostWakeup`, `StopLeavesNothing` | of the pool alone: `[]` of `TypeOK`, `BacklogBounded`, `AcceptedOnce`, `NoJobSleeps`, `StopDrains` |
| `ShutdownProofs!MailsGoOutInOrder`, `StopDrainsTheMail` | of the mail queue alone: `[]` of `TypeOK`, `SentInOrder`, `StopDrains` of `EmailQueue` |
| `ShutdownProofs!ShutdownRunsThePool`, `ShutdownRunsTheMailQueue` | the composition implements the specification of each |
| `ShutdownProofs!PoolKeepsItsPromises`, `QuitIsWellTyped`, `JobsMailAlwaysGoesOut` | of the server that quits: `[]` of `AcceptedOnce`, `NoJobSleeps`, `StopDrains`, `ShutdownTypeOK`, `JobsMailGoesOut` |
| `MessageHubProofs!PresenceTypeCorrect` | of presence: `[]TypeOK` |
| `MessageHubProofs!HubIsWellTyped`, `IndexesAlwaysAgree`, `RevokedSocketIsAlwaysCut` | `[]` of `TypeOK` (with the limits), `IndexesAgree`, `RevokedSocketIsCut` |
| `PostPublishingProofs!PublishingIsWellTyped`, `TheDateOfALivePostStays`, `NoPublicationIsForgotten` | `[]TypeOK`, `LivePostKeepsItsDate`, and that a publication nobody has heard of is still owed by a handler or a sweep |
| `CommentThreadsProofs!ThreadTypeCorrect`, `RepliesAreKept`, `DeletionIsFinal`, `ErasureIsAtomic` | `[]TypeOK`, and the action properties `RepliesSurviveDeletion`, `DeletionStands`, `ErasureIsWhole` |
| `TwoFactorProofs!FactorsTypeCorrect`, `ProofsAreUsedOnce`, `SecretIsProven`, `CodesAreThere`, `CountersRise` | `[]` of `TypeOK`, `ProofUsedOnce`, `EnabledSecretIsProven`, `EnabledHasCodes`, and `CounterNeverFalls` |
| `LiveSocketProofs!SocketAlwaysFollowsPage`, `PrivateViewsNeedAUser` | `[]SocketFollowsPage`, and `PrivateNeedsUser` |
| `PagesProofs!FeedTypeCorrect`, `FeedSkipsNothing`, `FeedGrowsAtItsEnd` | of `Feed`: `[]` of `TypeOK`, `NothingSkipped`, and `OlderOnly` |
| `PagesProofs!PagesRenderInOrder`, `EditorTypeCorrect`, `NoMorePostsThanPresses` | `RendersLandInOrder`, and of `PostEditor` `[]TypeOK` and `[](created <= saves)` |
| `PagesProofs!LinksAreCurrent`, `RedirectFindsItsView` | of `AccountTokens`: `[]` of `TypeOK`, `VerifiedIsProven`, `ResetOnce`, `OneLinkPerUser`, and `RedirectIsOwn` |
| `PagesProofs!CodesOnScreenAreNewest`, `SpentPasswordsStay` | of `AccountSecurity`: `[]` of `TypeOK`, `NewestCodesShown`, and `SpentPasswordNotSent` |
| `PagesProofs!CommentsStayDeleted` | of `PostPage`: `[]` of `TypeOK`, `NoDuplicateComments`, `CreatedOnce`, and `RemovedNotRevived` |
| `PagesProofs!BadgeIsRight` | of `NotificationBadge`: `[]` of `TypeOK`, `BadgeIsCount`, and `ConfirmedStaysRead` |
| `PagesProofs!QueueActsInOrder`, `DraftsStayListed` | of `ModerationQueue`: `[]TypeOK`, `ActionedAfterHidden`, `DroppedIsResolved`; of `DraftsPage`: `[]TypeOK`, `DraftStaysListed` |
| `PagesProofs!FollowButtonIsRight`, `OwnCopyGoesAlong`, `HitsAreLabelled` | of `FollowButton`: `[]` of `CountAgrees`, `ButtonSettles`; of `ProfilePage`: `[]` of `TypeOK`, `OwnCopyIsServers`; of `Listings`: `[]` of `TypeOK`, `LabelIsOfTheHits` |
| `PagesProofs!ShellKeepsFocusAndTitle` | of `AppShell`: `[]` of `TypeOK`, `TitleIsOfThePage`, `FocusIsKept`, and `OverlaysAreLeft` |
| `PagesProofs!PagesTypeCorrect`, `PagesMissNothing`, `PagesSettleRight`, `PagesShowCurrentProofs`, `PagesUndoNothing`, `PagesFindTheirCaches` | of the pages side by side: `[]` of `PagesTypeOK`, `NothingMissedOrTwice`, `SettledPagesAreRight`, `ProofsAreCurrent`; and `LateAnswersUndoNothing`, `CachesAreRight` |

The arguments.

- `SessionsStayRegistered`. The property is about a session object and a row;
  between `begin`'s INSERT and its publication the sid is only in a handler.
  `OwnInv` adds two things. Whoever publishes a sid has inserted its row, for the
  user he signs in (`PublishersDrew`). And each session object is accounted for
  (`Accounted`): its sid has a row, a user without a sid has a handler that
  registers him, and unless the object was emptied under crossing sign-ins, all
  that stands for somebody in it (the user, the row of its sid, its pending
  identity, the sign-ins about to write to it; `StandsFor`) stands for one user
  (`OneName`). No bound on how many sign-ins overlap is used.
- `RevocationReaches`. A retired sid that a session carries is in `g_revoked`,
  or in a notification, or a handler is about to mark it (`SessionsCovered`); the
  same must hold of the sids that `begin` is about to publish
  (`PublishersCovered`), for a row can be revoked before its sid is published.
- `RegistryImplementsLifecycle`. A step of the registry is the abstract step that
  draws, retires or closes the sids it touches. That drawing and retiring do not
  mix is `DrawnInv`: only rows are retired. The hard part is that a retired sid
  which nothing honours any more is never honoured again: `Continues` says of
  each action that whoever carries or publishes such a sid after it did so
  before, and that a process whose revoked set shrinks (a restart) has lost its
  sessions with it; `NeverAgain` concludes. No reliability of the listener is
  needed, for a lost notification leaves the sid honoured; nor that sign-ins keep
  apart, for it does not matter here whose sid a session carries.
- The pool. `NoJobSleeps` is not inductive: it needs that a notification is owed
  for each job pushed while a thread slept (`HandsOn`), that a thread leaves only
  an empty queue after the flag (`ExitIsLast`) and how far `stop` has gone
  (`StopSteps`). The notification is sent after the lock is released, so between
  the two another thread may take the job: the invariant speaks of jobs and
  notifications together.
- The quit. Every step of `Shutdown` is a step of the pool or a stutter, and the
  same of the queue, so both components' invariants hold of the whole
  (`ShutdownRunsThePool`, `ShutdownRunsTheMailQueue`). What neither has alone is
  `WorkersFirst`: the queue's stop begins when the pool is joined, so while a job
  is in a thread's hands the queue still takes its mail, and every mail of a job
  is pushed before the stop. That the worker leaves only an empty queue after the
  flag gives the rest. The order of `sent`, the worker's hands and `queue` is one
  sequence without repetition, to which a push appends.
- The hub. `HubInv` adds to the three properties that a socket's sid is its
  session's or none (`OpenedBySession`) and that the indexes are finite
  (`FiniteIndexes`), without which the limits would say nothing.
  `RevokedSocketIsCut` and `IndexesAgree` hold each other up: the revocation finds
  in the index of the sid what `IndexesAgree` says is there.
- Publishing. `NoPublicationIsForgotten` is an account (`Accounted`): publications
  are at most the announcements made, the failures logged, the handlers that owe
  one (`Owes`: also a creation that has only its tags to write) and the rows in a
  sweep's hands. Two requests that publish one draft both announce, so the
  account is an inequality: nothing is forgotten, something may be said twice.
  This is the safety part of `PublicationIsAnnounced`; the rest is fairness.
- Comments. `RepliesSurviveDeletion` rests on the lock: `deleteComment` locks the
  row before it looks for replies, so while it holds it no reply arrives
  (`DeleterHolds`, `NoReplyArrives`), and two transactions never hold one row
  (`LocksDisjoint`). `DeletionStands` needs that the row an UPDATE guards is the
  row it saw (`HandlersKnow`) and that a pending tombstone has no words left
  (`WordsRemoved`). `IdsAscend` (a reply is newer than its parent) makes the
  cascade finite and its order irrelevant.
- Second factors. Two lemmas carry the case analysis: `RequestsMove` says what any
  step may do to a request, `FactorsMove` which actions touch the rows; the parts
  of `FactorInv` follow from these. What a request inserts bears its name, and
  whatever is stored or remembered has been inserted (`BatchesMade`, `KeysMade`,
  `RowsMade`), so what comes is new. A step that was accepted is not newer than
  the `last` of its row (`StepsClaimed`); a code that was accepted can never be
  used again, even when its batch is deleted (`CodesSpent`); a challenge is in
  one session and in none once it is claimed (`ChallengesApart`,
  `ChallengesClaimed`). For `EnabledHasCodes`: some batch is in the snapshot of
  no removal that would spare the row (`BatchStays`).

- The live socket. `SocketFollowsPage` is a statement about the moment the store's
  calls have returned; `LiveInv` carries it over the requests in flight.
  `WantedForView`: the intent to subscribe is that of the view, unless the store
  was emptied while that view was up. `PrivateViewsNeedAUser` is about `heading`:
  what ends the session also pushes a public page, and the push overtakes whatever
  navigation is under way; the guard, whose probe may find nobody, is the exception
  that the property names. At most two probes are in
  flight, that of `main.ts` and that of the guard, and none of the first kind
  once the application is mounted (`AsksOK`). `ClosesCounted` bounds the close
  events by what was pressed, so the bound on them in `TypeOK` is a fact about
  the code and not about the model.
- The feed. `NothingSkipped` speaks of the end; `Covered` says of every moment
  that a post which is not on the page is older than the cursor and still to
  come. It needs that there is one request, for what is older than the cursor
  (`OneAsk`), that the cursor is the oldest post (`CursorIsOldest`), and that an
  answer leaves nothing out above its own cursor while rows come and go
  (`AnswersAreRight`, from `PageLeavesNothingOut`: what the LIMIT cut off is older
  than the last row).
- The editor. The one preview in the air is the newest asked for and newer than
  what is shown (`NewestInFlight`): each request aborts the one before.
- The account's links. Three promises speak of rows, and are undone by requests
  that wait between two statements, so `LinkInv` is mostly about those: a token
  in a row was mailed to that account at that address, unless a resend that had
  read the row before straddled its change; a link that was used is in no row any
  more, and a token is drawn once, so it cannot come back (`ResetOnce`); a request
  that has deleted the links and not inserted its own has the user's rows to
  itself, unless two overlapped (`OneLinkPerUser`). A timer belongs to a visit of
  its own view, unless the answer that set it came late (`RedirectIsOwn`).
- The security page. `SheetInv` ties each flag of the page to the one request
  that owns it, which is what keeps two requests of one sort apart; the account's
  codes were made by a request that is on the page, on its way, or lost with its
  answer, so codes that are newer than those on screen are still to land
  (`NewestCodesShown`). A password that was spent was typed before the box was
  emptied, and each entry is numbered, so it is not in the box again
  (`SpentPasswordNotSent`).
- The service worker. An entry under an asset's name is that asset (`IsItself`):
  the server answers an error for all but the deployed one, and errors are not
  kept. Caches belong to the worker in control and to the one that is installed,
  which has a fallback of its own before it takes over unless a fetch of its
  install failed (`WorkerInv`).
- The post's page. `PostTyped` bounds what is on the page, in the socket's buffer
  and in the answers by the rows there are, and keeps every list injective; the
  watcher's merge preserves that (`MergedAdds`), for it takes the comments one by
  one and each step looks at the list so far. `MergedAdds` is about a recursive
  function and needs no induction rule: where a statement about `f[0 .. n]` fails
  there is a least index (the numbers are well-founded), and the step before it
  contradicts that (`StepwiseAll`; `StepwiseExists` gives the function itself).
  `FlagsIn` says that `posting` and each `busy` stand for exactly one request; so
  while a comment is in flight the box keeps its text and no second one is sent,
  and `DraftsIn` follows: a row with the text that is still in the box belongs to
  a create that was served and not answered, or answered by an error.
- The badge. A call that marks rows finds them unread and marks them at once, so
  two calls of one list never mark the same row and the rollback of one leaves
  what the other confirmed (`BadgeInv`). `BadgeSettling`: as long as no two requests
  were in flight together, the one there is carries the number of unread rows, or
  leaves none to count; a nudge on its way, a lost count and a time without a
  session are the exceptions that `BadgeIsCount` names.
- The queue and the drafts. The second request of an action is sent by the
  answer to the first, so a request to resolve has a report that this page hid
  (`QueueAskOK`); a list that an answer carries leaves out only what is a draft no
  more, and nothing becomes one again (`DraftAskOK`).
- The follow button and the profile. A flag and its one request know each other
  (`FollowAskOK`, `ProfileInv`); the server's row is what the button shows or
  showed before its call, by the stage of that call (`FollowDue`), and the
  profile's copy waits for the answer of the save or the upload that the server
  has done. A page left with a call, and a lost answer, are the exceptions that
  the properties name.
- The shell. `OverlayInv` lists, for each combination of drawer, menu and window,
  where the focus can be and that the element it came from is still there;
  `ShellCounts` and `PageInv` give a view its owner's number, so a load that lands
  after a navigation is told apart from that of the view on screen. A reload after
  a publication keeps the owner: while a view is loading, there is a load under
  way for it, and its title, if one is up, is that of its own post.
- Presence. A pod that is connected runs, since only a heartbeat connects again
  and only a pod that runs has one awake (`HeartbeatsRun`); a pod tracks finitely
  many users, so its commands come to an end (`PodsTrackFinitely`).

Assumptions on constants are named in the modules that declare them and are
evaluated by every run. Those of `Pages` say that values which stand for different
things differ (`AccountAssumption`, `ProfileAssumption`, `RouteAssumption`), that
bounds are natural numbers (`BoundAssumption`, `PostBoundsAssumption`), and that a
reader has finitely many notifications (`NotesAssumption`). The listener's
reliability is an assumption of one theorem (`RevocationReaches`), not a fact about
the code: section 8 says what the code does without it.

## 6. Model-checked only

Liveness (`RevocationSettles`, `JobsDone`, `TrackedUserIsShown`,
`UnknownUserExpires`, `PublicationIsAnnounced`, `LiveOrGivenUp`): the prover has
no rule for fairness.

`EveryRowOnce`: a conversation folds the rows of an answer into a sorted list, the
contents list folds headings into slugs, and a thread walks a tree of comments. The
prover cannot instantiate an induction rule; the detour by a least counterexample
that serves `Merged` (section 5) would have to be made for `FoldLeft` and for a
recursion along the tree. The type invariants of the first two go with it.

## 7. Findings

**Two sign-ins of one browser can leave a session under another user's row**
(`Sessions.cc:201-205`). The comment there says that the sid is published only
after its row exists, which "makes every live session visible to password-reset,
ban, and user-initiated revocation paths". Two sign-ins may be in flight for one
session object; `Session::insert` does not overwrite, so the identity is that of
the first to write it and the sid that of the first to publish its own, and these
may be different users. A ban or a reset then retires a row that the session does
not carry. Run `session_overlap` shows it.

**Erasing an account can take other people's replies**
(`AuthControllerPrivacy.cc:481`). The comment at 466-470 makes tombstones of
comments with replies because deleting them "would cascade through
comments.parent_id and take other people's replies with them". The UPDATE and the
DELETE have their own snapshots: a reply that commits between them is under a
comment the DELETE removes. `deleteComment` avoids this with `FOR UPDATE`; the
erasure takes no lock before the DELETE. Run `threads_erasure` shows it.

## 8. Further counterexamples

Stated as properties in the modules; TLC finds each violated. They are promises
of comments, or of the page itself, that no run relies on. To see the behaviour,
put the property in the place of those of the configuration named, with the
constants given.

### The server

| property | configuration, constants | what happens |
|---|---|---|
| `RevocationReachesSession` | `SessionRegistry_rolling`, `ListenerLossy` TRUE | the notification is sent while the other process reconnects; nothing re-reads the rows afterwards (`PgListener.cc:58`) |
| `SuspendedAccountGetsNoSession` | `SessionRegistry_accounts`, one user, one worker, `TwoFactorUsers = {u1}` | `completeTwoStepLogin` does not look at a ban that came since the password step (`AuthController2fa.cc:305`; `AuthController.cc:370` says "A suspended account gets no session.") |
| `BanCutsEverySession` | `SessionRegistry_accounts`, one user, one worker | `banUser` takes the 0 of a failed `revokeOthers` for success (`ModerationController.cc:432`) |
| `OldPasswordSessionDies` | `SessionRegistry_accounts`, one user, `MaxPassword` 1 | a sign-in verifies the old hash, the reset retires the rows there are, the sign-in inserts its own (`AuthController.cc:742`) |
| `ChangeProvesCurrentPassword` | `SessionRegistry_accounts`, two browsers, one user, `MaxPassword` 2 | two changes verify the same hash; the second overwrites the first (`AuthControllerAccount.cc:143`) |
| `RevokedSessionLosesItsSocket` | `MessageHub_indexes`, two sockets, `LoopOf <- OneLoop` | `Handshake` passes the advice, `Revoke` and `CloseForSession` find no socket, `Register` indexes it; a repeated revocation returns early (`MessageWebSocket.cc:283`; `main.cc:347` says "A revoked session must lose its WebSocket, not just its next request.") |
| `OnlineWhileConnected` | `MessageHub_indexes`, two sockets | the last socket's `markOffline` runs after a new socket's `markOnline` on another loop (`MessageWebSocket.cc:383`) |
| `OnlineUserHasKey` | `Presence_pods`, `Spec`, nothing fails | a pod's last socket deletes the key while another pod has sockets (`Presence.cc:226`) |
| `RefreshedUsersAreConnected` | `Presence_pods`, `Spec`, one pod, no crash | `markOffline` during an outage leaves the user in `g_localUsers` (`Presence.cc:224`) |
| `OnlineSetDrains` | `Presence_pods`, one pod, `RedisFails` FALSE | the set keeps the users of a pod that crashed (`Presence.cc:168`) |
| `QuitEnds` | `Shutdown_quit` | the flag is cleared and the notification sent between the worker's test and its wait: the quit hangs (`EmailHelper.cc:170`) |
| `LooseMailGoesOut` | `Shutdown_quit` | `enqueue` reads the flag, the worker exits, the mail is pushed (`EmailHelper.cc:148`) |
| `AnnouncedOncePerPublication` | `PostPublishing_edits`, `Edits <- Flips` | two requests read a draft; both announce (`PostController.cc:1192`) |
| `LivePostIsNotScheduled` | the same, `Schedules = {"future"}` | a manual publish keeps `scheduled_at`; after an unpublish the sweep publishes again (`PostController.cc:1194`) |
| `ExcerptIsOfContent` | the same, `Edits <- Contents`, `StatementsFail` FALSE | two edits interleave: content of one, excerpt of the other (`PostController.cc:1175`) |
| `TagsBounded` | the same, `Edits <- Retags`, two tags | two edits delete first and insert after: both sets of tags (`PostMeta.cc:121`) |
| `TombstoneTakesNoReply` | `CommentThreads_threads` | the parent is deleted between the reply's check and its INSERT |
| `ErasedSaysNothing` | `CommentThreads_threads` | a comment inserted by the user's other request after the erasure's statements keeps its words |
| `TotpFallsOnlyByDisable` | `TwoFactorFactors_factors`, three requests | `setupTotp` reads that TOTP is off, another request confirms it, the upsert switches it off again (`AuthController2fa.cc:452`) |
| `OneBatch` | the same | two regenerations take their snapshots together: both batches stay valid (`AuthController2fa.cc:227`) |
| `PasskeyHasCodes` | the same | an enrolment counts the codes, `disable2fa` deletes them, the enrolment inserts its passkey without new ones (`AuthController2fa.cc:894`) |
| `CodeAcceptedOnce` | `TwoFactorFactors_factors`, five requests, one browser | disable deletes the row with its last step; a claim of a code verified before can land on a row enrolled since |
| `SecondFactorIsAsked` | `TwoFactorFactors_factors`, three requests | `login` reads TOTP and passkeys by two statements; between them the passkey replaces TOTP (`AuthController.cc:388`) |
| `NewestLinkOnly` | `ClientPages_pages` | two reset requests delete before either inserts (`AuthController.cc:655`) |
| `AddressIsProven` | `ClientPages_pages` | a resend that has read the row mails its token to the address before (`AuthController.cc:875`) |
| `RefusedNameIsTaken` | `ClientPages_pages` | the INSERT of a registration refuses a taken name and a taken address alike, although "The email branch keeps masking" (`AuthController.cc:219`) |

### The client

With `ClientPages_pages` (write `Post!NeverMissed`, `Thread!IndentFollowsParent` and so on in
`MCClientPages`), or with `LiveSocket_live`. Most have one cause: an answer is
written without a look at whether what it was asked for is still on screen.

| module | property | what happens |
|---|---|---|
| `PostPage` | `NeverMissed` | a list read before a live comment overwrites it (`PostView.vue:128`) |
| `CommentThread` | `IndentFollowsParent` | "a parent is always seen before its children" (`CommentThread.vue:42`) fails for lists merged from the socket |
| `PostPage` | `ShowsItsPost` | an answer for the id before lands under the id after (`PostView.vue:95`) |
| `PostEditor` | `PreviewIsOfTheText` | a text that was rendered before returns without aborting the request in between (`CreatePostView.vue:111`) |
| `PostEditor` | `PostedOnce` | the buttons are enabled again while the next view is loading (`CreatePostView.vue:212`) |
| `AccountSecurity` | `PasswordForOneAction`, `SecretCanBeConfirmed`, `ListsSettle`, `CodesAcknowledged` | two actions or two refreshes are in flight together; the tick stays when new codes replace the old |
| `ClientSession` | `StoreKnowsCookie` | a probe answered before the sign-in lands after it; a sign-out whose request was lost leaves the session (`auth.ts:59`) |
| `LiveSocket` | `GivesUpOnlyAfterFailures`, `ConnectedMeansOpen` | the close event of the socket before counts as a failure, and puts the light out (`messages.ts:239`, `231`) |
| `LiveSocket` | `SocketIsOfUser` | a sign-in over a session is no change of `isAuthed` (`App.vue:184`) |
| `Conversations` | `UnreadIsCount`, `RowsOfTheUser`, `TextNotLost` | a second inbox counts again (`messages.ts:94`); an inbox lands after the next sign-in; `sendDraft` empties the box first (`MessagesView.vue:48`) |
| `ModerationQueue` | `RetryIsNotRefused`, `RowsAreOfTheTab`, `NoteOfItsReport`, `OneActionPerReport` | content hidden by the first attempt refuses the second; answers for two tabs cross; the note is read again after the first call; `busyId` is one for all rows (`ModerationView.vue:47-90`) |
| `NotificationBadge` | `BadgeSettles`, `SignedOutIsEmpty` | an answer counted first lands last, or after the sign-out (`notifications.ts:21`) |
| `Feed` | `EndIsTheEnd` | the first error ends the feed for good (`HomeView.vue:37`) |
| `FollowButton` | `ButtonIsOfTheProfile` | who comes back before the call is served is told what was there before it (`FollowButton.vue:19`) |
| `ProfilePage` | `BioAloneIsSaved`, `ProfileIsOnePersons`, `SavedBioIsOwn`, `LoadedIsDrawn` | the form sends an empty address; the open form and late answers go along to the next profile (`ProfileView.vue:56-110`) |
| `Listings` | `RowsAnswerTheQuestion`, `NothingAskedNothingShown` | the answer to an earlier question lands last (`SearchView.vue:30`, `TagView.vue:18`) |
| `DraftsPage` | `OneRequestPerDraft`, `PublishedStands` | the answer for another row gives this one its buttons back; the scheduler publishes a row that is still listed (`DraftsView.vue:38-52`) |
| `AccountTokens` | `NeverKickedOff` | a timer set after the view was left is cancelled by nobody (`RegisterView.vue:18`) |
| `AppShell` | `SkipStaysOnPage` | "Skip to content" is `href="#main"`; with the hash history that is the route `/main`, which is not found (`App.vue:204`; `TableOfContents.vue:12` says so of such links) |
| `AppShell` | `ErrorHasNoTitle` | a load that was overtaken fails after the later one has landed: the error stands under the title of the post (`PostView.vue:101`) |
| `ServiceWorker` | `OfflineAlwaysStays`, `HitIsNeverStale` | `allSettled` installs a worker without its fallback (`sw.js:28`); manifest and icons keep their names when they change (`sw.js:47`) |

## 9. What is not modelled, and why

- Next in the plan (section 2): throttle and rate limiter, the cached
  suspensions, conditional requests, the listener's own thread.
- The client's themes, translations, toasts and sanitiser: one stored preference,
  tables of words, messages that vanish by a timer of their own, and a pure
  function. The templates are modelled as far as they enable or show what an
  action needs.
- Of the pages, a request that fails before the server has served it is not
  served later; `ProfilePage` alone has that case (`ServeLate`), for there a later
  row would meet the copy the page keeps.
- Of routing, the step from `Verify2FAView` without a pending sign-in back to
  `/login` is part of the navigation that led there (`Settled`).
- Images (`ImageProcessor.cc`), Markdown, public pages, API documents, log
  safety, password policy: pure functions of their input.
- Access log, audit log, metrics, tracing, Sentry: nothing reads what they write.
- Schema and migrations: their constraints, cascades and triggers are inside
  the actions that meet them. The generated ORM models are used as the statements
  they issue.
- Left out of modelled components: the texts of mails and pages, the session
  list and `last_seen_at`, the Origin check and the token bucket's arithmetic
  of the hub (a policy closure may happen at any time), the view counter
  of posts, the listing and export of comments, the password policy.
- PostgreSQL is modelled as these components use it: one statement is atomic,
  READ COMMITTED, row locks until the end of the transaction, a trigger's
  notification delivered at commit and lost to a listener that is not connected.
  Redis: one command is atomic. Drogon: a session object is locked per operation.
