------------------------------ MODULE AppShell ------------------------------
(***************************************************************************)
(* The shell around the pages: App.vue with components/AccountMenu.vue and *)
(* composables/usePageMeta.ts.  On a narrow window the navigation is a     *)
(* modal drawer, on a wide one the account has a menu; both keep track of  *)
(* the keyboard focus and end with a navigation.  A page may replace the   *)
(* title of its route once it has loaded; the page that does is that of a  *)
(* post, which stays mounted from one post to the next.                    *)
(*                                                                         *)
(* Abstracted: an element stands for all of its sort; the lines a handler  *)
(* runs up to its next request, the watchers and the tick they wait for    *)
(* are one step, as no event of the reader comes between them; the window  *)
(* keeps its width; only routes without a guard (that is ClientSession).   *)
(***************************************************************************)
EXTENDS Naturals, FiniteSets, Sequences, Functions

CONSTANTS
    Posts,
    MaxMoves,    \* bound: navigations of the reader, and drafts published
    MaxLogouts   \* bound: presses of Logout

VARIABLES
    narrow,       \* the window shows the button of the drawer, not the links
    route,
    authed,       \* isAuthed
    drawer, menu, \* drawerOpen of App.vue, open of AccountMenu.vue
    focus,        \* document.activeElement
    lastFocused,
    logouts,      \* doLogout calls that await auth.logout()
    presses,
    view,         \* the post's page, if it is mounted
    override,     \* `current` of usePageMeta.ts
    announced,    \* routeAnnouncement
    loads,        \* load() calls of posts' pages, mounted or not
    moves

nav == <<narrow, route, authed>>
overlays == <<drawer, menu, focus, lastFocused>>
meta == <<view, override, announced, loads>>
shellVars == <<nav, overlays, meta, logouts, presses, moves>>

Routes == {"home", "login", "missing"} \cup Posts

Body == "body"
None == "none"
NoView == [owner |-> 0, post |-> None, loading |-> FALSE, error |-> FALSE]
NoTitle == [owner |-> 0, of |-> None]

Mounted(owner) == [owner |-> owner, post |-> None, loading |-> TRUE, error |-> FALSE]
Reloading(v)   == [owner |-> v.owner, post |-> v.post, loading |-> TRUE, error |-> FALSE]

\* What the keyboard can reach inside the drawer and the menu, in order.
DrawerItems(signed) == <<"close", "feed", IF signed THEN "logout" ELSE "login", "theme">>
MenuItems == <<"profile", "menuLogout">>

\* Everything that can have the focus; "page" is any control outside of them.
Present(inDrawer, inMenu, signed) ==
    {Body, "page"}
        \cup (IF narrow THEN {"toggle"} ELSE {})
        \cup (IF ~narrow /\ signed THEN {"trigger"} ELSE {})
        \cup (IF inDrawer THEN Range(DrawerItems(signed)) ELSE {})
        \cup (IF inMenu THEN Range(MenuItems) ELSE {})

\* The label of a route whose page has not replaced it, and the label shown.
GenericPageLabel(r) == IF r \in Posts THEN "post" ELSE r
PageLabel(r, o) == IF o = NoTitle THEN GenericPageLabel(r) ELSE o.of

Init ==
    /\ narrow \in BOOLEAN /\ authed \in BOOLEAN
    /\ route = "home" /\ announced = "home"
    /\ drawer = FALSE /\ menu = FALSE
    /\ focus = Body /\ lastFocused = None
    /\ view = NoView /\ override = NoTitle /\ loads = {}
    /\ logouts = 0 /\ presses = 0 /\ moves = 0

-----------------------------------------------------------------------------
(* The drawer.                                                             *)

\* Mutant: the focus is remembered after it has moved.
OpenDrawerLate ==
    /\ narrow /\ ~drawer
    /\ drawer' = TRUE
    /\ focus' = Head(DrawerItems(authed)) /\ lastFocused' = focus'
    /\ UNCHANGED <<nav, menu, meta, logouts, presses, moves>>

\* Not every browser gives the focus to a button that is clicked.
OpenDrawer ==
    /\ narrow /\ ~drawer
    /\ drawer' = TRUE
    /\ lastFocused' \in {"toggle", Body}
    /\ focus' = Head(DrawerItems(authed))
    /\ UNCHANGED <<nav, menu, meta, logouts, presses, moves>>

\* The watcher gives the focus back before the drawer is taken out.
Shut ==
    /\ drawer' = FALSE
    /\ IF drawer
       THEN focus' = lastFocused /\ lastFocused' = None
       ELSE UNCHANGED <<focus, lastFocused>>

\* Escape, the close button, or the backdrop.
CloseDrawer == drawer /\ Shut /\ UNCHANGED <<nav, menu, meta, logouts, presses, moves>>

\* The browser's own order, for a focus that is not at the edge.
Neighbour(items, f, back) ==
    LET i == CHOOSE j \in DOMAIN items : items[j] = f
    IN items[IF back THEN i - 1 ELSE i + 1]

Edge(items, back) == IF back THEN items[1] ELSE items[Len(items)]

\* Mutant: only the first and the last item are looked at.
TabTargetAtEdges(items, back) ==
    IF focus \notin Range(items) THEN "page"
    ELSE IF focus = Edge(items, back) THEN Edge(items, ~back) ELSE Neighbour(items, focus, back)

\* Tab and Shift+Tab go round, and come in from outside.
TabTarget(items, back) ==
    IF focus \notin Range(items) \/ focus = Edge(items, back)
    THEN Edge(items, ~back) ELSE Neighbour(items, focus, back)

TabInDrawer(back) ==
    /\ drawer
    /\ focus' = TabTarget(DrawerItems(authed), back)
    /\ UNCHANGED <<nav, drawer, menu, lastFocused, meta, logouts, presses, moves>>

-----------------------------------------------------------------------------
(* The account menu.                                                       *)

ToggleMenu ==
    /\ ~narrow /\ authed
    /\ menu' = ~menu
    /\ focus' = IF menu THEN "trigger" ELSE Head(MenuItems)
    /\ UNCHANGED <<nav, drawer, lastFocused, meta, logouts, presses, moves>>

EscapeMenu ==
    /\ menu
    /\ menu' = FALSE /\ focus' = "trigger"
    /\ UNCHANGED <<nav, drawer, lastFocused, meta, logouts, presses, moves>>

\* The focus goes where the press was, or nowhere.
PressOutside ==
    /\ menu
    /\ menu' = FALSE /\ focus' \in {"page", Body}
    /\ UNCHANGED <<nav, drawer, lastFocused, meta, logouts, presses, moves>>

\* Leaving at either end closes it.
TabInMenu(back) ==
    /\ menu
    /\ menu' = (focus # Edge(MenuItems, back))
    /\ focus' = IF menu' THEN Neighbour(MenuItems, focus, back) ELSE IF back THEN "trigger" ELSE "page"
    /\ UNCHANGED <<nav, drawer, lastFocused, meta, logouts, presses, moves>>

-----------------------------------------------------------------------------
(* Navigation, and what it does to the overlays and the title.             *)

\* Mutant: the title is left to the page, which clears it when it unmounts.
OverrideAfterUnmountOnly(to) == IF {route, to} \subseteq Posts THEN override ELSE NoTitle

\* The watcher on the route clears it, for pages that stay mounted too.
OverrideAfter(to) == NoTitle

Shows(to) ==
    /\ view' = IF to \notin Posts THEN NoView
               ELSE IF view = NoView THEN Mounted(moves + 1) ELSE Reloading(view)
    /\ loads' = IF to \in Posts THEN loads \cup {[post |-> to, owner |-> view'.owner, move |-> moves]} ELSE loads
    /\ override' = OverrideAfter(to)
    /\ announced' = PageLabel(to, override')

\* Mutant: the drawer stays open.
OverlaysEndButDrawer(signed) ==
    /\ menu' = FALSE /\ UNCHANGED <<drawer, lastFocused>>
    /\ focus' = IF focus \in Present(drawer, FALSE, signed) THEN focus ELSE Body

\* What is gone from the document cannot keep the focus.
OverlaysEnd(signed) ==
    /\ menu' = FALSE /\ drawer' = FALSE /\ lastFocused' = None
    /\ LET kept == IF drawer THEN lastFocused ELSE focus
       IN focus' = IF kept \in Present(FALSE, FALSE, signed) THEN kept ELSE Body

\* A link anywhere, the search of the shell, or the browser's buttons.
Navigate(to) ==
    /\ to # route /\ moves < MaxMoves
    /\ moves' = moves + 1
    /\ route' = to
    /\ Shows(to)
    /\ OverlaysEnd(authed)
    /\ UNCHANGED <<narrow, authed, logouts, presses>>

\* href="#main": with a hash history, a route that does not exist.
SkipToContent == ~drawer /\ Navigate("missing")

DoLogout ==
    /\ authed /\ (drawer \/ menu) /\ presses < MaxLogouts
    /\ presses' = presses + 1 /\ logouts' = logouts + 1
    /\ Shut
    /\ UNCHANGED <<nav, menu, meta, moves>>

\* The store is emptied and the home page pushed, wherever the reader is.
LogoutLands ==
    /\ logouts > 0
    /\ logouts' = logouts - 1
    /\ authed' = FALSE
    /\ route' = "home"
    /\ IF route = "home"
       THEN /\ menu' = FALSE
            /\ focus' = IF focus \in Present(drawer, FALSE, FALSE) THEN focus ELSE Body
            /\ UNCHANGED <<drawer, lastFocused, meta>>
       ELSE OverlaysEnd(FALSE) /\ Shows("home")
    /\ UNCHANGED <<narrow, presses, moves>>

SignsIn ==
    /\ route = "login" /\ ~authed
    /\ authed' = TRUE
    /\ route' = "home"
    /\ OverlaysEnd(TRUE) /\ Shows("home")
    /\ UNCHANGED <<narrow, logouts, presses, moves>>

-----------------------------------------------------------------------------
(* A post's page hears of its load.                                        *)

Landed(r) ==
    /\ r \in loads
    /\ loads' = loads \ {r}
    /\ UNCHANGED <<nav, overlays, announced, logouts, presses, moves>>

\* The author's draft is published: its page reads the post it shows by now
\* again, on the same route and under the same title.
PublishLands ==
    /\ authed /\ view.post # None /\ moves < MaxMoves
    /\ moves' = moves + 1
    /\ view' = Reloading(view)
    /\ loads' = loads \cup {[post |-> route, owner |-> view.owner, move |-> moves]}
    /\ UNCHANGED <<nav, overlays, override, announced, logouts, presses>>

\* Mutant: load() itself sets the title, mounted or not.
LandLoadSetsTitle(r) ==
    /\ Landed(r)
    /\ override' = [owner |-> r.owner, of |-> r.post]
    /\ view' = IF r.owner = view.owner THEN [view EXCEPT !.post = r.post, !.loading = FALSE] ELSE view

\* The title follows the ref by a watcher, which ends with the page.
LandLoad(r) ==
    /\ Landed(r)
    /\ IF r.owner = view.owner
       THEN /\ view' = [view EXCEPT !.post = r.post, !.loading = FALSE]
            /\ override' = [owner |-> r.owner, of |-> r.post]
       ELSE UNCHANGED <<view, override>>

\* Mutant: only an answer ends the loading.
LoadFailsLoading(r) ==
    /\ Landed(r)
    /\ view' = IF r.owner = view.owner THEN [view EXCEPT !.error = TRUE] ELSE view
    /\ UNCHANGED override

LoadFails(r) ==
    /\ Landed(r)
    /\ view' = IF r.owner = view.owner THEN [view EXCEPT !.error = TRUE, !.loading = FALSE] ELSE view
    /\ UNCHANGED override

-----------------------------------------------------------------------------

Next ==
    \/ OpenDrawer \/ CloseDrawer \/ ToggleMenu \/ EscapeMenu \/ PressOutside
    \/ \E back \in BOOLEAN : TabInDrawer(back) \/ TabInMenu(back)
    \/ \E to \in Routes \ {"missing"} : Navigate(to)
    \/ SkipToContent \/ DoLogout \/ LogoutLands \/ SignsIn \/ PublishLands
    \/ \E r \in loads : LandLoad(r) \/ LoadFails(r)

Spec == Init /\ [][Next]_shellVars

-----------------------------------------------------------------------------
(* Properties.                                                             *)

\* The overlays are those of the window, and what is in flight was asked for.
TypeOK ==
    /\ route \in Routes /\ logouts \in 0 .. presses /\ presses <= MaxLogouts /\ moves <= MaxMoves
    /\ drawer => narrow
    /\ menu => ~narrow /\ authed /\ focus \in Range(MenuItems)
    /\ drawer = (lastFocused # None)
    /\ (view = NoView) = (route \notin Posts)
    /\ \A r \in loads : r.post \in Posts /\ r.owner \in 1 .. moves

\* The focus is on an element that is in the document, and never behind the
\* open drawer, though a sign-out that lands late takes items out of it:
\* "focus is inside it and stays there" (App.vue:106).
FocusIsKept ==
    /\ focus \in Present(drawer, menu, authed)
    /\ drawer => focus \in Range(DrawerItems(authed)) \cup {Body}

\* No navigation, whoever starts it, leaves an overlay over the new page
\* (App.vue:98, AccountMenu.vue:29).
OverlaysAreLeft == [][route' # route => ~drawer' /\ ~menu']_shellVars

\* The title is that of the post the mounted page has: a page that has loaded
\* has set it, whichever answer came last, and no page that was left has its
\* title up (usePageMeta.ts); a page that shows itself as loading has a load of
\* its route under way, be it a navigation's or a publication's
\* (PostView.vue:86); a new route is announced by its own label and not by the
\* title before (App.vue:68).
TitleIsOfThePage ==
    /\ override # NoTitle => override = [owner |-> view.owner, of |-> view.post]
    /\ view # NoView /\ ~view.loading /\ ~view.error => override # NoTitle
    /\ view.loading => \E r \in loads : r.owner = view.owner /\ r.post = route
    /\ announced = GenericPageLabel(route)

\* "Skip to content" (locales/en.json:31) stays on the page.  Does not hold:
\* with the hash history its href is the route /main, which is not found
\* (App.vue:204, and TableOfContents.vue:12 says so of such links).
SkipStaysOnPage == [][SkipToContent => UNCHANGED route]_shellVars

\* An error is not shown under the title of a post.  Does not hold: a load
\* that was overtaken fails after the later one has landed (PostView.vue:101).
ErrorHasNoTitle == view.error => override = NoTitle

=============================================================================
