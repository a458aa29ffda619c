----------------------------- MODULE LiveSocket -----------------------------
(***************************************************************************)
(* The one WebSocket of the application (stores/messages.ts, with the      *)
(* watcher and doLogout of App.vue, the mount of MessagesView and the      *)
(* subscription of PostView): it opens for whoever is signed in, is        *)
(* retried when it drops, given up after too many failed handshakes, and   *)
(* carries the subscription of the post on screen.                         *)
(*                                                                         *)
(* Abstracted: one post stands for any; the delays, and the keepalive,     *)
(* which runs exactly while `connected` is set, are left out.  A socket    *)
(* the page has closed has only its close event left, so these are         *)
(* counted.                                                                *)
(***************************************************************************)
EXTENDS ClientSession

CONSTANTS
    MaxFailures,  \* MAX_CONSECUTIVE_FAILURES
    MaxTimers     \* bound: a socket drops while fewer reconnects are scheduled

ASSUME FailuresAssumption == MaxFailures \in Nat \ {0}

VARIABLE
    net     \* the socket and the module's variables around it; `cleared` tells
            \* of a sign-out since the page came up, and nothing reads it

liveVars == <<sessionVars, net>>

Idle == [socket |-> "closed", subscribed |-> FALSE, closing |-> 0, orphans |-> 0, timers |-> 0,
         failures |-> 0, connected |-> FALSE, unavailable |-> FALSE, manual |-> FALSE, wanted |-> FALSE,
         cleared |-> FALSE]

LiveInit == Init /\ net = Idle

Live(n) == n.socket \in {"connecting", "open"}

-----------------------------------------------------------------------------
(* The operations of the store.                                            *)

\* Whatever the variable `socket` held before is not closed by this.
Opened(n) ==
    [n EXCEPT !.socket = "connecting", !.orphans = IF Live(n) THEN @ + 1 ELSE @, !.subscribed = FALSE, !.manual = FALSE]

\* Mutant: a handshake under way is not seen.
ConnectedUnlessOpen(n, u) == IF u = Nobody \/ n.unavailable \/ n.socket = "open" THEN n ELSE Opened(n)

\* connectSocket
Connected(n, u) == IF u = Nobody \/ n.unavailable \/ Live(n) THEN n ELSE Opened(n)

\* disconnectSocket
Disconnected(n) ==
    [n EXCEPT !.socket = "closed", !.subscribed = FALSE, !.manual = TRUE, !.connected = FALSE,
              !.closing = IF Live(n) THEN @ + 1 ELSE @]

\* disconnectSocket and clear, always called together.
Cut(n) ==
    [Disconnected(n) EXCEPT !.wanted = FALSE, !.unavailable = FALSE, !.failures = 0, !.cleared = TRUE]

\* Mutant: a failed handshake is not retried.
ClosedForGood(n, u) ==
    LET m == [n EXCEPT !.connected = FALSE]
    IN IF n.manual \/ u = Nobody THEN m
       ELSE IF n.connected THEN [m EXCEPT !.failures = 0, !.timers = @ + 1]
       ELSE IF n.failures + 1 >= MaxFailures THEN [m EXCEPT !.failures = MaxFailures, !.unavailable = TRUE]
       ELSE [m EXCEPT !.failures = @ + 1]

\* onclose: the handler of any socket works on the variables of the module.
Closed(n, u) ==
    LET m == [n EXCEPT !.connected = FALSE]
    IN IF n.manual \/ u = Nobody THEN m
       ELSE IF n.connected THEN [m EXCEPT !.failures = 0, !.timers = @ + 1]
       ELSE IF n.failures + 1 >= MaxFailures THEN [m EXCEPT !.failures = MaxFailures, !.unavailable = TRUE]
       ELSE [m EXCEPT !.failures = @ + 1, !.timers = @ + 1]

\* Mutant: the intent is kept for an open socket only.
SubscribesIfOpen(n, on) ==
    [n EXCEPT !.wanted = on /\ (n.wanted \/ n.socket = "open"), !.subscribed = IF n.socket = "open" THEN on ELSE @]

\* subscribePost and unsubscribePost: the intent first, then the socket.
Subscribes(n, on) == [n EXCEPT !.wanted = on, !.subscribed = IF n.socket = "open" THEN on ELSE @]

-----------------------------------------------------------------------------
(* What the steps of the session do to the socket.                         *)

\* Mutant: the watcher sees sign-ins only.
UnwatchedSignOut(n) == IF mounted' /\ user' # Nobody /\ (user = Nobody \/ ~mounted) THEN Connected(n, user') ELSE n

\* onMounted and the watcher of isAuthed: a change of user is none.
Watched(n) ==
    IF mounted' /\ user' # Nobody /\ (user = Nobody \/ ~mounted) THEN Connected(n, user')
    ELSE IF mounted /\ user # Nobody /\ user' = Nobody THEN Cut(n)
    ELSE n

Up(v) == mounted /\ view = v

\* The views that come and go: PostView, MessagesView.
Turned(n) ==
    LET comes(v) == ~Up(v) /\ Up(v)'
        k == [n EXCEPT !.cleared = @ /\ view' = view]
        m == IF Up("post") /\ ~Up("post")' THEN Subscribes(k, FALSE)
             ELSE IF comes("post") THEN Subscribes(k, TRUE) ELSE k
    IN IF comes("messages") THEN Connected(m, user') ELSE m

InStep(step) == step /\ net' = Turned(Watched(net))

SessionStep == InStep(Reader \/ Backend \/ Answers)

\* The socket goes before the request leaves.
SignOut ==
    /\ DoLogout
    /\ net' = Cut(net)

-----------------------------------------------------------------------------
(* What happens to sockets and timers.                                     *)

HandshakeEnds ==
    /\ net.socket = "connecting"
    /\ UNCHANGED sessionVars
    /\ \/ /\ cookie.signed
          /\ net' = [net EXCEPT !.socket = "open", !.subscribed = net.wanted, !.connected = TRUE, !.failures = 0]
       \/ /\ ~cookie.signed \/ MayFail
          /\ net' = Closed([net EXCEPT !.socket = "closed"], user)

Drops ==
    /\ net.socket = "open" /\ net.timers < MaxTimers
    /\ net' = Closed([net EXCEPT !.socket = "closed", !.subscribed = FALSE], user)
    /\ UNCHANGED sessionVars

\* The close event of a socket the page closed itself.
OldCloses ==
    /\ net.closing > 0
    /\ net' = Closed([net EXCEPT !.closing = @ - 1], user)
    /\ UNCHANGED sessionVars

TimerFires ==
    /\ net.timers > 0
    /\ net' = Connected([net EXCEPT !.timers = @ - 1], user)
    /\ UNCHANGED sessionVars

Next == SessionStep \/ SignOut \/ HandshakeEnds \/ Drops \/ OldCloses \/ TimerFires

(* Handshakes end, timers fire, and a sign-out is answered or fails.       *)
Fairness ==
    /\ WF_liveVars(HandshakeEnds) /\ WF_liveVars(TimerFires)
    /\ WF_liveVars(InStep(\E r \in asks : ServeLogout(r) \/ LandLogout(r)))

Spec == LiveInit /\ [][Next]_liveVars /\ Fairness

-----------------------------------------------------------------------------
(* Properties.                                                             *)

\* The session's types, and the counters and flags of the socket.
TypeOK ==
    /\ SessionTypeOK
    /\ net.socket \in {"closed", "connecting", "open"}
    /\ net.closing \in 0 .. 2 * MaxPresses + 1 /\ net.failures \in 0 .. MaxFailures
    /\ net.connected => net.socket = "open"

\* No socket stays open that the page has lost hold of: of all the timers,
\* watchers and views that connect, one gets through (connectSocket).
NoOrphanSocket == net.orphans = 0

\* An open socket is subscribed to the post on screen and to no other, also
\* if the view came before the handshake or the socket dropped since; a page
\* a sign-out is to leave is not (desiredPostSubs, replayed by onopen).
PostOnScreenSubscribed ==
    net.socket = "open" => net.subscribed = (Up("post") /\ ~net.cleared)

\* Nobody signed in, no live socket: also one that a view reopened while the
\* request of the sign-out was under way (App.vue's watcher).
SignedOutIsCut == mounted /\ user = Nobody => ~Live(net)

\* Whatever timers, watchers and views do, the page holds the one socket there
\* is, subscribed to the post on screen, and none when nobody is signed in.
SocketFollowsPage == TypeOK /\ NoOrphanSocket /\ PostOnScreenSubscribed /\ SignedOutIsCut

\* Whoever is signed in gets a socket, or is told that there is none.
LiveOrGivenUp == (mounted /\ user # Nobody) ~> (net.socket = "open" \/ net.unavailable \/ user = Nobody)

\* "How many consecutive failed handshakes before we stop trying"
\* (messages.ts:34).  Does not hold: the close event of the socket of the
\* session before counts as one (messages.ts:239).
GivesUpOnlyAfterFailures ==
    [][~net.unavailable /\ net'.unavailable => net.socket = "connecting" /\ net'.socket = "closed"]_liveVars

\* The light in MessagesView tells the truth.  Does not hold: that same
\* event puts it out while the new socket is open (messages.ts:231).
ConnectedMeansOpen == net.socket = "open" => net.connected

\* A change of user takes the socket with it.  Does not hold: a sign-in
\* over a session is no change of isAuthed (App.vue:184).
SocketIsOfUser == [][{user, user'} \subseteq Users /\ user' # user => ~Live(net')]_liveVars

=============================================================================
