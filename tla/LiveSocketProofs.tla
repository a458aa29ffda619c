-------------------------- MODULE LiveSocketProofs --------------------------
(***************************************************************************)
(* That the one socket follows the page and its session (LiveSocket's      *)
(* SocketFollowsPage), for any users, requests, presses and failures.      *)
(***************************************************************************)
EXTENDS LiveSocket, FiniteSetTheorems, TLAPS

Someone == Users \cup {Nobody}

NetRecord == [socket : {"closed", "connecting", "open"}, subscribed : BOOLEAN,
              closing : Nat, orphans : Nat, timers : Nat, failures : 0 .. MaxFailures,
              connected : BOOLEAN, unavailable : BOOLEAN, manual : BOOLEAN, wanted : BOOLEAN,
              cleared : BOOLEAN]

AskRecord == [kind : {"me", "login", "verify", "logout", "delete"}, who : Someone,
              to : Private \cup {"mount", "home"}, stage : {"asked", "done"}]

(* The variables of the store among themselves, whatever happens to them.   *)
NetOK(n) ==
    /\ n \in NetRecord /\ n.orphans = 0
    /\ n.connected => n.socket = "open"
    /\ n.socket = "open" => n.subscribed = n.wanted

SessionOK ==
    /\ user \in Someone /\ pending \in Someone
    /\ ready \in BOOLEAN /\ mounted \in BOOLEAN /\ presses \in 0 .. MaxPresses
    /\ cookie \in [who : Someone, signed : BOOLEAN]
    /\ view \in Public \cup Private \cup {"verify", "boot"}
    /\ heading \in Public \cup Private \cup {"verify", "boot"}
    /\ mounted => ready

(* The probes: that of main.ts, which mounts, and that of the guard.        *)
Probes == {r \in asks : r.kind = "me"}

AsksOK ==
    /\ asks \subseteq AskRecord /\ IsFiniteSet(asks)
    /\ \A r \in asks : IF r.kind = "me" THEN r.to \in Private \cup {"mount"} ELSE r.to = "home"
    /\ \A r, s \in Probes : (r.to = "mount") = (s.to = "mount") => r = s
    /\ mounted => \A r \in Probes : r.to \in Private
    /\ heading = "boot" => \E r \in Probes : r.to \in Private

(* Before the application is mounted there is no socket, no timer and       *)
(* nobody to sign out.                                                      *)
Unmounted == ~mounted => ~Live(net) /\ net.timers = 0 /\ net.closing = 0 /\ ~net.cleared

(* The intent to subscribe is that of the view, but for one that was up when *)
(* the store was cleared.                                                   *)
WantedForView == net.wanted = (Up("post") /\ ~net.cleared)

(* A press is worth two closes: that of the sign-out itself and that of its *)
(* answer; one probe is left when the application is mounted.               *)
ClosesCounted ==
    net.closing + Cardinality(asks) <= 2 * presses + (IF mounted THEN 1 ELSE 2)

LiveInv ==
    /\ SessionOK /\ AsksOK /\ NetOK(net) /\ Unmounted
    /\ SignedOutIsCut /\ WantedForView /\ ClosesCounted

-----------------------------------------------------------------------------
(* The operations of the store, on any state of its variables.              *)
LEMMA StoreOpens ==
    ASSUME NEW n, NetOK(n), ~Live(n)
    PROVE /\ NetOK(Opened(n)) /\ Live(Opened(n)) /\ Opened(n).wanted = n.wanted
          /\ Opened(n).closing = n.closing /\ Opened(n).timers = n.timers
          /\ Opened(n).cleared = n.cleared
<1> DEFINE m == [n EXCEPT !.socket = "connecting", !.orphans = n.orphans, !.subscribed = FALSE,
                          !.manual = FALSE]
<1>1. Opened(n) = m
    BY DEF Opened
<1>2. /\ m \in NetRecord /\ m.socket = "connecting" /\ m.orphans = n.orphans
      /\ m.connected = n.connected /\ m.wanted = n.wanted /\ m.cleared = n.cleared
      /\ m.closing = n.closing /\ m.timers = n.timers
    BY DEF NetOK, NetRecord
<1> HIDE DEF m
<1> QED
    BY <1>1, <1>2 DEF NetOK, Live

LEMMA StoreConnects ==
    ASSUME NEW n, NetOK(n), NEW u
    PROVE /\ NetOK(Connected(n, u)) /\ Connected(n, u).wanted = n.wanted
          /\ Connected(n, u).closing = n.closing /\ Connected(n, u).timers = n.timers
          /\ Connected(n, u).cleared = n.cleared
          /\ Live(Connected(n, u)) => Live(n) \/ u # Nobody
BY StoreOpens DEF Connected

LEMMA StoreCuts ==
    ASSUME NEW n, NetOK(n)
    PROVE /\ NetOK(Cut(n)) /\ ~Live(Cut(n)) /\ ~Cut(n).wanted /\ Cut(n).cleared
          /\ Cut(n).closing = n.closing + (IF Live(n) THEN 1 ELSE 0)
          /\ Cut(n).timers = n.timers
<1> DEFINE k == IF Live(n) THEN n.closing + 1 ELSE n.closing
           d == [n EXCEPT !.socket = "closed", !.subscribed = FALSE, !.manual = TRUE,
                          !.connected = FALSE, !.closing = k]
           m == [d EXCEPT !.wanted = FALSE, !.unavailable = FALSE, !.failures = 0, !.cleared = TRUE]
<1>1. Cut(n) = m
    BY DEF Cut, Disconnected
<1>2. k \in Nat /\ k = n.closing + (IF Live(n) THEN 1 ELSE 0) /\ n \in NetRecord /\ n.orphans = 0
    BY DEF NetOK, NetRecord
<1>3. 0 \in 0 .. MaxFailures
    BY FailuresAssumption
<1> HIDE DEF k
<1>4. /\ d \in NetRecord /\ d.socket = "closed" /\ d.orphans = n.orphans /\ d.connected = FALSE
      /\ d.closing = k /\ d.timers = n.timers
    BY <1>2, <1>3 DEF NetRecord
<1> HIDE DEF d
<1>5. /\ m \in NetRecord /\ m.socket = "closed" /\ m.orphans = n.orphans /\ m.connected = FALSE
      /\ m.closing = k /\ m.timers = n.timers /\ m.wanted = FALSE /\ m.cleared = TRUE
    BY <1>3, <1>4 DEF NetRecord
<1> HIDE DEF m
<1> QED
    BY <1>1, <1>2, <1>5 DEF NetOK, Live

LEMMA StoreSubscribes ==
    ASSUME NEW n, NetOK(n), NEW on \in BOOLEAN
    PROVE /\ NetOK(Subscribes(n, on)) /\ Subscribes(n, on).wanted = on
          /\ Subscribes(n, on).socket = n.socket
          /\ Subscribes(n, on).closing = n.closing /\ Subscribes(n, on).timers = n.timers
          /\ Subscribes(n, on).cleared = n.cleared
<1> DEFINE b == IF n.socket = "open" THEN on ELSE n.subscribed
           m == [n EXCEPT !.wanted = on, !.subscribed = b]
<1>1. Subscribes(n, on) = m
    BY DEF Subscribes
<1>2. b \in BOOLEAN /\ (n.socket = "open" => b = on)
    BY DEF NetOK, NetRecord
<1> HIDE DEF b
<1>3. /\ m \in NetRecord /\ m.socket = n.socket /\ m.orphans = n.orphans
      /\ m.connected = n.connected /\ m.wanted = on /\ m.subscribed = b /\ m.cleared = n.cleared
      /\ m.closing = n.closing /\ m.timers = n.timers
    BY <1>2 DEF NetOK, NetRecord
<1> HIDE DEF m
<1> QED
    BY <1>1, <1>2, <1>3 DEF NetOK

(* onclose, of whichever socket.                                            *)
LEMMA StoreCloses ==
    ASSUME NEW n \in NetRecord, n.orphans = 0, n.socket = "open" => n.subscribed = n.wanted, NEW u
    PROVE /\ NetOK(Closed(n, u)) /\ Closed(n, u).socket = n.socket
          /\ Closed(n, u).wanted = n.wanted /\ Closed(n, u).closing = n.closing
          /\ Closed(n, u).cleared = n.cleared
          /\ Closed(n, u).timers \in Nat
<1> DEFINE m == [n EXCEPT !.connected = FALSE]
           Like(c) == /\ c \in NetRecord /\ c.socket = n.socket /\ c.orphans = n.orphans
                      /\ c.connected = FALSE /\ c.wanted = n.wanted /\ c.subscribed = n.subscribed
                      /\ c.closing = n.closing /\ c.cleared = n.cleared
<1>1. Like(m) /\ m.failures = n.failures /\ m.timers = n.timers
    BY DEF NetRecord
<1>2. /\ MaxFailures \in Nat /\ n.failures \in 0 .. MaxFailures /\ n.timers \in Nat
      /\ 0 \in 0 .. MaxFailures /\ MaxFailures \in 0 .. MaxFailures /\ n.timers + 1 \in Nat
    BY FailuresAssumption DEF NetRecord
<1> HIDE DEF m
<1>3. Like([m EXCEPT !.failures = 0, !.timers = n.timers + 1])
    BY <1>1, <1>2 DEF NetRecord
<1>4. Like([m EXCEPT !.failures = MaxFailures, !.unavailable = TRUE])
    BY <1>1, <1>2 DEF NetRecord
<1>5. ASSUME ~(n.failures + 1 >= MaxFailures)
      PROVE  Like([m EXCEPT !.failures = n.failures + 1, !.timers = n.timers + 1])
    <2>1. n.failures + 1 \in 0 .. MaxFailures
        BY <1>2, <1>5
    <2> QED
        BY <1>1, <1>2, <2>1 DEF NetRecord
<1>6. \/ Closed(n, u) = m
      \/ Closed(n, u) = [m EXCEPT !.failures = 0, !.timers = n.timers + 1]
      \/ Closed(n, u) = [m EXCEPT !.failures = MaxFailures, !.unavailable = TRUE]
      \/ /\ ~(n.failures + 1 >= MaxFailures)
         /\ Closed(n, u) = [m EXCEPT !.failures = n.failures + 1, !.timers = n.timers + 1]
    BY <1>1 DEF Closed, m
<1>7. Like(Closed(n, u))
    BY <1>1, <1>3, <1>4, <1>5, <1>6
<1>8. Closed(n, u).timers \in Nat
    BY <1>7 DEF NetRecord
<1> QED
    BY <1>7, <1>8 DEF NetOK

-----------------------------------------------------------------------------
(* What the watcher and the views do to the store in a step of the session. *)
SignsOut == mounted /\ user # Nobody /\ user' = Nobody

LEMMA WatcherFollows ==
    ASSUME NetOK(net)
    PROVE /\ NetOK(Watched(net)) /\ Watched(net).timers = net.timers
          /\ Watched(net).closing = net.closing + (IF SignsOut /\ Live(net) THEN 1 ELSE 0)
          /\ Watched(net).wanted = (net.wanted /\ ~SignsOut)
          /\ Watched(net).cleared = (net.cleared \/ SignsOut)
          /\ Live(Watched(net)) => user' # Nobody \/ (Live(net) /\ ~SignsOut)
          /\ (~mounted /\ ~mounted') => Watched(net) = net
<1>0. net.closing \in Nat /\ net.wanted \in BOOLEAN /\ net.cleared \in BOOLEAN
    BY DEF NetOK, NetRecord
<1>1. CASE SignsOut
    <2>1. Watched(net) = Cut(net)
        BY <1>1 DEF Watched, SignsOut
    <2>2. /\ NetOK(Cut(net)) /\ ~Live(Cut(net)) /\ ~Cut(net).wanted /\ Cut(net).cleared
          /\ Cut(net).closing = net.closing + (IF Live(net) THEN 1 ELSE 0)
          /\ Cut(net).timers = net.timers /\ Cut(net).wanted \in BOOLEAN /\ Cut(net).cleared \in BOOLEAN
        BY StoreCuts DEF NetOK, NetRecord
    <2>3. ~(~mounted /\ ~mounted')
        BY <1>1 DEF SignsOut
    <2> QED
        BY <1>0, <1>1, <2>1, <2>2, <2>3
<1>2. CASE ~SignsOut /\ mounted' /\ user' # Nobody /\ (user = Nobody \/ ~mounted)
    <2>1. Watched(net) = Connected(net, user')
        BY <1>2 DEF Watched
    <2> QED
        BY <1>0, <1>2, <2>1, StoreConnects
<1>3. CASE ~SignsOut /\ ~(mounted' /\ user' # Nobody /\ (user = Nobody \/ ~mounted))
    <2>1. Watched(net) = net
        BY <1>3 DEF Watched, SignsOut
    <2> QED
        BY <1>0, <1>3, <2>1
<1> QED
    BY <1>1, <1>2, <1>3

LEMMA ViewsTurn ==
    ASSUME NetOK(net), mounted => mounted', net' = Turned(Watched(net))
    PROVE /\ NetOK(net)' /\ net'.timers = net.timers
          /\ net'.closing = net.closing + (IF SignsOut /\ Live(net) THEN 1 ELSE 0)
          /\ net'.wanted = IF Up("post") /\ ~Up("post")' THEN FALSE
                           ELSE IF ~Up("post") /\ Up("post")' THEN TRUE
                           ELSE net.wanted /\ ~SignsOut
          /\ net'.cleared = ((net.cleared \/ SignsOut) /\ view' = view)
          /\ Live(net') => user' # Nobody \/ (Live(net) /\ ~SignsOut)
          /\ ~mounted' => (Live(net') => Live(net))
<1> DEFINE w == Watched(net)
           c == w.cleared /\ view' = view
           k == [w EXCEPT !.cleared = c]
           m == IF Up("post") /\ ~Up("post")' THEN Subscribes(k, FALSE)
                ELSE IF ~Up("post") /\ Up("post")' THEN Subscribes(k, TRUE) ELSE k
           on == IF Up("post") /\ ~Up("post")' THEN FALSE
                 ELSE IF ~Up("post") /\ Up("post")' THEN TRUE
                 ELSE net.wanted /\ ~SignsOut
<1>1. /\ NetOK(w) /\ w.timers = net.timers
      /\ w.closing = net.closing + (IF SignsOut /\ Live(net) THEN 1 ELSE 0)
      /\ w.wanted = (net.wanted /\ ~SignsOut)
      /\ w.cleared = (net.cleared \/ SignsOut)
      /\ Live(w) => user' # Nobody \/ (Live(net) /\ ~SignsOut)
      /\ ~mounted' => w = net
    BY WatcherFollows
<1>2. net' = m \/ (net' = Connected(m, user') /\ mounted')
    BY DEF Turned, Up
<1> HIDE DEF w
<1>3. c \in BOOLEAN
    BY <1>1 DEF NetOK, NetRecord
<1>4. c = ((net.cleared \/ SignsOut) /\ view' = view)
    BY <1>1
<1> HIDE DEF c
<1>5. /\ k \in NetRecord /\ k.socket = w.socket /\ k.orphans = w.orphans /\ k.connected = w.connected
      /\ k.subscribed = w.subscribed /\ k.wanted = w.wanted /\ k.timers = w.timers
      /\ k.closing = w.closing /\ k.cleared = c
    BY <1>1, <1>3 DEF NetOK, NetRecord
<1> HIDE DEF k
<1>6. NetOK(k)
    BY <1>1, <1>5 DEF NetOK
<1>7. /\ NetOK(m) /\ m.timers = k.timers /\ m.closing = k.closing
      /\ m.socket = k.socket /\ m.wanted = on /\ m.cleared = k.cleared
    <2>1. CASE Up("post") /\ ~Up("post")'
        BY <1>6, <2>1, StoreSubscribes
    <2>2. CASE ~Up("post") /\ Up("post")'
        BY <1>6, <2>2, StoreSubscribes
    <2>3. CASE ~(Up("post") /\ ~Up("post")') /\ ~(~Up("post") /\ Up("post")')
        BY <1>1, <1>5, <1>6, <2>3
    <2> QED
        BY <2>1, <2>2, <2>3
<1>8. Live(m) => Live(w)
    BY <1>5, <1>7 DEF Live
<1> HIDE DEF m, on
<1>9. /\ NetOK(net') /\ net'.timers = m.timers /\ net'.closing = m.closing /\ net'.cleared = m.cleared
      /\ net'.wanted = m.wanted /\ net'.cleared = m.cleared /\ (Live(net') => Live(m) \/ user' # Nobody)
    BY <1>2, <1>7, StoreConnects
<1>10. NetOK(net)'
    BY <1>9 DEF NetOK
<1>11. ~mounted' => (Live(net') => Live(net))
    BY <1>1, <1>2, <1>8 DEF Live
<1> QED
    BY <1>1, <1>4, <1>5, <1>7, <1>8, <1>9, <1>10, <1>11 DEF on

(* A step of the session, in what it owes to the socket.                    *)
LEMMA SessionKeeps ==
    ASSUME LiveInv, SessionOK', AsksOK', mounted => mounted', net' = Turned(Watched(net)),
           Cardinality(asks') + (IF SignsOut THEN 1 ELSE 0) + (IF mounted' THEN 1 ELSE 0)
               <= Cardinality(asks) + (IF mounted THEN 1 ELSE 0) + 2 * (presses' - presses)
    PROVE LiveInv'
<1>1. /\ NetOK(net)' /\ net'.timers = net.timers
      /\ net'.closing = net.closing + (IF SignsOut /\ Live(net) THEN 1 ELSE 0)
      /\ net'.wanted = IF Up("post") /\ ~Up("post")' THEN FALSE
                       ELSE IF ~Up("post") /\ Up("post")' THEN TRUE
                       ELSE net.wanted /\ ~SignsOut
      /\ net'.cleared = ((net.cleared \/ SignsOut) /\ view' = view)
      /\ Live(net') => user' # Nobody \/ (Live(net) /\ ~SignsOut)
      /\ ~mounted' => (Live(net') => Live(net))
    BY ViewsTurn DEF LiveInv
<1>0. /\ net.cleared \in BOOLEAN /\ net.wanted \in BOOLEAN /\ mounted \in BOOLEAN /\ mounted' \in BOOLEAN
      /\ net.wanted = (Up("post") /\ ~net.cleared) /\ (~mounted => ~net.cleared)
    BY DEF LiveInv, NetOK, NetRecord, SessionOK, WantedForView, Unmounted
<1>2. Unmounted'
    BY <1>0, <1>1 DEF LiveInv, Unmounted, Live, SignsOut
<1>3. SignedOutIsCut'
    <2> SUFFICES ASSUME mounted', user' = Nobody PROVE ~Live(net')
        BY DEF SignedOutIsCut, Live
    <2>1. CASE mounted
        BY <1>1, <2>1 DEF LiveInv, SignedOutIsCut, SignsOut
    <2>2. CASE ~mounted
        BY <1>1, <2>2 DEF LiveInv, Unmounted
    <2> QED
        BY <2>1, <2>2
<1>4. WantedForView'
    <2>1. CASE Up("post") /\ Up("post")'
        <3>1. view' = view
            BY <2>1 DEF Up
        <3> QED
            BY <1>0, <1>1, <2>1, <3>1 DEF WantedForView
    <2>2. CASE ~Up("post") /\ Up("post")'
        <3>1. ~net'.cleared
            BY <1>0, <1>1, <2>2 DEF Up, SignsOut
        <3> QED
            BY <1>1, <2>2, <3>1 DEF WantedForView
    <2>3. CASE ~Up("post")'
        BY <1>0, <1>1, <2>3 DEF WantedForView
    <2> QED
        BY <2>1, <2>2, <2>3
<1>5. ClosesCounted'
    <2>1. /\ Cardinality(asks) \in Nat /\ Cardinality(asks') \in Nat
          /\ net.closing \in Nat /\ presses \in Nat /\ presses' \in Nat
        BY FS_CardinalityType, SessionAssumption
        DEF LiveInv, AsksOK, NetOK, NetRecord, SessionOK
    <2>2. net.closing + Cardinality(asks) <= 2 * presses + (IF mounted THEN 1 ELSE 2)
        BY DEF LiveInv, ClosesCounted
    <2>3. net'.closing <= net.closing + (IF SignsOut THEN 1 ELSE 0) /\ net'.closing \in Nat
        BY <1>1, <2>1
    <2>4. mounted \in BOOLEAN /\ mounted' \in BOOLEAN
        BY DEF LiveInv, SessionOK
    <2>5. net'.closing + Cardinality(asks') <= 2 * presses' + (IF mounted' THEN 1 ELSE 2)
        BY <2>1, <2>2, <2>3, <2>4
    <2> QED
        BY <2>5 DEF ClosesCounted
<1> QED
    BY <1>1, <1>2, <1>3, <1>4, <1>5 DEF LiveInv

-----------------------------------------------------------------------------
(* The requests in flight.                                                  *)
LEMMA OneLess ==
    ASSUME NEW S, NEW r \in S, IsFiniteSet(S)
    PROVE /\ IsFiniteSet(S \ {r}) /\ Cardinality(S) \in Nat /\ Cardinality(S \ {r}) \in Nat
          /\ Cardinality(S \ {r}) + 1 = Cardinality(S)
<1>1. IsFiniteSet(S \ {r}) /\ Cardinality(S \ {r}) = Cardinality(S) - 1
    BY FS_RemoveElement
<1>2. Cardinality(S) \in Nat /\ Cardinality(S \ {r}) \in Nat
    BY <1>1, FS_CardinalityType
<1> QED
    BY <1>1, <1>2

LEMMA OneMore ==
    ASSUME NEW S, NEW r, IsFiniteSet(S)
    PROVE /\ IsFiniteSet(S \cup {r}) /\ Cardinality(S) \in Nat /\ Cardinality(S \cup {r}) \in Nat
          /\ Cardinality(S \cup {r}) <= Cardinality(S) + 1
<1>1. /\ IsFiniteSet(S \cup {r})
      /\ Cardinality(S \cup {r}) = IF r \in S THEN Cardinality(S) ELSE Cardinality(S) + 1
    BY FS_AddElement
<1>2. Cardinality(S) \in Nat /\ Cardinality(S \cup {r}) \in Nat
    BY <1>1, FS_CardinalityType
<1> QED
    BY <1>1, <1>2

(* A form is sent.                                                          *)
LEMMA PressAsks ==
    ASSUME LiveInv, NEW kind \in {"login", "verify", "logout", "delete"}, NEW who \in Someone,
           Press(Ask(kind, who, "home")), busy' \in {busy, TRUE}
    PROVE /\ SessionOK' /\ AsksOK' /\ Probes' = Probes /\ UNCHANGED <<user, view, heading, mounted>> /\ mounted
          /\ presses' = presses + 1 /\ presses \in Nat
          /\ Cardinality(asks) \in Nat /\ Cardinality(asks') \in Nat
          /\ Cardinality(asks') <= Cardinality(asks) + 1
<1> DEFINE r == Ask(kind, who, "home")
<1>1. /\ asks' = asks \cup {r} /\ presses' = presses + 1 /\ presses < MaxPresses /\ mounted
      /\ UNCHANGED <<user, ready, pending, mounted, view, heading, cookie>>
    BY DEF Press
<1>2. r \in AskRecord /\ r.kind = kind /\ r.to = "home"
    BY DEF Ask, AskRecord
<1> HIDE DEF r
<1>3. presses \in 0 .. MaxPresses /\ MaxPresses \in Nat
    BY SessionAssumption DEF LiveInv, SessionOK
<1>4. presses' \in 0 .. MaxPresses
    BY <1>1, <1>3
<1>5. SessionOK'
    BY <1>1, <1>4 DEF LiveInv, SessionOK
<1>6. IsFiniteSet(asks)
    BY DEF LiveInv, AsksOK
<1>7. /\ IsFiniteSet(asks') /\ Cardinality(asks) \in Nat /\ Cardinality(asks') \in Nat
      /\ Cardinality(asks') <= Cardinality(asks) + 1
    BY <1>1, <1>6, OneMore
<1>8. Probes' = Probes
    BY <1>1, <1>2 DEF Probes
<1>9. AsksOK'
    BY <1>1, <1>2, <1>7, <1>8 DEF LiveInv, AsksOK
<1> QED
    BY <1>1, <1>3, <1>5, <1>7, <1>8, <1>9

(* The backend answers a request; it stays in flight.                       *)
LEMMA ServeAnswers ==
    ASSUME LiveInv, NEW r \in asks, NEW who \in Someone, NEW session \in [who : Someone, signed : BOOLEAN],
           Serve(r, who, session)
    PROVE /\ SessionOK' /\ AsksOK' /\ UNCHANGED <<user, view, heading, mounted, presses>>
          /\ Cardinality(asks) \in Nat /\ Cardinality(asks') \in Nat
          /\ Cardinality(asks') <= Cardinality(asks)
<1> DEFINE s == [r EXCEPT !.stage = "done", !.who = who]
<1>1. /\ asks' = (asks \ {r}) \cup {s} /\ cookie' = session
      /\ UNCHANGED <<user, ready, pending, mounted, view, heading, busy, presses>>
    BY DEF Serve
<1>2. asks \subseteq AskRecord /\ IsFiniteSet(asks)
    BY DEF LiveInv, AsksOK
<1>3. s \in AskRecord /\ s.kind = r.kind /\ s.to = r.to
    BY <1>2 DEF AskRecord
<1> HIDE DEF s
<1>4. /\ IsFiniteSet(asks \ {r}) /\ Cardinality(asks) \in Nat
      /\ Cardinality(asks \ {r}) \in Nat /\ Cardinality(asks \ {r}) + 1 = Cardinality(asks)
    BY <1>2, OneLess
<1>5. /\ IsFiniteSet(asks') /\ Cardinality(asks') \in Nat
      /\ Cardinality(asks') <= Cardinality(asks \ {r}) + 1
    BY <1>1, <1>4, OneMore
<1>6. SessionOK'
    BY <1>1 DEF LiveInv, SessionOK
<1>7. \A p \in Probes' : p \in Probes \ {r} \/ (p = s /\ r \in Probes)
    BY <1>1, <1>3 DEF Probes
<1>8. \A p \in Probes : p \in Probes' \/ (p = r /\ s \in Probes')
    BY <1>1, <1>3 DEF Probes
<1>9. AsksOK'
    <2>1. /\ \A p \in asks : IF p.kind = "me" THEN p.to \in Private \cup {"mount"} ELSE p.to = "home"
          /\ \A p, v \in Probes : (p.to = "mount") = (v.to = "mount") => p = v
          /\ mounted => \A p \in Probes : p.to \in Private
          /\ heading = "boot" => \E p \in Probes : p.to \in Private
        BY DEF LiveInv, AsksOK
    <2>2. \A p \in asks' : IF p.kind = "me" THEN p.to \in Private \cup {"mount"} ELSE p.to = "home"
        BY <1>1, <1>3, <2>1
    <2>3. \A p, v \in Probes' : (p.to = "mount") = (v.to = "mount") => p = v
        BY <1>3, <1>7, <2>1
    <2>4. mounted' => \A p \in Probes' : p.to \in Private
        BY <1>1, <1>3, <1>7, <2>1
    <2>5. heading' = "boot" => \E p \in Probes' : p.to \in Private
        BY <1>1, <1>3, <1>8, <2>1
    <2>6. asks' \subseteq AskRecord
        BY <1>1, <1>2, <1>3
    <2> QED
        BY <1>5, <2>2, <2>3, <2>4, <2>5, <2>6 DEF AsksOK
<1>10. Cardinality(asks') <= Cardinality(asks)
    BY <1>4, <1>5
<1> QED
    BY <1>1, <1>4, <1>5, <1>6, <1>9, <1>10

(* An answer lands.                                                         *)
LEMMA LandingTakes ==
    ASSUME LiveInv, NEW r \in asks, Answered(r)
    PROVE /\ asks' = asks \ {r} /\ Probes' = Probes \ {r} /\ asks' \subseteq AskRecord
          /\ IsFiniteSet(asks') /\ Cardinality(asks) \in Nat /\ Cardinality(asks') \in Nat
          /\ Cardinality(asks') + 1 = Cardinality(asks)
          /\ UNCHANGED <<presses, cookie>> /\ presses \in Nat
          /\ r \in AskRecord
<1>1. IsFiniteSet(asks) /\ asks \subseteq AskRecord
    BY DEF LiveInv, AsksOK
<1>2. asks' = asks \ {r} /\ UNCHANGED <<presses, cookie>>
    BY DEF Answered
<1>3. /\ IsFiniteSet(asks \ {r}) /\ Cardinality(asks) \in Nat
      /\ Cardinality(asks \ {r}) \in Nat /\ Cardinality(asks \ {r}) + 1 = Cardinality(asks)
    BY <1>1, OneLess
<1>4. presses \in Nat
    BY SessionAssumption DEF LiveInv, SessionOK
<1> QED
    BY <1>1, <1>2, <1>3, <1>4 DEF Probes

-----------------------------------------------------------------------------
(* The steps of the session, which take the socket with them.               *)
LEMMA ReaderKeeps ==
    ASSUME LiveInv, Reader, net' = Turned(Watched(net)) PROVE LiveInv'
<1>0. ASSUME heading' \in Public \cup Private \cup {"verify"}, view' \in {view, heading'},
             UNCHANGED <<user, ready, pending, mounted, asks, presses, cookie>>
      PROVE LiveInv'
    <2>1. SessionOK' /\ Probes' = Probes /\ ~SignsOut
        BY <1>0 DEF LiveInv, SessionOK, Probes, SignsOut
    <2>2. AsksOK'
        BY <1>0, <2>1 DEF LiveInv, AsksOK, Public, Private
    <2>3. Cardinality(asks) \in Nat /\ presses \in Nat /\ mounted \in BOOLEAN
        BY FS_CardinalityType, SessionAssumption DEF LiveInv, AsksOK, SessionOK
    <2>4. Cardinality(asks') + (IF SignsOut THEN 1 ELSE 0) + (IF mounted' THEN 1 ELSE 0)
              <= Cardinality(asks) + (IF mounted THEN 1 ELSE 0) + 2 * (presses' - presses)
        BY <1>0, <2>1, <2>3
    <2> QED
        BY <1>0, <2>1, <2>2, <2>4, SessionKeeps
<1>1. ASSUME NEW to \in Public \cup Private \cup {"verify"}, Go(to) PROVE LiveInv'
    <2>1. /\ heading' \in Public \cup Private \cup {"verify"} /\ view' = view
          /\ UNCHANGED <<user, ready, pending, mounted, asks, presses, cookie>>
        BY <1>1 DEF Go, Guarded, Settled, Public
    <2> QED
        BY <1>0, <2>1
<1>6. CASE Arrive
    <2>1. heading \in Public \cup Private \cup {"verify"}
        BY <1>6 DEF Arrive, LiveInv, SessionOK
    <2>2. /\ heading' \in Public \cup Private \cup {"verify"} /\ view' = heading'
          /\ UNCHANGED <<user, ready, pending, mounted, asks, presses, cookie>>
        BY <1>6, <2>1 DEF Arrive, Settled, Public
    <2> QED
        BY <1>0, <2>2
<1>2. ASSUME NEW kind \in {"login", "verify", "delete"}, NEW who \in Someone,
             Press(Ask(kind, who, "home")), busy' = TRUE
      PROVE LiveInv'
    <2>1. /\ SessionOK' /\ AsksOK' /\ Probes' = Probes /\ UNCHANGED <<user, view, heading, mounted>> /\ mounted
          /\ presses' = presses + 1 /\ presses \in Nat
          /\ Cardinality(asks) \in Nat /\ Cardinality(asks') \in Nat
          /\ Cardinality(asks') <= Cardinality(asks) + 1
        BY <1>2, PressAsks
    <2>2. ~SignsOut
        BY <2>1 DEF SignsOut
    <2>3. Cardinality(asks') + (IF SignsOut THEN 1 ELSE 0) + (IF mounted' THEN 1 ELSE 0)
              <= Cardinality(asks) + (IF mounted THEN 1 ELSE 0) + 2 * (presses' - presses)
        BY <2>1, <2>2
    <2> QED
        BY <2>1, <2>2, <2>3, SessionKeeps
<1>3. ASSUME NEW u \in Users, SubmitLogin(u) PROVE LiveInv'
    BY <1>2, <1>3 DEF SubmitLogin, Someone
<1>4. CASE SubmitCode
    BY <1>2, <1>4 DEF SubmitCode, Someone
<1>5. CASE DoDelete
    BY <1>2, <1>5 DEF DoDelete, LiveInv, SessionOK
<1> QED
    BY <1>1, <1>3, <1>4, <1>5, <1>6 DEF Reader

LEMMA BackendKeeps ==
    ASSUME LiveInv, Backend, net' = Turned(Watched(net)) PROVE LiveInv'
<1>0. /\ cookie \in [who : Someone, signed : BOOLEAN] /\ NoLogin \in [who : Someone, signed : BOOLEAN]
      /\ Nobody \in Someone /\ asks \subseteq AskRecord
    BY DEF LiveInv, SessionOK, AsksOK, NoLogin, Someone
<1>1. CASE RevokedElsewhere
    <2>1. /\ UNCHANGED <<user, ready, pending, mounted, view, heading, busy, asks, presses>> /\ cookie' = NoLogin
        BY <1>1 DEF RevokedElsewhere
    <2>2. SessionOK' /\ Probes' = Probes /\ ~SignsOut
        BY <1>0, <2>1 DEF LiveInv, SessionOK, Probes, SignsOut
    <2>3. AsksOK'
        BY <2>1, <2>2 DEF LiveInv, AsksOK
    <2>4. Cardinality(asks) \in Nat /\ presses \in Nat /\ mounted \in BOOLEAN
        BY FS_CardinalityType, SessionAssumption DEF LiveInv, AsksOK, SessionOK
    <2>5. Cardinality(asks') + (IF SignsOut THEN 1 ELSE 0) + (IF mounted' THEN 1 ELSE 0)
              <= Cardinality(asks) + (IF mounted THEN 1 ELSE 0) + 2 * (presses' - presses)
        BY <2>1, <2>2, <2>4
    <2> QED
        BY <2>1, <2>2, <2>3, <2>5, SessionKeeps
<1>2. ASSUME NEW r \in asks, NEW who \in Someone, NEW session \in [who : Someone, signed : BOOLEAN],
             Serve(r, who, session)
      PROVE LiveInv'
    <2>1. /\ SessionOK' /\ AsksOK' /\ UNCHANGED <<user, view, heading, mounted, presses>>
          /\ Cardinality(asks) \in Nat /\ Cardinality(asks') \in Nat
          /\ Cardinality(asks') <= Cardinality(asks)
        BY <1>2, ServeAnswers
    <2>2. ~SignsOut /\ presses \in Nat /\ mounted \in BOOLEAN
        BY <2>1, SessionAssumption DEF SignsOut, LiveInv, SessionOK
    <2>3. Cardinality(asks') + (IF SignsOut THEN 1 ELSE 0) + (IF mounted' THEN 1 ELSE 0)
              <= Cardinality(asks) + (IF mounted THEN 1 ELSE 0) + 2 * (presses' - presses)
        BY <2>1, <2>2
    <2> QED
        BY <2>1, <2>2, <2>3, SessionKeeps
<1>3. ASSUME NEW r \in asks, ServeMe(r) PROVE LiveInv'
    <2>1. (IF cookie.signed THEN cookie.who ELSE Nobody) \in Someone
        BY <1>0
    <2> QED
        BY <1>0, <1>2, <1>3, <2>1 DEF ServeMe
<1>4. ASSUME NEW r \in asks, ServeLogin(r) PROVE LiveInv'
    <2>1. r.who \in Someone
        BY <1>0 DEF AskRecord
    <2>2. [who |-> r.who, signed |-> r.who \notin TwoFactor] \in [who : Someone, signed : BOOLEAN]
        BY <2>1
    <2> QED
        BY <1>2, <1>4, <2>1, <2>2 DEF ServeLogin
<1>5. ASSUME NEW r \in asks, ServeCode(r) PROVE LiveInv'
    <2>1. cookie.who \in Someone /\ [cookie EXCEPT !.signed = TRUE] \in [who : Someone, signed : BOOLEAN]
        BY <1>0
    <2> QED
        BY <1>2, <1>5, <2>1 DEF ServeCode
<1>6. ASSUME NEW r \in asks, ServeLogout(r) PROVE LiveInv'
    BY <1>0, <1>2, <1>6 DEF ServeLogout
<1>7. ASSUME NEW r \in asks, ServeDelete(r) PROVE LiveInv'
    <2>1. r.who \in Someone
        BY <1>0 DEF AskRecord
    <2> QED
        BY <1>0, <1>2, <1>7, <2>1 DEF ServeDelete
<1> QED
    BY <1>1, <1>3, <1>4, <1>5, <1>6, <1>7 DEF Backend

LEMMA AnswersKeep ==
    ASSUME LiveInv, Answers, net' = Turned(Watched(net)) PROVE LiveInv'
<1>0. PICK r \in asks :
         LandMe(r) \/ LandLogin(r) \/ LandPending(r) \/ LandCode(r) \/ LandLogout(r) \/ LandDelete(r)
            \/ LandRefusal(r)
    BY DEF Answers
<1>1. /\ asks' = asks \ {r} /\ Probes' = Probes \ {r} /\ asks' \subseteq AskRecord
      /\ IsFiniteSet(asks') /\ Cardinality(asks) \in Nat /\ Cardinality(asks') \in Nat
      /\ Cardinality(asks') + 1 = Cardinality(asks)
      /\ UNCHANGED <<presses, cookie>> /\ presses \in Nat
      /\ r \in AskRecord
    <2>1. Answered(r)
        BY <1>0 DEF LandMe, LandLogin, LandPending, LandCode, LandLogout, LandDelete, LandRefusal
    <2> QED
        BY <2>1, LandingTakes
<1>2. /\ r.who \in Someone /\ Nobody \in Someone /\ mounted \in BOOLEAN
      /\ IF r.kind = "me" THEN r.to \in Private \cup {"mount"} ELSE r.to = "home"
      /\ \A p \in asks : IF p.kind = "me" THEN p.to \in Private \cup {"mount"} ELSE p.to = "home"
      /\ \A p, v \in Probes : (p.to = "mount") = (v.to = "mount") => p = v
      /\ mounted => \A p \in Probes : p.to \in Private
      /\ heading = "boot" => \E p \in Probes : p.to \in Private
    BY <1>1 DEF LiveInv, SessionOK, AsksOK, AskRecord, Someone
<1>3. \A p, v \in Probes' : (p.to = "mount") = (v.to = "mount") => p = v
    BY <1>1, <1>2
<1>4. CASE LandMe(r)
    <2>1. /\ r.kind = "me" /\ user' \in Someone /\ ready' = TRUE
          /\ mounted' = (mounted \/ r.to = "mount")
          /\ heading' = IF r.to # "mount" /\ heading = "boot" THEN Guarded(r.to, user') ELSE heading
          /\ view' = view
          /\ pending' = pending
        BY <1>2, <1>4 DEF LandMe
    <2>2. r \in Probes /\ mounted' \in BOOLEAN
        BY <1>2, <2>1 DEF Probes
    <2>3. heading' \in Public \cup Private \cup {"verify", "boot"} /\ (heading' = "boot" => r.to = "mount")
        <3>1. r.to \in Private => Guarded(r.to, user') \in Private \cup {"login"}
            BY DEF Guarded
        <3>2. heading \in Public \cup Private \cup {"verify", "boot"}
            BY DEF LiveInv, SessionOK
        <3> QED
            BY <1>2, <2>1, <3>1, <3>2 DEF Private, Public
    <2>4. SessionOK'
        BY <1>1, <2>1, <2>2, <2>3 DEF LiveInv, SessionOK
    <2>5. r.to # "mount" \/ \A p \in Probes' : p.to \in Private
        <3> SUFFICES ASSUME r.to = "mount", NEW p \in Probes' PROVE p.to \in Private
            OBVIOUS
        <3>1. p \in Probes /\ p # r /\ p.kind = "me" /\ p \in asks
            BY <1>1 DEF Probes
        <3>2. p.to # "mount"
            BY <1>2, <2>2, <3>1
        <3> QED
            BY <1>2, <3>1, <3>2
    <2>7. AsksOK'
        <3>1. mounted' => \A p \in Probes' : p.to \in Private
            BY <1>1, <1>2, <2>1, <2>5
        <3>2. heading' = "boot" => \E p \in Probes' : p.to \in Private
            <4> SUFFICES ASSUME heading' = "boot" PROVE \E p \in Probes' : p.to \in Private
                OBVIOUS
            <4>1. r.to = "mount" /\ heading = "boot"
                BY <2>1, <2>3
            <4>2. PICK p \in Probes : p.to \in Private
                BY <1>2, <4>1
            <4>3. p # r
                BY <4>1, <4>2 DEF Private
            <4> QED
                BY <1>1, <4>2, <4>3
        <3> QED
            BY <1>1, <1>2, <1>3, <3>1, <3>2 DEF AsksOK
    <2>10. ~(SignsOut /\ ~mounted) /\ (mounted' /\ ~mounted => ~SignsOut)
        BY DEF SignsOut
    <2>11. Cardinality(asks') + (IF SignsOut THEN 1 ELSE 0) + (IF mounted' THEN 1 ELSE 0)
              <= Cardinality(asks) + (IF mounted THEN 1 ELSE 0) + 2 * (presses' - presses)
        BY <1>1, <1>2, <2>2, <2>10
    <2> QED
        BY <2>1, <2>2, <2>4, <2>7, <2>11, SessionKeeps
(* A handler that navigates, or stays and owns up.                          *)
<1>5. ASSUME r.kind # "me", user' \in Someone, pending' \in Someone, UNCHANGED <<ready, mounted, view>>,
             heading' \in {"home", "verify", heading}
      PROVE LiveInv'
    <2>1. Probes' = Probes
        BY <1>1, <1>5 DEF Probes
    <2>2. SessionOK'
        BY <1>1, <1>5 DEF LiveInv, SessionOK, Public
    <2>3. AsksOK'
        BY <1>1, <1>2, <1>3, <1>5, <2>1 DEF AsksOK
    <2>4. Cardinality(asks') + (IF SignsOut THEN 1 ELSE 0) + (IF mounted' THEN 1 ELSE 0)
              <= Cardinality(asks) + (IF mounted THEN 1 ELSE 0) + 2 * (presses' - presses)
        BY <1>1, <1>2, <1>5
    <2> QED
        BY <1>5, <2>2, <2>3, <2>4, SessionKeeps
<1>6. user \in Someone /\ pending \in Someone
    BY DEF LiveInv, SessionOK
<1>7. CASE LandLogin(r) \/ LandPending(r) \/ LandCode(r) \/ LandLogout(r) \/ LandDelete(r)
    BY <1>2, <1>5, <1>6, <1>7 DEF LandLogin, LandPending, LandCode, LandLogout, LandDelete, Push
<1>8. CASE LandRefusal(r)
    BY <1>2, <1>5, <1>6, <1>8 DEF LandRefusal
<1> QED
    BY <1>0, <1>4, <1>7, <1>8

-----------------------------------------------------------------------------
(* The steps of sockets and timers, which leave the session alone.          *)
LEMMA SocketKeeps ==
    ASSUME LiveInv, UNCHANGED sessionVars, NetOK(net)', net'.wanted = net.wanted, net'.cleared = net.cleared,
           net'.closing <= net.closing,
           mounted,
           Live(net') => Live(net) \/ user # Nobody
    PROVE LiveInv'
<1>1. SessionOK' /\ AsksOK' /\ Probes' = Probes
    BY DEF LiveInv, SessionOK, AsksOK, sessionVars, Probes
<1>2. SignedOutIsCut' /\ Unmounted'
    BY DEF LiveInv, SignedOutIsCut, Unmounted, sessionVars, Live
<1>3. WantedForView'
    BY DEF LiveInv, WantedForView, Up, sessionVars
<1>4. ClosesCounted'
    <2>1. /\ Cardinality(asks) \in Nat /\ presses \in Nat /\ net.closing \in Nat /\ net'.closing \in Nat
          /\ net.closing + Cardinality(asks) <= 2 * presses + (IF mounted THEN 1 ELSE 2)
        BY FS_CardinalityType, SessionAssumption
        DEF LiveInv, AsksOK, SessionOK, NetOK, NetRecord, ClosesCounted
    <2>2. net'.closing + Cardinality(asks) <= 2 * presses + (IF mounted THEN 1 ELSE 2)
        BY <2>1
    <2> QED
        BY <2>2 DEF ClosesCounted, sessionVars
<1> QED
    BY <1>1, <1>2, <1>3, <1>4 DEF LiveInv

LEMMA LiveStart == LiveInit => LiveInv
<1> SUFFICES ASSUME LiveInit PROVE LiveInv
    OBVIOUS
<1> DEFINE mount == Ask("me", Nobody, "mount")
<1>1. /\ user = Nobody /\ ready = FALSE /\ pending = Nobody /\ mounted = FALSE /\ presses = 0
      /\ cookie \in {NoLogin} \cup {[who |-> u, signed |-> TRUE] : u \in Users}
      /\ net = Idle /\ heading = view
    BY DEF LiveInit, Init
<1>2. PICK to \in Private :
         \/ view \in {"home", "post"} /\ asks = {mount}
         \/ view = "boot" /\ asks = {mount} \cup {Ask("me", Nobody, to)}
    BY DEF LiveInit, Init, Private
<1>3. /\ mount \in AskRecord /\ mount.kind = "me" /\ mount.to = "mount"
      /\ Ask("me", Nobody, to) \in AskRecord /\ Ask("me", Nobody, to).kind = "me"
      /\ Ask("me", Nobody, to).to = to /\ to # "mount"
    BY DEF Ask, AskRecord, Someone, Private
<1>4. /\ IsFiniteSet({mount}) /\ Cardinality({mount}) \in Nat /\ Cardinality({mount}) <= 1
    <2>1. IsFiniteSet({}) /\ Cardinality({}) = 0 /\ {} \cup {mount} = {mount}
        BY FS_EmptySet
    <2>2. /\ IsFiniteSet({} \cup {mount}) /\ Cardinality({} \cup {mount}) \in Nat
          /\ Cardinality({} \cup {mount}) <= Cardinality({}) + 1
        BY <2>1, OneMore
    <2> QED
        BY <2>1, <2>2
<1>5. IsFiniteSet(asks) /\ Cardinality(asks) \in Nat /\ Cardinality(asks) <= 2
    <2> DEFINE other == Ask("me", Nobody, to)
    <2> HIDE DEF other, mount
    <2>1. /\ IsFiniteSet({mount} \cup {other}) /\ Cardinality({mount} \cup {other}) \in Nat
          /\ Cardinality({mount} \cup {other}) <= Cardinality({mount}) + 1
        BY <1>4, OneMore
    <2>2. asks = {mount} \/ asks = {mount} \cup {other}
        BY <1>2 DEF other
    <2> QED
        BY <1>4, <2>1, <2>2
<1> HIDE DEF mount
<1>6. SessionOK
    <2>1. cookie \in [who : Someone, signed : BOOLEAN]
        <3>1. CASE cookie = NoLogin
            BY <3>1 DEF NoLogin, Someone
        <3>2. CASE cookie \in {[who |-> u, signed |-> TRUE] : u \in Users}
            <4>1. PICK u \in Users : cookie = [who |-> u, signed |-> TRUE]
                BY <3>2
            <4> QED
                BY <4>1 DEF Someone
        <3> QED
            BY <1>1, <3>1, <3>2
    <2>2. 0 \in 0 .. MaxPresses
        BY SessionAssumption
    <2> QED
        BY <1>1, <1>2, <2>1, <2>2 DEF SessionOK, Someone, Public
<1>7. AsksOK
    <2>1. Probes = asks /\ asks \subseteq AskRecord
        BY <1>2, <1>3 DEF Probes
    <2> QED
        BY <1>1, <1>2, <1>3, <1>5, <2>1 DEF AsksOK
<1>8. NetOK(net) /\ net.closing = 0 /\ net.timers = 0 /\ net.wanted = FALSE /\ net.cleared = FALSE /\ ~Live(net)
    BY <1>1, FailuresAssumption DEF Idle, NetOK, NetRecord, Live
<1>9. Unmounted /\ SignedOutIsCut /\ WantedForView
    BY <1>1, <1>8 DEF Unmounted, SignedOutIsCut, WantedForView, Up
<1>10. ClosesCounted
    BY <1>1, <1>5, <1>8 DEF ClosesCounted
<1> QED
    BY <1>6, <1>7, <1>8, <1>9, <1>10 DEF LiveInv

LEMMA LiveStep == LiveInv /\ [Next]_liveVars => LiveInv'
<1> SUFFICES ASSUME LiveInv, [Next]_liveVars PROVE LiveInv'
    OBVIOUS
<1>0. /\ NetOK(net) /\ net \in NetRecord /\ net.orphans = 0
      /\ cookie \in [who : Someone, signed : BOOLEAN] /\ Nobody \in Someone
      /\ net.socket = "open" => net.subscribed = net.wanted
      /\ net.connected => net.socket = "open"
      /\ net.closing \in Nat /\ net.timers \in Nat
    BY DEF LiveInv, NetOK, NetRecord, SessionOK, Someone
<1>u. (Live(net) \/ net.timers > 0 \/ net.closing > 0) => mounted
    BY <1>0 DEF LiveInv, Unmounted
<1>1. CASE SessionStep
    BY <1>1, ReaderKeeps, BackendKeeps, AnswersKeep DEF SessionStep, InStep
<1>2. CASE SignOut
    <2>1. Press(Ask("logout", Nobody, "home")) /\ busy' = busy /\ net' = Cut(net)
        BY <1>2 DEF SignOut, DoLogout
    <2>2. /\ SessionOK' /\ AsksOK' /\ UNCHANGED <<user, view, heading, mounted>> /\ mounted
          /\ presses' = presses + 1 /\ presses \in Nat
          /\ Cardinality(asks) \in Nat /\ Cardinality(asks') \in Nat
          /\ Cardinality(asks') <= Cardinality(asks) + 1
        <3> HIDE DEF SessionOK, AsksOK
        <3>1. "logout" \in {"login", "verify", "logout", "delete"} /\ busy' \in {busy, TRUE}
            BY <2>1
        <3>2. Nobody \in Someone /\ Press(Ask("logout", Nobody, "home"))
            BY <1>0, <2>1
        <3> QED
            BY <3>1, <3>2, PressAsks
    <2>3. /\ NetOK(Cut(net)) /\ ~Live(Cut(net)) /\ ~Cut(net).wanted /\ Cut(net).cleared
          /\ Cut(net).closing = net.closing + (IF Live(net) THEN 1 ELSE 0)
        BY <1>0, StoreCuts
    <2>4. NetOK(net)' /\ SignedOutIsCut' /\ Unmounted'
        BY <2>1, <2>2, <2>3 DEF NetOK, SignedOutIsCut, Unmounted, Live
    <2>6. WantedForView'
        <3>1. net'.wanted = FALSE /\ net'.cleared = TRUE
            BY <2>1, <2>3 DEF NetOK, NetRecord
        <3> QED
            BY <3>1 DEF WantedForView
    <2>5. ClosesCounted'
        <3>1. net.closing + Cardinality(asks) <= 2 * presses + 1
            BY <2>2 DEF LiveInv, ClosesCounted
        <3>2. net'.closing <= net.closing + 1 /\ net'.closing \in Nat
            BY <1>0, <2>1, <2>3
        <3>3. net'.closing + Cardinality(asks') <= 2 * presses' + 1
            BY <1>0, <2>2, <3>1, <3>2
        <3> QED
            BY <2>2, <3>3 DEF ClosesCounted
    <2> QED
        BY <2>2, <2>4, <2>5, <2>6 DEF LiveInv
<1>3. CASE HandshakeEnds
    <2>0. mounted /\ UNCHANGED sessionVars /\ net.socket = "connecting"
        BY <1>3, <1>u DEF HandshakeEnds, Live
    <2>1. CASE net' = [net EXCEPT !.socket = "open", !.subscribed = net.wanted, !.connected = TRUE,
                                  !.failures = 0]
        <3>1. 0 \in 0 .. MaxFailures /\ net.wanted \in BOOLEAN
            BY <1>0, FailuresAssumption DEF NetRecord
        <3>2. /\ net' \in NetRecord /\ net'.socket = "open" /\ net'.subscribed = net.wanted
              /\ net'.orphans = net.orphans /\ net'.wanted = net.wanted /\ net'.closing = net.closing
              /\ net'.cleared = net.cleared
            BY <1>0, <2>1, <3>1 DEF NetRecord
        <3>3. NetOK(net)' /\ Live(net)
            BY <1>0, <2>0, <3>2 DEF NetOK, Live
        <3> QED
            BY <1>0, <2>0, <3>2, <3>3, SocketKeeps
    <2>2. CASE net' = Closed([net EXCEPT !.socket = "closed"], user)
        <3> DEFINE m == [net EXCEPT !.socket = "closed"]
        <3>1. /\ m \in NetRecord /\ m.orphans = 0 /\ m.socket = "closed" /\ m.wanted = net.wanted
              /\ m.closing = net.closing /\ m.cleared = net.cleared
            BY <1>0 DEF NetRecord
        <3> HIDE DEF m
        <3>2. net' = Closed(m, user)
            BY <2>2 DEF m
        <3>3. /\ NetOK(net') /\ net'.socket = m.socket /\ net'.wanted = m.wanted
              /\ net'.closing = m.closing /\ net'.cleared = m.cleared
            BY <3>1, <3>2, StoreCloses
        <3> QED
            BY <1>0, <2>0, <3>1, <3>3, SocketKeeps DEF NetOK, Live
    <2> QED
        BY <1>3, <2>1, <2>2 DEF HandshakeEnds
<1>4. CASE Drops
    <2> DEFINE m == [net EXCEPT !.socket = "closed", !.subscribed = FALSE]
    <2>0. mounted /\ UNCHANGED sessionVars /\ net' = Closed(m, user)
        BY <1>4, <1>u DEF Drops, Live
    <2>1. /\ m \in NetRecord /\ m.orphans = 0 /\ m.socket = "closed" /\ m.wanted = net.wanted
          /\ m.closing = net.closing /\ m.cleared = net.cleared
        BY <1>0 DEF NetRecord
    <2> HIDE DEF m
    <2>2. /\ NetOK(net') /\ net'.socket = m.socket /\ net'.wanted = m.wanted
          /\ net'.closing = m.closing /\ net'.cleared = m.cleared
        BY <2>0, <2>1, StoreCloses
    <2> QED
        BY <1>0, <2>0, <2>1, <2>2, SocketKeeps DEF NetOK, Live
<1>5. CASE OldCloses
    <2> DEFINE m == [net EXCEPT !.closing = net.closing - 1]
    <2>0. mounted /\ UNCHANGED sessionVars /\ net' = Closed(m, user) /\ net.closing > 0
        BY <1>5, <1>u DEF OldCloses
    <2>a. net.closing - 1 \in Nat
        BY <1>0, <2>0
    <2>1. /\ m \in NetRecord /\ m.orphans = 0 /\ m.socket = net.socket /\ m.wanted = net.wanted
          /\ m.subscribed = net.subscribed /\ m.closing = net.closing - 1 /\ m.cleared = net.cleared
        BY <1>0, <2>a DEF NetRecord
    <2> HIDE DEF m
    <2>2. /\ NetOK(net') /\ net'.socket = m.socket /\ net'.wanted = m.wanted
          /\ net'.closing = m.closing /\ net'.cleared = m.cleared
        BY <1>0, <2>0, <2>1, StoreCloses
    <2>3. net'.closing <= net.closing
        BY <1>0, <2>1, <2>2
    <2> QED
        BY <1>0, <2>0, <2>1, <2>2, <2>3, SocketKeeps DEF NetOK, Live
<1>6. CASE TimerFires
    <2> DEFINE m == [net EXCEPT !.timers = net.timers - 1]
    <2>0. mounted /\ UNCHANGED sessionVars /\ net' = Connected(m, user) /\ net.timers > 0
        BY <1>6, <1>u DEF TimerFires
    <2>a. net.timers - 1 \in Nat
        BY <1>0, <2>0
    <2>1. /\ m \in NetRecord /\ m.orphans = 0 /\ m.socket = net.socket /\ m.wanted = net.wanted
          /\ m.subscribed = net.subscribed /\ m.closing = net.closing /\ m.connected = net.connected
          /\ m.cleared = net.cleared
        BY <1>0, <2>a DEF NetRecord
    <2> HIDE DEF m
    <2>2. NetOK(m)
        BY <1>0, <2>1 DEF NetOK
    <2>3. /\ NetOK(net') /\ net'.wanted = m.wanted /\ net'.closing = m.closing /\ net'.cleared = m.cleared
          /\ Live(net') => Live(m) \/ user # Nobody
        BY <2>0, <2>2, StoreConnects
    <2> QED
        BY <1>0, <2>0, <2>1, <2>3, SocketKeeps DEF NetOK, Live
<1>7. CASE UNCHANGED liveVars
    <2>1. UNCHANGED sessionVars /\ net' = net
        BY <1>7 DEF liveVars
    <2> QED
        BY <1>0, <2>1
        DEF LiveInv, SessionOK, AsksOK, Probes, NetOK, Unmounted, SignedOutIsCut, WantedForView, Up,
            ClosesCounted, sessionVars, Live
<1> QED
    BY <1>1, <1>2, <1>3, <1>4, <1>5, <1>6, <1>7 DEF Next

LEMMA LiveInvariant == Spec => []LiveInv
BY LiveStart, LiveStep, PTL DEF Spec

(* SocketFollowsPage (messages.ts, App.vue): one socket, the subscription of *)
(* the post on screen, and none for nobody, whichever watcher, view, timer,  *)
(* close event or answer comes in between.                                   *)
THEOREM SocketAlwaysFollowsPage == Spec => []SocketFollowsPage
<1>1. LiveInv => SocketFollowsPage
    <2> SUFFICES ASSUME LiveInv PROVE SocketFollowsPage
        OBVIOUS
    <2>1. /\ NetOK(net) /\ SessionOK /\ AsksOK /\ ClosesCounted /\ SignedOutIsCut /\ WantedForView
          /\ Unmounted
        BY DEF LiveInv
    <2>2. net.closing \in 0 .. 2 * MaxPresses + 1
        <3>1. /\ Cardinality(asks) \in Nat /\ net.closing \in Nat
              /\ presses \in 0 .. MaxPresses /\ MaxPresses \in Nat /\ mounted \in BOOLEAN
            BY <2>1, FS_CardinalityType, SessionAssumption DEF AsksOK, NetOK, NetRecord, SessionOK
        <3>2. ~mounted => net.closing = 0
            BY <2>1 DEF Unmounted
        <3>3. mounted => net.closing + Cardinality(asks) <= 2 * presses + 1
            BY <2>1 DEF ClosesCounted
        <3> QED
            BY <3>1, <3>2, <3>3
    <2>3. SessionTypeOK
        <3>1. heading = "boot" => \E r \in asks : r.kind = "me" /\ r.to \in Private
            BY <2>1 DEF AsksOK, Probes
        <3> QED
            BY <2>1, <3>1 DEF SessionTypeOK, SessionOK, Someone
    <2>4. TypeOK /\ NoOrphanSocket
        BY <2>1, <2>2, <2>3 DEF TypeOK, NoOrphanSocket, NetOK, NetRecord
    <2>5. PostOnScreenSubscribed
        BY <2>1 DEF PostOnScreenSubscribed, NetOK, WantedForView
    <2> QED
        BY <2>1, <2>4, <2>5 DEF SocketFollowsPage
<1> QED
    BY <1>1, LiveInvariant, PTL

-----------------------------------------------------------------------------
(* Who leaves a private view, and when.                                     *)
StaysPublic ==
    heading' \in Private /\ user' = Nobody =>
        (heading \in Private /\ user = Nobody) \/ \E r \in asks \ asks' : r.kind = "me"

LEMMA PublicIsNotPrivate == \A v \in Public \cup {"verify"} : v \notin Private
BY DEF Public, Private

LEMMA AnswersStayPublic ==
    ASSUME LiveInv, NEW r \in asks,
           \/ LandMe(r) \/ LandLogin(r) \/ LandPending(r) \/ LandCode(r)
           \/ LandLogout(r) \/ LandDelete(r) \/ LandRefusal(r)
    PROVE StaysPublic
<1>1. r.kind # "me" => r.to = "home"
    BY DEF LiveInv, AsksOK
<1>2. "home" \notin Private /\ "verify" \notin Private
    BY DEF Private
<1>3. CASE LandMe(r)
    <2>1. r \in asks \ asks' /\ r.kind = "me"
        BY <1>3 DEF LandMe, Answered
    <2> QED
        BY <2>1 DEF StaysPublic
<1>4. CASE LandLogin(r) \/ LandCode(r) \/ LandLogout(r) \/ LandDelete(r)
    <2>1. r.kind # "me" /\ heading' = r.to
        BY <1>4 DEF LandLogin, LandCode, LandLogout, LandDelete, Push
    <2> QED
        BY <1>1, <1>2, <2>1 DEF StaysPublic
<1>5. CASE LandPending(r)
    BY <1>2, <1>5 DEF LandPending, Push, StaysPublic
<1>6. CASE LandRefusal(r)
    BY <1>6 DEF LandRefusal, StaysPublic
<1> QED
    BY <1>3, <1>4, <1>5, <1>6

LEMMA StepsStayPublic == LiveInv /\ [Next]_liveVars => StaysPublic
<1> SUFFICES ASSUME LiveInv, [Next]_liveVars PROVE StaysPublic
    OBVIOUS
<1>1. CASE Answers
    BY <1>1, AnswersStayPublic DEF Answers
<1>2. ASSUME NEW to \in Public \cup Private \cup {"verify"}, Go(to) PROVE StaysPublic
    <2>1. user' = user /\ (heading' = "login" \/ heading' = Guarded(to, user))
        BY <1>2 DEF Go, Settled
    <2>2. user = Nobody => heading' \notin Private
        BY <2>1 DEF Guarded, Private
    <2> QED
        BY <2>1, <2>2 DEF StaysPublic
<1>3. CASE heading' = heading /\ user' = user
    BY <1>3 DEF StaysPublic
<1>4. (Backend \/ SignOut \/ HandshakeEnds \/ Drops \/ OldCloses \/ TimerFires \/ UNCHANGED liveVars)
          => heading' = heading /\ user' = user
    BY DEF Backend, RevokedElsewhere, ServeMe, ServeLogin, ServeCode, ServeLogout, ServeDelete, Serve,
           SignOut, DoLogout, Press, HandshakeEnds, Drops, OldCloses, TimerFires, sessionVars, liveVars
<1>5. ((\E u \in Users : SubmitLogin(u)) \/ SubmitCode \/ DoDelete) => heading' = heading /\ user' = user
    BY DEF SubmitLogin, SubmitCode, DoDelete, Press
<1>6. CASE Arrive
    <2>1. user' = user /\ heading' \in {heading, "login"}
        BY <1>6 DEF Arrive, Settled
    <2> QED
        BY <2>1 DEF StaysPublic, Private
<1> QED
    BY <1>1, <1>2, <1>3, <1>4, <1>5, <1>6 DEF Next, SessionStep, InStep, Reader

(* PrivateNeedsUser (router/index.ts, auth.ts): nothing heads for a private  *)
(* view without a user, whichever request, of the view or of the guard,      *)
(* lands last, and whatever navigation is under way.                         *)
THEOREM PrivateViewsNeedAUser == Spec => PrivateNeedsUser
<1>1. LiveInv /\ [Next]_liveVars =>
          [heading' \in Private /\ user' = Nobody =>
              (heading \in Private /\ user = Nobody) \/ \E r \in asks \ asks' : r.kind = "me"]_sessionVars
    BY StepsStayPublic DEF StaysPublic
<1> QED
    BY <1>1, LiveInvariant, PTL DEF Spec, PrivateNeedsUser

=============================================================================
