----------------------------- MODULE MessageHub -----------------------------
(***************************************************************************)
(* The WebSocket hub of one process (controllers/MessageWebSocket.cc).     *)
(*                                                                         *)
(* Three indexes under one mutex say which connections a user has, which   *)
(* session opened them, and which posts they follow.  The handlers of a    *)
(* connection run on its IO loop and several loops run at once; a          *)
(* revocation comes from any thread, marks the sid first and hangs up the  *)
(* sockets it finds afterwards.                                            *)
(***************************************************************************)
EXTENDS Integers, FiniteSets

CONSTANTS
    Conns, Users, Sids, Posts, None,
    OwnerOf,        \* the user of a session
    LoopOf,         \* the IO loop of a connection
    MaxPerUser,     \* kMaxConnectionsPerUser
    MaxPerSession,  \* kMaxConnectionsPerSession
    MaxPosts        \* kMaxSubscribedPostsPerConn

ASSUME HubAssumption ==
    /\ None \notin Sids \cup Users
    /\ OwnerOf \in [Sids -> Users]
    /\ {MaxPerUser, MaxPerSession, MaxPosts} \subseteq Nat \ {0}

VARIABLES
    conn,      \* the context and the life of each connection
    subs,      \* ctx->subscribedPosts
    byUser, bySid, byPost,
    shown,     \* users marked online (presence)
    revoked,   \* g_revoked
    hangups,   \* sids marked whose observer has not run yet
    draining   \* shutdownAll has run

indexes == <<byUser, bySid, byPost>>
vars == <<conn, subs, indexes, shown, revoked, hangups, draining>>

(* "session" is the one that opened the socket, "sid" what the handshake    *)
(* could read of it, "late" whether it was revoked before registration.     *)
NoConn == [st |-> "none", session |-> None, sid |-> None, shut |-> FALSE,
           late |-> FALSE]

Handshaking == {"admitted", "registered"}
Leaving == {"unregistered", "leaving"}
States == {"none", "open", "rejected"} \cup Handshaking \cup Leaving

User(c) == OwnerOf[conn[c].session]

Init ==
    /\ conn = [c \in Conns |-> NoConn]
    /\ subs = [c \in Conns |-> {}]
    /\ byUser = [u \in Users |-> {}]
    /\ bySid = [s \in Sids |-> {}]
    /\ byPost = [p \in Posts |-> {}]
    /\ shown = {} /\ revoked = {} /\ hangups = {} /\ draining = FALSE

(* A loop finishes one callback before it starts another.                   *)
LoopFree(c) ==
    \A d \in Conns \ {c} :
        LoopOf[d] = LoopOf[c] => conn[d].st \notin Handshaking \cup Leaving

-----------------------------------------------------------------------------
(* handleNewConnection: the request has passed the revocation advice.  The  *)
(* sid may not be published yet if the sign-in is still in sessions::begin. *)
Handshake(c, s, sid) ==
    /\ LoopFree(c)
    /\ conn[c].st = "none"
    /\ s \notin revoked
    /\ conn' = [conn EXCEPT ![c] = [NoConn EXCEPT !.st = "admitted",
                                                  !.session = s, !.sid = sid]]
    /\ UNCHANGED <<subs, indexes, shown, revoked, hangups, draining>>

(* Mutant: the limit is off by one.                                         *)
HasRoomForOneMore(c) == Cardinality(byUser[User(c)]) <= MaxPerUser

(* registerConnection: both limits are checked under the lock that inserts. *)
HasRoom(c) ==
    /\ Cardinality(byUser[User(c)]) < MaxPerUser
    /\ conn[c].sid # None => Cardinality(bySid[conn[c].sid]) < MaxPerSession

Enter(c) ==
    /\ byUser' = [byUser EXCEPT ![User(c)] = @ \cup {c}]
    /\ bySid' = [s \in Sids |-> IF s = conn[c].sid THEN bySid[s] \cup {c} ELSE bySid[s]]
    /\ conn' = [conn EXCEPT ![c].st = "registered",
                            ![c].late = conn[c].session \in revoked]

Register(c) ==
    /\ conn[c].st = "admitted"
    /\ \/ HasRoom(c) /\ Enter(c)
       \/ /\ ~HasRoom(c)
          /\ conn' = [conn EXCEPT ![c].st = "rejected", ![c].shut = TRUE]
          /\ UNCHANGED <<byUser, bySid>>
    /\ UNCHANGED <<subs, byPost, shown, revoked, hangups, draining>>

MarkOnline(c) ==
    /\ conn[c].st = "registered"
    /\ shown' = shown \cup {User(c)}
    /\ conn' = [conn EXCEPT ![c].st = "open"]
    /\ UNCHANGED <<subs, indexes, revoked, hangups, draining>>

-----------------------------------------------------------------------------
(* handleNewMessage.  A rejected connection has a context too, and its      *)
(* frames are handled until it is closed.                                   *)
Talking(c) == LoopFree(c) /\ conn[c].st \in {"open", "rejected"}

Subscribe(c, p) ==
    /\ Talking(c)
    /\ Cardinality(subs[c]) < MaxPosts
    /\ p \notin subs[c]
    /\ subs' = [subs EXCEPT ![c] = @ \cup {p}]
    /\ byPost' = [byPost EXCEPT ![p] = @ \cup {c}]
    /\ UNCHANGED <<conn, byUser, bySid, shown, revoked, hangups, draining>>

Unsubscribe(c, p) ==
    /\ Talking(c)
    /\ p \in subs[c]
    /\ subs' = [subs EXCEPT ![c] = @ \ {p}]
    /\ byPost' = [byPost EXCEPT ![p] = @ \ {c}]
    /\ UNCHANGED <<conn, byUser, bySid, shown, revoked, hangups, draining>>

(* A frame that is binary, too long or over the message budget.             *)
PolicyClose(c) ==
    /\ Talking(c)
    /\ conn' = [conn EXCEPT ![c].shut = TRUE]
    /\ UNCHANGED <<subs, indexes, shown, revoked, hangups, draining>>

-----------------------------------------------------------------------------
(* handleConnectionClosed: the peer left, or a shutdown completed.          *)

(* Mutant: the posts a connection follows are forgotten, not left.          *)
UnregisterKeepsPosts(c) ==
    /\ Talking(c)
    /\ byUser' = [byUser EXCEPT ![User(c)] = @ \ {c}]
    /\ bySid' = [s \in Sids |-> bySid[s] \ {c}]
    /\ subs' = [subs EXCEPT ![c] = {}]
    /\ conn' = [conn EXCEPT ![c].st = "unregistered"]
    /\ UNCHANGED <<byPost, shown, revoked, hangups, draining>>

Unregister(c) ==
    /\ Talking(c)
    /\ byUser' = [byUser EXCEPT ![User(c)] = @ \ {c}]
    /\ bySid' = [s \in Sids |-> bySid[s] \ {c}]
    /\ byPost' = [p \in Posts |-> IF p \in subs[c] THEN byPost[p] \ {c} ELSE byPost[p]]
    /\ subs' = [subs EXCEPT ![c] = {}]
    /\ conn' = [conn EXCEPT ![c].st = "unregistered"]
    /\ UNCHANGED <<shown, revoked, hangups, draining>>

(* stillLocallyOnline takes the lock again, ...                             *)
CheckLast(c) ==
    /\ conn[c].st = "unregistered"
    /\ conn' = [conn EXCEPT ![c] = IF byUser[User(c)] = {}
                                   THEN [@ EXCEPT !.st = "leaving"] ELSE NoConn]
    /\ UNCHANGED <<subs, indexes, shown, revoked, hangups, draining>>

(* ... and markOffline runs with none.                                      *)
MarkOffline(c) ==
    /\ conn[c].st = "leaving"
    /\ shown' = shown \ {User(c)}
    /\ conn' = [conn EXCEPT ![c] = NoConn]
    /\ UNCHANGED <<subs, indexes, revoked, hangups, draining>>

-----------------------------------------------------------------------------
(* Mutant: the observer is told of a sid that is not marked.                *)
RevokeUnmarked(s) ==
    /\ s \notin revoked
    /\ hangups' = hangups \cup {s}
    /\ UNCHANGED <<conn, subs, indexes, shown, revoked, draining>>

(* markRevokedLocally: the sid is marked once, then the observer runs.      *)
Revoke(s) ==
    /\ s \notin revoked
    /\ revoked' = revoked \cup {s}
    /\ hangups' = hangups \cup {s}
    /\ UNCHANGED <<conn, subs, indexes, shown, draining>>

(* Mutant: one socket per session is hung up.                               *)
CloseOneForSession(s) ==
    /\ s \in hangups
    /\ hangups' = hangups \ {s}
    /\ \/ bySid[s] = {} /\ conn' = conn
       \/ \E c \in bySid[s] : conn' = [conn EXCEPT ![c].shut = TRUE]
    /\ UNCHANGED <<subs, indexes, shown, revoked, draining>>

(* closeForSession.                                                         *)
CloseForSession(s) ==
    /\ s \in hangups
    /\ hangups' = hangups \ {s}
    /\ conn' = [c \in Conns |-> IF c \in bySid[s] THEN [conn[c] EXCEPT !.shut = TRUE]
                                ELSE conn[c]]
    /\ UNCHANGED <<subs, indexes, shown, revoked, draining>>

ShutdownAll ==
    /\ ~draining
    /\ draining' = TRUE
    /\ conn' = [c \in Conns |-> IF \E u \in Users : c \in byUser[u]
                                THEN [conn[c] EXCEPT !.shut = TRUE] ELSE conn[c]]
    /\ byUser' = [u \in Users |-> {}]
    /\ bySid' = [s \in Sids |-> {}]
    /\ byPost' = [p \in Posts |-> {}]
    /\ UNCHANGED <<subs, shown, revoked, hangups>>

Serve(c) ==
    \/ \E s \in Sids, sid \in Sids \cup {None} : sid \in {s, None} /\ Handshake(c, s, sid)
    \/ Register(c) \/ MarkOnline(c)
    \/ (\E p \in Posts : Subscribe(c, p) \/ Unsubscribe(c, p)) \/ PolicyClose(c)
    \/ Unregister(c) \/ CheckLast(c) \/ MarkOffline(c)

Next ==
    \/ \E c \in Conns : Serve(c)
    \/ \E s \in Sids : Revoke(s) \/ CloseForSession(s)
    \/ ShutdownAll

Spec == Init /\ [][Next]_vars

-----------------------------------------------------------------------------
(* The types; and (MessageWebSocket.cc:52-58) neither a session nor a user  *)
(* holds more sockets than its limit, however handshakes meet.              *)
TypeOK ==
    /\ conn \in [Conns -> [st : States, session : Sids \cup {None},
                           sid : Sids \cup {None}, shut : BOOLEAN, late : BOOLEAN]]
    /\ subs \in [Conns -> SUBSET Posts]
    /\ byUser \in [Users -> SUBSET Conns]
    /\ bySid \in [Sids -> SUBSET Conns]
    /\ byPost \in [Posts -> SUBSET Conns]
    /\ shown \subseteq Users /\ revoked \subseteq Sids /\ hangups \subseteq revoked
    /\ draining \in BOOLEAN
    /\ \A u \in Users : Cardinality(byUser[u]) <= MaxPerUser
    /\ \A s \in Sids : Cardinality(bySid[s]) <= MaxPerSession

(* The three indexes and the contexts agree: what keeps a connection alive  *)
(* is a connection, and a connection that has gone is kept by nothing.      *)
Held == {"registered", "open"}
IndexesAgree ==
    \A c \in Conns :
        /\ \A u \in Users : c \in byUser[u] => conn[c].st \in Held /\ User(c) = u
        /\ \A s \in Sids : c \in bySid[s] => conn[c].sid = s /\ c \in byUser[User(c)]
        /\ \A p \in Posts : c \in byPost[p] => p \in subs[c]
        /\ conn[c].st \notin {"open", "rejected"} => subs[c] = {}
        /\ ~draining /\ conn[c].st \in Held =>
              /\ c \in byUser[User(c)]
              /\ conn[c].sid # None => c \in bySid[conn[c].sid]
        /\ ~draining => \A p \in subs[c] : c \in byPost[p]

(* MessageWebSocket.cc:49-51: a socket registered before its session was    *)
(* revoked is hung up, every one of them.                                   *)
RevokedSocketIsCut ==
    \A c \in Conns :
        /\ conn[c].st \in Held /\ conn[c].sid \in revoked
        /\ ~conn[c].late /\ ~draining
        => conn[c].shut \/ conn[c].sid \in hangups

(* MessageWebSocket.cc:380-382: when no callback is running, the users      *)
(* shown online are those with a connection.                                *)
Quiet == \A c \in Conns : conn[c].st \notin Handshaking \cup Leaving
OnlineWhileConnected ==
    Quiet /\ ~draining => shown = {u \in Users : byUser[u] # {}}

-----------------------------------------------------------------------------
(* main.cc:347: "A revoked session must lose its WebSocket, not just its    *)
(* next request", whenever the socket was opened.                           *)
RevokedSessionLosesItsSocket ==
    \A c \in Conns :
        conn[c].st \in Held /\ conn[c].session \in revoked /\ ~draining =>
            conn[c].shut \/ conn[c].session \in hangups

=============================================================================
