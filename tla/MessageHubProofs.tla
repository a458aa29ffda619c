-------------------------- MODULE MessageHubProofs --------------------------
(***************************************************************************)
(* What MessageHub promises for any connections, sessions, users, posts,   *)
(* loops and limits; and the types of Presence, which the hub tells who    *)
(* came and went, for any pods.                                            *)
(***************************************************************************)
EXTENDS MessageHub, Sequences, FiniteSetTheorems, TLAPS

(* A connection was opened by a session, of which the handshake read the    *)
(* sid or nothing.                                                          *)
WellOpened(q) ==
    IF q.st = "none" THEN q.sid = None
    ELSE q.session \in Sids /\ q.sid \in {q.session, None}

OpenedBySession == \A c \in Conns : WellOpened(conn[c])

(* The limits count, so what they count is finite, whatever Conns is.       *)
FiniteIndexes ==
    /\ \A u \in Users : IsFiniteSet(byUser[u])
    /\ \A s \in Sids : IsFiniteSet(bySid[s])

ConnRecord == [st : States, session : Sids \cup {None}, sid : Sids \cup {None},
               shut : BOOLEAN, late : BOOLEAN]

HubInv ==
    /\ TypeOK /\ OpenedBySession /\ FiniteIndexes
    /\ IndexesAgree /\ RevokedSocketIsCut

USE HubAssumption

-----------------------------------------------------------------------------
LEMMA LimitsAreNumbers ==
    MaxPerUser \in Nat /\ MaxPerSession \in Nat /\ MaxPosts \in Nat
OBVIOUS

LEMMA HubStarts == Init => HubInv
<1> SUFFICES ASSUME Init PROVE HubInv
    OBVIOUS
<1>1. IsFiniteSet({}) /\ Cardinality({}) = 0
    BY FS_EmptySet
<1>2. TypeOK
    <2>1. NoConn \in ConnRecord
        BY DEF NoConn, ConnRecord, States, Handshaking, Leaving
    <2>2. conn \in [Conns -> ConnRecord]
        BY <2>1 DEF Init
    <2>3. /\ \A u \in Users : Cardinality(byUser[u]) <= MaxPerUser
          /\ \A s \in Sids : Cardinality(bySid[s]) <= MaxPerSession
        BY <1>1, LimitsAreNumbers DEF Init
    <2> QED
        BY <2>2, <2>3 DEF Init, TypeOK, ConnRecord
<1>3. OpenedBySession /\ FiniteIndexes
    BY <1>1 DEF Init, OpenedBySession, WellOpened, FiniteIndexes, NoConn
<1>4. IndexesAgree /\ RevokedSocketIsCut
    BY DEF Init, IndexesAgree, RevokedSocketIsCut, NoConn, Held
<1> QED
    BY <1>2, <1>3, <1>4 DEF HubInv

(* An index that gained at most one connection while it had room, or lost   *)
(* some, is finite and within its limit.                                    *)
LEMMA OneMoreFits ==
    ASSUME NEW S, NEW x, NEW max \in Nat, IsFiniteSet(S), Cardinality(S) < max
    PROVE IsFiniteSet(S \cup {x}) /\ Cardinality(S \cup {x}) <= max
<1>1. Cardinality(S) \in Nat
    BY FS_CardinalityType
<1>2. /\ IsFiniteSet(S \cup {x})
      /\ Cardinality(S \cup {x}) \in {Cardinality(S), Cardinality(S) + 1}
    BY FS_AddElement
<1> QED
    BY <1>1, <1>2

LEMMA OneFewerFits ==
    ASSUME NEW S, NEW x, NEW max \in Nat, IsFiniteSet(S), Cardinality(S) <= max
    PROVE IsFiniteSet(S \ {x}) /\ Cardinality(S \ {x}) <= max
<1>1. Cardinality(S) \in Nat
    BY FS_CardinalityType
<1>2. /\ IsFiniteSet(S \ {x})
      /\ Cardinality(S \ {x}) \in {Cardinality(S), Cardinality(S) - 1}
    BY FS_RemoveElement
<1> QED
    BY <1>1, <1>2

(* A context keeps its type, and who opened it, whichever other fields move. *)
LEMMA FieldsMove ==
    ASSUME NEW q \in ConnRecord, NEW x \in States, NEW b \in BOOLEAN
    PROVE /\ [q EXCEPT !.st = x] \in ConnRecord
          /\ [q EXCEPT !.shut = b] \in ConnRecord
          /\ [q EXCEPT !.st = x, !.late = b] \in ConnRecord
          /\ WellOpened(q) => WellOpened([q EXCEPT !.shut = b])
          /\ WellOpened(q) /\ q.st # "none" /\ x # "none" =>
                /\ WellOpened([q EXCEPT !.st = x])
                /\ WellOpened([q EXCEPT !.st = x, !.late = b])
BY DEF ConnRecord, WellOpened

-----------------------------------------------------------------------------
(* What an assignment to the context of one connection leaves, ...          *)
LEMMA OneChanges ==
    ASSUME HubInv, NEW c \in Conns, NEW q \in ConnRecord, WellOpened(q),
           conn' = [conn EXCEPT ![c] = q]
    PROVE /\ conn' \in [Conns -> ConnRecord] /\ OpenedBySession'
          /\ conn'[c] = q
          /\ \A d \in Conns \ {c} : conn'[d] = conn[d]
BY DEF HubInv, TypeOK, ConnRecord, OpenedBySession, WellOpened

(* ... and what hanging up several leaves.                                  *)
LEMMA SomeAreShut ==
    ASSUME HubInv, NEW S,
           conn' = [c \in Conns |-> IF c \in S THEN [conn[c] EXCEPT !.shut = TRUE] ELSE conn[c]]
    PROVE /\ conn' \in [Conns -> ConnRecord] /\ OpenedBySession'
          /\ \A c \in Conns :
                /\ conn'[c].st = conn[c].st /\ conn'[c].session = conn[c].session
                /\ conn'[c].sid = conn[c].sid /\ conn'[c].late = conn[c].late
                /\ conn'[c].shut = (c \in S \/ conn[c].shut)
<1>1. conn \in [Conns -> ConnRecord]
    BY DEF HubInv, TypeOK, ConnRecord
<1>2. ASSUME NEW c \in Conns
      PROVE /\ conn'[c] \in ConnRecord
            /\ conn'[c].st = conn[c].st /\ conn'[c].session = conn[c].session
            /\ conn'[c].sid = conn[c].sid /\ conn'[c].late = conn[c].late
            /\ conn'[c].shut = (c \in S \/ conn[c].shut)
    <2> DEFINE q == conn[c]
    <2>1. q \in ConnRecord /\ conn'[c] = IF c \in S THEN [q EXCEPT !.shut = TRUE] ELSE q
        BY <1>1
    <2> HIDE DEF q
    <2>2. /\ conn'[c] \in ConnRecord /\ conn'[c].st = q.st
          /\ conn'[c].session = q.session /\ conn'[c].sid = q.sid
          /\ conn'[c].late = q.late /\ conn'[c].shut = (c \in S \/ q.shut)
        BY <2>1 DEF ConnRecord
    <2> QED
        BY <2>2 DEF q
<1>3. conn' \in [Conns -> ConnRecord]
    BY <1>2
<1>4. OpenedBySession'
    BY <1>2 DEF HubInv, OpenedBySession, WellOpened
<1> QED
    BY <1>2, <1>3, <1>4

-----------------------------------------------------------------------------
(* Types, limits, and who opened a connection, kept by every step.          *)
Shape ==
    /\ conn \in [Conns -> ConnRecord]
    /\ subs \in [Conns -> SUBSET Posts]
    /\ byUser \in [Users -> SUBSET Conns]
    /\ bySid \in [Sids -> SUBSET Conns]
    /\ byPost \in [Posts -> SUBSET Conns]
    /\ shown \subseteq Users /\ revoked \subseteq Sids /\ hangups \subseteq revoked
    /\ draining \in BOOLEAN

Limits ==
    /\ \A u \in Users : IsFiniteSet(byUser[u]) /\ Cardinality(byUser[u]) <= MaxPerUser
    /\ \A s \in Sids : IsFiniteSet(bySid[s]) /\ Cardinality(bySid[s]) <= MaxPerSession

LEMMA HubTypes == TypeOK /\ FiniteIndexes <=> Shape /\ Limits
BY DEF TypeOK, FiniteIndexes, Shape, Limits, ConnRecord

LEMMA UserIsOne ==
    ASSUME HubInv, NEW c \in Conns, conn[c].st # "none"
    PROVE User(c) \in Users
BY DEF HubInv, OpenedBySession, WellOpened, User

LEMMA HubTypesKept ==
    HubInv /\ [Next]_vars => TypeOK' /\ OpenedBySession' /\ FiniteIndexes'
<1> SUFFICES ASSUME HubInv, [Next]_vars
             PROVE Shape' /\ Limits' /\ OpenedBySession'
    BY HubTypes, PTL
<1>0. Shape /\ Limits /\ OpenedBySession
    BY HubTypes DEF HubInv
<1>a. ASSUME UNCHANGED <<byUser, bySid>> PROVE Limits'
    BY <1>0, <1>a DEF Limits
<1>b. ASSUME UNCHANGED conn PROVE conn' \in [Conns -> ConnRecord] /\ OpenedBySession'
    BY <1>0, <1>b DEF Shape, OpenedBySession
<1>1. ASSUME NEW c \in Conns, NEW s \in Sids, NEW sid \in Sids \cup {None},
             sid \in {s, None}, Handshake(c, s, sid)
      PROVE Shape' /\ Limits' /\ OpenedBySession'
    <2> DEFINE q == [NoConn EXCEPT !.st = "admitted", !.session = s, !.sid = sid]
    <2>1. q \in ConnRecord /\ WellOpened(q)
        BY <1>1 DEF NoConn, ConnRecord, WellOpened, States, Handshaking, Leaving
    <2>2. conn' \in [Conns -> ConnRecord] /\ OpenedBySession'
        BY <1>1, <2>1, OneChanges DEF Handshake
    <2> QED
        BY <1>0, <1>1, <1>a, <2>2 DEF Handshake, Shape, indexes
<1>2. ASSUME NEW c \in Conns, Register(c)
      PROVE Shape' /\ Limits' /\ OpenedBySession'
    <2>0. conn[c] \in ConnRecord /\ WellOpened(conn[c]) /\ conn[c].st # "none"
        BY <1>0, <1>2 DEF Shape, OpenedBySession, WellOpened, Register
    <2>1. CASE HasRoom(c) /\ Enter(c)
        <3> DEFINE q == [conn[c] EXCEPT !.st = "registered",
                                        !.late = conn[c].session \in revoked]
        <3>1. q \in ConnRecord /\ WellOpened(q)
            <4>1. "registered" \in States /\ (conn[c].session \in revoked) \in BOOLEAN
                BY DEF States, Handshaking
            <4> QED
                BY <2>0, <4>1, FieldsMove
        <3>2. conn' \in [Conns -> ConnRecord] /\ OpenedBySession'
            BY <2>1, <3>1, OneChanges DEF Enter
        <3>3. ASSUME NEW u \in Users
              PROVE IsFiniteSet(byUser'[u]) /\ Cardinality(byUser'[u]) <= MaxPerUser
            <4>1. CASE u = User(c)
                <5>1. byUser'[u] = byUser[u] \cup {c}
                    BY <1>0, <2>1, <4>1 DEF Enter, Shape
                <5>2. IsFiniteSet(byUser[u]) /\ Cardinality(byUser[u]) < MaxPerUser
                    BY <1>0, <2>1, <4>1 DEF HasRoom, Limits
                <5>3. /\ IsFiniteSet(byUser[u] \cup {c})
                      /\ Cardinality(byUser[u] \cup {c}) <= MaxPerUser
                    BY <5>2, OneMoreFits, LimitsAreNumbers
                <5> QED
                    BY <5>1, <5>3
            <4>2. CASE u # User(c)
                BY <1>0, <2>1, <4>2 DEF Enter, Limits, Shape
            <4> QED
                BY <4>1, <4>2
        <3>4. ASSUME NEW s \in Sids
              PROVE IsFiniteSet(bySid'[s]) /\ Cardinality(bySid'[s]) <= MaxPerSession
            <4>1. CASE s = conn[c].sid
                <5>1. bySid'[s] = bySid[s] \cup {c}
                    BY <2>1, <4>1 DEF Enter
                <5>2. IsFiniteSet(bySid[s]) /\ Cardinality(bySid[s]) < MaxPerSession
                    BY <1>0, <2>1, <4>1 DEF HasRoom, Limits
                <5>3. /\ IsFiniteSet(bySid[s] \cup {c})
                      /\ Cardinality(bySid[s] \cup {c}) <= MaxPerSession
                    BY <5>2, OneMoreFits, LimitsAreNumbers
                <5> QED
                    BY <5>1, <5>3
            <4>2. CASE s # conn[c].sid
                BY <1>0, <2>1, <4>2 DEF Enter, Limits
            <4> QED
                BY <4>1, <4>2
        <3>5. byUser' \in [Users -> SUBSET Conns] /\ bySid' \in [Sids -> SUBSET Conns]
            BY <1>0, <2>1 DEF Enter, Shape
        <3> QED
            BY <1>0, <1>2, <3>2, <3>3, <3>4, <3>5 DEF Register, Shape, Limits
    <2>2. CASE /\ conn' = [conn EXCEPT ![c].st = "rejected", ![c].shut = TRUE]
               /\ UNCHANGED <<byUser, bySid>>
        <3> DEFINE q == [conn[c] EXCEPT !.st = "rejected", !.shut = TRUE]
        <3>1. q \in ConnRecord /\ WellOpened(q)
            BY <2>0 DEF ConnRecord, WellOpened, States
        <3>2. conn' \in [Conns -> ConnRecord] /\ OpenedBySession'
            BY <2>2, <3>1, OneChanges
        <3> QED
            BY <1>0, <1>2, <1>a, <2>2, <3>2 DEF Register, Shape
    <2> QED
        BY <1>2, <2>1, <2>2 DEF Register
<1>3. ASSUME NEW c \in Conns, MarkOnline(c)
      PROVE Shape' /\ Limits' /\ OpenedBySession'
    <2>0. conn[c] \in ConnRecord /\ WellOpened(conn[c]) /\ conn[c].st # "none"
        BY <1>0, <1>3 DEF Shape, OpenedBySession, WellOpened, MarkOnline
    <2> DEFINE q == [conn[c] EXCEPT !.st = "open"]
    <2>1. q \in ConnRecord /\ WellOpened(q)
        BY <2>0 DEF ConnRecord, WellOpened, States
    <2>2. conn' \in [Conns -> ConnRecord] /\ OpenedBySession'
        BY <1>3, <2>1, OneChanges DEF MarkOnline
    <2>3. User(c) \in Users
        BY <2>0, UserIsOne
    <2> QED
        BY <1>0, <1>3, <1>a, <2>2, <2>3 DEF MarkOnline, Shape, indexes
<1>4. ASSUME NEW c \in Conns, NEW p \in Posts, Subscribe(c, p) \/ Unsubscribe(c, p)
      PROVE Shape' /\ Limits' /\ OpenedBySession'
    BY <1>0, <1>4, <1>a, <1>b DEF Subscribe, Unsubscribe, Shape
<1>5. ASSUME NEW c \in Conns, PolicyClose(c)
      PROVE Shape' /\ Limits' /\ OpenedBySession'
    <2> DEFINE q == [conn[c] EXCEPT !.shut = TRUE]
    <2>1. q \in ConnRecord /\ WellOpened(q)
        <3>1. conn[c] \in ConnRecord /\ WellOpened(conn[c])
            BY <1>0 DEF Shape, OpenedBySession, WellOpened
        <3>2. "open" \in States /\ TRUE \in BOOLEAN
            BY DEF States
        <3> QED
            BY <3>1, <3>2, FieldsMove
    <2>2. conn' \in [Conns -> ConnRecord] /\ OpenedBySession'
        BY <1>5, <2>1, OneChanges DEF PolicyClose
    <2> QED
        BY <1>0, <1>5, <1>a, <2>2 DEF PolicyClose, Shape, indexes
<1>6. ASSUME NEW c \in Conns, Unregister(c)
      PROVE Shape' /\ Limits' /\ OpenedBySession'
    <2> DEFINE q == [conn[c] EXCEPT !.st = "unregistered"]
    <2>1. q \in ConnRecord /\ WellOpened(q)
        BY <1>0, <1>6 DEF Shape, OpenedBySession, ConnRecord, WellOpened, States, Leaving,
                          Unregister, Talking
    <2>2. conn' \in [Conns -> ConnRecord] /\ OpenedBySession'
        BY <1>6, <2>1, OneChanges DEF Unregister
    <2>3. ASSUME NEW u \in Users
          PROVE IsFiniteSet(byUser'[u]) /\ Cardinality(byUser'[u]) <= MaxPerUser
        <3>1. byUser'[u] = byUser[u] \/ byUser'[u] = byUser[u] \ {c}
            BY <1>0, <1>6 DEF Unregister, Shape
        <3>2. IsFiniteSet(byUser[u]) /\ Cardinality(byUser[u]) <= MaxPerUser
            BY <1>0 DEF Limits
        <3>3. IsFiniteSet(byUser[u] \ {c}) /\ Cardinality(byUser[u] \ {c}) <= MaxPerUser
            BY <3>2, OneFewerFits, LimitsAreNumbers
        <3> QED
            BY <3>1, <3>2, <3>3
    <2>4. ASSUME NEW s \in Sids
          PROVE IsFiniteSet(bySid'[s]) /\ Cardinality(bySid'[s]) <= MaxPerSession
        <3>1. bySid'[s] = bySid[s] \ {c}
            BY <1>6 DEF Unregister
        <3>2. IsFiniteSet(bySid[s]) /\ Cardinality(bySid[s]) <= MaxPerSession
            BY <1>0 DEF Limits
        <3>3. IsFiniteSet(bySid[s] \ {c}) /\ Cardinality(bySid[s] \ {c}) <= MaxPerSession
            BY <3>2, OneFewerFits, LimitsAreNumbers
        <3> QED
            BY <3>1, <3>2, <3>3
    <2>5. /\ byUser' \in [Users -> SUBSET Conns] /\ bySid' \in [Sids -> SUBSET Conns]
          /\ byPost' \in [Posts -> SUBSET Conns] /\ subs' \in [Conns -> SUBSET Posts]
        BY <1>0, <1>6 DEF Unregister, Shape
    <2> QED
        BY <1>0, <1>6, <2>2, <2>3, <2>4, <2>5 DEF Unregister, Shape, Limits
<1>7. ASSUME NEW c \in Conns, CheckLast(c)
      PROVE Shape' /\ Limits' /\ OpenedBySession'
    <2> DEFINE q == IF byUser[User(c)] = {} THEN [conn[c] EXCEPT !.st = "leaving"] ELSE NoConn
    <2>1. q \in ConnRecord /\ WellOpened(q)
        BY <1>0, <1>7 DEF Shape, OpenedBySession, ConnRecord, WellOpened, States, Leaving,
                          NoConn, CheckLast
    <2>2. conn' \in [Conns -> ConnRecord] /\ OpenedBySession'
        BY <1>7, <2>1, OneChanges DEF CheckLast
    <2> QED
        BY <1>0, <1>7, <1>a, <2>2 DEF CheckLast, Shape, indexes
<1>8. ASSUME NEW c \in Conns, MarkOffline(c)
      PROVE Shape' /\ Limits' /\ OpenedBySession'
    <2>1. NoConn \in ConnRecord /\ WellOpened(NoConn)
        BY DEF ConnRecord, WellOpened, States, NoConn
    <2>2. conn' \in [Conns -> ConnRecord] /\ OpenedBySession'
        BY <1>8, <2>1, OneChanges DEF MarkOffline
    <2> QED
        BY <1>0, <1>8, <1>a, <2>2 DEF MarkOffline, Shape, indexes
<1>9. ASSUME NEW s \in Sids, Revoke(s)
      PROVE Shape' /\ Limits' /\ OpenedBySession'
    BY <1>0, <1>9, <1>a, <1>b DEF Revoke, Shape, indexes
<1>10. ASSUME NEW s \in Sids, CloseForSession(s)
       PROVE Shape' /\ Limits' /\ OpenedBySession'
    <2>1. conn' \in [Conns -> ConnRecord] /\ OpenedBySession'
        BY <1>10, SomeAreShut DEF CloseForSession
    <2> QED
        BY <1>0, <1>10, <1>a, <2>1 DEF CloseForSession, Shape, indexes
<1>11. ASSUME ShutdownAll
       PROVE Shape' /\ Limits' /\ OpenedBySession'
    <2> DEFINE held == {c \in Conns : \E u \in Users : c \in byUser[u]}
    <2>1. conn' = [c \in Conns |-> IF c \in held THEN [conn[c] EXCEPT !.shut = TRUE]
                                                  ELSE conn[c]]
        BY <1>11 DEF ShutdownAll
    <2>2. conn' \in [Conns -> ConnRecord] /\ OpenedBySession'
        <3> HIDE DEF held
        <3> QED
            BY <2>1, SomeAreShut
    <2>3. IsFiniteSet({}) /\ Cardinality({}) = 0
        BY FS_EmptySet
    <2>4. Limits'
        BY <1>11, <2>3, LimitsAreNumbers DEF ShutdownAll, Limits
    <2> QED
        BY <1>0, <1>11, <2>2, <2>4 DEF ShutdownAll, Shape
<1>12. CASE UNCHANGED vars
    BY <1>0, <1>12, <1>a, <1>b DEF vars, indexes, Shape
<1> QED
    BY <1>1, <1>2, <1>3, <1>4, <1>5, <1>6, <1>7, <1>8, <1>9, <1>10, <1>11, <1>12
    DEF Next, Serve

-----------------------------------------------------------------------------
(* What each step does to one connection: its state, its flags, and who     *)
(* opened it.                                                               *)
Kept(d) == /\ conn'[d].session = conn[d].session /\ conn'[d].sid = conn[d].sid
           /\ User(d)' = User(d)

(* The connection c goes from a state in "from" to st; no other moves.      *)
Goes(c, from, st) ==
    /\ conn[c].st \in from /\ conn'[c].st = st
    /\ \A d \in Conns \ {c} : conn'[d] = conn[d]

LEMMA ServeMoves ==
    ASSUME HubInv, NEW c \in Conns
    PROVE /\ \A s \in Sids, sid \in Sids \cup {None} :
                Handshake(c, s, sid) => Goes(c, {"none"}, "admitted")
          /\ Register(c) => /\ Goes(c, {"admitted"}, "registered") \/ Goes(c, {"admitted"}, "rejected")
                            /\ Kept(c)
          /\ MarkOnline(c) => /\ Goes(c, {"registered"}, "open") /\ Kept(c)
                              /\ conn'[c].shut = conn[c].shut /\ conn'[c].late = conn[c].late
          /\ PolicyClose(c) => /\ Goes(c, {"open", "rejected"}, conn[c].st) /\ Kept(c)
                               /\ conn'[c].shut = TRUE
          /\ Unregister(c) => Goes(c, {"open", "rejected"}, "unregistered") /\ Kept(c)
          /\ CheckLast(c) => Goes(c, {"unregistered"}, "leaving") \/ Goes(c, {"unregistered"}, "none")
          /\ MarkOffline(c) => Goes(c, {"leaving"}, "none")
<1> DEFINE q == conn[c]
<1>1. conn \in [Conns -> ConnRecord] /\ q \in ConnRecord
    BY HubTypes DEF HubInv, Shape
<1> USE DEF Goes, Kept, ConnRecord, User, Talking, NoConn
<1>2. \A s \in Sids, sid \in Sids \cup {None} :
         Handshake(c, s, sid) => Goes(c, {"none"}, "admitted")
    BY <1>1 DEF Handshake
<1>3. Register(c) => /\ Goes(c, {"admitted"}, "registered") \/ Goes(c, {"admitted"}, "rejected")
                     /\ Kept(c)
    BY <1>1 DEF Register, Enter
<1>4. MarkOnline(c) => /\ Goes(c, {"registered"}, "open") /\ Kept(c)
                       /\ conn'[c].shut = conn[c].shut /\ conn'[c].late = conn[c].late
    BY <1>1 DEF MarkOnline
<1>5. PolicyClose(c) => /\ Goes(c, {"open", "rejected"}, conn[c].st) /\ Kept(c)
                        /\ conn'[c].shut = TRUE
    BY <1>1 DEF PolicyClose
<1>6. Unregister(c) => Goes(c, {"open", "rejected"}, "unregistered") /\ Kept(c)
    BY <1>1 DEF Unregister
<1>7. CheckLast(c) => Goes(c, {"unregistered"}, "leaving") \/ Goes(c, {"unregistered"}, "none")
    BY <1>1 DEF CheckLast
<1>8. MarkOffline(c) => Goes(c, {"leaving"}, "none")
    BY <1>1 DEF MarkOffline
<1> QED
    BY <1>2, <1>3, <1>4, <1>5, <1>6, <1>7, <1>8

-----------------------------------------------------------------------------
(* Where the indexes hold a connection, and where it is missing from them.  *)
IndexedIsHeld(c) ==
    /\ \A u \in Users : c \in byUser[u] => conn[c].st \in Held /\ User(c) = u
    /\ \A s \in Sids : c \in bySid[s] => conn[c].sid = s /\ c \in byUser[User(c)]
    /\ \A p \in Posts : c \in byPost[p] => p \in subs[c]

HeldIsIndexed(c) ==
    /\ conn[c].st \notin {"open", "rejected"} => subs[c] = {}
    /\ ~draining /\ conn[c].st \in Held =>
          /\ c \in byUser[User(c)]
          /\ conn[c].sid # None => c \in bySid[conn[c].sid]
    /\ ~draining => \A p \in subs[c] : c \in byPost[p]

LEMMA EachAgrees ==
    IndexesAgree <=> \A c \in Conns : IndexedIsHeld(c) /\ HeldIsIndexed(c)
BY DEF IndexesAgree, IndexedIsHeld, HeldIsIndexed

(* A connection whose state stays on one side of every test of the indexes. *)
LEMMA NothingMoved ==
    ASSUME HubInv, NEW d \in Conns, UNCHANGED indexes, UNCHANGED <<subs, draining>>,
           conn'[d].session = conn[d].session, conn'[d].sid = conn[d].sid,
           conn'[d].st \in Held <=> conn[d].st \in Held,
           conn'[d].st \in {"open", "rejected"} \/ conn[d].st \notin {"open", "rejected"}
    PROVE IndexedIsHeld(d)' /\ HeldIsIndexed(d)'
<1>1. IndexedIsHeld(d) /\ HeldIsIndexed(d)
    BY EachAgrees DEF HubInv
<1>2. User(d)' = User(d)
    BY DEF User
<1> QED
    BY <1>1, <1>2 DEF IndexedIsHeld, HeldIsIndexed, indexes

(* A connection that neither was nor is held, and follows nothing.          *)
LEMMA NeverHeld ==
    ASSUME HubInv, NEW d \in Conns, UNCHANGED indexes, UNCHANGED <<subs, draining>>,
           conn[d].st \notin Held \cup {"rejected"}, conn'[d].st \notin Held
    PROVE IndexedIsHeld(d)' /\ HeldIsIndexed(d)'
<1>1. IndexedIsHeld(d) /\ HeldIsIndexed(d) /\ Shape
    BY EachAgrees, HubTypes DEF HubInv
<1>2. subs[d] = {} /\ \A u \in Users : d \notin byUser[u]
    BY <1>1 DEF IndexedIsHeld, HeldIsIndexed, Held
<1>3. \A s \in Sids : d \notin bySid[s]
    <2> SUFFICES ASSUME NEW s \in Sids, d \in bySid[s] PROVE FALSE
        OBVIOUS
    <2>1. conn[d].sid = s /\ d \in byUser[User(d)]
        BY <1>1 DEF IndexedIsHeld
    <2>2. CASE conn[d].st = "none"
        BY <2>1, <2>2 DEF HubInv, OpenedBySession, WellOpened
    <2>3. CASE conn[d].st # "none"
        BY <1>2, <2>1, <2>3, UserIsOne
    <2> QED
        BY <2>2, <2>3
<1>4. \A p \in Posts : d \notin byPost[p]
    BY <1>1, <1>2 DEF IndexedIsHeld
<1> QED
    BY <1>2, <1>3, <1>4 DEF IndexedIsHeld, HeldIsIndexed, indexes, Held

LEMMA IndexesKept == HubInv /\ [Next]_vars => IndexesAgree'
<1> SUFFICES ASSUME HubInv, [Next]_vars, NEW d \in Conns
             PROVE IndexedIsHeld(d)' /\ HeldIsIndexed(d)'
    BY DEF IndexesAgree, IndexedIsHeld, HeldIsIndexed
<1>0. Shape /\ IndexedIsHeld(d) /\ HeldIsIndexed(d) /\ WellOpened(conn[d])
    BY EachAgrees, HubTypes DEF HubInv, OpenedBySession
<1>1. ASSUME NEW c \in Conns, NEW s \in Sids, NEW sid \in Sids \cup {None}, Handshake(c, s, sid)
      PROVE IndexedIsHeld(d)' /\ HeldIsIndexed(d)'
    <2>1. Goes(c, {"none"}, "admitted") /\ UNCHANGED indexes /\ UNCHANGED <<subs, draining>>
        BY <1>1, ServeMoves DEF Handshake
    <2>2. CASE c = d
        BY <2>1, <2>2, NeverHeld DEF Goes, Held
    <2>3. CASE c # d
        BY <2>1, <2>3, NothingMoved DEF Goes
    <2> QED
        BY <2>2, <2>3
<1>2. ASSUME NEW c \in Conns, Register(c)
      PROVE IndexedIsHeld(d)' /\ HeldIsIndexed(d)'
    <2>1. CASE HasRoom(c) /\ Enter(c)
        <3>1. /\ conn[c].st = "admitted" /\ UNCHANGED <<subs, byPost, draining>>
              /\ conn'[c].st = "registered" /\ Kept(c)
              /\ \A e \in Conns \ {c} : conn'[e] = conn[e]
            <4>1. conn'[c].st = "registered"
                BY <1>0, <2>1 DEF Enter, Shape, ConnRecord
            <4> QED
                BY <1>2, <4>1, ServeMoves DEF Register, Goes
        <3>2. User(c) \in Users
            BY <3>1, UserIsOne
        <3>3. /\ \A u \in Users : byUser'[u] = IF u = User(c) THEN byUser[u] \cup {c} ELSE byUser[u]
              /\ \A s \in Sids : bySid'[s] = IF s = conn[c].sid THEN bySid[s] \cup {c} ELSE bySid[s]
            BY <1>0, <2>1 DEF Enter, Shape
        <3>4. CASE c = d
            <4>1. WellOpened(conn[c])
                BY <1>0, <3>4
            <4>2. conn[c].sid # None => conn[c].sid \in Sids
                BY <3>1, <4>1 DEF WellOpened
            <4> QED
                BY <1>0, <3>1, <3>2, <3>3, <3>4, <4>2, ZenonT(60) DEF IndexedIsHeld, HeldIsIndexed, Held, Kept
        <3>5. CASE c # d
            <4>1. conn'[d] = conn[d] /\ User(d)' = User(d)
                BY <3>1, <3>5 DEF User
            <4>2. IndexedIsHeld(d)'
                <5>1. ASSUME NEW s \in Sids, d \in bySid'[s]
                      PROVE conn[d].sid = s /\ d \in byUser'[User(d)]
                    <6>0. d \in bySid[s]
                        BY <3>3, <3>5, <5>1, ZenonT(60)
                    <6>1. conn[d].sid = s /\ d \in byUser[User(d)]
                        BY <1>0, <6>0 DEF IndexedIsHeld
                    <6> QED
                        BY <1>0, <2>1, <6>1 DEF Enter, Shape
                <5>2. ASSUME NEW u \in Users, d \in byUser'[u]
                      PROVE conn[d].st \in Held /\ User(d) = u
                    <6>1. d \in byUser[u]
                        BY <3>3, <3>5, <5>2, ZenonT(60)
                    <6> QED
                        BY <1>0, <6>1 DEF IndexedIsHeld
                <5>3. ASSUME NEW p \in Posts, d \in byPost'[p] PROVE p \in subs'[d]
                    BY <1>0, <3>1, <5>3 DEF IndexedIsHeld
                <5> QED
                    BY <4>1, <5>1, <5>2, <5>3 DEF IndexedIsHeld
            <4>3. HeldIsIndexed(d)'
                <5>1. byUser[User(d)] \subseteq byUser'[User(d)]
                    BY <1>0, <2>1 DEF Enter, Shape
                <5>2. \A s \in Sids : bySid[s] \subseteq bySid'[s]
                    BY <3>3
                <5> QED
                    BY <1>0, <3>1, <4>1, <5>1, <5>2 DEF HeldIsIndexed, WellOpened, Held
            <4> QED
                BY <4>2, <4>3
        <3> QED
            BY <3>4, <3>5
    <2>2. CASE /\ conn' = [conn EXCEPT ![c].st = "rejected", ![c].shut = TRUE]
               /\ UNCHANGED <<byUser, bySid>>
        <3>1. /\ conn[c].st = "admitted" /\ UNCHANGED indexes /\ UNCHANGED <<subs, draining>>
              /\ conn'[c].st = "rejected"
              /\ \A e \in Conns \ {c} : conn'[e] = conn[e]
            BY <1>0, <1>2, <2>2 DEF Register, indexes, Shape, ConnRecord
        <3>2. CASE c = d
            BY <3>1, <3>2, NeverHeld DEF Held
        <3>3. CASE c # d
            BY <3>1, <3>3, NothingMoved
        <3> QED
            BY <3>2, <3>3
    <2> QED
        BY <1>2, <2>1, <2>2 DEF Register
<1>3. ASSUME NEW c \in Conns, MarkOnline(c)
      PROVE IndexedIsHeld(d)' /\ HeldIsIndexed(d)'
    <2>1. /\ Goes(c, {"registered"}, "open") /\ Kept(c)
          /\ UNCHANGED indexes /\ UNCHANGED <<subs, draining>>
        BY <1>3, ServeMoves DEF MarkOnline
    <2>2. CASE c = d
        BY <2>1, <2>2, NothingMoved DEF Goes, Kept, Held
    <2>3. CASE c # d
        BY <2>1, <2>3, NothingMoved DEF Goes
    <2> QED
        BY <2>2, <2>3
<1>4. ASSUME NEW c \in Conns, NEW p \in Posts, Subscribe(c, p)
      PROVE IndexedIsHeld(d)' /\ HeldIsIndexed(d)'
    <2>1. /\ UNCHANGED <<conn, byUser, bySid, draining>> /\ User(d)' = User(d)
          /\ conn[c].st \in {"open", "rejected"}
          /\ \A e \in Conns : subs'[e] = IF e = c THEN subs[e] \cup {p} ELSE subs[e]
          /\ \A r \in Posts : byPost'[r] = IF r = p THEN byPost[r] \cup {c} ELSE byPost[r]
        BY <1>0, <1>4 DEF Subscribe, Talking, User, Shape
    <2>2. ASSUME NEW r \in Posts PROVE d \in byPost'[r] => r \in subs'[d]
        <3>1. d \in byPost[r] => r \in subs[d]
            BY <1>0 DEF IndexedIsHeld
        <3>2. CASE d = c
            BY <2>1, <3>1, <3>2
        <3>3. CASE d # c
            BY <2>1, <3>1, <3>3
        <3> QED
            BY <3>2, <3>3
    <2>3. IndexedIsHeld(d)'
        BY <1>0, <2>1, <2>2 DEF IndexedIsHeld
    <2>4. ASSUME ~draining, NEW r \in subs'[d] PROVE d \in byPost'[r]
        <3>1. r \in Posts
            BY <1>0, <2>1 DEF Shape
        <3>2. r \in subs[d] => d \in byPost[r]
            BY <1>0, <2>4 DEF HeldIsIndexed
        <3> QED
            BY <2>1, <2>4, <3>1, <3>2
    <2>5. conn'[d].st \notin {"open", "rejected"} => subs'[d] = {}
        BY <1>0, <2>1 DEF HeldIsIndexed
    <2> QED
        BY <1>0, <2>1, <2>3, <2>4, <2>5 DEF HeldIsIndexed
<1>5. ASSUME NEW c \in Conns, NEW p \in Posts, Unsubscribe(c, p)
      PROVE IndexedIsHeld(d)' /\ HeldIsIndexed(d)'
    <2>1. /\ UNCHANGED <<conn, byUser, bySid, draining>> /\ User(d)' = User(d)
          /\ \A e \in Conns : subs'[e] = IF e = c THEN subs[e] \ {p} ELSE subs[e]
          /\ \A r \in Posts : byPost'[r] = IF r = p THEN byPost[r] \ {c} ELSE byPost[r]
        BY <1>0, <1>5 DEF Unsubscribe, User, Shape
    <2>2. ASSUME NEW r \in Posts PROVE d \in byPost'[r] => r \in subs'[d]
        BY <1>0, <2>1 DEF IndexedIsHeld
    <2>3. IndexedIsHeld(d)'
        BY <1>0, <2>1, <2>2 DEF IndexedIsHeld
    <2>4. ASSUME ~draining, NEW r \in subs'[d] PROVE d \in byPost'[r]
        <3>1. r \in Posts
            BY <1>0, <2>1 DEF Shape
        <3> QED
            BY <1>0, <2>1, <2>4, <3>1, ZenonT(60) DEF HeldIsIndexed
    <2>5. conn'[d].st \notin {"open", "rejected"} => subs'[d] = {}
        BY <1>0, <2>1 DEF HeldIsIndexed
    <2> QED
        BY <1>0, <2>1, <2>3, <2>4, <2>5 DEF HeldIsIndexed
<1>6. ASSUME NEW c \in Conns, PolicyClose(c)
      PROVE IndexedIsHeld(d)' /\ HeldIsIndexed(d)'
    <2>1. /\ Goes(c, {"open", "rejected"}, conn[c].st) /\ Kept(c)
          /\ UNCHANGED indexes /\ UNCHANGED <<subs, draining>>
        BY <1>6, ServeMoves DEF PolicyClose
    <2> QED
        BY <2>1, NothingMoved DEF Goes, Kept
<1>7. ASSUME NEW c \in Conns, Unregister(c)
      PROVE IndexedIsHeld(d)' /\ HeldIsIndexed(d)'
    <2>1. /\ Goes(c, {"open", "rejected"}, "unregistered") /\ Kept(c)
          /\ UNCHANGED draining
          /\ \A u \in Users : byUser'[u] = IF u = User(c) THEN byUser[u] \ {c} ELSE byUser[u]
          /\ \A s \in Sids : bySid'[s] = bySid[s] \ {c}
          /\ \A p \in Posts : byPost'[p] = IF p \in subs[c] THEN byPost[p] \ {c} ELSE byPost[p]
          /\ \A e \in Conns : subs'[e] = IF e = c THEN {} ELSE subs[e]
        BY <1>0, <1>7, ServeMoves DEF Unregister, Shape
    <2>2. CASE c = d
        <3>1. /\ \A u \in Users : d \notin byUser'[u]
              /\ \A s \in Sids : d \notin bySid'[s]
              /\ subs'[d] = {} /\ conn'[d].st = "unregistered"
            <4>1. ASSUME NEW u \in Users PROVE d \notin byUser'[u]
                <5>1. d \in byUser[u] => u = User(c)
                    BY <1>0, <2>2 DEF IndexedIsHeld
                <5> QED
                    BY <2>1, <2>2, <5>1
            <4>2. \A s \in Sids : d \notin bySid'[s]
                BY <2>1, <2>2
            <4>3. subs'[d] = {} /\ conn'[d].st = "unregistered"
                BY <2>1, <2>2 DEF Goes
            <4> QED
                BY <4>1, <4>2, <4>3
        <3>2. \A p \in Posts : d \notin byPost'[p]
            BY <1>0, <2>1, <2>2 DEF IndexedIsHeld
        <3> QED
            BY <3>1, <3>2 DEF IndexedIsHeld, HeldIsIndexed, Held
    <2>3. CASE c # d
        <3>1. conn'[d] = conn[d] /\ User(d)' = User(d) /\ subs'[d] = subs[d]
            BY <2>1, <2>3 DEF Goes, User
        <3>2. \A u : d \in byUser[u] /\ u \in Users => d \in byUser'[u]
            BY <2>1, <2>3
        <3>3. conn[d].st \in Held => User(d) \in Users
            BY UserIsOne DEF Held
        <3>4. IndexedIsHeld(d)'
            <4>1. ASSUME NEW s \in Sids, d \in bySid'[s]
                  PROVE conn[d].sid = s /\ d \in byUser'[User(d)]
                <5>1. conn[d].sid = s /\ d \in byUser[User(d)]
                    BY <1>0, <2>1, <4>1 DEF IndexedIsHeld
                <5>2. conn[d].st # "none"
                    BY <1>0, <5>1 DEF WellOpened
                <5>3. User(d) \in Users
                    BY <5>2, UserIsOne
                <5> QED
                    BY <3>2, <5>1, <5>3
            <4> QED
                BY <1>0, <2>1, <2>3, <3>1, <4>1 DEF IndexedIsHeld
        <3>5. HeldIsIndexed(d)'
            <4>1. ASSUME ~draining, NEW p \in subs[d] PROVE d \in byPost'[p]
                <5>1. p \in Posts /\ d \in byPost[p]
                    BY <1>0, <4>1 DEF Shape, HeldIsIndexed
                <5> QED
                    BY <2>1, <2>3, <5>1
            <4>2. ASSUME ~draining, conn[d].st \in Held
                  PROVE /\ d \in byUser'[User(d)]
                        /\ conn[d].sid # None => d \in bySid'[conn[d].sid]
                <5>1. conn[d].sid # None => conn[d].sid \in Sids
                    BY <1>0, <4>2 DEF WellOpened, Held
                <5>2. /\ d \in byUser[User(d)]
                      /\ conn[d].sid # None => d \in bySid[conn[d].sid]
                    BY <1>0, <4>2 DEF HeldIsIndexed
                <5> QED
                    BY <2>1, <2>3, <3>2, <3>3, <4>2, <5>1, <5>2
            <4>3. conn[d].st \notin {"open", "rejected"} => subs[d] = {}
                BY <1>0 DEF HeldIsIndexed
            <4> QED
                BY <2>1, <3>1, <4>1, <4>2, <4>3 DEF HeldIsIndexed
        <3> QED
            BY <3>4, <3>5
    <2> QED
        BY <2>2, <2>3
<1>8. ASSUME NEW c \in Conns, CheckLast(c) \/ MarkOffline(c)
      PROVE IndexedIsHeld(d)' /\ HeldIsIndexed(d)'
    <2>1. /\ conn[c].st \in {"unregistered", "leaving"} /\ conn'[c].st \in {"leaving", "none"}
          /\ \A e \in Conns \ {c} : conn'[e] = conn[e]
          /\ UNCHANGED indexes /\ UNCHANGED <<subs, draining>>
        BY <1>8, ServeMoves DEF CheckLast, MarkOffline, Goes
    <2>2. CASE c = d
        BY <2>1, <2>2, NeverHeld DEF Held
    <2>3. CASE c # d
        BY <2>1, <2>3, NothingMoved
    <2> QED
        BY <2>2, <2>3
<1>9. ASSUME NEW s \in Sids, Revoke(s)
      PROVE IndexedIsHeld(d)' /\ HeldIsIndexed(d)'
    BY <1>9, NothingMoved DEF Revoke
<1>10. ASSUME NEW s \in Sids, CloseForSession(s)
       PROVE IndexedIsHeld(d)' /\ HeldIsIndexed(d)'
    <2>1. /\ conn'[d].st = conn[d].st /\ conn'[d].session = conn[d].session
          /\ conn'[d].sid = conn[d].sid
        BY <1>10, SomeAreShut DEF CloseForSession
    <2> QED
        BY <1>10, <2>1, NothingMoved DEF CloseForSession
<1>11. ASSUME ShutdownAll
       PROVE IndexedIsHeld(d)' /\ HeldIsIndexed(d)'
    <2> DEFINE held == {c \in Conns : \E u \in Users : c \in byUser[u]}
    <2>1. conn' = [c \in Conns |-> IF c \in held THEN [conn[c] EXCEPT !.shut = TRUE]
                                                  ELSE conn[c]]
        BY <1>11 DEF ShutdownAll
    <2>2. conn'[d].st = conn[d].st
        <3> HIDE DEF held
        <3> QED
            BY <2>1, SomeAreShut
    <2> QED
        BY <1>0, <1>11, <2>2 DEF ShutdownAll, IndexedIsHeld, HeldIsIndexed
<1>12. CASE UNCHANGED vars
    BY <1>12, NothingMoved DEF vars
<1> QED
    BY <1>1, <1>2, <1>3, <1>4, <1>5, <1>6, <1>7, <1>8, <1>9, <1>10, <1>11, <1>12
    DEF Next, Serve

-----------------------------------------------------------------------------
IsCut(c) ==
    /\ conn[c].st \in Held /\ conn[c].sid \in revoked
    /\ ~conn[c].late /\ ~draining
    => conn[c].shut \/ conn[c].sid \in hangups

(* A connection whose record is unchanged, while no sid is marked or served.*)
LEMMA StaysCut ==
    ASSUME HubInv, NEW d \in Conns, UNCHANGED <<revoked, hangups, draining>>,
           \/ conn'[d] = conn[d]
           \/ conn'[d].st \notin Held
           \/ conn'[d].shut = TRUE
           \/ /\ conn[d].st \in Held /\ conn'[d].sid = conn[d].sid
              /\ conn'[d].late = conn[d].late /\ conn'[d].shut = conn[d].shut
    PROVE IsCut(d)'
BY DEF HubInv, RevokedSocketIsCut, IsCut

LEMMA CutKept == HubInv /\ [Next]_vars => RevokedSocketIsCut'
<1> SUFFICES ASSUME HubInv, [Next]_vars, NEW d \in Conns
             PROVE IsCut(d)'
    BY DEF RevokedSocketIsCut, IsCut
<1>0. Shape /\ IsCut(d) /\ WellOpened(conn[d]) /\ HeldIsIndexed(d)
    BY EachAgrees, HubTypes DEF HubInv, OpenedBySession, RevokedSocketIsCut, IsCut
<1>1. ASSUME NEW c \in Conns,
             \/ \E s \in Sids, sid \in Sids \cup {None} : Handshake(c, s, sid)
             \/ MarkOnline(c) \/ PolicyClose(c) \/ Unregister(c) \/ CheckLast(c) \/ MarkOffline(c)
      PROVE IsCut(d)'
    <2>1. UNCHANGED <<revoked, hangups, draining>>
        BY <1>1 DEF Handshake, MarkOnline, PolicyClose, Unregister, CheckLast, MarkOffline
    <2>2. /\ \A e \in Conns \ {c} : conn'[e] = conn[e]
          /\ \/ conn'[c].st \notin Held
             \/ conn'[c].shut = TRUE
             \/ /\ conn[c].st \in Held /\ conn'[c].sid = conn[c].sid
                /\ conn'[c].late = conn[c].late /\ conn'[c].shut = conn[c].shut
        BY <1>1, ServeMoves DEF Goes, Kept, Held
    <2> QED
        BY <2>1, <2>2, StaysCut
<1>2. ASSUME NEW c \in Conns, Register(c)
      PROVE IsCut(d)'
    <2>1. UNCHANGED <<revoked, hangups, draining>>
        BY <1>2 DEF Register
    <2>2. /\ \A e \in Conns \ {c} : conn'[e] = conn[e]
          /\ conn[c].st = "admitted" /\ Kept(c)
        BY <1>2, ServeMoves DEF Goes
    <2>3. CASE c # d
        BY <2>1, <2>2, <2>3, StaysCut
    <2>4. CASE c = d /\ Enter(c)
        (* The handshake read the sid of the session that is marked, or none. *)
        <3>1. conn'[d].late = (conn[d].session \in revoked)
            BY <1>0, <2>4 DEF Enter, Shape, ConnRecord
        <3>2. conn[d].sid \in {conn[d].session, None} /\ None \notin revoked
            BY <1>0, <2>2, <2>4 DEF WellOpened, Shape
        <3> QED
            BY <2>1, <2>2, <2>4, <3>1, <3>2 DEF IsCut, Kept
    <2>5. CASE c = d /\ conn' = [conn EXCEPT ![c].st = "rejected", ![c].shut = TRUE]
        <3>1. conn'[d].shut = TRUE
            BY <1>0, <2>5 DEF Shape, ConnRecord
        <3> QED
            BY <2>1, <3>1, StaysCut
    <2> QED
        BY <1>2, <2>3, <2>4, <2>5 DEF Register
<1>3. ASSUME NEW c \in Conns, NEW p \in Posts, Subscribe(c, p) \/ Unsubscribe(c, p)
      PROVE IsCut(d)'
    BY <1>3, StaysCut DEF Subscribe, Unsubscribe
<1>4. ASSUME NEW s \in Sids, Revoke(s)
      PROVE IsCut(d)'
    BY <1>0, <1>4 DEF Revoke, IsCut
<1>5. ASSUME NEW s \in Sids, CloseForSession(s)
      PROVE IsCut(d)'
    <2>1. /\ conn'[d].st = conn[d].st /\ conn'[d].sid = conn[d].sid
          /\ conn'[d].late = conn[d].late
          /\ conn'[d].shut = (d \in bySid[s] \/ conn[d].shut)
        BY <1>5, SomeAreShut DEF CloseForSession
    <2>2. /\ UNCHANGED <<revoked, draining>> /\ hangups' = hangups \ {s}
        BY <1>5 DEF CloseForSession
    (* The marked sid is in the index, so its socket is among those hung up.  *)
    <2>3. conn[d].st \in Held /\ ~draining /\ conn[d].sid = s => d \in bySid[s]
        BY <1>0 DEF HeldIsIndexed
    <2> QED
        BY <1>0, <2>1, <2>2, <2>3 DEF IsCut
<1>6. ASSUME ShutdownAll
      PROVE IsCut(d)'
    BY <1>6 DEF ShutdownAll, IsCut
<1>7. CASE UNCHANGED vars
    BY <1>7, StaysCut DEF vars
<1> QED
    BY <1>1, <1>2, <1>3, <1>4, <1>5, <1>6, <1>7 DEF Next, Serve

-----------------------------------------------------------------------------
(* What the hub keeps true, for any number of loops and connections.        *)
THEOREM HubInvariant == Spec => []HubInv
<1>1. HubInv /\ [Next]_vars => HubInv'
    BY HubTypesKept, IndexesKept, CutKept DEF HubInv
<1> QED
    BY HubStarts, <1>1, PTL DEF Spec

(* Neither a user nor a session holds more sockets than its limit: the     *)
(* check and the insertion are one step of registerConnection.              *)
THEOREM HubIsWellTyped == Spec => []TypeOK
BY HubInvariant, PTL DEF HubInv

(* What an index holds is a live connection of that user, session or post,  *)
(* and until the shutdown every live connection is where its closing, its   *)
(* revocation and its posts look for it.                                    *)
THEOREM IndexesAlwaysAgree == Spec => []IndexesAgree
BY HubInvariant, PTL DEF HubInv

(* A socket registered before its session was revoked is hung up or is      *)
(* about to be, however the revocation meets handshakes and closings.       *)
THEOREM RevokedSocketIsAlwaysCut == Spec => []RevokedSocketIsCut
BY HubInvariant, PTL DEF HubInv
-----------------------------------------------------------------------------
(* Presence.                                                                *)

HIDE HubAssumption

CONSTANTS Pods, Beats, RedisFails, PodsCrash

VARIABLES sock, running, up, local, work, beat, snapshot, ttl, onlineSet

Redis == INSTANCE Presence

(* The users a pod tracks and those it is about to refresh are finitely     *)
(* many, whatever Users is: else the commands would be no sequence.         *)
PodsTrackFinitely ==
    \A p \in Pods : IsFiniteSet(local[p]) /\ IsFiniteSet(snapshot[p])

(* A heartbeat that is not asleep is one of a pod that runs: it is what     *)
(* connects again.                                                          *)
HeartbeatsRun == \A p \in Pods : beat[p] # "slept" => running[p]

PresenceInv == Redis!TypeOK /\ PodsTrackFinitely /\ HeartbeatsRun

LEMMA AnnouncementsAreCalls ==
    ASSUME NEW us \in Seq(Users) PROVE Redis!Announce(us) \in Seq(Redis!Call)
<1> DEFINE n == Len(us)
           name(k) == IF k % 2 = 1 THEN "SETEX" ELSE "SADD"
<1>1. n \in Nat /\ us \in [1 .. n -> Users]
    OBVIOUS
<1>2. ASSUME NEW k \in 1 .. 2 * n PROVE Redis!Command(name(k), us[(k + 1) \div 2]) \in Redis!Call
    <2>1. (k + 1) \div 2 \in 1 .. n
        BY <1>1
    <2>2. us[(k + 1) \div 2] \in Users
        BY <1>1, <2>1
    <2> QED
        BY <2>2 DEF Redis!Command, Redis!Call
<1>3. Redis!Announce(us) \in [1 .. 2 * n -> Redis!Call]
    BY <1>2 DEF Redis!Announce
<1>4. 2 * n \in Nat
    BY <1>1
<1> QED
    BY <1>3, <1>4

LEMMA OrdersAreSequences ==
    ASSUME NEW S \in SUBSET Users, IsFiniteSet(S), NEW us \in Redis!SetToSeqs(S) PROVE us \in Seq(Users)
<1>1. Cardinality(S) \in Nat
    BY FS_CardinalityType
<1>2. us \in [1 .. Redis!Cardinality(S) -> S]
    BY DEF Redis!SetToSeqs
<1>3. Redis!Cardinality(S) = Cardinality(S)
    BY DEF Redis!Cardinality, Cardinality
<1> QED
    BY <1>1, <1>2, <1>3

LEMMA PresenceStarts ==
    ASSUME Redis!PresenceAssumption, Redis!Init PROVE PresenceInv
<1>1. IsFiniteSet({})
    BY FS_EmptySet
<1>2. <<>> \in Seq(Redis!Call)
    OBVIOUS
<1> QED
    BY <1>1, <1>2 DEF Redis!Init, PresenceInv, Redis!TypeOK, PodsTrackFinitely, HeartbeatsRun, Redis!PresenceAssumption

LEMMA PresenceStep ==
    ASSUME Redis!PresenceAssumption PROVE PresenceInv /\ [Redis!Next]_(Redis!vars) => PresenceInv'
<1> SUFFICES ASSUME PresenceInv, [Redis!Next]_(Redis!vars) PROVE PresenceInv'
    OBVIOUS
<1>1. CASE UNCHANGED Redis!vars
    BY <1>1 DEF Redis!vars, Redis!pod, Redis!redis, PresenceInv, Redis!TypeOK, PodsTrackFinitely, HeartbeatsRun
<1>2. IsFiniteSet({}) /\ <<>> \in Seq(Redis!Call)
    BY FS_EmptySet
<1>3. ASSUME NEW p \in Pods, Redis!Install(p) PROVE PresenceInv'
    BY <1>3 DEF Redis!Install, Redis!redis, PresenceInv, Redis!TypeOK, PodsTrackFinitely, HeartbeatsRun
<1>4. ASSUME NEW p \in Pods, Redis!Gone(p) PROVE PresenceInv'
    BY <1>2, <1>4 DEF Redis!Gone, Redis!redis, PresenceInv, Redis!TypeOK, PodsTrackFinitely, HeartbeatsRun
<1>5. ASSUME NEW p \in Pods, Redis!LoseConnection(p) PROVE PresenceInv'
    BY <1>5 DEF Redis!LoseConnection, Redis!redis, PresenceInv, Redis!TypeOK, PodsTrackFinitely, HeartbeatsRun
<1>6. ASSUME NEW p \in Pods, Redis!BeatSnapshot(p) PROVE PresenceInv'
    BY <1>6 DEF Redis!BeatSnapshot, Redis!redis, PresenceInv, Redis!TypeOK, PodsTrackFinitely, HeartbeatsRun
<1>7. ASSUME NEW p \in Pods, Redis!RunCmd(p) PROVE PresenceInv'
    <2>1. Head(work[p]) \in Redis!Call /\ Tail(work[p]) \in Seq(Redis!Call)
        BY <1>7 DEF Redis!RunCmd, Redis!Free, PresenceInv, Redis!TypeOK
    <2>2. Redis!Execute(Head(work[p])) \/ UNCHANGED <<ttl, onlineSet>>
        BY <1>7 DEF Redis!RunCmd, Redis!redis
    <2>3. ttl' \in [Users -> 0 .. Beats] /\ onlineSet' \subseteq Users
        BY <2>1, <2>2 DEF Redis!Execute, Redis!Call, PresenceInv, Redis!TypeOK, Redis!PresenceAssumption
    <2>4. work' \in [Pods -> Seq(Redis!Call)]
        BY <1>7, <2>1 DEF Redis!RunCmd, PresenceInv, Redis!TypeOK
    <2>5. up' = up \/ (up[p] /\ \E still \in BOOLEAN : up' = [up EXCEPT ![p] = still])
        BY <1>7 DEF Redis!RunCmd
    <2>6. UNCHANGED <<sock, running, local, beat, snapshot>>
        BY <1>7 DEF Redis!RunCmd
    <2> QED
        BY <2>3, <2>4, <2>5, <2>6 DEF PresenceInv, Redis!TypeOK, PodsTrackFinitely, HeartbeatsRun
<1>8. ASSUME NEW p \in Pods, Redis!BeatRefresh(p) PROVE PresenceInv'
    <2>1. \A us \in Redis!SetToSeqs(snapshot[p]) : Redis!Announce(us) \in Seq(Redis!Call)
        BY AnnouncementsAreCalls, OrdersAreSequences DEF PresenceInv, Redis!TypeOK, PodsTrackFinitely
    <2>2. work' = work \/ \E us \in Redis!SetToSeqs(snapshot[p]) : work' = [work EXCEPT ![p] = Redis!Announce(us)]
        BY <1>8 DEF Redis!BeatRefresh
    <2>3. work' \in [Pods -> Seq(Redis!Call)]
        BY <2>1, <2>2 DEF PresenceInv, Redis!TypeOK
    <2> QED
        BY <1>2, <1>8, <2>3 DEF Redis!BeatRefresh, Redis!redis, PresenceInv, Redis!TypeOK, PodsTrackFinitely, HeartbeatsRun
<1>9. ASSUME NEW p \in Pods, NEW u \in Users, Redis!MarkOnline(p, u) PROVE PresenceInv'
    <2>0. <<u>> \in Seq(Users)
        OBVIOUS
    <2>1. Redis!Announce(<<u>>) \in Seq(Redis!Call)
        BY <2>0, AnnouncementsAreCalls
    <2>2. IsFiniteSet(local[p] \cup {u}) /\ local[p] \cup {u} \subseteq Users
        BY FS_AddElement DEF PresenceInv, PodsTrackFinitely, Redis!TypeOK
    <2>3. /\ sock' \in [Pods -> SUBSET Users] /\ work' \in [Pods -> Seq(Redis!Call)]
          /\ local' = local \/ (up[p] /\ local' = [local EXCEPT ![p] = local[p] \cup {u}])
          /\ UNCHANGED <<running, up, beat, snapshot, ttl, onlineSet>>
        <3>1. sock' \in [Pods -> SUBSET Users]
            BY <1>9 DEF Redis!MarkOnline, PresenceInv, Redis!TypeOK
        <3>2. work' \in [Pods -> Seq(Redis!Call)]
            BY <1>9, <2>1 DEF Redis!MarkOnline, PresenceInv, Redis!TypeOK
        <3>3. /\ local' = local \/ (up[p] /\ local' = [local EXCEPT ![p] = local[p] \cup {u}])
              /\ UNCHANGED <<running, up, beat, snapshot, ttl, onlineSet>>
            BY <1>9 DEF Redis!MarkOnline, Redis!redis
        <3> QED
            BY <3>1, <3>2, <3>3
    <2>4. local' \in [Pods -> SUBSET Users]
        BY <2>2, <2>3 DEF PresenceInv, Redis!TypeOK
    <2>6. \A q \in Pods : IsFiniteSet(local'[q])
        <3> SUFFICES ASSUME NEW q \in Pods PROVE IsFiniteSet(local'[q])
            OBVIOUS
        <3>1. local'[q] = local[q] \/ (q = p /\ local'[q] = local[p] \cup {u})
            BY <2>3 DEF PresenceInv, Redis!TypeOK
        <3> QED
            BY <2>2, <3>1 DEF PresenceInv, PodsTrackFinitely
    <2>5. \A q \in Pods : (up'[q] => running'[q]) /\ (~running'[q] => local'[q] = {})
        BY <2>3 DEF PresenceInv, Redis!TypeOK
    <2> QED
        BY <2>3, <2>4, <2>5, <2>6 DEF PresenceInv, Redis!TypeOK, PodsTrackFinitely, HeartbeatsRun
<1>10. ASSUME NEW p \in Pods, NEW u \in Users, Redis!MarkOffline(p, u) PROVE PresenceInv'
    <2>1. Redis!Retract(u) \in Seq(Redis!Call)
        BY DEF Redis!Retract, Redis!Command, Redis!Call
    <2>2. IsFiniteSet(local[p] \ {u}) /\ local[p] \ {u} \subseteq Users
        BY FS_RemoveElement DEF PresenceInv, PodsTrackFinitely, Redis!TypeOK
    <2>3. /\ sock' \in [Pods -> SUBSET Users] /\ work' \in [Pods -> Seq(Redis!Call)]
          /\ local' = local \/ (up[p] /\ local' = [local EXCEPT ![p] = local[p] \ {u}])
          /\ UNCHANGED <<running, up, beat, snapshot, ttl, onlineSet>>
        <3>1. sock' \in [Pods -> SUBSET Users]
            BY <1>10 DEF Redis!MarkOffline, PresenceInv, Redis!TypeOK
        <3>2. work' \in [Pods -> Seq(Redis!Call)]
            BY <1>10, <2>1 DEF Redis!MarkOffline, PresenceInv, Redis!TypeOK
        <3>3. /\ local' = local \/ (up[p] /\ local' = [local EXCEPT ![p] = local[p] \ {u}])
              /\ UNCHANGED <<running, up, beat, snapshot, ttl, onlineSet>>
            BY <1>10 DEF Redis!MarkOffline, Redis!redis
        <3> QED
            BY <3>1, <3>2, <3>3
    <2>4. local' \in [Pods -> SUBSET Users]
        BY <2>2, <2>3 DEF PresenceInv, Redis!TypeOK
    <2>6. \A q \in Pods : IsFiniteSet(local'[q])
        <3> SUFFICES ASSUME NEW q \in Pods PROVE IsFiniteSet(local'[q])
            OBVIOUS
        <3>1. local'[q] = local[q] \/ (q = p /\ local'[q] = local[p] \ {u})
            BY <2>3 DEF PresenceInv, Redis!TypeOK
        <3> QED
            BY <2>2, <3>1 DEF PresenceInv, PodsTrackFinitely
    <2>5. \A q \in Pods : (up'[q] => running'[q]) /\ (~running'[q] => local'[q] = {})
        BY <2>3 DEF PresenceInv, Redis!TypeOK
    <2> QED
        BY <2>3, <2>4, <2>5, <2>6 DEF PresenceInv, Redis!TypeOK, PodsTrackFinitely, HeartbeatsRun
<1>11. CASE Redis!Period
    BY <1>11 DEF Redis!Period, PresenceInv, Redis!TypeOK, PodsTrackFinitely, HeartbeatsRun, Redis!PresenceAssumption
<1> QED
    BY <1>1, <1>3, <1>4, <1>5, <1>6, <1>7, <1>8, <1>9, <1>10, <1>11 DEF Redis!Next

(* A pod that is connected has its heartbeat, and a pod without one tracks  *)
(* nobody, however many pods crash and lose commands and connections.       *)
THEOREM PresenceTypeCorrect ==
    ASSUME Redis!PresenceAssumption PROVE Redis!Spec => []Redis!TypeOK
<1>1. Redis!Init => PresenceInv
    BY PresenceStarts
<1>2. PresenceInv /\ [Redis!Next]_(Redis!vars) => PresenceInv'
    BY PresenceStep
<1>3. PresenceInv => Redis!TypeOK
    BY DEF PresenceInv
<1> QED
    BY <1>1, <1>2, <1>3, PTL DEF Redis!Spec

=============================================================================
