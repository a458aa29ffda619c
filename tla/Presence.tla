------------------------------ MODULE Presence ------------------------------
(***************************************************************************)
(* Who is online, on any pod (helpers/Presence.cc).  Each pod keeps the    *)
(* users it has sockets for and writes them to Redis: a key per user with  *)
(* a TTL, re-asserted by a heartbeat, and one set without.  Redis commands *)
(* of a call run under the pod's mutex and interleave with the other pods. *)
(***************************************************************************)
EXTENDS Integers, SequencesExt

CONSTANTS
    Pods, Users,
    Beats,       \* kTtlSeconds in heartbeats: 2
    RedisFails,  \* commands and connects may fail
    PodsCrash    \* a pod may die without cleaning up

ASSUME PresenceAssumption ==
    Beats \in Nat \ {0} /\ {RedisFails, PodsCrash} \subseteq BOOLEAN

VARIABLES
    sock,       \* users with a socket on the pod (the hub's g_byUser)
    running,    \* g_running: the heartbeat thread exists
    up,         \* g_ctx is set
    local,      \* g_localUsers
    work,       \* Redis commands left of the call that holds g_mu
    beat,       \* where the heartbeat is in its period
    snapshot,   \* users it is about to refresh
    ttl,        \* Redis: remaining life of user:<id>:online, in heartbeats
    onlineSet   \* Redis: blog:online_users

pod == <<sock, running, up, local, work, beat, snapshot>>
redis == <<ttl, onlineSet>>
vars == <<pod, redis>>

Free(p) == work[p] = <<>>    \* g_mu is free

Command(name, u) == [cmd |-> name, user |-> u]

\* A SETEX and an SADD for each of them.
Announce(us) ==
    [k \in 1 .. 2 * Len(us) |-> Command(IF k % 2 = 1 THEN "SETEX" ELSE "SADD", us[(k + 1) \div 2])]

Retract(u) == <<Command("DEL", u), Command("SREM", u)>>

Init ==
    /\ sock = [p \in Pods |-> {}]
    /\ running = [p \in Pods |-> FALSE]
    /\ up = [p \in Pods |-> FALSE]
    /\ local = [p \in Pods |-> {}]
    /\ work = [p \in Pods |-> <<>>]
    /\ beat = [p \in Pods |-> "slept"]
    /\ snapshot = [p \in Pods |-> {}]
    /\ ttl = [u \in Users |-> 0]
    /\ onlineSet = {}

-----------------------------------------------------------------------------
(* A pod starts; without a first connection it never has a heartbeat.       *)
Install(p) ==
    /\ ~running[p] /\ sock[p] = {}
    /\ running' = [running EXCEPT ![p] = TRUE]
    /\ up' = [up EXCEPT ![p] = TRUE]
    /\ UNCHANGED <<sock, local, work, beat, snapshot, redis>>

(* A socket of u registered on the pod.                                     *)
MarkOnline(p, u) ==
    /\ Free(p)
    /\ sock' = [sock EXCEPT ![p] = @ \cup {u}]
    /\ IF up[p] THEN /\ local' = [local EXCEPT ![p] = @ \cup {u}]
                     /\ work' = [work EXCEPT ![p] = Announce(<<u>>)]
                ELSE UNCHANGED <<local, work>>
    /\ UNCHANGED <<running, up, beat, snapshot, redis>>

(* The last socket of u on the pod closed.                                  *)
MarkOffline(p, u) ==
    /\ Free(p) /\ u \in sock[p]
    /\ sock' = [sock EXCEPT ![p] = @ \ {u}]
    /\ IF up[p] THEN /\ local' = [local EXCEPT ![p] = @ \ {u}]
                     /\ work' = [work EXCEPT ![p] = Retract(u)]
                ELSE UNCHANGED <<local, work>>
    /\ UNCHANGED <<running, up, beat, snapshot, redis>>

(* One command of runCmd; what it does to Redis.                            *)
Execute(c) ==
    /\ ttl' = [ttl EXCEPT ![c.user] = CASE c.cmd = "SETEX" -> Beats
                                        [] c.cmd = "DEL" -> 0
                                        [] OTHER -> @]
    /\ onlineSet' = CASE c.cmd = "SADD" -> onlineSet \cup {c.user}
                      [] c.cmd = "SREM" -> onlineSet \ {c.user}
                      [] OTHER -> onlineSet

(* It is a no-op without a connection.  When it fails and the retry does    *)
(* too, the command or its reply is lost, and the connection may be.        *)
RunCmd(p) ==
    /\ ~Free(p)
    /\ work' = [work EXCEPT ![p] = Tail(@)]
    /\ \/ up[p] /\ Execute(Head(work[p])) /\ UNCHANGED up
       \/ ~up[p] /\ UNCHANGED <<redis, up>>
       \/ /\ RedisFails /\ up[p]
          /\ Execute(Head(work[p])) \/ UNCHANGED redis
          /\ \E still \in BOOLEAN : up' = [up EXCEPT ![p] = still]
    /\ UNCHANGED <<sock, running, local, beat, snapshot>>

(* isOnline and onlineCountGlobal change the connection when it is broken.  *)
LoseConnection(p) ==
    /\ RedisFails /\ up[p] /\ Free(p)
    /\ up' = [up EXCEPT ![p] = FALSE]
    /\ UNCHANGED <<sock, running, local, work, beat, snapshot, redis>>

-----------------------------------------------------------------------------
(* refreshTick copies the users under the lock, gives it up, ...            *)
BeatSnapshot(p) ==
    /\ running[p] /\ beat[p] = "due" /\ Free(p)
    /\ snapshot' = [snapshot EXCEPT ![p] = local[p]]
    /\ beat' = [beat EXCEPT ![p] = "copied"]
    /\ UNCHANGED <<sock, running, up, local, work, redis>>

(* Mutant: the heartbeat writes the set alone.                              *)
BeatRefreshSetOnly(p) ==
    /\ beat[p] = "copied" /\ Free(p)
    /\ up' = [up EXCEPT ![p] = TRUE]
    /\ \E us \in SetToSeqs(snapshot[p]) : work' = [work EXCEPT ![p] = [i \in DOMAIN us |-> Command("SADD", us[i])]]
    /\ snapshot' = [snapshot EXCEPT ![p] = {}]
    /\ beat' = [beat EXCEPT ![p] = "slept"]
    /\ UNCHANGED <<sock, running, local, redis>>

(* Mutant: the heartbeat refreshes everyone the set shows.                  *)
BeatRefreshEveryone(p) ==
    /\ beat[p] = "copied" /\ Free(p)
    /\ up' = [up EXCEPT ![p] = TRUE]
    /\ \E us \in SetToSeqs(onlineSet) : work' = [work EXCEPT ![p] = Announce(us)]
    /\ snapshot' = [snapshot EXCEPT ![p] = {}]
    /\ beat' = [beat EXCEPT ![p] = "slept"]
    /\ UNCHANGED <<sock, running, local, redis>>

(* ... and refreshes the copy, connecting first if it has to.               *)
BeatRefresh(p) ==
    /\ beat[p] = "copied" /\ Free(p)
    /\ \/ /\ up' = [up EXCEPT ![p] = TRUE]
          /\ \E us \in SetToSeqs(snapshot[p]) : work' = [work EXCEPT ![p] = Announce(us)]
       \/ RedisFails /\ ~up[p] /\ UNCHANGED <<up, work>>
    /\ snapshot' = [snapshot EXCEPT ![p] = {}]
    /\ beat' = [beat EXCEPT ![p] = "slept"]
    /\ UNCHANGED <<sock, running, local, redis>>

(* Half a TTL passes: keys age, and the heartbeats that were on time wake.  *)
Period ==
    /\ \A p \in Pods : running[p] => beat[p] = "slept" /\ Free(p)
    /\ ttl' = [u \in Users |-> IF ttl[u] = 0 THEN 0 ELSE ttl[u] - 1]
    /\ beat' = [p \in Pods |-> IF running[p] THEN "due" ELSE "slept"]
    /\ UNCHANGED <<sock, running, up, local, work, snapshot, onlineSet>>

(* Mutant: the users tracked survive the stop.                              *)
GoneKeepsLocal(p) ==
    /\ PodsCrash /\ running[p]
    /\ sock' = [sock EXCEPT ![p] = {}]
    /\ running' = [running EXCEPT ![p] = FALSE]
    /\ up' = [up EXCEPT ![p] = FALSE]
    /\ work' = [work EXCEPT ![p] = <<>>]
    /\ beat' = [beat EXCEPT ![p] = "slept"]
    /\ snapshot' = [snapshot EXCEPT ![p] = {}]
    /\ UNCHANGED <<local, redis>>

(* stop() after the drain, or a crash: Redis is left as it is.              *)
Gone(p) ==
    /\ PodsCrash /\ running[p]
    /\ sock' = [sock EXCEPT ![p] = {}]
    /\ running' = [running EXCEPT ![p] = FALSE]
    /\ up' = [up EXCEPT ![p] = FALSE]
    /\ local' = [local EXCEPT ![p] = {}]
    /\ work' = [work EXCEPT ![p] = <<>>]
    /\ beat' = [beat EXCEPT ![p] = "slept"]
    /\ snapshot' = [snapshot EXCEPT ![p] = {}]
    /\ UNCHANGED redis

Next ==
    \/ \E p \in Pods : \/ Install(p) \/ Gone(p) \/ RunCmd(p) \/ LoseConnection(p)
                       \/ BeatSnapshot(p) \/ BeatRefresh(p)
                       \/ \E u \in Users : MarkOnline(p, u) \/ MarkOffline(p, u)
    \/ Period

Spec == Init /\ [][Next]_vars

(* A SETEX for u gets through.                                              *)
Refreshes(p, u) ==
    ~Free(p) /\ Head(work[p]) = Command("SETEX", u) /\ RunCmd(p) /\ ttl'[u] = Beats

(* A heartbeat that finds Redis, connecting first if it has to.             *)
Reaches(p) == BeatRefresh(p) /\ up'[p]

(* Calls that hold the mutex end, heartbeats run, and time passes; of       *)
(* connections and refreshes tried again and again, one succeeds.           *)
Fairness ==
    /\ \A p \in Pods : /\ WF_vars(RunCmd(p))
                       /\ SF_vars(BeatSnapshot(p)) /\ SF_vars(Reaches(p))
                       /\ \A u \in Users : SF_vars(Refreshes(p, u))
    /\ SF_vars(Period)

FairSpec == Spec /\ Fairness

-----------------------------------------------------------------------------
Call == [cmd : {"SETEX", "SADD", "DEL", "SREM"}, user : Users]

TypeOK ==
    /\ sock \in [Pods -> SUBSET Users] /\ local \in [Pods -> SUBSET Users]
    /\ running \in [Pods -> BOOLEAN] /\ up \in [Pods -> BOOLEAN]
    /\ work \in [Pods -> Seq(Call)]
    /\ beat \in [Pods -> {"slept", "due", "copied"}]
    /\ snapshot \in [Pods -> SUBSET Users]
    /\ ttl \in [Users -> 0 .. Beats] /\ onlineSet \subseteq Users
    /\ \A p \in Pods : (up[p] => running[p]) /\ (~running[p] => local[p] = {})

Connected(u) == \E p \in Pods : u \in sock[p]
Known(u) == \E p \in Pods : u \in local[p]

(* Presence.h:9-11, "is user N online RIGHT NOW, on any pod?": whom a pod   *)
(* tracks has a key, between its heartbeats too.                            *)
OnlineUserHasKey ==
    \A p \in Pods : \A u \in local[p] : Free(p) => ttl[u] > 0

(* A user a pod tracks comes to be shown, whatever the other pods delete    *)
(* and whichever commands are lost, unless the pod dies or he leaves it.    *)
TrackedUserIsShown ==
    \A p \in Pods, u \in Users :
        u \in local[p] ~> (ttl[u] > 0 \/ u \notin local[p])

(* Presence.h:19-20, "the TTL is a safety net": the key of a user no pod    *)
(* tracks goes away, after a crash and with commands lost.                  *)
UnknownUserExpires == \A u \in Users : ~Known(u) ~> (ttl[u] = 0 \/ Known(u))

(* Presence.h:16-18: the heartbeat refreshes "users still connected         *)
(* locally".                                                                *)
RefreshedUsersAreConnected == \A p \in Pods : local[p] \subseteq sock[p]

(* Presence.cc:27-31: the set of online users is rid of a user who left,    *)
(* "indirectly via the heartbeat".                                          *)
OnlineSetDrains ==
    \A u \in Users : ~Connected(u) ~> (u \notin onlineSet \/ Connected(u))

=============================================================================
