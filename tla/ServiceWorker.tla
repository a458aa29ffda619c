---------------------------- MODULE ServiceWorker ----------------------------
(***************************************************************************)
(* public/sw.js: the shell of the application offline.  A worker is told   *)
(* apart by the VERSION in it; a deploy brings a new build and, when       *)
(* somebody has changed VERSION, a new worker.                             *)
(*                                                                         *)
(* Abstracted: of a build there is one hashed asset, which the server has  *)
(* for as long as the build is deployed; the icons are the manifest.       *)
(***************************************************************************)
EXTENDS Naturals, FiniteSets

CONSTANTS
    MaxBuilds,  \* bound: deploys
    MaxPuts     \* bound: writes to the cache under way at once

VARIABLES
    build, version,  \* on the server
    online,
    active,          \* VERSION of the worker in control, 0: none
    installing,      \* of the one that has filled its cache, 0: none
    stored,          \* Cache Storage: entries of the caches, by VERSION
    puts,            \* writes nobody waits for
    shown,           \* answer to the last request of the page
    short,           \* a precache fetch failed
    late             \* a write came after its worker was replaced

workerVars == <<build, version, online, active, installing, stored, puts, shown, short, late>>

Builds == 1 .. MaxBuilds

Index == <<"/">>
Offline == <<"/offline.html">>
Manifest == <<"/manifest.webmanifest">>
Asset(b) == <<"/assets/", b>>

PRECACHE == {Index, Offline, Manifest}

\* What the server has at a moment: build 0 is an error status.
Served(url) == IF url \in {Asset(b) : b \in Builds \ {build}} THEN 0 ELSE build

Entry(v, url, b) == [cache |-> v, url |-> url, build |-> b]

Cached(url) == {e \in stored : e.url = url}

Nothing == [url |-> Index, build |-> 0, by |-> "nobody"]

Init ==
    /\ build = 1 /\ version = 1 /\ online = TRUE
    /\ active = 0 /\ installing = 0
    /\ stored = {} /\ puts = {}
    /\ shown = Nothing
    /\ short = FALSE /\ late = FALSE

Deploy(bump) ==
    /\ build < MaxBuilds /\ build' = build + 1
    /\ version' = IF bump THEN version + 1 ELSE version
    /\ UNCHANGED <<online, active, installing, stored, puts, shown, short, late>>

Connect == online' = ~online /\ UNCHANGED <<build, version, active, installing, stored, puts, shown, short, late>>

\* The entries are added one by one, and one that fails costs itself only.
Install ==
    /\ online /\ installing = 0 /\ version # active
    /\ installing' = version
    /\ \E got \in SUBSET PRECACHE :
        /\ stored' = {e \in stored : e.cache # version} \cup {Entry(version, url, build) : url \in got}
        /\ short' = (short \/ got # PRECACHE)
    /\ UNCHANGED <<build, version, online, active, puts, shown, late>>

\* Mutant: the caches before are left.
ActivateKeepsAll ==
    /\ installing # 0
    /\ active' = installing /\ installing' = 0
    /\ UNCHANGED <<build, version, online, stored, puts, shown, short, late>>

\* Mutant: its own cache is deleted with the others.
ActivateDeletesAll ==
    /\ installing # 0
    /\ active' = installing /\ installing' = 0
    /\ stored' = {}
    /\ UNCHANGED <<build, version, online, puts, shown, short, late>>

\* skipWaiting has it in control at once.
Activate ==
    /\ installing # 0
    /\ active' = installing /\ installing' = 0
    /\ stored' = {e \in stored : e.cache = installing}
    /\ UNCHANGED <<build, version, online, puts, shown, short, late>>

\* Network first; offline.html, or the index, only without one.
Navigate ==
    /\ active # 0
    /\ \/ /\ online
          /\ shown' = [url |-> Index, build |-> build, by |-> "network"]
       \/ /\ ~online
          /\ LET fallback == IF Cached(Offline) # {} THEN Cached(Offline) ELSE Cached(Index)
             IN \/ \E e \in fallback : shown' = [url |-> e.url, build |-> e.build, by |-> "cache"]
                \/ fallback = {} /\ shown' = [url |-> Index, build |-> 0, by |-> "network"]
    /\ UNCHANGED <<build, version, online, active, installing, stored, puts, short, late>>

\* Mutant: an error is kept too.
KeepsErrors(url) == {Entry(active, url, Served(url))}

\* resp.ok: an error is not kept.
Kept(url) == IF Served(url) # 0 THEN {Entry(active, url, Served(url))} ELSE {}

\* Cache first; the write of what the network answered is not waited for.
FetchStatic(url) ==
    /\ active # 0
    /\ \/ /\ \E e \in Cached(url) : shown' = [url |-> url, build |-> e.build, by |-> "cache"]
          /\ UNCHANGED puts
       \/ /\ Cached(url) = {} /\ online /\ Cardinality(puts) < MaxPuts
          /\ shown' = [url |-> url, build |-> Served(url), by |-> "network"]
          /\ puts' = puts \cup Kept(url)
    /\ UNCHANGED <<build, version, online, active, installing, stored, short, late>>

\* open() makes the cache again if it was deleted meanwhile.
Put(e) ==
    /\ puts' = puts \ {e}
    /\ stored' = {o \in stored : o.cache # e.cache \/ o.url # e.url} \cup {e}
    /\ late' = (late \/ e.cache # active)
    /\ UNCHANGED <<build, version, online, active, installing, shown, short>>

Next ==
    \/ \E bump \in BOOLEAN : Deploy(bump)
    \/ Connect \/ Install \/ Activate \/ Navigate
    \/ \E url \in {Manifest} \cup {Asset(b) : b \in Builds} : FetchStatic(url)
    \/ \E e \in puts : Put(e)

Spec == Init /\ [][Next]_workerVars

-----------------------------------------------------------------------------
(* Properties.                                                             *)

\* An asset that comes out of the cache is the one its name stands for, never
\* an error kept from a moment when the server did not have it ("so a hit is
\* never stale", sw.js:76).
AssetHitIsRight ==
    \A b \in Builds : shown.by = "cache" /\ shown.url = Asset(b) => shown.build = b

\* Entries belong to the worker in control or to the one taking over: a
\* change of VERSION clears what was there (sw.js:10), unless a write came
\* after it.
OldCachesCleared == ~late => \A e \in stored : e.cache \in {active, installing}

\* Once navigating offline is answered, it stays so through updates, unless a
\* worker was installed without its fallback (activate deletes the caches of
\* the others).
OfflineStays ==
    [][~short' /\ Cached(Offline) # {} => \E e \in stored' : e.url = Offline]_workerVars

\* The same when a fetch of an install failed.  Does not hold: allSettled
\* installs a worker without its fallback, and activating it deletes the
\* fallback there was (sw.js:28, 38).
OfflineAlwaysStays ==
    [][Cached(Offline) # {} => \E e \in stored' : e.url = Offline]_workerVars

\* A hit is never stale.  Does not hold for the manifest and the icons, whose
\* names do not change with their content (sw.js:47, 77).
HitIsNeverStale == [][shown' # shown /\ shown'.by = "cache" /\ shown'.url = Manifest => shown'.build = build]_workerVars

=============================================================================
