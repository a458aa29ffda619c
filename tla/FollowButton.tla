---------------------------- MODULE FollowButton ----------------------------
(***************************************************************************)
(* components/FollowButton.vue on the profile pages a reader goes through: *)
(* the button and the count change before the call, and are put back if it *)
(* fails.  A profile that is loading has no button, so each visit mounts a *)
(* new one, and answers for the button before land nowhere.                *)
(***************************************************************************)
EXTENDS Naturals, FiniteSets

CONSTANTS
    People,      \* profiles, none of them the reader's own
    NoStats,     \* stats: null
    MaxPresses,  \* bound: what the reader does
    MaxAsks      \* bound: requests in flight at once

VARIABLES
    follows,  \* on the server: those the reader follows
    id,       \* the profile
    stats, busy,
    asks,     \* requests in flight
    presses,
    visit,    \* which of the mounted buttons this is
    left,     \* a page was left with a call in flight
    lost      \* a call was done and its answer lost

followVars == <<follows, id, stats, busy, asks, presses, visit, left, lost>>

Ask(kind, who, v) ==
    [n |-> presses, kind |-> kind, id |-> who, visit |-> v, stage |-> "asked", following |-> FALSE]

Init ==
    /\ follows \in SUBSET People
    /\ id \in People
    /\ stats = NoStats /\ busy = FALSE
    /\ presses = 0
    /\ visit = 1
    /\ asks = {Ask("stats", id, 1)}
    /\ left = FALSE /\ lost = FALSE

Press == presses < MaxPresses /\ presses' = presses + 1 /\ Cardinality(asks) < MaxAsks

\* The button of another profile, or of the same one again.
Go(who) ==
    /\ Press
    /\ id' = who /\ visit' = visit + 1
    /\ stats' = NoStats /\ busy' = FALSE
    /\ asks' = asks \cup {Ask("stats", who, visit')}
    /\ left' = (left \/ busy)
    /\ UNCHANGED <<follows, lost>>

Flip(was) == [following |-> ~was, followers |-> IF was THEN stats.followers - 1 ELSE stats.followers + 1]

Toggling ==
    /\ stats' = Flip(stats.following) /\ busy' = TRUE
    /\ asks' = asks \cup {Ask(IF stats.following THEN "unfollow" ELSE "follow", id, visit)}
    /\ UNCHANGED <<follows, id, visit, left, lost>>

Toggle == Press /\ stats # NoStats /\ ~busy /\ Toggling

\* Both directions are idempotent on the server; of the followers, only the
\* reader is told apart.
Serve(r) ==
    /\ r.stage = "asked"
    /\ follows' = CASE r.kind = "follow"   -> follows \cup {r.id}
                    [] r.kind = "unfollow" -> follows \ {r.id}
                    [] OTHER               -> follows
    /\ asks' = (asks \ {r}) \cup {[r EXCEPT !.stage = "done", !.following = r.id \in follows]}
    /\ UNCHANGED <<id, stats, busy, presses, visit, left, lost>>

Land(r) == r.visit = visit /\ asks' = asks \ {r} /\ UNCHANGED <<follows, id, presses, visit, left>>

\* The answer for a button that is gone.
LandNowhere(r) ==
    /\ r.visit # visit
    /\ asks' = asks \ {r}
    /\ UNCHANGED <<follows, id, stats, busy, presses, visit, left, lost>>

LandStats(r) ==
    /\ r.kind = "stats" /\ Land(r)
    /\ stats' = IF r.stage = "done" THEN [following |-> r.following, followers |-> IF r.following THEN 1 ELSE 0]
                ELSE NoStats
    /\ UNCHANGED <<busy, lost>>

LandToggled(r) ==
    /\ r.kind # "stats" /\ r.stage = "done" /\ Land(r)
    /\ busy' = FALSE
    /\ UNCHANGED <<stats, lost>>

\* Mutant: the number of followers is not put back.
RollbackKeepsCount(was) == [stats EXCEPT !.following = was]

Rollback(was) == [following |-> was, followers |-> IF was THEN stats.followers + 1 ELSE stats.followers - 1]

\* Mutant: there is no rollback.
LandUntoggledKeeps(r) ==
    /\ r.kind # "stats" /\ Land(r)
    /\ busy' = FALSE
    /\ UNCHANGED stats
    /\ lost' = (lost \/ r.stage = "done")

LandUntoggled(r) ==
    /\ r.kind # "stats" /\ Land(r)
    /\ busy' = FALSE
    /\ stats' = Rollback(r.kind = "unfollow")
    /\ lost' = (lost \/ r.stage = "done")

Next ==
    \/ Toggle
    \/ \E who \in People : Go(who)
    \/ \E r \in asks : Serve(r) \/ LandStats(r) \/ LandToggled(r) \/ LandUntoggled(r) \/ LandNowhere(r)

Spec == Init /\ [][Next]_followVars

-----------------------------------------------------------------------------
(* Properties.                                                             *)

\* The count and the button agree on whether the reader is among the
\* followers, however calls fail (toggle's guess and its rollback).
CountAgrees == stats # NoStats => stats.followers = IF stats.following THEN 1 ELSE 0

\* The button says what the server has when every call has been answered,
\* after failures too, unless a profile was left with a call in flight
\* (toggle's busy flag and its rollback).
ButtonSettles == asks = {} /\ ~left /\ ~lost /\ stats # NoStats => stats.following = (id \in follows)

\* The same wherever the reader went meanwhile.  Does not hold: a reader who
\* comes back before the call is served is told what was there before it
\* (FollowButton.vue:19).
ButtonIsOfTheProfile == asks = {} /\ ~lost /\ stats # NoStats => stats.following = (id \in follows)

=============================================================================
