-------------------------- MODULE SessionLifecycle --------------------------
(***************************************************************************)
(* What the session registry promises about one sid, seen from outside.    *)
(*                                                                         *)
(* A sid is fresh until its row exists, then open; a revocation puts it in *)
(* closing while some session of the site could still be served under it,  *)
(* and closed once none can.  It never goes back, and closing ends.        *)
(***************************************************************************)
CONSTANT Sids

VARIABLE life

Phases == {"fresh", "open", "closing", "closed"}

(* One revocation may close many sids at once.                              *)
Edges == {<<"fresh", "open">>, <<"open", "closing">>, <<"open", "closed">>,
          <<"closing", "closed">>}

Init == life = [s \in Sids |-> "fresh"]

Next ==
    /\ life' \in [Sids -> Phases]
    /\ \A s \in Sids : life'[s] = life[s] \/ <<life[s], life'[s]>> \in Edges

Spec == Init /\ [][Next]_life

Settled == \A s \in Sids : life[s] = "closing" ~> life[s] = "closed"
=============================================================================
