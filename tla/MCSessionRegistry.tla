------------------------- MODULE MCSessionRegistry -------------------------
(* Small instances of SessionRegistry.  The supported deployment runs one   *)
(* process; a rolling update (maxSurge 1) briefly runs two.                 *)
EXTENDS SessionRegistry, TLC

CONSTANTS p1, p2, b1, w1

OneHome == [b \in Browsers |-> p1]
OneProcOf == [w \in Workers |-> p1]
TwoHome == [b \in Browsers |-> IF b = b1 THEN p1 ELSE p2]
TwoProcOf == [w \in Workers |-> IF w = w1 THEN p1 ELSE p2]

(* Sids and users without a second factor are interchangeable; so are       *)
(* browsers and workers of one process.                                     *)
OneSymmetry == Permutations(Sids) \cup Permutations(Browsers)
                   \cup Permutations(Workers) \cup Permutations(Users)
TwoSymmetry == Permutations(Sids) \cup Permutations(Users)
=============================================================================
