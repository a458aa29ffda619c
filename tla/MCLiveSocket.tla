---------------------------- MODULE MCLiveSocket ----------------------------
(***************************************************************************)
(* Two users, one of them with a second factor, in one tab whose requests, *)
(* handshakes and connections fail a bounded number of times.  The second  *)
(* factor matters at a sign-in only, so a session there is when the page   *)
(* loads is taken for that of the other user.                              *)
(***************************************************************************)
EXTENDS LiveSocket

CONSTANTS a, b   \* model values: users

MCInit == LiveInit /\ cookie.who \notin TwoFactor

MCSpec == MCInit /\ [][Next]_liveVars /\ Fairness

=============================================================================
