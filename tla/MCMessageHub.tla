---------------------------- MODULE MCMessageHub ----------------------------
(* Small instances of MessageHub: one user, on as many loops as sockets or  *)
(* on one.                                                                  *)
EXTENDS MessageHub, TLC

CONSTANT u1

OneUser == [s \in Sids |-> u1]
OneLoop == [c \in Conns |-> 1]
ManyLoops == [c \in Conns |-> c]

Symmetry == Permutations(Conns) \cup Permutations(Sids)
=============================================================================
