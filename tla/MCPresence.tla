----------------------------- MODULE MCPresence -----------------------------
(* Small instances of Presence: one pod with two users, two pods with one.  *)
EXTENDS Presence, TLC

UserSymmetry == Permutations(Users)
PodSymmetry == Permutations(Pods)
=============================================================================
