-------------------------- MODULE MCCommentThreads --------------------------
(* Small instances of CommentThreads.                                       *)
EXTENDS CommentThreads, TLC

RequestSymmetry == Permutations(Requests)
=============================================================================
