-------------------------- MODULE MCPostPublishing --------------------------
(* Small instances of PostPublishing: what its requests ask for.            *)
EXTENDS PostPublishing, TLC

NoTags == [content |-> FALSE, draft |-> "absent", tags |-> None]

EditsAndDrafts ==
    {[NoTags EXCEPT !.draft = d, !.content = c] : d \in {"absent", "true"}, c \in BOOLEAN}
Flips == {[NoTags EXCEPT !.draft = d] : d \in {"absent", "true", "false"}}
Contents == {[NoTags EXCEPT !.content = TRUE]}
Retags == {[NoTags EXCEPT !.tags = {t}] : t \in Tags}
Everything == EditsAndDrafts \cup Flips \cup Retags

RequestSymmetry == Permutations(Requests)
=============================================================================
