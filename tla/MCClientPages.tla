--------------------------- MODULE MCClientPages ---------------------------
(***************************************************************************)
(* Small instances of the pages and stores of the browser client.          *)
(***************************************************************************)
EXTENDS ClientPages

CONSTANTS s1   \* model value: a session on another device

\* Two presses on a post with two comments, one of them with two requests in
\* flight, a step to another post, and a thread of three comments.
SomePostBounds ==
    {[posts |-> {"p1"}, comments |-> 2, visits |-> 1, presses |-> 2, asks |-> 1],
     [posts |-> {"p1"}, comments |-> 2, visits |-> 1, presses |-> 1, asks |-> 2],
     [posts |-> {"p1", "p2"}, comments |-> 1, visits |-> 2, presses |-> 1, asks |-> 2],
     [posts |-> {"p1"}, comments |-> 3, visits |-> 1, presses |-> 0, asks |-> 1]}

\* Three reads of the inbox or a conversation; two with failures, or with a
\* change of the user.
SomeTalkBounds ==
    {[rows |-> 2, reads |-> 3, switches |-> 0, fail |-> FALSE],
     [rows |-> 2, reads |-> 2, switches |-> 0, fail |-> TRUE],
     [rows |-> 2, reads |-> 2, switches |-> 1, fail |-> FALSE]}

\* "Notes", "Notes 2", and a heading without words.
SomeBases == {<<>>, <<"notes">>, <<"notes", 2>>}

SomePresses == [security |-> 3, queue |-> 2, badge |-> 3, follow |-> 4, profile |-> 5, draft |-> 4, token |-> 4]
SomeAsks == [security |-> 2, queue |-> 2, badge |-> 2, follow |-> 2, profile |-> 2, list |-> 3, draft |-> 2, token |-> 2]
SomeMoves == [editor |-> 3, list |-> 4, shell |-> 3]

-----------------------------------------------------------------------------

\* PartsInit, where the parts that rest do so in one state each.
MCInit ==
    /\ part \in Parts
    /\ Init /\ (part # "feed" => public = {})
    /\ Post!Init /\ (part # "post" => postBound.comments = 3)
    /\ Editor!Init /\ (part # "editor" => wanted)
    /\ Security!Init /\ (part # "security" => account.totp)
    /\ Talk!Init /\ (part # "talk" => talkBound.fail)
    /\ Queue!Init /\ target["r1"] = "c1" /\ target["r2"] = "u1"   \* a report of each sort
    /\ part # "queue" => \A r \in DOMAIN reports : reports[r] = "open"
    /\ Badge!Init /\ (part # "badge" => arrived = {})
    /\ Follow!Init /\ (part # "follow" => follows = {} /\ followId = "u1")
    /\ Profile!Init /\ (part # "profile" => profileId = "me")
    /\ List!Init /\ (part # "list" => listPage = "tags" /\ listQ = "q1")
    /\ Draft!Init
    /\ Token!Init /\ (part # "token" => route = "register")
    /\ Worker!Init
    /\ Shell!Init /\ (part # "shell" => narrow /\ authed)
    /\ Toc!Init /\ (part # "toc" => headings = <<>>)

MCSpec == MCInit /\ [][PartsNext]_partsVars

=============================================================================
