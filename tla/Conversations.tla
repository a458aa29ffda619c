---------------------------- MODULE Conversations ----------------------------
(***************************************************************************)
(* Private messages as the reader sees them: the conversations of          *)
(* stores/messages.ts, filled by the inbox, by an opened conversation, by  *)
(* the answer of a message sent, and by the socket, in whatever order      *)
(* these land, and MessagesView.vue.                                       *)
(*                                                                         *)
(* Abstracted: a message is its index in `rows`; names and pictures of the *)
(* peers are left out; the two lists of the inbox are read at one moment.  *)
(* All messages are of one user; another one, who only reads, may sign in   *)
(* after him.                                                              *)
(***************************************************************************)
EXTENDS Naturals, FiniteSets, SequencesExt

CONSTANTS
    Owner, Other,  \* who signs in; the messages are of Owner
    Peers,         \* who writes with Owner
    Bounds         \* the bounds a behaviour may run under: [rows, reads, switches, fail]

VARIABLES
    bound,    \* of this behaviour: messages, requests that read, changes of the user, whether calls get lost
    who,      \* auth.user, "nobody" if null
    conv,     \* conversations, by peer
    asks,     \* requests in flight
    marks,    \* messages whose mark-as-read is in flight
    marked,   \* messages the page has asked to mark
    reads,    \* requests that read, so far
    switches, \* changes of the user, so far
    rows,     \* the messages table
    pushes,   \* messages on their way over the socket
    lost      \* texts that were taken out of the box and not sent

talkVars == <<bound, who, conv, asks, marks, marked, reads, switches, rows, pushes, lost>>

Nobody  == "nobody"
Parties == Peers \cup {Owner}
Empty   == [known |-> FALSE, list |-> <<>>, read |-> {}, unread |-> 0]

Ask(kind, peer) == [kind |-> kind, peer |-> peer, n |-> reads, stage |-> "asked", upto |-> 0, read |-> {}]

Init ==
    /\ bound \in Bounds
    /\ who = Owner
    /\ conv = [p \in Parties |-> Empty]
    /\ asks = {} /\ marks = {} /\ marked = {} /\ lost = {}
    /\ reads = 0 /\ switches = 0
    /\ rows = <<>> /\ pushes = <<>>

-----------------------------------------------------------------------------
(* The store.                                                              *)

\* Mutant: a row is added whether it is there or not.
IngestedAgain(c, party, m, counts, isRead) ==
    [c EXCEPT ![party] = [known |-> TRUE, list |-> SortSeq(Append(@.list, m), <),
                          read |-> IF isRead THEN @.read \cup {m} ELSE @.read, unread |-> IF counts THEN @.unread + 1 ELSE @.unread]]

\* ingest: once per id and in their order; the row that is there already
\* stays as it is, the unread counter does not.
Ingested(c, party, m, counts, isRead) ==
    LET there == m \in ToSet(c[party].list)
    IN [c EXCEPT ![party] = [known  |-> TRUE,
                             list   |-> IF there THEN @.list ELSE SortSeq(Append(@.list, m), <),
                             read   |-> IF isRead /\ ~there THEN @.read \cup {m} ELSE @.read,
                             unread |-> IF counts THEN @.unread + 1 ELSE @.unread]]

\* Rows of the inbox take the user of the moment as their other end.
IngestedInbox(c, r) ==
    FoldLeft(LAMBDA k, m : Ingested(k, rows[m].peer, m, ~rows[m].mine /\ m \notin r.read, m \in r.read),
             c, [m \in 1 .. r.upto |-> m])

\* Rows of a conversation come with both ends: peerIdFor takes the sender,
\* unless that is the user.
PartyOf(m) == IF rows[m].mine /\ who # Owner THEN Owner ELSE rows[m].peer

IngestedThread(c, r) ==
    FoldLeft(LAMBDA k, m : Ingested(k, PartyOf(m), m, ~(rows[m].mine /\ who = Owner) /\ m \notin r.read, m \in r.read),
             c, SelectSeq([m \in 1 .. r.upto |-> m], LAMBDA m : rows[m].peer = r.peer))

\* Mutant: the receiver of the rows is not looked at.
ForAnybody(m) == who = Owner

ForUser(m) == who = Owner /\ ~rows[m].mine

-----------------------------------------------------------------------------
(* The reader.                                                             *)

Read(kind, peer) ==
    /\ who # Nobody /\ reads < bound.reads
    /\ reads' = reads + 1
    /\ asks' = asks \cup {Ask(kind, peer)}
    /\ UNCHANGED <<bound, who, conv, marks, marked, switches, rows, pushes, lost>>

\* On sign-in, on every mount of the view.
RefreshInbox == Read("inbox", Nobody)

\* ?peer may name anybody.
OpenConversation(p) == Read("open", p)

\* The box is empty before the request leaves.
SendDraft(p) == who = Owner /\ conv[p].known /\ Read("send", p)

SignOut ==
    /\ who # Nobody /\ switches < bound.switches
    /\ switches' = switches + 1
    /\ who' = Nobody
    /\ conv' = [p \in Parties |-> Empty]
    /\ pushes' = <<>>
    /\ UNCHANGED <<bound, asks, marks, marked, reads, rows, lost>>

SignIn(u) ==
    /\ who = Nobody
    /\ who' = u
    /\ UNCHANGED <<bound, conv, asks, marks, marked, reads, switches, rows, pushes, lost>>

-----------------------------------------------------------------------------
(* The backend, and the socket of Owner.                                   *)

\* Both ends are told, each over its own sockets.
Insert(row) ==
    /\ Len(rows) < bound.rows
    /\ rows' = Append(rows, row)
    /\ \/ who = Owner /\ pushes' = Append(pushes, Len(rows) + 1)
       \/ (bound.fail \/ who # Owner) /\ UNCHANGED pushes

PeerWrites(p) ==
    /\ Insert([peer |-> p, mine |-> FALSE, read |-> FALSE])
    /\ UNCHANGED <<bound, who, conv, asks, marks, marked, reads, switches, lost>>

\* Only Owner's requests find messages.
ServeRead(r) ==
    /\ r.kind \in {"inbox", "open"} /\ r.stage = "asked"
    /\ asks' = (asks \ {r}) \cup {[r EXCEPT !.stage = "done", !.upto = IF who = Owner THEN Len(rows) ELSE 0,
                                            !.read = {m \in DOMAIN rows : rows[m].read}]}
    /\ UNCHANGED <<bound, who, conv, marks, marked, reads, switches, rows, pushes, lost>>

ServeSend(r) ==
    /\ r.kind = "send" /\ r.stage = "asked" /\ who = Owner
    /\ Insert([peer |-> r.peer, mine |-> TRUE, read |-> FALSE])
    /\ asks' = (asks \ {r}) \cup {[r EXCEPT !.stage = "done", !.upto = Len(rows) + 1]}
    /\ UNCHANGED <<bound, who, conv, marks, marked, reads, switches, lost>>

ServeMark(m) ==
    /\ rows' = [rows EXCEPT ![m].read = TRUE]
    /\ marks' = marks \ {m}
    /\ UNCHANGED <<bound, who, conv, asks, marked, reads, switches, pushes, lost>>

\* Best effort: nobody looks at the error.
LoseMark(m) ==
    /\ bound.fail
    /\ marks' = marks \ {m}
    /\ UNCHANGED <<bound, who, conv, asks, marked, reads, switches, rows, pushes, lost>>

-----------------------------------------------------------------------------
(* What lands in the store, whoever is signed in by then.                  *)

Deliver ==
    /\ pushes # <<>>
    /\ LET m == Head(pushes)
       IN conv' = Ingested(conv, rows[m].peer, m, ~rows[m].mine, FALSE)
    /\ pushes' = Tail(pushes)
    /\ UNCHANGED <<bound, who, asks, marks, marked, reads, switches, rows, lost>>

Land(r) ==
    /\ asks' = asks \ {r}
    /\ UNCHANGED <<bound, who, reads, switches, rows, pushes>>

\* Mutant: the inbox replaces the conversations.
LandInboxReplaces(r) ==
    /\ r.kind = "inbox" /\ r.stage = "done" /\ Land(r)
    /\ conv' = IF who # Nobody THEN IngestedInbox([p \in Parties |-> Empty], r) ELSE conv
    /\ UNCHANGED <<marks, marked, lost>>

\* The row the loops come to first: the newest received, or else the newest sent.
FirstOf(r) ==
    LET met == SelectSeq([m \in 1 .. r.upto |-> m], LAMBDA m : ~rows[m].mine)
    IN IF met = <<>> THEN r.upto ELSE Last(met)

\* With nobody signed in, that row throws when its peer is in.
LandInbox(r) ==
    /\ r.kind = "inbox" /\ r.stage = "done" /\ Land(r)
    /\ conv' = IF who # Nobody THEN IngestedInbox(conv, r)
               ELSE IF r.upto = 0 THEN conv
               ELSE [conv EXCEPT ![rows[FirstOf(r)].peer].known = TRUE]
    /\ UNCHANGED <<marks, marked, lost>>

\* Mutant: only the unread rows of the answer are marked.
LandOpenMarksAnswer(r) ==
    /\ r.kind = "open" /\ r.stage = "done" /\ Land(r) /\ who # Nobody
    /\ LET c == IngestedThread([conv EXCEPT ![r.peer].known = TRUE], r)
           unreadIds == {m \in 1 .. r.upto : rows[m].peer = r.peer /\ ForUser(m) /\ m \notin r.read}
       IN /\ conv' = [c EXCEPT ![r.peer].unread = 0]
          /\ marks' = marks \cup unreadIds
          /\ marked' = marked \cup unreadIds
    /\ UNCHANGED lost

\* Everything in the conversation that was unread is marked, also what came
\* over the socket since the answer was made.
LandOpen(r) ==
    /\ r.kind = "open" /\ r.stage = "done" /\ Land(r) /\ who # Nobody
    /\ LET c == IngestedThread([conv EXCEPT ![r.peer].known = TRUE], r)
           unreadIds == {m \in ToSet(c[r.peer].list) : ForUser(m) /\ m \notin c[r.peer].read}
       IN /\ conv' = [c EXCEPT ![r.peer].unread = 0]
          /\ marks' = marks \cup unreadIds
          /\ marked' = marked \cup unreadIds
    /\ UNCHANGED lost

LandOpenSignedOut(r) ==
    /\ r.kind = "open" /\ r.stage = "done" /\ Land(r) /\ who = Nobody
    /\ conv' = [conv EXCEPT ![r.peer].known = TRUE]
    /\ UNCHANGED <<marks, marked, lost>>

LandSend(r) ==
    /\ r.kind = "send" /\ r.stage = "done" /\ Land(r)
    /\ conv' = IF who = Nobody THEN conv ELSE Ingested(conv, PartyOf(r.upto), r.upto, who # Owner, FALSE)
    /\ UNCHANGED <<marks, marked, lost>>

\* Not caught: the text that failed is nowhere any more.
LandFailed(r) ==
    /\ bound.fail \/ (r.kind = "send" /\ r.stage = "asked" /\ who # Owner)
    /\ Land(r)
    /\ lost' = IF r.kind = "send" /\ r.stage = "asked" THEN lost \cup {r.n} ELSE lost
    /\ UNCHANGED <<conv, marks, marked>>

-----------------------------------------------------------------------------

Next ==
    \/ RefreshInbox \/ SignOut \/ Deliver
    \/ \E u \in {Owner, Other} : SignIn(u)
    \/ \E p \in Peers : OpenConversation(p) \/ SendDraft(p) \/ PeerWrites(p)
    \/ \E m \in marks : ServeMark(m) \/ LoseMark(m)
    \/ \E r \in asks :
        \/ ServeRead(r) \/ ServeSend(r)
        \/ LandInbox(r) \/ LandOpen(r) \/ LandOpenSignedOut(r) \/ LandSend(r) \/ LandFailed(r)

Spec == Init /\ [][Next]_talkVars

-----------------------------------------------------------------------------
(* Properties.                                                             *)

\* Conversations hold messages there are, and a conversation with messages
\* or a counter is one the page lists.
TypeOK ==
    /\ who \in {Owner, Other, Nobody}
    /\ \A p \in Parties :
        /\ ToSet(conv[p].list) \cup conv[p].read \subseteq DOMAIN rows
        /\ conv[p].list # <<>> \/ conv[p].unread > 0 => conv[p].known
    /\ marks \subseteq marked /\ marked \subseteq {m \in DOMAIN rows : ~rows[m].mine}

\* Every conversation shows a message once and in the order they were sent,
\* though an own message comes both as an answer and over the socket
\* (ingest, messages.ts:88).
RowsOnceInOrder == \A p \in Parties : \A i, j \in DOMAIN conv[p].list : i < j => conv[p].list[i] < conv[p].list[j]

\* No badge, no unread message: what a conversation without one shows was
\* read before it came, or the page has asked to mark it (openConversation).
UnreadNeverHidden ==
    \A p \in Peers : who = Owner /\ conv[p].unread = 0 =>
        \A m \in ToSet(conv[p].list) : ForUser(m) => m \in conv[p].read \cup marked \/ rows[m].read

\* As long as no call is lost and Owner stays, every message gets to the
\* page, whatever answer lands after it: answers are merged into the
\* conversations, they replace nothing (refreshInbox, openConversation).
AllMessagesShown ==
    ~bound.fail /\ switches = 0 /\ asks = {} /\ pushes = <<>> =>
        \A m \in DOMAIN rows : m \in ToSet(conv[rows[m].peer].list)

\* The badge counts the unread messages.  Does not hold: a second inbox
\* counts them again (messages.ts:94).
UnreadIsCount ==
    \A p \in Peers : conv[p].unread <= Cardinality({m \in ToSet(conv[p].list) : ForUser(m)})

\* What is on the page is of the user on the page.  Does not hold: an inbox
\* asked before a sign-out lands after the next sign-in.
RowsOfTheUser == who # Owner => \A p \in Parties : ~conv[p].known

\* A text leaves its box only by being sent.  Does not hold: sendDraft
\* empties the box first and catches nothing (MessagesView.vue:48).
TextNotLost == lost = {}

=============================================================================
