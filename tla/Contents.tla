------------------------------ MODULE Contents ------------------------------
(***************************************************************************)
(* The list of contents of a long post: components/TableOfContents.vue.    *)
(* It reads the headings of the rendered body, gives each an id, and jumps *)
(* to a heading by its id.  The body is scanned once more whenever the     *)
(* element or its text is announced, and keeps the ids it was given.       *)
(*                                                                         *)
(* Abstracted: a heading is the slug its text has before it is made        *)
(* unique, a sequence of which the last may be a number: the text          *)
(* "Notes 2" has the slug that a second "Notes" would be given.            *)
(***************************************************************************)
EXTENDS Naturals, FiniteSets, SequencesExt

CONSTANTS
    Bases,         \* slugs of texts; the empty one is that of a heading without text
    MinHeadings,   \* MIN_HEADINGS
    MaxHeadings    \* bound: headings of a post

NoId == <<>>

VARIABLES
    headings,   \* of the body, in document order: the slug of the text, and the id
    entries,    \* the list: an id and the heading it was read from
    activeId,
    reading     \* the heading a jump has focused, 0 for none

tocVars == <<headings, entries, activeId, reading>>

Init ==
    /\ headings \in {[i \in DOMAIN texts |-> [base |-> texts[i], id |-> NoId]] : texts \in BoundedSeq(Bases, MaxHeadings)}
    /\ entries = <<>> /\ activeId = NoId /\ reading = 0

-----------------------------------------------------------------------------

\* Mutant: the number is how many headings have the same words.
SlugifyByCount(base, used) ==
    LET same == {s \in used : s = base \/ (s # <<>> /\ Front(s) = base)}
    IN IF same = {} THEN base ELSE Append(base, Cardinality(same) + 1)

\* The first of the numbered slugs that is not used.
Slugify(base, used) ==
    IF base \notin used THEN base
    ELSE Append(base, CHOOSE n \in 2 .. Cardinality(used) + 2 :
                          Append(base, n) \notin used /\ \A m \in 2 .. n - 1 : Append(base, m) \in used)

\* The loop of scan(): headings without text get no id and no entry.
Listed ==
    FoldLeft(LAMBDA list, i :
                IF headings[i].base = <<>> THEN list
                ELSE Append(list, [of |-> i,
                                   id |-> IF headings[i].id # NoId THEN headings[i].id
                                          ELSE Slugify(headings[i].base, {list[k].id : k \in DOMAIN list})]),
             <<>>, [i \in DOMAIN headings |-> i])

Scan ==
    LET list == IF Len(headings) < MinHeadings THEN <<>> ELSE Listed
    IN /\ entries' = list
       /\ headings' = [i \in DOMAIN headings |->
                          IF \E k \in DOMAIN list : list[k].of = i
                          THEN [headings[i] EXCEPT !.id = (CHOOSE e \in ToSet(list) : e.of = i).id] ELSE headings[i]]
       /\ activeId' = NoId
       /\ UNCHANGED reading

\* querySelector: the first heading with the id.
Target(id) == CHOOSE i \in DOMAIN headings : headings[i].id = id /\ \A j \in 1 .. i - 1 : headings[j].id # id

\* The observer reports headings in view; the topmost of them is the active one.
Spy(visible) ==
    /\ visible # {} /\ visible \subseteq {Target(entries[k].id) : k \in DOMAIN entries}
    /\ activeId' = headings[CHOOSE i \in visible : \A j \in visible : i <= j].id
    /\ UNCHANGED <<headings, entries, reading>>

JumpTo(id) ==
    /\ reading' = Target(id)
    /\ activeId' = id
    /\ UNCHANGED <<headings, entries>>

Next ==
    \/ Scan
    \/ \E visible \in SUBSET DOMAIN headings : Spy(visible)
    \/ \E k \in DOMAIN entries : JumpTo(entries[k].id)

Spec == Init /\ [][Next]_tocVars

-----------------------------------------------------------------------------
(* Properties.                                                             *)

TypeOK ==
    /\ activeId \in {NoId} \cup {entries[k].id : k \in DOMAIN entries}
    /\ reading \in 0 .. Len(headings)

\* Every heading with a text is listed once, in order, and its entry leads to
\* it, whatever words the headings share and however often the body was
\* scanned: no id is given twice (slugify, TableOfContents.vue:55).
EntriesLeadToTheirHeadings ==
    entries # <<>> =>
        /\ [k \in DOMAIN entries |-> entries[k].of] =
               SelectSeq([i \in DOMAIN headings |-> i], LAMBDA i : headings[i].base # <<>>)
        /\ \A k \in DOMAIN entries : Target(entries[k].id) = entries[k].of

=============================================================================
