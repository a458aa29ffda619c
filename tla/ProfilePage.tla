----------------------------- MODULE ProfilePage -----------------------------
(***************************************************************************)
(* A profile and the form its owner edits it with (views/ProfileView.vue). *)
(* The page is public, so GET /users/{id} never says the address; the same *)
(* component goes on when the reader follows a link to another profile.    *)
(*                                                                         *)
(* Abstracted: a bio is the person it was written for, or typed; an avatar *)
(* is the number of its upload.  The posts that come with a profile are    *)
(* left out: they have no way of failing.                                  *)
(***************************************************************************)
EXTENDS Naturals, FiniteSets

CONSTANTS
    Me, Other,     \* profiles: the reader's own, and another
    Typed,         \* texts the reader can type as a bio
    Mine, Changed, \* addresses: the reader's, and a new one
    Empty,         \* ''
    NoUser,        \* user: null
    MaxPresses,    \* bound: what the reader does
    MaxAsks        \* bound: requests in flight at once

VARIABLES
    bio, email, avatar,  \* on the server: everybody's bio, the reader's address and avatar
    own,         \* auth.user: its bio and avatar
    id,          \* the profile
    user, loading, error, editing, editBio, editEmail, saving, uploading,
    asks,        \* requests in flight
    presses,
    lost         \* an answer to a save or an upload was lost, or did not wait for the server

profileVars == <<bio, email, avatar, own, id, user, loading, error, editing, editBio, editEmail, saving, uploading, asks,
                 presses, lost>>

form == <<editing, editBio, editEmail>>

Ask(kind, who, text, address, password) ==
    [n |-> presses, kind |-> kind, id |-> who, stage |-> "asked", bio |-> text, email |-> address, password |-> password,
     avatar |-> 0]

Init ==
    /\ bio = [u \in {Me, Other} |-> u] /\ email = Mine /\ avatar = 0
    /\ own = [bio |-> Me, avatar |-> 0]
    /\ id \in {Me, Other}
    /\ user = NoUser /\ loading = TRUE /\ error = FALSE
    /\ editing = FALSE /\ editBio = Empty /\ editEmail = Empty /\ saving = FALSE /\ uploading = FALSE
    /\ presses = 0
    /\ asks = {Ask("user", id, Empty, Empty, FALSE)}
    /\ lost = FALSE

-----------------------------------------------------------------------------
(* The reader.                                                             *)

Press == presses < MaxPresses /\ presses' = presses + 1 /\ UNCHANGED <<bio, email, avatar, own, lost>>

Send(r) == Cardinality(asks) < MaxAsks /\ asks' = asks \cup {r}

\* The watch on props.id loads, and resets nothing else.
Go ==
    /\ Press
    /\ id' = IF id = Me THEN Other ELSE Me
    /\ loading' = TRUE /\ error' = FALSE
    /\ Send(Ask("user", id', Empty, Empty, FALSE))
    /\ UNCHANGED <<user, form, saving, uploading>>

Drawn == ~loading /\ ~error /\ user # NoUser

StartEditing ==
    /\ Press /\ Drawn /\ id = Me /\ ~editing
    /\ editing' = TRUE /\ editBio' = user.bio /\ editEmail' = user.email
    /\ UNCHANGED <<id, user, loading, error, saving, uploading, asks>>

Type ==
    /\ Press /\ Drawn /\ editing
    /\ \/ editBio' \in Typed /\ UNCHANGED editEmail
       \/ editEmail' \in {Mine, Changed} /\ UNCHANGED editBio
    /\ UNCHANGED <<id, user, loading, error, editing, saving, uploading, asks>>

Cancel ==
    /\ Press /\ Drawn /\ editing
    /\ editing' = FALSE
    /\ UNCHANGED <<id, user, loading, error, editBio, editEmail, saving, uploading, asks>>

emailChanged == user # NoUser /\ editEmail # user.email

Saving ==
    /\ saving' = TRUE
    /\ Send(Ask("save", id, editBio, editEmail, emailChanged))
    /\ UNCHANGED <<id, user, loading, error, form, uploading>>

\* Mutant: the button is not disabled while it saves.
SaveTwice == Press /\ Drawn /\ editing /\ Saving

\* An address that differs from the one on the page comes with the password.
SaveProfile == Press /\ Drawn /\ editing /\ ~saving /\ Saving

\* The image goes at once, whatever becomes of the form.
Upload ==
    /\ Press /\ Drawn /\ editing /\ ~uploading
    /\ uploading' = TRUE
    /\ Send(Ask("avatar", id, Empty, Empty, FALSE))
    /\ UNCHANGED <<id, user, loading, error, form, saving>>

-----------------------------------------------------------------------------
(* The server.                                                             *)

Done(r) == asks' = (asks \ {r}) \cup {[r EXCEPT !.stage = "done"]}

Serve(r) == r.stage = "asked" /\ UNCHANGED <<own, id, user, loading, error, form, saving, uploading, presses, lost>>

\* The answer has no address.
ServeUser(r) ==
    /\ r.kind = "user" /\ Serve(r)
    /\ asks' = (asks \ {r}) \cup {[r EXCEPT !.stage = "done", !.bio = bio[r.id],
                                           !.avatar = IF r.id = Me THEN avatar ELSE 0]}
    /\ UNCHANGED <<bio, email, avatar>>

Accepted(r) == r.email = email \/ (r.email # Empty /\ r.password)

ServeSave(r) ==
    /\ r.kind = "save" /\ Serve(r) /\ Accepted(r)
    /\ bio' = [bio EXCEPT ![Me] = r.bio] /\ email' = r.email
    /\ Done(r)
    /\ UNCHANGED avatar

\* The row has the new image before the file of the old one goes.
ServeAvatar(r) ==
    /\ r.kind = "avatar" /\ Serve(r)
    /\ avatar' = r.n
    /\ asks' = (asks \ {r}) \cup {[r EXCEPT !.stage = "done", !.avatar = r.n]}
    /\ UNCHANGED <<bio, email>>

\* A request the page has given up, which gets here all the same.
ServeLate(r) ==
    /\ r.kind \in {"lateSave", "lateAvatar"} /\ Serve(r)
    /\ IF r.kind = "lateSave" /\ Accepted(r)
       THEN bio' = [bio EXCEPT ![Me] = r.bio] /\ email' = r.email
       ELSE UNCHANGED <<bio, email>>
    /\ avatar' = IF r.kind = "lateAvatar" THEN r.n ELSE avatar
    /\ asks' = asks \ {r}

-----------------------------------------------------------------------------
(* The answers.                                                            *)

Stays == UNCHANGED <<bio, email, avatar, id, presses>>
Land(r) == asks' = asks \ {r} /\ Stays

\* An error: refused, or its answer lost, or given up on the way to the server.
Errs(r, late) ==
    /\ Stays
    /\ \/ asks' = asks \ {r} /\ lost' = (lost \/ r.stage = "done")
       \/ r.stage = "asked" /\ asks' = (asks \ {r}) \cup {[r EXCEPT !.kind = late]} /\ lost' = TRUE

LandUser(r) ==
    /\ r.kind = "user" /\ r.stage = "done" /\ Land(r)
    /\ user' = [id |-> r.id, bio |-> r.bio, email |-> Empty, avatar |-> r.avatar]
    /\ editBio' = r.bio /\ editEmail' = Empty
    /\ loading' = FALSE
    /\ UNCHANGED <<own, error, editing, saving, uploading, lost>>

LandNoUser(r) ==
    /\ r.kind = "user" /\ Land(r)
    /\ error' = TRUE /\ loading' = FALSE
    /\ UNCHANGED <<own, user, form, saving, uploading, lost>>

\* user.value is whatever profile the page shows by now.
LandSaved(r) ==
    /\ r.kind = "save" /\ r.stage = "done" /\ Land(r)
    /\ user' = [user EXCEPT !.bio = r.bio, !.email = r.email]
    /\ own' = [own EXCEPT !.bio = r.bio]
    /\ editing' = FALSE /\ saving' = FALSE
    /\ UNCHANGED <<loading, error, editBio, editEmail, uploading, lost>>

LandUnsaved(r) ==
    /\ r.kind = "save" /\ Errs(r, "lateSave")
    /\ saving' = FALSE
    /\ UNCHANGED <<own, user, loading, error, form, uploading>>

LandUploaded(r) ==
    /\ r.kind = "avatar" /\ r.stage = "done" /\ Land(r)
    /\ user' = [user EXCEPT !.avatar = r.avatar]
    /\ own' = [own EXCEPT !.avatar = r.avatar]
    /\ uploading' = FALSE
    /\ UNCHANGED <<loading, error, form, saving, lost>>

LandNotUploaded(r) ==
    /\ r.kind = "avatar" /\ Errs(r, "lateAvatar")
    /\ uploading' = FALSE
    /\ UNCHANGED <<own, user, loading, error, form, saving>>

-----------------------------------------------------------------------------

Next ==
    \/ Go \/ StartEditing \/ Type \/ Cancel \/ SaveProfile \/ Upload
    \/ \E r \in asks :
        \/ ServeUser(r) \/ ServeSave(r) \/ ServeAvatar(r) \/ ServeLate(r)
        \/ LandUser(r) \/ LandNoUser(r) \/ LandSaved(r) \/ LandUnsaved(r) \/ LandUploaded(r) \/ LandNotUploaded(r)

Spec == Init /\ [][Next]_profileVars

-----------------------------------------------------------------------------
(* Properties.                                                             *)

\* A page that neither loads nor reports an error has a profile to draw, and
\* the page is busy only while it is asked for something.
TypeOK ==
    /\ loading \/ error \/ user # NoUser
    /\ asks = {} => ~loading /\ ~saving /\ ~uploading

\* The reader's own copy is the server's when every save and upload has been
\* answered: two of a kind never overtake each other, not even over another
\* profile or a form that was closed and opened (saving, uploading, patchUser).
OwnCopyIsServers ==
    ~lost => /\ (\A r \in asks : r.kind # "save") => own.bio = bio[Me]
             /\ (\A r \in asks : r.kind # "avatar") => own.avatar = avatar

\* "Current password (required to change email)" (ProfileView.vue:167): a
\* save for which the form asks no password changes no address, and is taken.
\* Does not hold: the form never knows the address, sends an empty one
\* (ProfileView.vue:57, 81), and the server refuses it.
BioAloneIsSaved == \A r \in asks : r.kind = "save" /\ r.stage = "asked" /\ ~r.password => Accepted(r)

\* A profile shows one person.  Does not hold: a save that is answered on
\* another profile writes its bio or
\* avatar there (ProfileView.vue:87, 110).
ProfileIsOnePersons == user # NoUser /\ user.id = Other => user.bio = Other /\ user.avatar = 0

\* The reader's bio is the reader's.  Does not hold: the open form goes along
\* to the other profile, is filled with it, and can be saved there
\* (ProfileView.vue:56, 160).
SavedBioIsOwn == bio[Me] # Other

\* A profile that is there is drawn.  Does not hold: an error of the profile
\* before is shown instead (ProfileView.vue:59).
LoadedIsDrawn == asks = {} /\ user # NoUser /\ user.id = id => ~error

=============================================================================
