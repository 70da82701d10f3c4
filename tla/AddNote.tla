------------------------------- MODULE AddNote -------------------------------
(***************************************************************************)
(* The Add Note sheet of Quick Note: its form, the upload of an attachment *)
(* to Firebase Storage, and the note document that refers to it by path.   *)
(*                                                                         *)
(* Each presentation of the sheet is a new AddNoteViewController, here a   *)
(* number.  The closures of putData and setData keep their controller      *)
(* alive, so they still run, on it, after the sheet is dismissed.          *)
(*                                                                         *)
(* A document path "documents/{user}/{filename}" is the pair of the two.   *)
(***************************************************************************)
EXTENDS Integers, FiniteSets

CONSTANTS
    Users,      \* the e-mail addresses of the accounts
    Files,      \* the names of picked files
    Contents,   \* the bytes of picked files: two files may share a name
    Texts,      \* what is typed in the form
    NoUser,     \* Auth.auth().currentUser is nil
    NoDoc,      \* pickedDoc is nil, doc is "", there is no such object
    Empty,      \* an empty form
    MaxSheets,  \* bound: presentations of the sheet
    MaxUploads, \* bound: files picked
    MaxNotes    \* bound: presses of Add that reach Firestore

ASSUME NoUserAddAssumption == NoUser \notin Users
ASSUME NoDocAssumption     == NoDoc \notin Contents /\ NoDoc \notin (Users \X Files)
ASSUME AddBoundsAssumption == MaxSheets \in Nat /\ MaxUploads \in Nat /\ MaxNotes \in Nat

VARIABLES
    user,      \* Auth.auth().currentUser?.email
    sheet,     \* the controller on screen, 0 for none
    opened,    \* controllers created so far
    form,      \* the title and details fields, per controller
    pickedDoc, \* per controller
    label,     \* attachmentNameView per controller: its text, or hidden
    uploads,   \* putData tasks whose completion has not run
    stored,    \* those whose bytes the server has stored at least once
    picks,     \* history: all files ever sent, and from where
    pick,      \* history: the file pickedDoc[s] was picked as
    objects,   \* Firebase Storage: path to content
    pressed,   \* presses of Add that reached Firestore
    notes,     \* the note documents they made, as this device sees them
    adds       \* setData calls whose completion has not run

storage == <<uploads, stored, picks, objects>>
cloud   == <<storage, pressed, notes, adds>>
vars    == <<user, sheet, opened, form, pickedDoc, label, pick, cloud>>

-----------------------------------------------------------------------------

Sheets  == 1..MaxSheets
Paths   == Users \X Files
Picks   == [n : 1..MaxUploads, sheet : Sheets, user : Users, file : Files,
            content : Contents]
Notes   == [n : 1..MaxNotes, sheet : Sheets, user : Users, text : Texts \cup {Empty},
            doc : Paths \cup {NoDoc}, pick : Picks \cup {NoDoc}]
Hidden  == NoDoc

ASSUME NoPickAssumption == NoDoc \notin Picks

\* Faulty variant: the path does not name the account.
documentIDOfFile(u, file) == <<CHOOSE v \in Users : TRUE, file>>

\* Faulty variant: the file name without its folder.
filenameOnly(u, file) == file

\* "documents/\(userId)/\(filename)"
documentID(u, file) == <<u, file>>

Init ==
    /\ user \in Users \cup {NoUser}
    /\ sheet = 0
    /\ opened = 0
    /\ form = [s \in Sheets |-> Empty]
    /\ pickedDoc = [s \in Sheets |-> NoDoc]
    /\ label = [s \in Sheets |-> Hidden]
    /\ pick = [s \in Sheets |-> NoDoc]
    /\ uploads = {}
    /\ stored = {}
    /\ picks = {}
    /\ objects = [p \in Paths |-> NoDoc]
    /\ pressed = 0
    /\ notes = {}
    /\ adds = {}

-----------------------------------------------------------------------------
(* The form *)

\* HomeViewController.addNote: a new controller, nothing picked, label hidden.
PresentSheet ==
    /\ sheet = 0
    /\ opened < MaxSheets
    /\ opened' = opened + 1
    /\ sheet' = opened'
    /\ UNCHANGED <<user, form, pickedDoc, label, pick, cloud>>

DismissSheet ==
    /\ sheet # 0
    /\ sheet' = 0
    /\ UNCHANGED <<user, opened, form, pickedDoc, label, pick, cloud>>

EditForm(text) ==
    /\ sheet # 0
    /\ form' = [form EXCEPT ![sheet] = text]
    /\ UNCHANGED <<user, sheet, opened, pickedDoc, label, pick, cloud>>

-----------------------------------------------------------------------------
(* The attachment *)

\* Faulty variant: the path is taken before the upload is known to succeed.
attachAtOnce(up) ==
    /\ pickedDoc' = [pickedDoc EXCEPT ![up.sheet] = documentID(up.user, up.file)]
    /\ label' = [label EXCEPT ![up.sheet] = up.file]
    /\ pick' = [pick EXCEPT ![up.sheet] = up]

\* The path and the label wait for the completion of putData.
waitForUpload(up) == UNCHANGED <<pickedDoc, label, pick>>

\* documentPicker(_:didPickDocumentsAt:) with a readable file and a user; it
\* returns without effect otherwise.  putData runs on its own from here.
documentPicker(file, content) ==
    /\ sheet # 0
    /\ user # NoUser
    /\ Cardinality(picks) < MaxUploads
    /\ LET new == [n |-> Cardinality(picks) + 1, sheet |-> sheet, user |-> user,
                   file |-> file, content |-> content]
       IN  /\ uploads' = uploads \cup {new}
           /\ picks' = picks \cup {new}
           /\ waitForUpload(new)
    /\ UNCHANGED <<user, sheet, opened, form, stored, objects, pressed, notes, adds>>

\* Storage stores the bytes.  The task retries until it hears back, so this may
\* happen again, after another task stored another file under the same path, or
\* after its closure: an attempt that was given up may still arrive.
StoreObject(up) ==
    /\ objects' = [objects EXCEPT ![documentID(up.user, up.file)] = up.content]
    /\ stored' = stored \cup {up}
    /\ UNCHANGED <<user, sheet, opened, form, pickedDoc, label, pick, uploads, picks,
                   pressed, notes, adds>>

\* Faulty variant: the closure finds the sheet on screen instead of its own.
sheetOnScreen(up) == IF sheet = 0 THEN up.sheet ELSE sheet

\* `self' in the closure of putData.
ownSheet(up) == up.sheet

\* Faulty variant: the closure shows the name picked last.
nameOfLastPick(up) == (CHOOSE p \in picks : \A q \in picks : q.n <= p.n).file

\* `filename' in the closure.
ownName(up) == up.file

\* The closure of putData, without error.
UploadCompleted(up) ==
    /\ up \in stored
    /\ uploads' = uploads \ {up}
    /\ pickedDoc' = [pickedDoc EXCEPT ![ownSheet(up)] = documentID(up.user, up.file)]
    /\ label' = [label EXCEPT ![ownSheet(up)] = ownName(up)]
    /\ pick' = [pick EXCEPT ![ownSheet(up)] = up]
    /\ UNCHANGED <<user, sheet, opened, form, stored, picks, objects, pressed, notes, adds>>

\* The closure with an error only prints it; the bytes may have been stored.
UploadFailed(up) ==
    /\ uploads' = uploads \ {up}
    /\ UNCHANGED <<user, sheet, opened, form, pickedDoc, label, pick, stored, picks,
                   objects, pressed, notes, adds>>

-----------------------------------------------------------------------------
(* The note *)

\* addButtonPressed with a user; without one it returns.  Nothing disables the
\* button, and nothing waits for uploads under way.
addButtonPressed ==
    /\ sheet # 0
    /\ user # NoUser
    /\ pressed < MaxNotes
    /\ pressed' = pressed + 1
    /\ notes' = notes \cup
         {[n |-> pressed', sheet |-> sheet, user |-> user, text |-> form[sheet],
           doc |-> pickedDoc[sheet], pick |-> pick[sheet]]}
    /\ adds' = adds \cup {[n |-> pressed', sheet |-> sheet]}
    /\ UNCHANGED <<user, sheet, opened, form, pickedDoc, label, pick, storage>>

\* The closure of setData, without error: the fields are emptied and the label is
\* hidden, whatever they hold by now; pickedDoc stays.  (The reload: NoteList.)
AddCompleted(add) ==
    /\ adds' = adds \ {add}
    /\ form' = [form EXCEPT ![add.sheet] = Empty]
    /\ label' = [label EXCEPT ![add.sheet] = Hidden]
    /\ UNCHANGED <<user, sheet, opened, pickedDoc, pick, storage, pressed, notes>>

\* The server refuses the note: it disappears, the closure only prints.
AddFailed(add) ==
    /\ adds' = adds \ {add}
    /\ notes' = {x \in notes : x.n # add.n}
    /\ UNCHANGED <<user, sheet, opened, form, pickedDoc, label, pick, storage, pressed>>

\* A sign-in or sign-out lands while the sheet is up: see Session.
AuthChanges(u) ==
    /\ user' = u
    /\ UNCHANGED <<sheet, opened, form, pickedDoc, label, pick, cloud>>

Next ==
    \/ PresentSheet
    \/ DismissSheet
    \/ \E text \in Texts : EditForm(text)
    \/ \E file \in Files, content \in Contents : documentPicker(file, content)
    \/ \E up \in picks : StoreObject(up)
    \/ \E up \in uploads : UploadCompleted(up)
    \/ \E up \in uploads : UploadFailed(up)
    \/ addButtonPressed
    \/ \E add \in adds : AddCompleted(add)
    \/ \E add \in adds : AddFailed(add)
    \/ \E u \in Users \cup {NoUser} : AuthChanges(u)

Spec == Init /\ [][Next]_vars

-----------------------------------------------------------------------------
(* Properties *)

\* Types, and the sheet on screen is the controller created last.
TypeOK ==
    /\ user \in Users \cup {NoUser}
    /\ opened \in 0..MaxSheets
    /\ sheet \in {0, opened}
    /\ form \in [Sheets -> Texts \cup {Empty}]
    /\ pickedDoc \in [Sheets -> Paths \cup {NoDoc}]
    /\ label \in [Sheets -> Files \cup {Hidden}]
    /\ pick \in [Sheets -> Picks \cup {NoDoc}]
    /\ uploads \subseteq picks
    /\ stored \subseteq picks
    /\ picks \subseteq Picks
    /\ objects \in [Paths -> Contents \cup {NoDoc}]
    /\ pressed \in 0..MaxNotes
    /\ notes \subseteq Notes
    /\ adds \subseteq [n : 1..MaxNotes, sheet : Sheets]

\* The doc of every note document names an object that Storage holds, however the
\* upload, the Add and their failures interleave.
AttachmentExists ==
    \A x \in notes : x.doc # NoDoc => objects[x.doc] # NoDoc

\* The object a note refers to holds the bytes that were picked for it, unless the
\* same account picked another file of the same name: neither another account nor
\* a retried upload changes it.
AttachmentKeepsContent ==
    \A x \in notes :
        /\ x.doc # NoDoc
        /\ \A p \in picks : p.user = x.pick.user /\ p.file = x.pick.file
                               => p.content = x.pick.content
        => objects[x.doc] = x.pick.content

\* While a sheet shows a file name, that file is what the next Add attaches.
LabelNamesAttachment ==
    \A s \in Sheets :
        label[s] # Hidden =>
            /\ pick[s] # NoDoc
            /\ label[s] = pick[s].file
            /\ pickedDoc[s] = documentID(pick[s].user, pick[s].file)

\* A note only carries a file picked in the sheet it was written in: an upload
\* that completes after its sheet was dismissed does not reach the next sheet.
AttachmentFromOwnSheet ==
    \A x \in notes : x.pick # NoDoc => x.pick.sheet = x.sheet

\* The comment in documentPicker: the picked file is displayed in a view.
PickedFileIsDisplayed ==
    \A s \in Sheets : pickedDoc[s] # NoDoc => label[s] # Hidden

=============================================================================
