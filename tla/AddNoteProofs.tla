---------------------------- MODULE AddNoteProofs ----------------------------
(***************************************************************************)
(* Theorems about AddNote, for all accounts, files and contents and every  *)
(* number of sheets, uploads and notes.                                    *)
(***************************************************************************)
EXTENDS AddNote, FiniteSetTheorems, TLAPS

-----------------------------------------------------------------------------
(* Types *)

\* Uploads are numbered by how many there have been: there are finitely many.
PicksInv == TypeOK /\ IsFiniteSet(picks)

\* The controller on screen is one of those that may be.
LEMMA SheetType ==
    ASSUME TypeOK, sheet # 0
    PROVE  sheet \in Sheets
BY AddBoundsAssumption DEF TypeOK, Sheets

\* A file that is picked makes a record of Picks with a number of its own.
LEMMA PickType ==
    ASSUME PicksInv, NEW file \in Files, NEW content \in Contents,
           documentPicker(file, content)
    PROVE  \E new \in Picks :
              /\ uploads' = uploads \cup {new}
              /\ picks' = picks \cup {new}
<1> DEFINE new == [n |-> Cardinality(picks) + 1, sheet |-> sheet, user |-> user,
                   file |-> file, content |-> content]
<1>1. Cardinality(picks) \in Nat
  BY FS_CardinalityType DEF PicksInv
<1>2. Cardinality(picks) + 1 \in 1..MaxUploads
  BY <1>1, AddBoundsAssumption DEF documentPicker
<1>3. sheet \in Sheets /\ user \in Users
  BY SheetType DEF documentPicker, PicksInv, TypeOK
<1>4. new \in Picks
  BY <1>2, <1>3 DEF Picks
<1>5. uploads' = uploads \cup {new} /\ picks' = picks \cup {new}
  BY DEF documentPicker
<1> QED BY <1>4, <1>5

LEMMA PicksStep ==
    ASSUME PicksInv, [Next]_vars
    PROVE  PicksInv'
<1> USE DEF cloud, storage, TypeOK, PicksInv
<1>1. CASE PresentSheet
  BY <1>1, AddBoundsAssumption DEF PresentSheet
<1>2. CASE DismissSheet
  BY <1>2 DEF DismissSheet
<1>3. ASSUME NEW text \in Texts, EditForm(text) PROVE PicksInv'
  BY <1>3 DEF EditForm
<1>4. ASSUME NEW file \in Files, NEW content \in Contents, documentPicker(file, content)
      PROVE  PicksInv'
  <2>1. PICK new \in Picks : uploads' = uploads \cup {new} /\ picks' = picks \cup {new}
    BY <1>4, PickType
  <2>2. IsFiniteSet(picks')
    BY <2>1, FS_AddElement
  <2> QED BY <1>4, <2>1, <2>2 DEF documentPicker, waitForUpload
<1>5. ASSUME NEW up \in picks, StoreObject(up) PROVE PicksInv'
  <2>1. up \in Picks
    OBVIOUS
  <2>2. documentID(up.user, up.file) \in Paths /\ up.content \in Contents
    BY <2>1 DEF Picks, Paths, documentID
  <2>3. objects' \in [Paths -> Contents \cup {NoDoc}]
    BY <1>5, <2>2 DEF StoreObject
  <2> QED BY <1>5, <2>3 DEF StoreObject
<1>6. ASSUME NEW up \in uploads, UploadCompleted(up) PROVE PicksInv'
  <2>1. up \in Picks /\ up.sheet \in Sheets /\ up.file \in Files
        /\ documentID(up.user, up.file) \in Paths
    BY DEF Picks, Paths, documentID
  <2>2. /\ pickedDoc' \in [Sheets -> Paths \cup {NoDoc}]
        /\ label' \in [Sheets -> Files \cup {Hidden}]
        /\ pick' \in [Sheets -> Picks \cup {NoDoc}]
    BY <1>6, <2>1 DEF UploadCompleted, ownSheet, ownName
  <2> QED BY <1>6, <2>2 DEF UploadCompleted
<1>7. ASSUME NEW up \in uploads, UploadFailed(up) PROVE PicksInv'
  BY <1>7 DEF UploadFailed
<1>8. CASE addButtonPressed
  <2>1. sheet \in Sheets /\ user \in Users /\ pressed' \in 1..MaxNotes
    BY <1>8, SheetType, AddBoundsAssumption DEF addButtonPressed
  <2>2. [n |-> pressed', sheet |-> sheet, user |-> user, text |-> form[sheet],
         doc |-> pickedDoc[sheet], pick |-> pick[sheet]] \in Notes
    BY <2>1 DEF Notes
  <2>3. [n |-> pressed', sheet |-> sheet] \in [n : 1..MaxNotes, sheet : Sheets]
    BY <2>1
  <2> QED BY <1>8, <2>1, <2>2, <2>3 DEF addButtonPressed
<1>9. ASSUME NEW add \in adds, AddCompleted(add) PROVE PicksInv'
  BY <1>9 DEF AddCompleted
<1>10. ASSUME NEW add \in adds, AddFailed(add) PROVE PicksInv'
  BY <1>10 DEF AddFailed
<1>11. ASSUME NEW u \in Users \cup {NoUser}, AuthChanges(u) PROVE PicksInv'
  BY <1>11 DEF AuthChanges
<1>12. CASE UNCHANGED vars
  BY <1>12 DEF vars
<1> QED BY <1>1, <1>2, <1>3, <1>4, <1>5, <1>6, <1>7, <1>8, <1>9, <1>10, <1>11, <1>12
        DEF Next

LEMMA PicksHold == Spec => []PicksInv
<1>1. Init => PicksInv
  BY FS_EmptySet, AddBoundsAssumption DEF Init, PicksInv, TypeOK
<1> QED BY <1>1, PicksStep, PTL DEF Spec

\* Every variable of the sheet keeps its type, and the sheet on screen is the one
\* opened last.
THEOREM AddNoteTypes == Spec => []TypeOK
<1>1. PicksInv => TypeOK
  BY DEF PicksInv
<1> QED BY <1>1, PicksHold, PTL

-----------------------------------------------------------------------------
(* Attachments *)

\* A path and the pick it was taken from: the bytes have been stored under it.
Attached(path, up) == up \in stored /\ path = documentID(up.user, up.file)

\* No other file of that name was picked for the account.
OnlyContent(up) ==
    \A p \in picks : p.user = up.user /\ p.file = up.file => p.content = up.content

\* What Storage holds under the path of a stored pick.
ObjectsInv ==
    \A up \in stored :
        LET object == objects[documentID(up.user, up.file)]
        IN  object # NoDoc /\ (OnlyContent(up) => object = up.content)

\* What a sheet has attached is a pick of its own whose bytes are stored.
SheetsInv ==
    \A s \in Sheets :
        /\ pickedDoc[s] # NoDoc => Attached(pickedDoc[s], pick[s])
        /\ pick[s] # NoDoc => pick[s].sheet = s /\ pickedDoc[s] # NoDoc

\* The same of the notes.
NotesInv ==
    \A x \in notes :
        /\ x.doc # NoDoc => Attached(x.doc, x.pick)
        /\ x.pick # NoDoc => x.pick.sheet = x.sheet

AttachInv == ObjectsInv /\ SheetsInv /\ NotesInv

\* Storing one pick leaves true what is said of all those stored under its path.
LEMMA StoreKeepsObjects ==
    ASSUME TypeOK, ObjectsInv, NEW up \in picks, StoreObject(up)
    PROVE  ObjectsInv'
<1> DEFINE path(u) == documentID(u.user, u.file)
<1>1. up \in picks /\ up \in Picks /\ path(up) \in Paths /\ up.content # NoDoc
  BY NoDocAssumption DEF TypeOK, Picks, Paths, documentID
<1>2. /\ objects' = [objects EXCEPT ![path(up)] = up.content]
      /\ stored' = stored \cup {up} /\ picks' = picks
  BY DEF StoreObject
<1>3. objects'[path(up)] = up.content
  BY <1>1, <1>2 DEF TypeOK
<1>4. ASSUME NEW u \in stored'
      PROVE  objects'[path(u)] # NoDoc /\ (OnlyContent(u)' => objects'[path(u)] = u.content)
  <2>1. u \in Picks /\ path(u) \in Paths
    BY <1>1, <1>2, <1>4 DEF TypeOK, Picks, Paths, documentID
  <2>2. OnlyContent(u)' => OnlyContent(u)
    BY <1>2 DEF OnlyContent
  <2>3. CASE path(u) = path(up)
    <3>1. u.user = up.user /\ u.file = up.file
      BY <2>3 DEF documentID
    <3>2. OnlyContent(u) => up.content = u.content
      BY <1>1, <3>1 DEF OnlyContent
    <3> QED BY <1>1, <1>3, <2>2, <2>3, <3>2
  <2>4. CASE path(u) # path(up)
    <3>1. u \in stored
      BY <1>2, <1>4, <2>4
    <3>2. objects'[path(u)] = objects[path(u)]
      BY <1>1, <1>2, <2>1, <2>4 DEF TypeOK
    <3> QED BY <2>2, <3>1, <3>2 DEF ObjectsInv
  <2> QED BY <2>3, <2>4
<1> QED BY <1>4 DEF ObjectsInv

\* More picks and no other change in Storage keep ObjectsInv.
LEMMA MorePicksKeepObjects ==
    ASSUME ObjectsInv, UNCHANGED <<objects, stored>>, picks \subseteq picks'
    PROVE  ObjectsInv'
BY DEF ObjectsInv, OnlyContent

\* What is attached stays so while nothing stored is forgotten.
LEMMA SameSheets ==
    ASSUME SheetsInv, UNCHANGED <<pickedDoc, pick>>, stored \subseteq stored'
    PROVE  SheetsInv'
BY DEF SheetsInv, Attached

LEMMA SameNotes ==
    ASSUME NotesInv, notes' \subseteq notes, stored \subseteq stored'
    PROVE  NotesInv'
BY DEF NotesInv, Attached

LEMMA AttachStep ==
    ASSUME TypeOK, AttachInv, [Next]_vars
    PROVE  AttachInv'
<1> USE DEF cloud, storage, AttachInv
<1>1. CASE \/ PresentSheet \/ DismissSheet
           \/ \E text \in Texts : EditForm(text)
           \/ \E file \in Files, content \in Contents : documentPicker(file, content)
           \/ \E up \in uploads : UploadFailed(up)
           \/ \E add \in adds : AddCompleted(add) \/ AddFailed(add)
           \/ \E u \in Users \cup {NoUser} : AuthChanges(u)
           \/ UNCHANGED vars
  <2>1. /\ UNCHANGED <<objects, stored, pickedDoc, pick>>
        /\ picks \subseteq picks' /\ notes' \subseteq notes
    BY <1>1 DEF PresentSheet, DismissSheet, EditForm, documentPicker, waitForUpload,
                UploadFailed, AddCompleted, AddFailed, AuthChanges, vars
  <2> QED BY <2>1, MorePicksKeepObjects, SameSheets, SameNotes
<1>2. ASSUME NEW up \in picks, StoreObject(up) PROVE AttachInv'
  <2>1. UNCHANGED <<pickedDoc, pick, notes>> /\ stored \subseteq stored'
    BY <1>2 DEF StoreObject
  <2> QED BY <1>2, <2>1, StoreKeepsObjects, SameSheets, SameNotes
<1>3. ASSUME NEW up \in uploads, UploadCompleted(up) PROVE AttachInv'
  <2>1. up \in stored /\ up \in Picks /\ up.sheet \in Sheets
    BY <1>3 DEF UploadCompleted, TypeOK, Picks
  <2>2. /\ pickedDoc' = [pickedDoc EXCEPT ![up.sheet] = documentID(up.user, up.file)]
        /\ pick' = [pick EXCEPT ![up.sheet] = up]
        /\ UNCHANGED <<objects, stored, picks, notes>>
    BY <1>3 DEF UploadCompleted, ownSheet, ownName
  <2>3. documentID(up.user, up.file) # NoDoc
    <3>1. documentID(up.user, up.file) \in Users \X Files
      BY <2>1 DEF documentID, Picks
    <3> QED BY <3>1, NoDocAssumption
  <2>4. ASSUME NEW s \in Sheets
        PROVE  /\ pickedDoc'[s] # NoDoc => Attached(pickedDoc'[s], pick'[s])
               /\ pick'[s] # NoDoc => pick'[s].sheet = s /\ pickedDoc'[s] # NoDoc
    <3>1. CASE s = up.sheet
      BY <2>1, <2>2, <2>3, <3>1 DEF TypeOK, Attached
    <3>2. CASE s # up.sheet
      <4>1. pickedDoc'[s] = pickedDoc[s] /\ pick'[s] = pick[s]
        BY <2>1, <2>2, <3>2 DEF TypeOK
      <4> QED BY <4>1 DEF SheetsInv
    <3> QED BY <3>1, <3>2
  <2>5. SheetsInv'
    BY <2>2, <2>4 DEF SheetsInv, Attached
  <2> QED BY <2>2, <2>5, MorePicksKeepObjects, SameNotes
<1>4. CASE addButtonPressed
  <2> DEFINE new == [n |-> pressed', sheet |-> sheet, user |-> user, text |-> form[sheet],
                     doc |-> pickedDoc[sheet], pick |-> pick[sheet]]
  <2>1. /\ notes' = notes \cup {new}
        /\ UNCHANGED <<objects, stored, picks, pickedDoc, pick>>
    BY <1>4 DEF addButtonPressed
  <2>2. sheet \in Sheets
    BY <1>4, SheetType DEF addButtonPressed
  <2>3. new.doc = pickedDoc[sheet] /\ new.pick = pick[sheet] /\ new.sheet = sheet
    OBVIOUS
  <2> HIDE DEF new
  <2>4. /\ new.doc # NoDoc => Attached(new.doc, new.pick)
        /\ new.pick # NoDoc => new.pick.sheet = new.sheet
    BY <2>2, <2>3 DEF SheetsInv
  <2>5. NotesInv'
    BY <2>1, <2>4 DEF NotesInv, Attached
  <2> QED BY <2>1, <2>5, MorePicksKeepObjects, SameSheets
<1> QED BY <1>1, <1>2, <1>3, <1>4 DEF Next

LEMMA AttachmentsHold == Spec => []AttachInv
<1>1. Init => AttachInv
  BY DEF Init, AttachInv, ObjectsInv, SheetsInv, NotesInv
<1>2. TypeOK /\ AttachInv /\ [Next]_vars => AttachInv'
  BY AttachStep
<1> QED BY <1>1, <1>2, AddNoteTypes, PTL DEF Spec

\* The path in a note names an object that is there: the path is taken when the
\* bytes are stored, never before, and no upload or failure removes them.
THEOREM AttachmentsExist == Spec => []AttachmentExists
<1>1. AttachInv => AttachmentExists
  BY DEF AttachInv, NotesInv, ObjectsInv, Attached, AttachmentExists
<1> QED BY <1>1, AttachmentsHold, PTL

\* Only another file of the same name, picked by the same account, can change what
\* a note's attachment holds.
THEOREM AttachmentsKeepContent == Spec => []AttachmentKeepsContent
<1>1. AttachInv => AttachmentKeepsContent
  BY DEF AttachInv, NotesInv, ObjectsInv, Attached, OnlyContent, AttachmentKeepsContent
<1> QED BY <1>1, AttachmentsHold, PTL

\* An attachment comes from the sheet its note was written in.
THEOREM AttachmentsOfOwnSheet == Spec => []AttachmentFromOwnSheet
<1>1. AttachInv => AttachmentFromOwnSheet
  BY DEF AttachInv, NotesInv, AttachmentFromOwnSheet
<1> QED BY <1>1, AttachmentsHold, PTL

\* A label that shows names what the next Add attaches: label, path and pick are
\* set together, and only the label is ever taken away.
THEOREM LabelsNameAttachments == Spec => []LabelNamesAttachment
<1>1. Init => LabelNamesAttachment
  BY DEF Init, LabelNamesAttachment
<1>2. TypeOK /\ LabelNamesAttachment /\ [Next]_vars => LabelNamesAttachment'
  <2> SUFFICES ASSUME TypeOK, LabelNamesAttachment, [Next]_vars
               PROVE  LabelNamesAttachment'
    OBVIOUS
  <2> USE DEF cloud, storage
  <2>1. ASSUME NEW up \in uploads, UploadCompleted(up) PROVE LabelNamesAttachment'
    <3>1. up \in Picks /\ up.sheet \in Sheets /\ up # NoDoc
      BY NoPickAssumption DEF TypeOK, Picks
    <3>2. /\ pickedDoc' = [pickedDoc EXCEPT ![up.sheet] = documentID(up.user, up.file)]
          /\ pick' = [pick EXCEPT ![up.sheet] = up]
          /\ label' = [label EXCEPT ![up.sheet] = up.file]
      BY <2>1 DEF UploadCompleted, ownSheet, ownName
    <3>3. ASSUME NEW s \in Sheets, label'[s] # Hidden
          PROVE  /\ pick'[s] # NoDoc
                 /\ label'[s] = pick'[s].file
                 /\ pickedDoc'[s] = documentID(pick'[s].user, pick'[s].file)
      <4>1. CASE s = up.sheet
        BY <3>1, <3>2, <4>1 DEF TypeOK
      <4>2. CASE s # up.sheet
        <5>1. /\ pickedDoc'[s] = pickedDoc[s] /\ pick'[s] = pick[s]
              /\ label'[s] = label[s]
          BY <3>1, <3>2, <4>2 DEF TypeOK
        <5> QED BY <3>3, <5>1 DEF LabelNamesAttachment
      <4> QED BY <4>1, <4>2
    <3> QED BY <3>3 DEF LabelNamesAttachment
  <2>2. ASSUME NEW add \in adds, AddCompleted(add) PROVE LabelNamesAttachment'
    <3>1. /\ label' = [label EXCEPT ![add.sheet] = Hidden]
          /\ UNCHANGED <<pickedDoc, pick>>
      BY <2>2 DEF AddCompleted
    <3>2. \A s \in Sheets : label'[s] # Hidden => label'[s] = label[s]
      BY <3>1 DEF TypeOK
    <3> QED BY <3>1, <3>2 DEF LabelNamesAttachment
  <2>3. CASE \/ PresentSheet \/ DismissSheet
             \/ \E text \in Texts : EditForm(text)
             \/ \E file \in Files, content \in Contents : documentPicker(file, content)
             \/ \E up \in picks : StoreObject(up)
             \/ \E up \in uploads : UploadFailed(up)
             \/ addButtonPressed
             \/ \E add \in adds : AddFailed(add)
             \/ \E u \in Users \cup {NoUser} : AuthChanges(u)
             \/ UNCHANGED vars
    <3>1. UNCHANGED <<label, pick, pickedDoc>>
      BY <2>3 DEF PresentSheet, DismissSheet, EditForm, documentPicker, waitForUpload,
                  StoreObject, UploadFailed, addButtonPressed, AddFailed, AuthChanges, vars
    <3> QED BY <3>1 DEF LabelNamesAttachment
  <2> QED BY <2>1, <2>2, <2>3 DEF Next
<1> QED BY <1>1, <1>2, AddNoteTypes, PTL DEF Spec

=============================================================================
