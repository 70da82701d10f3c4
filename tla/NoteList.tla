------------------------------ MODULE NoteList ------------------------------
(***************************************************************************)
(* The note list of Quick Note: the singleton DataSource that holds the    *)
(* array `notes' and fills it from Firestore, the HomeViewController that  *)
(* shows what DataSource posts, and the handlers of the other screens that *)
(* write a note and reload (DetailViewController's save and delete,        *)
(* AddNoteViewController's completion).                                    *)
(*                                                                         *)
(* Every handler runs on the main thread and is one action.  What runs     *)
(* elsewhere is Firestore, of which the list knows the contract of         *)
(* NoteCollection: a getDocuments call waits until an answer is raised on  *)
(* Firestore's worker queue; the answer, its contents fixed, then waits on *)
(* the main queue until its closure runs.  Anything may happen between the *)
(* three steps, another load and a change of user included.                *)
(***************************************************************************)
EXTENDS NoteCollection

CONSTANT
    NoRow      \* no detail screen is up

VARIABLES
    notes,     \* DataSource.shared.notes: a row is a Note object
    home,      \* HomeViewController.notes, what the table shows
    screen,    \* the topmost screen of the Home stack; "away": there is no Home
    detail,    \* DetailViewController.note
    editing,   \* the detail text is editable and the save button visible
    atClear,   \* history: reads unanswered when `notes' was last emptied
    last       \* history: the newest load, whether its rows were delivered and
               \* whether its collection is unchanged since it was issued

screens   == <<screen, detail, editing>>
history   == <<atClear, last>>
vars      == <<collection, notes, home, screens, history>>

-----------------------------------------------------------------------------

Rows    == [load : 1..MaxLoads, user : Users, id : NoteIds, details : Details]
NoLoad  == [n |-> 0, user |-> NoUser, delivered |-> FALSE, clean |-> FALSE]

\* The Note objects the loop over data.documents makes of one answer.
RowsOf(read, docs) ==
    {[load |-> read.n, user |-> read.user, id |-> i, details |-> docs[i]] :
        i \in {j \in NoteIds : docs[j] # Absent}}

\* The reads issued whose closure has not run.
Outstanding ==
    waiting \cup {mainQueue[k].read : k \in 1..Len(mainQueue)}

\* A change of the documents: has this load read what is no longer so?
noticed(load) ==
    IF load.user \in Users /\ store'[load.user] # store[load.user]
    THEN [load EXCEPT !.clean = FALSE]
    ELSE load

Init ==
    /\ CollectionInit
    /\ notes = {}
    /\ home = {}
    /\ screen = "away"
    /\ detail = NoRow
    /\ editing = FALSE
    /\ atClear = {}
    /\ last = NoLoad

-----------------------------------------------------------------------------
(* DataSource *)

\* Faulty variant: the array is not emptied.
keepAll(rows) == rows

removeAll(rows) == {}

\* loadNoteDataFromFirebase, run inside the action of each of its callers: the
\* array is emptied before the guard on the user, so without a user it stays
\* empty and nothing is posted.
loadNoteDataFromFirebase ==
    /\ notes' = removeAll(notes)
    /\ \/ /\ user = NoUser
          /\ atClear' = Outstanding
          /\ last' = NoLoad
          /\ UNCHANGED <<loads, waiting>>
       \/ /\ user # NoUser
          /\ getDocuments
          /\ LET read == [n |-> loads + 1, user |-> user]
             IN  /\ atClear' = Outstanding \cup {read}
                 /\ last' = [n |-> read.n, user |-> user,
                             delivered |-> FALSE, clean |-> TRUE]

\* Faulty variant: the table adds the posted rows to those it has.
loadListAdds(rows) == home' = IF screen = "away" THEN home ELSE home \cup rows

\* HomeViewController's observer of "load": its rows are replaced.
loadList(rows) == home' = IF screen = "away" THEN home ELSE rows

\* The closure of getDocuments: append one Note per document, then post "load"
\* with the whole array; loadList runs inside post.  An error is only printed.
Deliver ==
    /\ TakeAnswer
    /\ LET answer == Head(mainQueue)
           read   == answer.read
       IN  \/ /\ answer.ok
              /\ notes' = notes \cup RowsOf(read, answer.docs)
              /\ loadList(notes')
              /\ last' = noticed([last EXCEPT !.delivered = @ \/ last.n = read.n])
           \/ /\ ~answer.ok
              /\ last' = noticed(last)
              /\ UNCHANGED <<notes, home>>
    /\ UNCHANGED <<screens, atClear>>

-----------------------------------------------------------------------------
(* HomeViewController *)

\* Faulty variant: the detail screen outlives its place in the stack.
keepDetail == UNCHANGED <<detail, editing>>

\* The DetailViewController is popped and gone, the text in it with it.
popDetail == detail' = NoRow /\ editing' = FALSE

\* viewDidLoad: the table is empty until the first answer is posted.
OpenHome ==
    /\ screen = "away"
    /\ screen' = "list"
    /\ home' = {}
    /\ loadNoteDataFromFirebase
    /\ UNCHANGED <<user, firestore, mainQueue, detail, editing>>

\* The Home stack leaves the window: a route replaced the root controller.
HomeGone ==
    /\ screen # "away"
    /\ screen' = "away"
    /\ home' = {}
    /\ popDetail
    /\ UNCHANGED <<user, firestore, reads, loads, notes, history>>

\* didSelectRowAt pushes a DetailViewController that starts read-only.
SelectRow(r) ==
    /\ screen = "list"
    /\ screen' = "detail"
    /\ detail' = r
    /\ editing' = FALSE
    /\ UNCHANGED <<user, firestore, reads, loads, notes, home, history>>

Back ==
    /\ screen = "detail"
    /\ screen' = "list"
    /\ popDetail
    /\ UNCHANGED <<user, firestore, reads, loads, notes, home, history>>

\* addNote presents the sheet; swiping it down dismisses it.
PresentSheet ==
    /\ screen = "list"
    /\ screen' = "sheet"
    /\ UNCHANGED <<user, firestore, reads, loads, notes, home, detail, editing, history>>

DismissSheet ==
    /\ screen = "sheet"
    /\ screen' = "list"
    /\ UNCHANGED <<user, firestore, reads, loads, notes, home, detail, editing, history>>

-----------------------------------------------------------------------------
(* DetailViewController *)

composeNote ==
    /\ screen = "detail"
    /\ editing' = TRUE
    /\ UNCHANGED <<user, firestore, reads, loads, notes, home, screen, detail, history>>

\* saveButtonPressed, with a user: without one it returns and changes nothing.
\* The write shows in the local view at once; its outcome is not looked at.
Save(text) ==
    /\ screen = "detail"
    /\ editing
    /\ Update(detail.id, text)
    /\ editing' = FALSE
    /\ loadNoteDataFromFirebase
    /\ UNCHANGED <<user, mainQueue, home, screen, detail>>

\* deleteNote asks for confirmation; its Cancel button only closes the alert.
deleteNote ==
    /\ screen = "detail"
    /\ screen' = "confirm"
    /\ UNCHANGED <<user, firestore, reads, loads, notes, home, detail, editing, history>>

CancelDelete ==
    /\ screen = "confirm"
    /\ screen' = "detail"
    /\ UNCHANGED <<user, firestore, reads, loads, notes, home, detail, editing, history>>

\* The Delete button of the alert: delete, reload, pop.
ConfirmDelete ==
    /\ screen = "confirm"
    /\ Delete(detail.id)
    /\ loadNoteDataFromFirebase
    /\ screen' = "list"
    /\ popDetail
    /\ UNCHANGED <<user, mainQueue, home>>

\* The same button when the user is gone: the closure returns, the alert closes.
ConfirmDeleteSignedOut ==
    /\ screen = "confirm"
    /\ user = NoUser
    /\ screen' = "detail"
    /\ UNCHANGED <<user, firestore, reads, loads, notes, home, detail, editing, history>>

-----------------------------------------------------------------------------
(* AddNoteViewController, as far as the list is concerned *)

\* addButtonPressed: setData under a new UUID, visible locally at once.
AddPressed(id, text) ==
    /\ screen = "sheet"
    /\ Add(id, text)
    /\ last' = noticed(last)
    /\ UNCHANGED <<user, reads, loads, notes, home, screens, atClear>>

\* The closure of setData after the server's acknowledgement: reload, for
\* whoever is signed in by then and whether or not the sheet is still up.
AddCompleted(id) ==
    /\ AddAnswered(id)
    /\ loadNoteDataFromFirebase
    /\ UNCHANGED <<user, mainQueue, home, screens>>

\* The same closure with an error only prints it; that the note disappears again
\* has been one of the changes below.
AddFailed(id) ==
    /\ AddAnswered(id)
    /\ UNCHANGED <<user, reads, loads, notes, home, screens, history>>

-----------------------------------------------------------------------------
(* The environment: Firestore, the user and the system *)

AuthChanges(u) ==
    /\ UserChanges(u)
    /\ UNCHANGED <<notes, home, screens, history>>

RaiseAnswer ==
    /\ \E r \in waiting : RaiseSnapshot(r) \/ RaiseError(r)
    /\ UNCHANGED <<notes, home, screens, history>>

NotesChange ==
    /\ RemoteChange
    /\ last' = noticed(last)
    /\ UNCHANGED <<notes, home, screens, atClear>>

\* The next process starts with no rows and no screen.
Terminate ==
    /\ ProcessEnds
    /\ notes' = {}
    /\ home' = {}
    /\ screen' = "away"
    /\ popDetail
    /\ atClear' = {}
    /\ last' = NoLoad

Next ==
    \/ \E u \in Users \cup {NoUser} : AuthChanges(u)
    \/ RaiseAnswer
    \/ Deliver
    \/ OpenHome
    \/ HomeGone
    \/ \E r \in home : SelectRow(r)
    \/ Back
    \/ PresentSheet
    \/ DismissSheet
    \/ composeNote
    \/ \E text \in Details : Save(text)
    \/ deleteNote
    \/ CancelDelete
    \/ ConfirmDelete
    \/ ConfirmDeleteSignedOut
    \/ \E id \in NoteIds, text \in Details : AddPressed(id, text)
    \/ \E id \in NoteIds : AddCompleted(id)
    \/ \E id \in NoteIds : AddFailed(id)
    \/ NotesChange
    \/ Terminate

Spec == Init /\ [][Next]_vars

\* Firestore answers every getDocuments (see EveryReadIsRaised of Firestore) and
\* the main queue keeps running.
Fairness == WF_vars(RaiseAnswer) /\ WF_vars(Deliver)

FairSpec == Spec /\ Fairness

-----------------------------------------------------------------------------
(* Properties *)

\* Types, and a detail screen always has the note it was pushed with:
\* DetailViewController.note is an implicitly unwrapped optional.
TypeOK ==
    /\ user \in Users \cup {NoUser}
    /\ store \in [Users -> Docs]
    /\ owner \in [NoteIds -> Users \cup {NoUser}]
    /\ waiting \subseteq Reads
    /\ mainQueue \in Seq(Answers)
    /\ loads \in 0..MaxLoads
    /\ notes \subseteq Rows
    /\ home \subseteq Rows
    /\ screen \in {"away", "list", "sheet", "detail", "confirm"}
    /\ IF screen \in {"detail", "confirm"}
       THEN detail \in Rows
       ELSE detail = NoRow /\ editing = FALSE
    /\ editing \in BOOLEAN
    /\ adds \subseteq NoteIds
    /\ atClear \subseteq Reads
    /\ last \in [n : 0..MaxLoads, user : Users \cup {NoUser},
                 delivered : BOOLEAN, clean : BOOLEAN]

\* Every row of DataSource.notes was read by a call that was still unanswered
\* when the array was last emptied, for the account that call was made for, and
\* is there because that call has been answered: nothing older survives
\* removeAll, and no row appears under another account's name.
RowsTraceToOpenReads ==
    \A r \in notes :
        LET read == [n |-> r.load, user |-> r.user]
        IN  read \in atClear /\ read \notin Outstanding

\* A note is listed twice only if two loads were unanswered together when the
\* array was last emptied: a load that finds no other under way lists no note
\* twice, whatever happens to the store, the user and the screens meanwhile.
DuplicatesNeedOverlap ==
    \A r, s \in notes :
        r.id = s.id /\ r # s =>
            /\ r.load # s.load
            /\ {[n |-> r.load, user |-> r.user],
                [n |-> s.load, user |-> s.user]} \subseteq atClear

\* The newest load has been answered and nothing has changed since it was issued.
Settled == screen # "away" /\ last.delivered /\ last.clean

\* Once the reload that ends a save, a delete or an add has been answered, Home
\* shows every note of the account as it now is, whatever other answers came
\* before and after it; and it shows nothing else unless another load was
\* unanswered when that reload began.
SettledListIsCurrent ==
    Settled =>
        LET read == [n |-> last.n, user |-> last.user]
        IN  /\ RowsOf(read, store[last.user]) \subseteq home
            /\ atClear = {read} => home = RowsOf(read, store[last.user])

\* From the answer to the newest load on, Home shows the rows of DataSource, whatever
\* older answers still come in; rows DataSource no longer has stay on screen only
\* while that load is unanswered, or when it failed or found no user.
HomeShowsDataSource == screen # "away" /\ last.delivered => home = notes

\* Saving or deleting from a detail screen writes at most the account the note
\* was read from: after a change of user the path names the new user, where no
\* document has that UUID, and the edit has no effect at all.
EditsStayInTheirAccount ==
    [][(\E text \in Details : Save(text)) \/ ConfirmDelete =>
          \A u \in Users : store'[u] # store[u] => u = user /\ u = detail.user]_vars

\* Every getDocuments call runs its closure, whatever happens to the user and to
\* the screen it was made from.
EveryReadIsAnswered ==
    \A n \in 1..MaxLoads :
        (\E r \in Outstanding : r.n = n) ~> ~(\E r \in Outstanding : r.n = n)


=============================================================================
