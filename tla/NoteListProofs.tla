--------------------------- MODULE NoteListProofs ---------------------------
(***************************************************************************)
(* Theorems about NoteList, for every set of accounts, notes and texts and *)
(* every bound on the number of loads.                                     *)
(***************************************************************************)
EXTENDS NoteList, TLAPS

\* One answer is raised, of those RaiseAnswer may raise.
Raise(r) ==
    /\ RaiseSnapshot(r) \/ RaiseError(r)
    /\ UNCHANGED <<notes, home, screens, history>>

\* Every action that reloads leaves the variables of the load well typed.
LEMMA LoadType ==
    ASSUME TypeOK, loadNoteDataFromFirebase
    PROVE  /\ notes' = {}
           /\ loads' \in 0..MaxLoads
           /\ waiting' \subseteq Reads
           /\ atClear' \subseteq Reads
           /\ last' \in [n : 0..MaxLoads, user : Users \cup {NoUser},
                         delivered : BOOLEAN, clean : BOOLEAN]
<1>1. Outstanding \subseteq Reads
  <2>1. ASSUME NEW k \in 1..Len(mainQueue) PROVE mainQueue[k].read \in Reads
    <3>1. mainQueue[k] \in Answers
      BY DEF TypeOK
    <3> QED BY <3>1 DEF Answers
  <2> QED BY <2>1 DEF TypeOK, Outstanding
<1>2. CASE user = NoUser
  <2>1. UNCHANGED <<loads, waiting>> /\ atClear' = Outstanding /\ last' = NoLoad
    BY <1>2 DEF loadNoteDataFromFirebase
  <2>2. NoLoad \in [n : 0..MaxLoads, user : Users \cup {NoUser},
                    delivered : BOOLEAN, clean : BOOLEAN]
    BY MaxLoadsAssumption DEF NoLoad
  <2> QED BY <1>1, <2>1, <2>2 DEF TypeOK, loadNoteDataFromFirebase, removeAll
<1>3. CASE user # NoUser
  <2> DEFINE read == [n |-> loads + 1, user |-> user]
  <2>1. /\ loads < MaxLoads
        /\ loads' = loads + 1
        /\ waiting' = waiting \cup {read}
        /\ atClear' = Outstanding \cup {read}
        /\ last' = [n |-> loads + 1, user |-> user, delivered |-> FALSE, clean |-> TRUE]
    BY <1>3 DEF loadNoteDataFromFirebase, getDocuments
  <2>2. loads + 1 \in 1..MaxLoads /\ user \in Users
    BY <1>3, <2>1, MaxLoadsAssumption DEF TypeOK
  <2>3. read \in Reads
    BY <2>2 DEF Reads
  <2> QED BY <1>1, <2>1, <2>2, <2>3 DEF TypeOK, loadNoteDataFromFirebase, removeAll
<1> QED BY <1>2, <1>3

\* The rows made of one answer are rows.
LEMMA RowsOfType ==
    ASSUME NEW read \in Reads, NEW docs \in Docs
    PROVE  RowsOf(read, docs) \subseteq Rows
BY DEF RowsOf, Rows, Docs, Reads

\* What is noticed of a load is at most that it is no longer clean; one that stays
\* clean has read what is still so.
LEMMA NoticedKeeps ==
    ASSUME NEW load \in [n : 0..MaxLoads, user : Users \cup {NoUser},
                         delivered : BOOLEAN, clean : BOOLEAN]
    PROVE  /\ noticed(load) \in [n : 0..MaxLoads, user : Users \cup {NoUser},
                                 delivered : BOOLEAN, clean : BOOLEAN]
           /\ noticed(load).n = load.n
           /\ noticed(load).user = load.user
           /\ noticed(load).delivered = load.delivered
           /\ noticed(load).clean =>
                 /\ load.clean
                 /\ load.user \in Users => store'[load.user] = store[load.user]
BY DEF noticed

\* A change of any documents leaves collections, and accounts of UUIDs.
LEMMA ChangeType ==
    ASSUME TypeOK, DocumentsChange
    PROVE  store' \in [Users -> Docs] /\ owner' \in [NoteIds -> Users \cup {NoUser}]
<1> PICK new \in [NoteIds -> Users \cup {NoUser}] :
        /\ owner' = new
        /\ \E docs \in Docs :
             store' = [u \in Users |->
                         [id \in NoteIds |-> IF new[id] = u THEN docs[id] ELSE Absent]]
  BY DEF DocumentsChange
<1> PICK docs \in Docs :
        store' = [u \in Users |->
                    [id \in NoteIds |-> IF new[id] = u THEN docs[id] ELSE Absent]]
  OBVIOUS
<1>1. ASSUME NEW u \in Users
      PROVE  [id \in NoteIds |-> IF new[id] = u THEN docs[id] ELSE Absent] \in Docs
  BY DEF Docs
<1> QED BY <1>1

\* Other texts in one collection leave a collection, with the same documents in it.
LEMMA TextsChangeOnly ==
    ASSUME TypeOK, NEW u \in Users, TextsChange(u)
    PROVE  /\ store' \in [Users -> Docs]
           /\ \A v \in Users, id \in NoteIds :
                 store'[v][id] # Absent => store[v][id] # Absent
<1> PICK docs \in Docs :
        /\ \A id \in NoteIds : docs[id] = Absent <=> store[u][id] = Absent
        /\ store' = [store EXCEPT ![u] = docs]
  BY DEF TextsChange
<1>1. store \in [Users -> Docs]
  BY DEF TypeOK
<1>2. ASSUME NEW v \in Users PROVE store'[v] = IF v = u THEN docs ELSE store[v]
  BY <1>1
<1> QED BY <1>1, <1>2

\* The variables of NoteList stay in their types: in particular a detail screen
\* always has the note it was pushed with.
THEOREM TypeCorrect == Spec => []TypeOK
<1>1. Init => TypeOK
  <2> SUFFICES ASSUME Init PROVE TypeOK
    OBVIOUS
  <2>1. store \in [Users -> Docs] /\ owner \in [NoteIds -> Users \cup {NoUser}]
    BY DEF Init, CollectionInit, Docs, NoDocs
  <2>2. loads \in 0..MaxLoads
    BY MaxLoadsAssumption DEF Init, CollectionInit
  <2>3. last \in [n : 0..MaxLoads, user : Users \cup {NoUser},
                  delivered : BOOLEAN, clean : BOOLEAN]
    BY MaxLoadsAssumption DEF Init, NoLoad
  <2>4. mainQueue \in Seq(Answers)
    BY DEF Init, CollectionInit
  <2> QED BY <2>1, <2>2, <2>3, <2>4 DEF Init, CollectionInit, TypeOK
<1>2. TypeOK /\ [Next]_vars => TypeOK'
  <2> SUFFICES ASSUME TypeOK, [Next]_vars PROVE TypeOK'
    OBVIOUS
  <2> USE DEF screens, history, reads, firestore, collection
  <2>1. CASE RaiseAnswer
    <3> PICK r \in waiting : Raise(r)
      BY <2>1 DEF RaiseAnswer, Raise
    <3>1. r \in Reads /\ store[r.user] \in Docs /\ NoDocs \in Docs
      BY DEF TypeOK, Reads, NoDocs, Docs
    <3>2. CASE RaiseSnapshot(r)
      <4>1. [read |-> r, ok |-> TRUE, docs |-> store[r.user]] \in Answers
        BY <3>1 DEF Answers
      <4> QED BY <3>2, <4>1 DEF TypeOK, Raise, RaiseSnapshot, detached
    <3>3. CASE RaiseError(r)
      <4>1. [read |-> r, ok |-> FALSE, docs |-> NoDocs] \in Answers
        BY <3>1 DEF Answers
      <4> QED BY <3>3, <4>1 DEF TypeOK, Raise, RaiseError, detached
    <3> QED BY <3>2, <3>3 DEF Raise
  <2>2. CASE Deliver
    <3> DEFINE a == Head(mainQueue)
    <3>1. a \in Answers /\ Tail(mainQueue) \in Seq(Answers)
      BY <2>2 DEF TypeOK, Deliver, TakeAnswer
    <3>2. RowsOf(a.read, a.docs) \subseteq Rows
      BY <3>1, RowsOfType DEF Answers
    <3>3. notes' \subseteq Rows /\ home' \subseteq Rows
      BY <2>2, <3>2 DEF TypeOK, Deliver, loadList
    <3>4. last' \in [n : 0..MaxLoads, user : Users \cup {NoUser},
                     delivered : BOOLEAN, clean : BOOLEAN]
      <4>1. last \in [n : 0..MaxLoads, user : Users \cup {NoUser},
                      delivered : BOOLEAN, clean : BOOLEAN]
        BY DEF TypeOK
      <4>2. [last EXCEPT !.delivered = @ \/ last.n = a.read.n]
              \in [n : 0..MaxLoads, user : Users \cup {NoUser},
                  delivered : BOOLEAN, clean : BOOLEAN]
        BY <4>1
      <4> QED BY <2>2, <4>1, <4>2, NoticedKeeps DEF Deliver
    <3>5. store' \in [Users -> Docs]
      <4>1. a.read.user \in Users
        BY <3>1 DEF Answers, Reads
      <4> QED BY <2>2, <4>1, TextsChangeOnly DEF Deliver, TakeAnswer
    <3> QED BY <2>2, <3>1, <3>3, <3>4, <3>5 DEF TypeOK, Deliver, TakeAnswer
  <2>3. CASE OpenHome
    BY <2>3, LoadType DEF TypeOK, OpenHome
  <2>4. CASE HomeGone
    BY <2>4 DEF TypeOK, HomeGone, popDetail
  <2>5. ASSUME NEW r \in home, SelectRow(r) PROVE TypeOK'
    BY <2>5 DEF TypeOK, SelectRow
  <2>6. CASE Back
    BY <2>6 DEF TypeOK, Back, popDetail
  <2>7. CASE PresentSheet
    BY <2>7 DEF TypeOK, PresentSheet
  <2>8. CASE DismissSheet
    BY <2>8 DEF TypeOK, DismissSheet
  <2>9. CASE composeNote
    BY <2>9 DEF TypeOK, composeNote
  <2>10. ASSUME NEW text \in Details, Save(text) PROVE TypeOK'
    <3>1. user \in Users /\ detail \in Rows /\ store[user] \in Docs
      BY <2>10 DEF TypeOK, Save, Update
    <3>2. updateData(store[user], detail.id, text) \in Docs
      BY <3>1 DEF updateData, Docs, Rows
    <3>3. store' \in [Users -> Docs]
      BY <2>10, <3>2 DEF TypeOK, Save, Update
    <3> QED BY <2>10, <3>3, LoadType DEF TypeOK, Save, Update
  <2>11. CASE deleteNote
    BY <2>11 DEF TypeOK, deleteNote
  <2>12. CASE CancelDelete
    BY <2>12 DEF TypeOK, CancelDelete
  <2>13. CASE ConfirmDelete
    <3>1. user \in Users /\ store[user] \in Docs
      BY <2>13 DEF TypeOK, ConfirmDelete, Delete
    <3>2. store' \in [Users -> Docs]
      BY <2>13, <3>1 DEF TypeOK, ConfirmDelete, Delete, Docs
    <3> QED BY <2>13, <3>2, LoadType DEF TypeOK, ConfirmDelete, Delete, popDetail
  <2>14. CASE ConfirmDeleteSignedOut
    BY <2>14 DEF TypeOK, ConfirmDeleteSignedOut
  <2>15. ASSUME NEW id \in NoteIds, NEW text \in Details, AddPressed(id, text)
         PROVE  TypeOK'
    <3>1. user \in Users /\ store[user] \in Docs
      BY <2>15 DEF TypeOK, AddPressed, Add
    <3>2. store' \in [Users -> Docs]
      BY <2>15, <3>1 DEF TypeOK, AddPressed, Add, Docs, setData
    <3>3. last' \in [n : 0..MaxLoads, user : Users \cup {NoUser},
                     delivered : BOOLEAN, clean : BOOLEAN]
      BY <2>15, NoticedKeeps DEF TypeOK, AddPressed
    <3> QED BY <2>15, <3>1, <3>2, <3>3 DEF TypeOK, AddPressed, Add
  <2>16. ASSUME NEW id \in NoteIds, AddCompleted(id) PROVE TypeOK'
    BY <2>16, LoadType DEF TypeOK, AddCompleted, AddAnswered
  <2>17. ASSUME NEW id \in NoteIds, AddFailed(id) PROVE TypeOK'
    BY <2>17 DEF TypeOK, AddFailed, AddAnswered
  <2>18. ASSUME NEW u \in Users \cup {NoUser}, AuthChanges(u) PROVE TypeOK'
    BY <2>18 DEF TypeOK, AuthChanges, UserChanges
  <2>19. CASE NotesChange
    <3>1. last' \in [n : 0..MaxLoads, user : Users \cup {NoUser},
                     delivered : BOOLEAN, clean : BOOLEAN]
      BY <2>19, NoticedKeeps DEF TypeOK, NotesChange
    <3> QED BY <2>19, <3>1, ChangeType DEF TypeOK, NotesChange, RemoteChange
  <2>21. CASE Terminate
    <3>1. NoLoad \in [n : 0..MaxLoads, user : Users \cup {NoUser},
                      delivered : BOOLEAN, clean : BOOLEAN]
      BY MaxLoadsAssumption DEF NoLoad
    <3>2. store' \in [Users -> Docs] /\ owner' \in [NoteIds -> Users \cup {NoUser}]
      BY <2>21, ChangeType DEF Terminate, ProcessEnds
    <3>3. mainQueue' \in Seq(Answers)
      BY <2>21 DEF Terminate, ProcessEnds
    <3> QED BY <2>21, <3>1, <3>2, <3>3 DEF TypeOK, Terminate, ProcessEnds, popDetail
  <2>20. CASE UNCHANGED vars
    BY <2>20 DEF TypeOK, vars
  <2> QED
    BY <2>1, <2>2, <2>3, <2>4, <2>5, <2>6, <2>7, <2>8, <2>9, <2>10, <2>11, <2>12,
       <2>13, <2>14, <2>15, <2>16, <2>17, <2>18, <2>19, <2>20, <2>21 DEF Next
<1> QED BY <1>1, <1>2, PTL DEF Spec

-----------------------------------------------------------------------------
(* The inductive invariant.  RowsTraceToOpenReads is not inductive: that the  *)
(* rows of an answer trace to a read of atClear needs every unanswered read   *)
(* to be there, that they are the rows of no answer still to come needs each  *)
(* read to be answered once, and that loads number their reads apart.        *)

ReadsInv ==
    /\ \A r \in atClear : r.n <= loads
    /\ \A r, s \in atClear : r.n = s.n => r = s
    /\ Outstanding \subseteq atClear
    /\ \A k \in 1..Len(mainQueue) : mainQueue[k].read \notin waiting
    /\ \A j, k \in 1..Len(mainQueue) : mainQueue[j].read = mainQueue[k].read => j = k

RowsInv ==
    /\ RowsTraceToOpenReads
    /\ \A r, s \in notes : r.load = s.load /\ r.id = s.id => r = s

LastRead == [n |-> last.n, user |-> last.user]

\* What the newest load's answer holds, on its way and once delivered.
LastInv ==
    /\ last.n = 0 => ~last.delivered /\ ~last.clean
    /\ last.n # 0 => last.user \in Users /\ LastRead \in atClear
    /\ last.delivered => LastRead \notin Outstanding
    /\ \A r \in notes : r.load = last.n => last.delivered
    /\ last.clean =>
          \A k \in 1..Len(mainQueue) :
             mainQueue[k].ok /\ mainQueue[k].read = LastRead =>
                mainQueue[k].docs = store[last.user]
    /\ last.delivered /\ screen # "away" => home = notes
    /\ last.delivered /\ last.clean =>
          /\ RowsOf(LastRead, store[last.user]) \subseteq notes
          /\ atClear = {LastRead} => notes = RowsOf(LastRead, store[last.user])

\* A UUID names a note of one account, wherever the note has been copied to.
OwnerInv ==
    /\ \A u \in Users, id \in NoteIds : store[u][id] # Absent => owner[id] = u
    /\ \A k \in 1..Len(mainQueue), id \in NoteIds :
          mainQueue[k].docs[id] # Absent => owner[id] = mainQueue[k].read.user
    /\ \A r \in notes \cup home : owner[r.id] = r.user
    /\ screen \in {"detail", "confirm"} => owner[detail.id] = detail.user

-----------------------------------------------------------------------------
(* What the actions do to the reads, the rows and the newest load.           *)

Reload == loadNoteDataFromFirebase /\ UNCHANGED mainQueue

Quiet ==
    /\ UNCHANGED <<store, reads, loads, notes, history>>
    /\ \/ screen' = "away"
       \/ UNCHANGED home /\ screen # "away"
       \/ UNCHANGED <<home, screen>>

Touch ==
    /\ last' = noticed(last)
    /\ UNCHANGED <<reads, loads, notes, home, screen, atClear>>

LEMMA StepKinds ==
    ASSUME TypeOK, [Next]_vars
    PROVE  \/ \E r \in waiting : Raise(r)
           \/ Deliver
           \/ Reload
           \/ Quiet
           \/ Touch
           \/ Terminate
<1> USE DEF screens, history, reads, firestore, collection
<1>1. CASE RaiseAnswer \/ Deliver
  BY <1>1 DEF RaiseAnswer, Raise
<1>2. CASE \/ OpenHome \/ ConfirmDelete
           \/ \E text \in Details : Save(text)
           \/ \E id \in NoteIds : AddCompleted(id)
  BY <1>2 DEF Reload, OpenHome, ConfirmDelete, Save, AddCompleted
<1>3. CASE \/ HomeGone \/ \E r \in home : SelectRow(r)
           \/ Back \/ PresentSheet \/ DismissSheet
           \/ composeNote \/ deleteNote \/ CancelDelete
           \/ ConfirmDeleteSignedOut
           \/ \E id \in NoteIds : AddFailed(id)
           \/ \E u \in Users \cup {NoUser} : AuthChanges(u)
           \/ UNCHANGED vars
  BY <1>3 DEF AddFailed, AddAnswered, UserChanges, Quiet, HomeGone, SelectRow, Back, PresentSheet, DismissSheet, composeNote,
              deleteNote, CancelDelete, ConfirmDeleteSignedOut, AuthChanges, vars
<1>4. CASE \/ NotesChange
           \/ \E id \in NoteIds, text \in Details : AddPressed(id, text)
  BY <1>4 DEF Touch, NotesChange, RemoteChange, AddPressed
<1> QED BY <1>1, <1>2, <1>3, <1>4 DEF Next

\* Raising an answer moves a read from one place to the other.
LEMMA RaiseMoves ==
    ASSUME TypeOK, ReadsInv, NEW r \in waiting, Raise(r)
    PROVE  /\ Outstanding' = Outstanding
           /\ waiting' = waiting \ {r}
           /\ Len(mainQueue') = Len(mainQueue) + 1
           /\ \A k \in 1..Len(mainQueue) : mainQueue'[k] = mainQueue[k]
           /\ mainQueue'[Len(mainQueue')].read = r
           /\ mainQueue'[Len(mainQueue')].ok =>
                 mainQueue'[Len(mainQueue')].docs = store[r.user]
           /\ UNCHANGED <<user, store, owner, loads, notes, home, screen, detail, atClear, last>>
<1> USE DEF screens, history, reads, firestore, collection
<1>1. PICK a : /\ mainQueue' = Append(mainQueue, a)
               /\ a.read = r
               /\ a.ok => a.docs = store[r.user]
  BY DEF Raise, RaiseSnapshot, RaiseError
<1>2. waiting' = waiting \ {r}
  BY DEF Raise, RaiseSnapshot, RaiseError, detached
<1>3. /\ Len(mainQueue') = Len(mainQueue) + 1
      /\ \A k \in 1..Len(mainQueue) : mainQueue'[k] = mainQueue[k]
      /\ mainQueue'[Len(mainQueue) + 1] = a
      /\ Len(mainQueue) \in Nat
  BY <1>1 DEF TypeOK
<1>4. Outstanding' = Outstanding
  <2>1. ASSUME NEW x \in Outstanding' PROVE x \in Outstanding
    BY <1>1, <1>2, <1>3 DEF Outstanding
  <2>2. ASSUME NEW x \in Outstanding PROVE x \in Outstanding'
    <3>1. CASE x = r
      BY <1>1, <1>3, <3>1 DEF Outstanding
    <3>2. CASE x # r /\ x \in waiting
      BY <1>2, <3>2 DEF Outstanding
    <3>3. CASE \E k \in 1..Len(mainQueue) : x = mainQueue[k].read
      BY <1>3, <3>3 DEF Outstanding
    <3> QED BY <3>1, <3>2, <3>3 DEF Outstanding
  <2> QED BY <2>1, <2>2
<1> QED BY <1>1, <1>2, <1>3, <1>4 DEF Raise, RaiseSnapshot, RaiseError

\* Running a closure takes exactly its read out of the outstanding ones.
LEMMA DeliverTakes ==
    ASSUME TypeOK, ReadsInv, Deliver
    PROVE  /\ Head(mainQueue) \in Answers
           /\ 1 \in 1..Len(mainQueue) /\ mainQueue[1] = Head(mainQueue)
           /\ Head(mainQueue).read \in Outstanding
           /\ Outstanding' = Outstanding \ {Head(mainQueue).read}
           /\ Len(mainQueue') = Len(mainQueue) - 1
           /\ \A k \in 1..Len(mainQueue') :
                 k + 1 \in 1..Len(mainQueue) /\ mainQueue'[k] = mainQueue[k + 1]
<1> USE DEF screens, history, reads, firestore, collection
<1> DEFINE r == Head(mainQueue).read
<1>1. /\ Len(mainQueue) \in Nat \ {0}
      /\ Head(mainQueue) \in Answers
      /\ mainQueue[1] = Head(mainQueue)
      /\ Len(mainQueue') = Len(mainQueue) - 1
      /\ \A k \in 1..Len(mainQueue') :
            k + 1 \in 1..Len(mainQueue) /\ mainQueue'[k] = mainQueue[k + 1]
  BY DEF TypeOK, Deliver, TakeAnswer
<1>2. 1 \in 1..Len(mainQueue)
  BY <1>1
<1>3. r \in Outstanding
  BY <1>1, <1>2 DEF Outstanding
<1>4. waiting' = waiting
  BY DEF Deliver, TakeAnswer
<1>5. ASSUME NEW x \in Outstanding' PROVE x \in Outstanding \ {r}
  <2>1. CASE x \in waiting
    BY <1>1, <1>2, <2>1 DEF ReadsInv, Outstanding
  <2>2. ASSUME NEW k \in 1..Len(mainQueue'), x = mainQueue'[k].read
        PROVE  x \in Outstanding \ {r}
    <3>1. k + 1 \in 1..Len(mainQueue) /\ x = mainQueue[k + 1].read
      BY <1>1, <2>2
    <3>2. k + 1 # 1
      BY <1>1
    <3> QED BY <1>1, <1>2, <3>1, <3>2 DEF ReadsInv, Outstanding
  <2> QED BY <1>4, <2>1, <2>2 DEF Outstanding
<1>6. ASSUME NEW x \in Outstanding, x # r PROVE x \in Outstanding'
  <2>1. CASE x \in waiting
    BY <1>4, <2>1 DEF Outstanding
  <2>2. ASSUME NEW k \in 1..Len(mainQueue), x = mainQueue[k].read
        PROVE  x \in Outstanding'
    <3>1. k # 1
      BY <1>1, <1>6, <2>2
    <3>2. k - 1 \in 1..Len(mainQueue') /\ mainQueue'[k - 1] = mainQueue[k]
      BY <1>1, <3>1
    <3> QED BY <2>2, <3>2 DEF Outstanding
  <2> QED BY <2>1, <2>2 DEF Outstanding
<1> QED BY <1>1, <1>2, <1>3, <1>5, <1>6

\* A reload issues at most one read, numbered above every earlier one.
LEMMA ReloadIssues ==
    ASSUME TypeOK, ReadsInv, Reload
    PROVE  /\ notes' = {}
           /\ UNCHANGED mainQueue
           /\ \/ /\ UNCHANGED <<waiting, loads>>
                 /\ Outstanding' = Outstanding
                 /\ atClear' = Outstanding
                 /\ last' = NoLoad
              \/ \E read \in Reads :
                    /\ read = [n |-> loads + 1, user |-> user]
                    /\ read \notin atClear
                    /\ waiting' = waiting \cup {read}
                    /\ loads' = loads + 1
                    /\ Outstanding' = Outstanding \cup {read}
                    /\ atClear' = Outstanding \cup {read}
                    /\ last' = [n |-> loads + 1, user |-> user,
                                delivered |-> FALSE, clean |-> TRUE]
<1>1. notes' = {} /\ UNCHANGED mainQueue
  BY DEF Reload, loadNoteDataFromFirebase, removeAll
<1>2. CASE user = NoUser
  BY <1>1, <1>2 DEF Reload, loadNoteDataFromFirebase, Outstanding
<1>3. CASE user # NoUser
  <2> DEFINE read == [n |-> loads + 1, user |-> user]
  <2>1. /\ loads < MaxLoads
        /\ loads' = loads + 1
        /\ waiting' = waiting \cup {read}
        /\ atClear' = Outstanding \cup {read}
        /\ last' = [n |-> loads + 1, user |-> user, delivered |-> FALSE, clean |-> TRUE]
    BY <1>3 DEF Reload, loadNoteDataFromFirebase, getDocuments
  <2>2. read \in Reads
    BY <1>3, <2>1, MaxLoadsAssumption DEF TypeOK, Reads
  <2>3. read \notin atClear
    BY DEF ReadsInv, TypeOK
  <2>4. Outstanding' = Outstanding \cup {read}
    BY <1>1, <2>1 DEF Outstanding
  <2> QED BY <1>1, <2>1, <2>2, <2>3, <2>4
<1> QED BY <1>2, <1>3

-----------------------------------------------------------------------------
(* The reads *)

LEMMA ReadsStep ==
    ASSUME TypeOK, ReadsInv, [Next]_vars
    PROVE  ReadsInv'
<1> USE DEF screens, history, reads, firestore, collection
<1>0. Len(mainQueue) \in Nat /\ loads \in Nat /\ atClear \subseteq Reads
  BY DEF TypeOK
<1>1. ASSUME NEW r \in waiting, Raise(r) PROVE ReadsInv'
  <2>0. r \notin waiting'
    BY <1>1, RaiseMoves
  <2>1. \A k \in 1..Len(mainQueue') : mainQueue'[k].read \notin waiting'
    BY <1>0, <1>1, <2>0, RaiseMoves DEF ReadsInv
  <2>2. \A j, k \in 1..Len(mainQueue') : mainQueue'[j].read = mainQueue'[k].read => j = k
    BY <1>0, <1>1, RaiseMoves DEF ReadsInv
  <2> QED BY <1>1, <2>1, <2>2, RaiseMoves DEF ReadsInv
<1>2. CASE Deliver
  <2>1. UNCHANGED <<waiting, loads, atClear>>
    BY <1>2 DEF Deliver, TakeAnswer
  <2>2. \A k \in 1..Len(mainQueue') : mainQueue'[k].read \notin waiting'
    BY <1>2, <2>1, DeliverTakes DEF ReadsInv
  <2>3. \A j, k \in 1..Len(mainQueue') : mainQueue'[j].read = mainQueue'[k].read => j = k
    <3> SUFFICES ASSUME NEW j \in 1..Len(mainQueue'), NEW k \in 1..Len(mainQueue'),
                        mainQueue'[j].read = mainQueue'[k].read
                 PROVE  j = k
      OBVIOUS
    <3>1. mainQueue[j + 1].read = mainQueue[k + 1].read
          /\ j + 1 \in 1..Len(mainQueue) /\ k + 1 \in 1..Len(mainQueue)
      BY <1>2, DeliverTakes
    <3>2. j + 1 = k + 1
      BY <3>1 DEF ReadsInv
    <3>3. j \in Int /\ k \in Int
      OBVIOUS
    <3> QED BY <3>2, <3>3
  <2> QED BY <1>2, <2>1, <2>2, <2>3, DeliverTakes DEF ReadsInv
<1>3. CASE Reload
  <2>1. CASE UNCHANGED <<waiting, loads>> /\ Outstanding' = Outstanding /\ atClear' = Outstanding
    BY <1>3, <2>1, ReloadIssues DEF ReadsInv
  <2>2. ASSUME NEW read \in Reads,
               read = [n |-> loads + 1, user |-> user],
               read \notin atClear,
               waiting' = waiting \cup {read},
               loads' = loads + 1,
               Outstanding' = Outstanding \cup {read},
               atClear' = Outstanding \cup {read}
        PROVE  ReadsInv'
    <3>1. \A r \in atClear' : r.n <= loads'
      BY <1>0, <2>2 DEF ReadsInv, Reads
    <3>2. \A r \in Outstanding : r.n # read.n
      BY <1>0, <2>2 DEF ReadsInv, Reads
    <3>3. \A r, t \in atClear' : r.n = t.n => r = t
      BY <2>2, <3>2 DEF ReadsInv
    <3>4. mainQueue' = mainQueue
      BY <1>3, ReloadIssues
    <3>5. \A k \in 1..Len(mainQueue) : mainQueue[k].read # read
      BY <2>2 DEF ReadsInv, Outstanding
    <3> QED BY <2>2, <3>1, <3>3, <3>4, <3>5 DEF ReadsInv
  <2> QED BY <1>3, <2>1, <2>2, ReloadIssues
<1>4. CASE Quiet
  BY <1>4 DEF Quiet, ReadsInv, Outstanding
<1>5. CASE Touch
  BY <1>5 DEF Touch, ReadsInv, Outstanding
<1>6. CASE Terminate
  BY <1>6 DEF Terminate, ProcessEnds, ReadsInv, Outstanding
<1> QED BY <1>1, <1>2, <1>3, <1>4, <1>5, <1>6, StepKinds

\* Loads number their reads apart, each is answered at most once, and every
\* unanswered read is one of those the history variable atClear remembers.
THEOREM ReadsAreTracked == Spec => []ReadsInv
<1>1. Init => ReadsInv
  BY DEF Init, CollectionInit, ReadsInv, Outstanding
<1>2. TypeOK /\ ReadsInv /\ [Next]_vars => ReadsInv'
  BY ReadsStep
<1> QED BY <1>1, <1>2, TypeCorrect, PTL DEF Spec

-----------------------------------------------------------------------------
(* The rows *)

LEMMA RowsStep ==
    ASSUME TypeOK, ReadsInv, RowsInv, [Next]_vars
    PROVE  RowsInv'
<1> USE DEF screens, history, reads, firestore, collection
<1>1. ASSUME NEW r \in waiting, Raise(r) PROVE RowsInv'
  BY <1>1, RaiseMoves DEF RowsInv, RowsTraceToOpenReads
<1>2. CASE Deliver
  <2> DEFINE a == Head(mainQueue)
             new == RowsOf(a.read, a.docs)
  <2>1. /\ a.read \in Outstanding
        /\ a.read \in atClear
        /\ a.read \in Reads
        /\ Outstanding' = Outstanding \ {a.read}
        /\ UNCHANGED atClear
    BY <1>2, DeliverTakes DEF Deliver, TakeAnswer, ReadsInv, TypeOK
  <2>2. notes' \subseteq notes \cup new
    BY <1>2 DEF Deliver
  <2>3. ASSUME NEW r \in new
        PROVE  /\ [n |-> r.load, user |-> r.user] = a.read
               /\ r.load = a.read.n
    BY <2>1 DEF RowsOf, Reads
  <2>4. ASSUME NEW r \in notes
        PROVE  [n |-> r.load, user |-> r.user] # a.read
               /\ r.load # a.read.n
    <3>1. [n |-> r.load, user |-> r.user] \in atClear
          /\ [n |-> r.load, user |-> r.user] \notin Outstanding
      BY DEF RowsInv, RowsTraceToOpenReads
    <3>2. [n |-> r.load, user |-> r.user] # a.read
      BY <2>1, <3>1
    <3> QED BY <2>1, <3>1, <3>2 DEF ReadsInv
  <2>5. ASSUME NEW r \in new, NEW t \in new, r.id = t.id PROVE r = t
    BY <2>5 DEF RowsOf
  <2>6. RowsTraceToOpenReads'
    <3> SUFFICES ASSUME NEW r \in notes'
                 PROVE  /\ [n |-> r.load, user |-> r.user] \in atClear'
                        /\ [n |-> r.load, user |-> r.user] \notin Outstanding'
      BY DEF RowsTraceToOpenReads
    <3>1. CASE r \in new
      BY <2>1, <2>3, <3>1
    <3>2. CASE r \in notes
      BY <2>1, <3>2 DEF RowsInv, RowsTraceToOpenReads
    <3> QED BY <2>2, <3>1, <3>2
  <2>7. \A r, t \in notes' : r.load = t.load /\ r.id = t.id => r = t
    BY <2>2, <2>3, <2>4, <2>5 DEF RowsInv
  <2> QED BY <2>6, <2>7 DEF RowsInv
<1>3. CASE Reload
  BY <1>3, ReloadIssues DEF RowsInv, RowsTraceToOpenReads
<1>4. CASE Quiet
  BY <1>4 DEF Quiet, RowsInv, RowsTraceToOpenReads, Outstanding
<1>5. CASE Touch
  BY <1>5 DEF Touch, RowsInv, RowsTraceToOpenReads, Outstanding
<1>6. CASE Terminate
  BY <1>6 DEF Terminate, ProcessEnds, RowsInv, RowsTraceToOpenReads, Outstanding
<1> QED BY <1>1, <1>2, <1>3, <1>4, <1>5, <1>6, StepKinds

\* Nothing older than removeAll survives it, whatever answers come late: every
\* row of DataSource.notes traces to a read unanswered at the last removeAll and
\* answered since.
THEOREM RowsTraced == Spec => []RowsTraceToOpenReads
<1>1. Init => RowsInv
  BY DEF Init, RowsInv, RowsTraceToOpenReads
<1>2. TypeOK /\ ReadsInv /\ RowsInv /\ [Next]_vars => RowsInv'
  BY RowsStep
<1>3. RowsInv => RowsTraceToOpenReads
  BY DEF RowsInv
<1> QED BY <1>1, <1>2, <1>3, TypeCorrect, ReadsAreTracked, PTL DEF Spec

\* A note listed twice is the trace of two loads that were unanswered together.
THEOREM DuplicatesTraced == Spec => []DuplicatesNeedOverlap
<1>1. Init => RowsInv
  BY DEF Init, RowsInv, RowsTraceToOpenReads
<1>2. TypeOK /\ ReadsInv /\ RowsInv /\ [Next]_vars => RowsInv'
  BY RowsStep
<1>3. RowsInv => DuplicatesNeedOverlap
  BY DEF RowsInv, RowsTraceToOpenReads, DuplicatesNeedOverlap
<1> QED BY <1>1, <1>2, <1>3, TypeCorrect, ReadsAreTracked, PTL DEF Spec

-----------------------------------------------------------------------------
(* The newest load *)

\* LastInv survives a step after which the newest load, its answers and the rows are
\* those of before, but for rows of another load.
LEMMA LastKept ==
    ASSUME LastInv,
           last'.n = last.n, last'.user = last.user, LastRead' = LastRead,
           last'.delivered = last.delivered,
           last'.clean => last.clean /\ store'[last.user] = store[last.user],
           screen' = screen, atClear' = atClear, Outstanding' \subseteq Outstanding,
           \A k \in 1..Len(mainQueue') :
              last.clean /\ mainQueue'[k].ok /\ mainQueue'[k].read = LastRead =>
                 mainQueue'[k].docs = store[last.user],
           notes \subseteq notes',
           \A r \in notes' \ notes : r.load # last.n,
           atClear = {LastRead} => notes' = notes,
           screen # "away" => home' = notes' \/ (home' = home /\ notes' = notes)
    PROVE  LastInv'
<1>1. last'.clean => RowsOf(LastRead, store[last.user])' = RowsOf(LastRead, store[last.user])
  BY DEF RowsOf
<1> QED BY <1>1 DEF LastInv

LEMMA LastStep ==
    ASSUME TypeOK, ReadsInv, RowsInv, LastInv, [Next]_vars
    PROVE  LastInv'
<1> USE DEF screens, history, reads, firestore, collection
<1>0. /\ Len(mainQueue) \in Nat
      /\ last \in [n : 0..MaxLoads, user : Users \cup {NoUser},
                   delivered : BOOLEAN, clean : BOOLEAN]
      /\ notes \subseteq Rows
  BY DEF TypeOK
<1>1. ASSUME NEW r \in waiting, Raise(r) PROVE LastInv'
  <2>1. /\ UNCHANGED <<store, notes, home, screen, atClear, last>>
        /\ Outstanding' = Outstanding
    BY <1>1, RaiseMoves
  <2>2. ASSUME last.clean, NEW k \in 1..Len(mainQueue'),
               mainQueue'[k].ok, mainQueue'[k].read = LastRead
        PROVE  mainQueue'[k].docs = store[last.user]
    <3>1. CASE k \in 1..Len(mainQueue)
      BY <1>1, <2>2, <3>1, RaiseMoves DEF LastInv
    <3>2. CASE k = Len(mainQueue')
      <4>1. r = LastRead /\ mainQueue'[k].docs = store[r.user]
        BY <1>1, <2>2, <3>2, RaiseMoves
      <4> QED BY <4>1 DEF LastRead
    <3> QED BY <1>0, <1>1, <3>1, <3>2, RaiseMoves
  <2> QED BY <2>1, <2>2 DEF LastInv, LastRead
<1>2. CASE Deliver
  <2> DEFINE a == Head(mainQueue)
             new == RowsOf(a.read, a.docs)
  <2>1. /\ a \in Answers
        /\ a.read \in Outstanding
        /\ a.read \in atClear
        /\ a.read \in Reads
        /\ Outstanding' = Outstanding \ {a.read}
        /\ UNCHANGED <<atClear, screen>>
    BY <1>2, DeliverTakes DEF Deliver, TakeAnswer, ReadsInv, TypeOK
  <2>9. ASSUME NEW load \in [n : 0..MaxLoads, user : Users \cup {NoUser},
                            delivered : BOOLEAN, clean : BOOLEAN],
               load.n = last.n, load.user = last.user, load.clean = last.clean,
               last' = noticed(load)
        PROVE  /\ last'.n = last.n /\ last'.user = last.user
               /\ last'.delivered = load.delivered
               /\ LastRead' = LastRead
               /\ last'.clean => last.clean /\ store'[last.user] = store[last.user]
    <3>1. /\ last'.n = last.n /\ last'.user = last.user
          /\ last'.delivered = load.delivered
          /\ last'.clean => /\ last.clean
                            /\ last.user \in Users => store'[last.user] = store[last.user]
      BY <2>9, NoticedKeeps
    <3>2. last.clean => last.user \in Users
      BY DEF LastInv
    <3> QED BY <3>1, <3>2 DEF LastRead
  <2>2. ASSUME last.clean, NEW k \in 1..Len(mainQueue'),
               mainQueue'[k].ok, mainQueue'[k].read = LastRead
        PROVE  mainQueue'[k].docs = store[last.user]
    BY <1>2, <2>2, DeliverTakes DEF LastInv
  <2>3. last.n = a.read.n /\ last.n # 0 => LastRead = a.read
    BY <2>1 DEF LastInv, LastRead, ReadsInv
  <2>4. a.read.n # 0
    BY <2>1 DEF Reads
  <2>5. ASSUME NEW x \in new PROVE x.load = a.read.n
    BY DEF RowsOf
  <2>6. CASE ~a.ok
    <3>1. UNCHANGED <<notes, home>> /\ last' = noticed(last)
      BY <1>2, <2>6 DEF Deliver
    <3>2. /\ last'.n = last.n /\ last'.user = last.user
          /\ last'.delivered = last.delivered
          /\ LastRead' = LastRead
          /\ last'.clean => last.clean /\ store'[last.user] = store[last.user]
      BY <1>0, <2>9, <3>1
    <3> QED BY <2>1, <2>2, <3>1, <3>2, LastKept
  <2>7. CASE a.ok /\ last.n # a.read.n
    <3>1. /\ notes' = notes \cup new
          /\ home' = IF screen = "away" THEN home ELSE notes'
          /\ last' = noticed(last)
      <4>1. last' = noticed([last EXCEPT !.delivered = @ \/ last.n = a.read.n])
        BY <1>2, <2>7 DEF Deliver
      <4>2. [last EXCEPT !.delivered = @ \/ last.n = a.read.n] = last
        BY <1>0, <2>7
      <4> QED BY <1>2, <2>7, <4>1, <4>2 DEF Deliver, loadList
    <3>2. atClear = {LastRead} => FALSE
      BY <2>1, <2>7 DEF LastRead
    <3>3. /\ last'.n = last.n /\ last'.user = last.user
          /\ last'.delivered = last.delivered
          /\ LastRead' = LastRead
          /\ last'.clean => last.clean /\ store'[last.user] = store[last.user]
      BY <1>0, <2>9, <3>1
    <3>4. notes \subseteq notes' /\ \A x \in notes' \ notes : x.load # last.n
      BY <2>5, <2>7, <3>1
    <3>5. /\ Outstanding' \subseteq Outstanding /\ UNCHANGED <<screen, atClear>>
          /\ screen # "away" => home' = notes'
      BY <2>1, <3>1
    <3> QED BY <2>2, <3>2, <3>3, <3>4, <3>5, LastKept
  <2>8. CASE a.ok /\ last.n = a.read.n
    <3>1. /\ notes' = notes \cup new
          /\ home' = IF screen = "away" THEN home ELSE notes'
          /\ last' = noticed([last EXCEPT !.delivered = @ \/ last.n = a.read.n])
      BY <1>2, <2>8 DEF Deliver, loadList
    <3>7. /\ last'.n = last.n /\ last'.user = last.user
          /\ last'.delivered
          /\ LastRead' = LastRead
          /\ last'.clean => last.clean /\ store'[last.user] = store[last.user]
      <4> DEFINE load == [last EXCEPT !.delivered = @ \/ last.n = a.read.n]
      <4>1. /\ load \in [n : 0..MaxLoads, user : Users \cup {NoUser},
                         delivered : BOOLEAN, clean : BOOLEAN]
            /\ load.n = last.n /\ load.user = last.user /\ load.clean = last.clean
            /\ load.delivered
        BY <1>0, <2>8
      <4>2. last' = noticed(load)
        BY <3>1
      <4> HIDE DEF load
      <4> QED BY <2>9, <4>1, <4>2
    <3>2. LastRead = a.read /\ LastRead' = LastRead
      BY <2>3, <2>4, <2>8, <3>7
    <3>3. ~last.delivered
      BY <2>1, <3>2 DEF LastInv
    <3>4. last.clean => new = RowsOf(LastRead, store[last.user])
      BY <1>2, <2>8, <3>2, DeliverTakes DEF LastInv
    <3>5. atClear = {LastRead} => notes = {}
      <4> SUFFICES ASSUME atClear = {LastRead}, NEW x \in notes PROVE FALSE
        OBVIOUS
      <4>1. [n |-> x.load, user |-> x.user] = LastRead
        BY DEF RowsInv, RowsTraceToOpenReads
      <4>2. x.load = last.n
        BY <4>1 DEF LastRead
      <4> QED BY <3>3, <4>2 DEF LastInv
    <3>6. LastRead \notin Outstanding'
      BY <2>1, <3>2
    <3>8. last'.n # 0 /\ last'.user \in Users /\ LastRead' \in atClear'
      BY <2>1, <2>4, <2>8, <3>2, <3>7 DEF LastInv
    <3>9. last.clean =>
            /\ RowsOf(LastRead, store[last.user]) \subseteq notes'
            /\ atClear = {LastRead} => notes' = RowsOf(LastRead, store[last.user])
      BY <3>1, <3>4, <3>5
    <3>10. screen' # "away" => home' = notes'
      BY <2>1, <3>1
    <3>11. \A k \in 1..Len(mainQueue') :
             last'.clean /\ mainQueue'[k].ok /\ mainQueue'[k].read = LastRead' =>
                mainQueue'[k].docs = store'[last'.user]
      BY <2>1, <2>2, <3>2, <3>7
    <3>12. last'.clean =>
            /\ RowsOf(LastRead', store'[last'.user]) \subseteq notes'
            /\ atClear' = {LastRead'} => notes' = RowsOf(LastRead', store'[last'.user])
      BY <2>1, <3>2, <3>7, <3>9
    <3>13. RowsOf(LastRead, store[last.user])' = RowsOf(LastRead', store'[last'.user])
      BY DEF RowsOf
    <3> QED BY <2>1, <3>2, <3>6, <3>7, <3>8, <3>10, <3>11, <3>12, <3>13 DEF LastInv
  <2> QED BY <2>1, <2>6, <2>7, <2>8 DEF Answers
<1>3. CASE Reload
  <2>1. CASE last' = NoLoad
    <3>1. ~last'.delivered /\ ~last'.clean /\ last'.n = 0
      BY <2>1 DEF NoLoad
    <3> QED BY <1>3, <3>1, ReloadIssues DEF LastInv, LastRead
  <2>2. ASSUME NEW read \in Reads,
               read = [n |-> loads + 1, user |-> user],
               read \notin atClear,
               atClear' = Outstanding \cup {read},
               last' = [n |-> loads + 1, user |-> user,
                        delivered |-> FALSE, clean |-> TRUE]
        PROVE  LastInv'
    <3>1. LastRead' = read /\ last'.user \in Users /\ last'.n # 0
      BY <2>2 DEF LastRead, Reads
    <3>2. \A k \in 1..Len(mainQueue) : mainQueue[k].read # read
      BY <2>2 DEF ReadsInv, Outstanding
    <3>3. notes' = {} /\ mainQueue' = mainQueue
      BY <1>3, ReloadIssues
    <3> QED BY <2>2, <3>1, <3>2, <3>3 DEF LastInv
  <2> QED BY <1>3, <2>1, <2>2, ReloadIssues
<1>4. CASE Quiet
  <2>1. /\ UNCHANGED <<store, waiting, mainQueue, loads, notes, atClear, last>>
        /\ Outstanding' = Outstanding
        /\ LastRead' = LastRead
    BY <1>4 DEF Quiet, Outstanding, LastRead
  <2>2. (last.delivered /\ screen # "away" => home = notes)'
    BY <1>4, <2>1 DEF Quiet, LastInv
  <2> QED BY <2>1, <2>2 DEF LastInv
<1>5. CASE Touch
  <2>1. /\ UNCHANGED <<waiting, mainQueue, loads, notes, home, screen, atClear>>
        /\ Outstanding' = Outstanding
    BY <1>5 DEF Touch, Outstanding
  <2>2. CASE last.user \in Users /\ store'[last.user] # store[last.user]
    <3>1. last' = [last EXCEPT !.clean = FALSE]
      BY <1>5, <2>2 DEF Touch, noticed
    <3>2. ~last'.clean /\ last'.n = last.n /\ last'.user = last.user
          /\ last'.delivered = last.delivered /\ LastRead' = LastRead
      BY <1>0, <3>1 DEF LastRead
    <3> QED BY <2>1, <3>2 DEF LastInv
  <2>3. CASE ~(last.user \in Users /\ store'[last.user] # store[last.user])
    <3>1. last' = last /\ LastRead' = LastRead
      BY <1>5, <2>3 DEF Touch, noticed, LastRead
    <3>2. last.clean => store'[last.user] = store[last.user]
      BY <2>3 DEF LastInv
    <3> QED BY <2>1, <3>1, <3>2 DEF LastInv
  <2> QED BY <2>2, <2>3
<1>6. CASE Terminate
  BY <1>6 DEF Terminate, ProcessEnds, LastInv, NoLoad
<1> QED BY <1>1, <1>2, <1>3, <1>4, <1>5, <1>6, StepKinds

\* Once the reload that ends a save, a delete or an add is answered, Home shows
\* the account as it is; with no other load under way at its start, nothing else.
THEOREM SettledListCorrect == Spec => []SettledListIsCurrent
<1>1. Init => RowsInv /\ LastInv
  BY DEF Init, RowsInv, RowsTraceToOpenReads, LastInv, NoLoad
<1>2. TypeOK /\ ReadsInv /\ RowsInv /\ LastInv /\ [Next]_vars => RowsInv' /\ LastInv'
  BY RowsStep, LastStep
<1>3. LastInv => SettledListIsCurrent
  BY DEF LastInv, LastRead, Settled, SettledListIsCurrent
<1> QED BY <1>1, <1>2, <1>3, TypeCorrect, ReadsAreTracked, PTL DEF Spec

\* A load begins undelivered.
LEMMA ReloadUndelivers ==
    ASSUME loadNoteDataFromFirebase
    PROVE  last'.delivered = FALSE
BY DEF loadNoteDataFromFirebase, NoLoad

\* No step changes the rows of one side only, once the newest load is answered.
THEOREM HomeFollowsDataSource == Spec => []HomeShowsDataSource
<1>1. Init => HomeShowsDataSource
  BY DEF Init, HomeShowsDataSource
<1>2. TypeOK /\ HomeShowsDataSource /\ [Next]_vars => HomeShowsDataSource'
  <2> SUFFICES ASSUME TypeOK, HomeShowsDataSource, [Next]_vars
               PROVE  HomeShowsDataSource'
    OBVIOUS
  <2> USE DEF HomeShowsDataSource
  <2>1. CASE Deliver
    <3>1. CASE Head(mainQueue).ok
      BY <2>1, <3>1 DEF Deliver, loadList, screens
    <3>2. CASE ~Head(mainQueue).ok
      <4>1. UNCHANGED <<notes, home, screen>> /\ last' = noticed(last)
        BY <2>1, <3>2 DEF Deliver, screens
      <4>2. last'.delivered = last.delivered
        BY <4>1, NoticedKeeps DEF TypeOK
      <4> QED BY <4>1, <4>2
    <3> QED BY <3>1, <3>2
  <2>2. CASE \/ OpenHome \/ \E text \in Details : Save(text)
             \/ ConfirmDelete \/ \E id \in NoteIds : AddCompleted(id)
    <3>1. last'.delivered = FALSE
      BY <2>2, ReloadUndelivers DEF OpenHome, Save, ConfirmDelete, AddCompleted
    <3> QED BY <3>1
  <2>3. CASE HomeGone \/ Terminate
    BY <2>3 DEF HomeGone, Terminate
  <2>4. CASE NotesChange \/ \E id \in NoteIds, text \in Details : AddPressed(id, text)
    <3>1. last' = noticed(last) /\ UNCHANGED <<notes, home, screen>>
      BY <2>4 DEF NotesChange, AddPressed, screens
    <3>2. last'.delivered = last.delivered
      BY <3>1, NoticedKeeps DEF TypeOK
    <3> QED BY <3>1, <3>2
  <2>5. CASE \/ Back \/ PresentSheet \/ DismissSheet
             \/ composeNote \/ deleteNote \/ CancelDelete
             \/ ConfirmDeleteSignedOut
             \/ \E r \in home : SelectRow(r)
    <3>1. UNCHANGED <<notes, home, last>> /\ screen # "away"
      BY <2>5 DEF SelectRow, Back, PresentSheet, DismissSheet, composeNote, deleteNote,
                  CancelDelete, ConfirmDeleteSignedOut, history
    <3> QED BY <3>1
  <2>6. CASE \/ RaiseAnswer \/ \E id \in NoteIds : AddFailed(id)
             \/ \E u \in Users \cup {NoUser} : AuthChanges(u)
             \/ UNCHANGED vars
    <3>1. UNCHANGED <<notes, home, last, screen>>
      BY <2>6 DEF RaiseAnswer, AddFailed, AuthChanges, vars, screens, history
    <3> QED BY <3>1
  <2> QED BY <2>1, <2>2, <2>3, <2>4, <2>5, <2>6 DEF Next
<1> QED BY <1>1, <1>2, TypeCorrect, PTL DEF Spec

-----------------------------------------------------------------------------
(* The accounts *)

\* A step may claim a fresh UUID for an account and change a note under it.
LEMMA ClaimKeepsOwners ==
    ASSUME TypeOK, OwnerInv, NEW u \in Users, NEW id \in NoteIds,
           NEW text \in Details \cup {Absent},
           owner[id] = u \/ FreshId(id),
           store' = [store EXCEPT ![u][id] = text],
           owner' = [owner EXCEPT ![id] = u],
           UNCHANGED <<mainQueue, notes, home, screen, detail>>
    PROVE  OwnerInv'
<1>1. \A j \in NoteIds : owner[j] \in Users => owner'[j] = owner[j]
  BY NoUserAssumption DEF TypeOK, FreshId
<1>2. ASSUME NEW v \in Users, NEW j \in NoteIds, store'[v][j] # Absent
      PROVE  owner'[j] = v
  <2>1. store[v][j] # Absent => owner[j] = v
    BY DEF OwnerInv
  <2>2. CASE v = u /\ j = id
    BY <2>2 DEF TypeOK
  <2>3. CASE ~(v = u /\ j = id)
    <3>1. store'[v][j] = store[v][j]
      BY <2>3 DEF TypeOK, Docs
    <3> QED BY <1>1, <1>2, <2>1, <3>1
  <2> QED BY <2>2, <2>3
<1>3. ASSUME NEW k \in 1..Len(mainQueue), NEW j \in NoteIds,
             mainQueue[k].docs[j] # Absent
      PROVE  owner'[j] = mainQueue[k].read.user
  <2>1. mainQueue[k] \in Answers
    BY DEF TypeOK
  <2>2. mainQueue[k].read.user \in Users
    BY <2>1 DEF Answers, Reads
  <2> QED BY <1>1, <1>3, <2>2 DEF OwnerInv
<1>4. ASSUME NEW r \in notes \cup home PROVE owner'[r.id] = r.user
  <2>1. r.id \in NoteIds /\ r.user \in Users
    BY DEF TypeOK, Rows
  <2> QED BY <1>1, <2>1 DEF OwnerInv
<1>5. screen \in {"detail", "confirm"} => owner'[detail.id] = detail.user
  <2>1. screen \in {"detail", "confirm"} => detail.id \in NoteIds /\ detail.user \in Users
    BY DEF TypeOK, Rows
  <2> QED BY <1>1, <2>1 DEF OwnerInv
<1> QED BY <1>2, <1>3, <1>4, <1>5 DEF OwnerInv

\* However many documents change, each is in the account of its UUID afterwards,
\* and a UUID that had an account keeps it.
LEMMA ChangeOwners ==
    ASSUME TypeOK, DocumentsChange
    PROVE  /\ \A v \in Users, j \in NoteIds : store'[v][j] # Absent => owner'[j] = v
           /\ \A j \in NoteIds : owner[j] \in Users => owner'[j] = owner[j]
<1> PICK new \in [NoteIds -> Users \cup {NoUser}] :
        /\ owner' = new
        /\ \A id \in NoteIds : FreshId(id) \/ new[id] = owner[id]
        /\ \E docs \in Docs :
             store' = [u \in Users |->
                         [id \in NoteIds |-> IF new[id] = u THEN docs[id] ELSE Absent]]
  BY DEF DocumentsChange
<1> QED BY NoUserAssumption DEF FreshId

LEMMA ChangeKeepsOwners ==
    ASSUME TypeOK, OwnerInv, DocumentsChange,
           UNCHANGED <<mainQueue, notes, home, screen, detail>>
    PROVE  OwnerInv'
<1>1. ASSUME NEW k \in 1..Len(mainQueue), NEW j \in NoteIds,
             mainQueue[k].docs[j] # Absent
      PROVE  owner'[j] = mainQueue[k].read.user
  <2>1. mainQueue[k] \in Answers
    BY DEF TypeOK
  <2>2. mainQueue[k].read.user \in Users
    BY <2>1 DEF Answers, Reads
  <2> QED BY <1>1, <2>2, ChangeOwners DEF OwnerInv
<1>2. ASSUME NEW r \in notes \cup home PROVE owner'[r.id] = r.user
  <2>1. r.id \in NoteIds /\ r.user \in Users
    BY DEF TypeOK, Rows
  <2> QED BY <2>1, ChangeOwners DEF OwnerInv
<1>3. screen \in {"detail", "confirm"} => owner'[detail.id] = detail.user
  <2>1. screen \in {"detail", "confirm"} => detail.id \in NoteIds /\ detail.user \in Users
    BY DEF TypeOK, Rows
  <2> QED BY <2>1, ChangeOwners DEF OwnerInv
<1> QED BY <1>1, <1>2, <1>3, ChangeOwners DEF OwnerInv

\* A step that adds no document anywhere, claims no UUID and copies no answer.
LEMMA ShrinkKeepsOwners ==
    ASSUME TypeOK, OwnerInv,
           \A v \in Users, j \in NoteIds : store'[v][j] # Absent => store[v][j] # Absent,
           UNCHANGED <<owner, mainQueue>>,
           notes' \subseteq notes, home' \subseteq home,
           screen' \in {"detail", "confirm"} =>
              \/ detail' \in home
              \/ screen \in {"detail", "confirm"} /\ detail' = detail
    PROVE  OwnerInv'
BY DEF OwnerInv

LEMMA OwnerStep ==
    ASSUME TypeOK, ReadsInv, OwnerInv, [Next]_vars
    PROVE  OwnerInv'
<1> USE DEF screens, history, reads, firestore, collection
<1>0. loadNoteDataFromFirebase => notes' \subseteq notes
  BY DEF loadNoteDataFromFirebase, removeAll
<1>1. ASSUME NEW r \in waiting, Raise(r) PROVE OwnerInv'
  <2>1. UNCHANGED <<store, owner, notes, home, screen, detail>>
    BY <1>1, RaiseMoves
  <2>2. PICK a : /\ mainQueue' = Append(mainQueue, a)
                 /\ a.read = r
                 /\ a.docs = store[r.user] \/ a.docs = NoDocs
    BY <1>1 DEF Raise, RaiseSnapshot, RaiseError
  <2>3. r.user \in Users
    BY DEF TypeOK, Reads
  <2>4. \A j \in NoteIds : a.docs[j] # Absent => owner[j] = r.user
    BY <2>2, <2>3 DEF OwnerInv, NoDocs
  <2>5. \A k \in 1..Len(mainQueue') :
          \/ k \in 1..Len(mainQueue) /\ mainQueue'[k] = mainQueue[k]
          \/ mainQueue'[k] = a
    BY <2>2 DEF TypeOK
  <2> QED BY <2>1, <2>2, <2>4, <2>5 DEF OwnerInv
<1>2. CASE Deliver
  <2> DEFINE a == Head(mainQueue)
             new == RowsOf(a.read, a.docs)
  <2>1. /\ notes' \subseteq notes \cup new
        /\ home' \subseteq home \cup notes'
        /\ UNCHANGED <<owner, screen, detail>>
    BY <1>2 DEF Deliver, TakeAnswer, loadList
  <2>5. a.read.user \in Users
    BY <1>2, DeliverTakes DEF Answers, Reads
  <2>6. \A v \in Users, id \in NoteIds : store'[v][id] # Absent => store[v][id] # Absent
    BY <1>2, <2>5, TextsChangeOnly DEF Deliver, TakeAnswer
  <2>2. \A j \in NoteIds : a.docs[j] # Absent => owner[j] = a.read.user
    BY <1>2, DeliverTakes DEF OwnerInv
  <2>3. \A r \in new : owner[r.id] = r.user
    BY <2>2 DEF RowsOf
  <2>4. \A k \in 1..Len(mainQueue'), j \in NoteIds :
          mainQueue'[k].docs[j] # Absent => owner[j] = mainQueue'[k].read.user
    BY <1>2, DeliverTakes DEF OwnerInv
  <2> QED BY <2>1, <2>3, <2>4, <2>6 DEF OwnerInv
<1>3. CASE OpenHome
  BY <1>0, <1>3, ShrinkKeepsOwners DEF OpenHome
<1>4. CASE \/ HomeGone \/ Back \/ PresentSheet \/ DismissSheet
           \/ composeNote \/ deleteNote \/ CancelDelete \/ ConfirmDeleteSignedOut
           \/ \E id \in NoteIds : AddFailed(id)
           \/ \E u \in Users \cup {NoUser} : AuthChanges(u)
           \/ UNCHANGED vars
  <2>1. /\ UNCHANGED <<store, owner, mainQueue, notes>>
        /\ home' \subseteq home
        /\ screen' \in {"detail", "confirm"} =>
              screen \in {"detail", "confirm"} /\ detail' = detail
    BY <1>4 DEF HomeGone, Back, PresentSheet, DismissSheet, composeNote, deleteNote,
                CancelDelete, ConfirmDeleteSignedOut, AddFailed, AddAnswered,
                AuthChanges, UserChanges, vars
  <2> QED BY <2>1, ShrinkKeepsOwners
<1>5. ASSUME NEW r \in home, SelectRow(r) PROVE OwnerInv'
  BY <1>5, ShrinkKeepsOwners DEF SelectRow
<1>6. ASSUME NEW text \in Details, Save(text) PROVE OwnerInv'
  <2>1. user \in Users /\ detail.id \in NoteIds /\ store[user] \in Docs
    BY <1>6 DEF TypeOK, Save, Update, Rows
  <2>2. ASSUME NEW v \in Users, NEW j \in NoteIds, store'[v][j] # Absent
        PROVE  store[v][j] # Absent
    <3>1. store' = [store EXCEPT ![user] = updateData(store[user], detail.id, text)]
      BY <1>6 DEF Save, Update
    <3>2. v # user => store'[v] = store[v]
      BY <3>1 DEF TypeOK
    <3>3. store'[user] = updateData(store[user], detail.id, text)
      BY <2>1, <3>1 DEF TypeOK
    <3> QED BY <2>1, <2>2, <3>2, <3>3 DEF updateData, Docs
  <2> QED BY <1>0, <1>6, <2>2, ShrinkKeepsOwners DEF Save, Update
<1>7. CASE ConfirmDelete
  <2>1. \A v \in Users, j \in NoteIds : store'[v][j] # Absent => store[v][j] # Absent
    BY <1>7 DEF ConfirmDelete, Delete, TypeOK, Docs
  <2> QED BY <1>0, <1>7, <2>1, ShrinkKeepsOwners DEF ConfirmDelete, Delete
<1>8. ASSUME NEW id \in NoteIds, NEW text \in Details, AddPressed(id, text)
      PROVE  OwnerInv'
  <2>1. user \in Users /\ store[user] \in Docs
    BY <1>8 DEF TypeOK, AddPressed, Add
  <2>2. store' = [store EXCEPT ![user][id] = text]
    BY <1>8, <2>1 DEF AddPressed, Add, setData, TypeOK
  <2> QED BY <1>8, <2>1, <2>2, ClaimKeepsOwners DEF AddPressed, Add
<1>9. ASSUME NEW id \in NoteIds, AddCompleted(id) PROVE OwnerInv'
  BY <1>0, <1>9, ShrinkKeepsOwners DEF AddCompleted, AddAnswered
<1>10. CASE NotesChange
  BY <1>10, ChangeKeepsOwners DEF NotesChange, RemoteChange
<1>11. CASE Terminate
  <2>1. /\ \A v \in Users, j \in NoteIds : store'[v][j] # Absent => owner'[j] = v
        /\ mainQueue' = <<>> /\ notes' = {} /\ home' = {} /\ screen' = "away"
    BY <1>11, ChangeOwners DEF Terminate, ProcessEnds
  <2> QED BY <2>1 DEF OwnerInv
<1> QED BY <1>1, <1>2, <1>3, <1>4, <1>5, <1>6, <1>7, <1>8, <1>9, <1>10, <1>11
        DEF Next, RaiseAnswer, Raise

\* A UUID names a note of one account, in the store and in every copy of it.
THEOREM IdsBelongToOneAccount == Spec => []OwnerInv
<1>1. Init => OwnerInv
  BY DEF Init, CollectionInit, OwnerInv, NoDocs
<1>2. TypeOK /\ ReadsInv /\ OwnerInv /\ [Next]_vars => OwnerInv'
  BY OwnerStep
<1> QED BY <1>1, <1>2, TypeCorrect, ReadsAreTracked, PTL DEF Spec

\* Save and delete write only the account the note on screen was read from, also
\* when another user has signed in since.
THEOREM EditsStay == Spec => EditsStayInTheirAccount
<1> DEFINE Edit == (\E text \in Details : Save(text)) \/ ConfirmDelete
           Local == \A u \in Users : store'[u] # store[u] => u = user /\ u = detail.user
<1>1. ASSUME TypeOK, OwnerInv, Edit PROVE Local
  <2> SUFFICES ASSUME NEW u \in Users, store'[u] # store[u]
               PROVE  u = user /\ u = detail.user
    OBVIOUS
  <2>1. /\ user \in Users
        /\ detail.id \in NoteIds
        /\ owner[detail.id] = detail.user
        /\ store[user] \in Docs
    BY <1>1 DEF Save, Update, ConfirmDelete, Delete, TypeOK, OwnerInv, Rows
  <2>2. CASE store[user][detail.id] # Absent
    <3>1. detail.user = user
      <4>1. \A v \in Users, id \in NoteIds : store[v][id] # Absent => owner[id] = v
        BY <1>1 DEF OwnerInv
      <4> QED BY <2>1, <2>2, <4>1
    <3>2. u = user
      BY <1>1, <2>1 DEF Save, Update, ConfirmDelete, Delete, TypeOK
    <3> QED BY <3>1, <3>2
  <2>3. CASE store[user][detail.id] = Absent
    <3>1. \A text \in Details : updateData(store[user], detail.id, text) = store[user]
      BY <2>1, <2>3 DEF updateData, Docs
    <3>2. CASE \E text \in Details : Save(text)
      BY <2>1, <3>1, <3>2 DEF Save, Update, TypeOK
    <3>3. CASE ConfirmDelete
      <4>1. store'[u] = store[u]
        BY <2>1, <2>3, <3>3 DEF ConfirmDelete, Delete, TypeOK, Docs
      <4> QED BY <4>1
    <3> QED BY <1>1, <3>2, <3>3
  <2> QED BY <2>2, <2>3
<1>2. TypeOK /\ OwnerInv => [Edit => Local]_vars
  BY <1>1
<1> QED BY <1>2, TypeCorrect, IdsBelongToOneAccount, PTL DEF Spec, EditsStayInTheirAccount

-----------------------------------------------------------------------------
(* The contract *)

\* NoteList asks of Firestore only what NoteCollection offers, and is given
\* nothing that NoteCollection does not allow: whatever keeps that contract may
\* stand below the list.
THEOREM KeepsContract == Spec => CollectionSpec
<1>1. Init => CollectionInit
  BY DEF Init
<1>2. TypeOK /\ [Next]_vars => [CollectionNext]_collection
  <2> SUFFICES ASSUME TypeOK, [Next]_vars PROVE CollectionNext \/ UNCHANGED collection
    OBVIOUS
  <2> USE DEF collection, reads, firestore
  <2>1. CASE RaiseAnswer
    BY <2>1 DEF RaiseAnswer, CollectionNext
  <2>2. CASE Deliver
    BY <2>2 DEF Deliver, CollectionNext
  <2>3. loadNoteDataFromFirebase => getDocuments \/ UNCHANGED <<waiting, loads>>
    BY DEF loadNoteDataFromFirebase
  <2>4. CASE OpenHome
    BY <2>3, <2>4 DEF OpenHome, CollectionNext, Calls
  <2>5. CASE \E text \in Details : Save(text)
    <3>1. detail.id \in NoteIds
      BY <2>5 DEF Save, TypeOK, Rows
    <3> QED BY <2>3, <2>5, <3>1 DEF Save, CollectionNext, Calls
  <2>6. CASE ConfirmDelete
    <3>1. detail.id \in NoteIds
      BY <2>6 DEF ConfirmDelete, TypeOK, Rows
    <3> QED BY <2>3, <2>6, <3>1 DEF ConfirmDelete, CollectionNext, Calls
  <2>7. CASE \E id \in NoteIds, text \in Details : AddPressed(id, text)
    BY <2>7 DEF AddPressed, CollectionNext, Calls
  <2>8. CASE \E id \in NoteIds : AddCompleted(id) \/ AddFailed(id)
    BY <2>3, <2>8 DEF AddCompleted, AddFailed, CollectionNext, Calls
  <2>9. CASE \E u \in Users \cup {NoUser} : AuthChanges(u)
    BY <2>9 DEF AuthChanges, CollectionNext
  <2>10. CASE NotesChange \/ Terminate
    BY <2>10 DEF NotesChange, Terminate, CollectionNext
  <2>11. CASE \/ HomeGone \/ \E r \in home : SelectRow(r)
              \/ Back \/ PresentSheet \/ DismissSheet
              \/ composeNote \/ deleteNote \/ CancelDelete
              \/ ConfirmDeleteSignedOut
              \/ UNCHANGED vars
    BY <2>11 DEF HomeGone, SelectRow, Back, PresentSheet, DismissSheet, composeNote,
                 deleteNote, CancelDelete, ConfirmDeleteSignedOut, vars
  <2> QED BY <2>1, <2>2, <2>4, <2>5, <2>6, <2>7, <2>8, <2>9, <2>10, <2>11 DEF Next
<1> QED BY <1>1, <1>2, TypeCorrect, PTL DEF Spec, CollectionSpec

=============================================================================
