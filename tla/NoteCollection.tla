--------------------------- MODULE NoteCollection ---------------------------
(***************************************************************************)
(* What the screens of Quick Note rely on Firestore for: the contract      *)
(* between NoteList, which is written against it, and Firestore, which is  *)
(* shown to keep it.                                                       *)
(*                                                                         *)
(* Each account has a collection of note documents, as a read answered at  *)
(* that moment would report it.  A call shows in it at once.  Answers and  *)
(* completions come later, each call's own answer once, and everything     *)
(* else that Firestore does - a change from elsewhere, a refused write, a  *)
(* change of user - may change any documents at any moment, except that a  *)
(* UUID never names documents of two accounts.                             *)
(***************************************************************************)
EXTENDS Integers, Sequences, FiniteSets

CONSTANTS
    Users,     \* the e-mail addresses of the accounts
    NoteIds,   \* the UUIDs that name note documents
    Details,   \* the texts of a note
    NoUser,    \* Auth.auth().currentUser is nil
    Absent,    \* there is no such document
    MaxLoads   \* bound: calls of loadNoteDataFromFirebase that reach Firestore

ASSUME NoUserAssumption   == NoUser \notin Users
ASSUME AbsentAssumption   == Absent \notin Details
ASSUME MaxLoadsAssumption == MaxLoads \in Nat

VARIABLES
    user,      \* Auth.auth().currentUser?.email
    store,     \* users/{u}/Notes as a read answered now would report it
    owner,     \* history: the account a UUID was ever used in
    adds,      \* UUIDs whose setData has not been answered
    waiting,   \* getDocuments calls Firestore has not answered
    mainQueue, \* answers raised, whose closures have not run on the main thread
    loads      \* getDocuments calls made so far

firestore  == <<store, owner, adds>>
reads      == <<waiting, mainQueue>>
collection == <<user, firestore, reads, loads>>

Docs    == [NoteIds -> Details \cup {Absent}]
Reads   == [n : 1..MaxLoads, user : Users]
Answers == [read : Reads, ok : BOOLEAN, docs : Docs]
NoDocs  == [i \in NoteIds |-> Absent]

\* No account has a document under this UUID yet.
FreshId(id) == owner[id] = NoUser

CollectionInit ==
    /\ user \in Users \cup {NoUser}
    /\ store = [u \in Users |-> NoDocs]
    /\ owner = [i \in NoteIds |-> NoUser]
    /\ adds = {}
    /\ waiting = {}
    /\ mainQueue = <<>>
    /\ loads = 0

-----------------------------------------------------------------------------
(* The calls.  Each constrains the variables it is about; a handler makes    *)
(* one of them, or a write and a read.                                       *)

\* setData creates or replaces the document.
setData(docs, id, text) == [docs EXCEPT ![id] = text]

\* updateData has the precondition that the document exists.
updateData(docs, id, text) ==
    [docs EXCEPT ![id] = IF @ = Absent THEN Absent ELSE text]

Add(id, text) ==
    /\ user # NoUser
    /\ FreshId(id)
    /\ owner' = [owner EXCEPT ![id] = user]
    /\ adds' = adds \cup {id}
    /\ store' = [store EXCEPT ![user] = setData(@, id, text)]

Update(id, text) ==
    /\ user # NoUser
    /\ UNCHANGED <<owner, adds>>
    /\ store' = [store EXCEPT ![user] = updateData(@, id, text)]

Delete(id) ==
    /\ user # NoUser
    /\ UNCHANGED <<owner, adds>>
    /\ store' = [store EXCEPT ![user][id] = Absent]

\* The closure of setData runs, with or without an error.
AddAnswered(id) ==
    /\ id \in adds
    /\ adds' = adds \ {id}
    /\ UNCHANGED <<store, owner>>

getDocuments ==
    /\ user # NoUser
    /\ loads < MaxLoads
    /\ loads' = loads + 1
    /\ waiting' = waiting \cup {[n |-> loads + 1, user |-> user]}

-----------------------------------------------------------------------------
(* The answers *)

\* Faulty variant: only a read of the current user is ever answered.
ReadyForCurrentUser(r) ==
    /\ r.user = user
    /\ \A s \in waiting : s.user = r.user => r.n <= s.n

\* The listeners of one query are served in the order they were added.
Ready(r) == \A s \in waiting : s.user = r.user => r.n <= s.n

\* Faulty variant: the one-shot listener stays and is answered again.
stillListening(r) == waiting

\* getDocuments takes one answer only.
detached(r) == waiting \ {r}

\* Firestore answers a read on its worker queue, from the server or, once it
\* considers itself offline, from the cache: what the collection holds now.
RaiseSnapshot(r) ==
    /\ Ready(r)
    /\ waiting' = detached(r)
    /\ mainQueue' = Append(mainQueue, [read |-> r, ok |-> TRUE, docs |-> store[r.user]])
    /\ UNCHANGED <<user, firestore, loads>>

\* The server refuses the query.
RaiseError(r) ==
    /\ Ready(r)
    /\ waiting' = detached(r)
    /\ mainQueue' = Append(mainQueue, [read |-> r, ok |-> FALSE, docs |-> NoDocs])
    /\ UNCHANGED <<user, firestore, loads>>

\* While an account is read some of its documents may be reported as they were; with
\* its last read they are reported as they are.  None appears and none goes.
TextsChange(u) ==
    \E docs \in Docs :
        /\ \A id \in NoteIds : docs[id] = Absent <=> store[u][id] = Absent
        /\ store' = [store EXCEPT ![u] = docs]

\* The closure of the oldest answer runs, and stops the listening first.
TakeAnswer ==
    /\ mainQueue # <<>>
    /\ mainQueue' = Tail(mainQueue)
    /\ TextsChange(Head(mainQueue).read.user)
    /\ UNCHANGED <<user, owner, adds, waiting, loads>>

-----------------------------------------------------------------------------
(* What happens on its own *)

\* Any documents change, a UUID staying with the account it was first used in.
DocumentsChange ==
    \E new \in [NoteIds -> Users \cup {NoUser}] :
        /\ owner' = new
        /\ \A id \in NoteIds : FreshId(id) \/ new[id] = owner[id]
        /\ \E docs \in Docs :
            store' = [u \in Users |->
                        [id \in NoteIds |-> IF new[id] = u THEN docs[id] ELSE Absent]]

\* The account's other devices; a write of this one that is refused, or was made
\* by another user; a cache that falls behind or catches up.
RemoteChange ==
    /\ UNCHANGED <<user, adds, reads, loads>>
    /\ DocumentsChange

\* Sign-ins and sign-outs: see Session.
UserChanges(u) ==
    /\ user' = u
    /\ UNCHANGED <<firestore, reads, loads>>

\* The process ends, and another begins: no call of the old one is answered.
ProcessEnds ==
    /\ DocumentsChange
    /\ adds' = {}
    /\ waiting' = {}
    /\ mainQueue' = <<>>
    /\ UNCHANGED <<user, loads>>

\* What a handler of the app may do in one step.
Calls ==
    /\ UNCHANGED <<user, mainQueue>>
    /\ getDocuments \/ UNCHANGED <<waiting, loads>>
    /\ \/ UNCHANGED firestore
       \/ \E id \in NoteIds, text \in Details : Add(id, text) \/ Update(id, text)
       \/ \E id \in NoteIds : Delete(id) \/ AddAnswered(id)

CollectionNext ==
    \/ Calls
    \/ \E r \in waiting : RaiseSnapshot(r) \/ RaiseError(r)
    \/ TakeAnswer
    \/ RemoteChange
    \/ \E u \in Users \cup {NoUser} : UserChanges(u)
    \/ ProcessEnds

CollectionSpec == CollectionInit /\ [][CollectionNext]_collection

=============================================================================
