------------------------------ MODULE QuickNote ------------------------------
(***************************************************************************)
(* The screens of Quick Note over one signed-in user and one root page:    *)
(* Session and NoteList together.                                          *)
(*                                                                         *)
(* NoteList lets Home come and go and the user change at any time.  Here   *)
(* Home is opened from the landing page only and goes when a route         *)
(* replaces the root page; the user changes by the steps of Session only.  *)
(* The two modules keep their own part of the main queue: in which order   *)
(* the closures of the two run is left open.                               *)
(***************************************************************************)
EXTENDS Integers, Sequences

CONSTANTS
    Users, NoUser, MaxCalls, MaxRoutes,         \* as in Session
    NoteIds, Details, Absent, NoRow, MaxLoads   \* as in NoteList

ASSUME NoUserAppAssumption   == NoUser \notin Users
ASSUME AbsentAppAssumption   == Absent \notin Details
ASSUME MaxLoadsAppAssumption == MaxLoads \in Nat

VARIABLES
    authUser,                                      \* of both
    accounts, profiles, calls, writes, closures,   \* of Session; closures are
    routes, root, signedBy, revoked,               \* its part of the main queue
    store, owner, adds, waiting, mainQueue, loads, \* of NoteList
    notes, home, screen, detail, editing, atClear, last,
    opened     \* history: the user Home was opened for, and whether an answer to
               \* a call of a page that is gone signed somebody in since

sessionVars == <<accounts, profiles, calls, writes, closures, routes, root,
                 signedBy, revoked>>
noteVars    == <<store, owner, adds, waiting, mainQueue, loads, notes, home, screen,
                 detail, editing, atClear, last>>
vars        == <<authUser, sessionVars, noteVars, opened>>

Session  == INSTANCE Session WITH mainQueue <- closures
NoteList == INSTANCE NoteList WITH user <- authUser

Init ==
    /\ Session!Init
    /\ NoteList!Init
    /\ opened = [user |-> NoUser, late |-> FALSE]

-----------------------------------------------------------------------------
(* Steps of both *)

\* The Continue button of the landing page.
OpenHome ==
    /\ root = "LandingPage"
    /\ NoteList!OpenHome
    /\ opened' = [user |-> authUser, late |-> FALSE]
    /\ UNCHANGED sessionVars

\* Faulty variant: the new root page is presented over the old one.
presentOver == UNCHANGED noteVars

\* Faulty variant: Home goes and the detail screen on top of it does not.
popHome == screen' = "away" /\ home' = {} /\ UNCHANGED <<store, owner, adds, waiting,
               mainQueue, loads, notes, detail, editing, atClear, last>>

\* The old root page is released, with the Home stack if it was open.
replaceRoot == IF screen = "away" THEN UNCHANGED noteVars ELSE NoteList!HomeGone

goToController ==
    /\ Session!goToController
    /\ replaceRoot
    /\ UNCHANGED opened

\* A sign-in is answered, whatever is on screen by now.
SignedIn(c) ==
    /\ Session!SignedIn(c)
    /\ opened' = [opened EXCEPT !.late = @ \/ ~c.here]
    /\ UNCHANGED noteVars

\* The log-out button of the landing page and the one of Home, which other
\* screens of its stack cover.
logoutButtonPressed ==
    /\ screen \in {"away", "list"}
    /\ root = "LandingPage"
    /\ Len(routes) < MaxRoutes
    /\ Session!logoutAndRoute
    /\ UNCHANGED <<accounts, profiles, calls, writes, closures, root, signedBy>>
    /\ UNCHANGED <<noteVars, opened>>

\* The process ends, by iOS or by the unowned self of the Google closure.
Terminate ==
    /\ Session!Terminate \/ Session!RunGoogleUnowned
    /\ NoteList!Terminate
    /\ UNCHANGED opened

-----------------------------------------------------------------------------
(* Steps of one *)

SessionStep ==
    \/ Session!Launch
    \/ \E kind \in Session!Kinds, u \in Users : Session!StartCall(kind, u)
    \/ \E c \in calls : Session!CallFailed(c)
    \/ Session!signOutByForce
    \/ Session!RunFailure
    \/ Session!RunLogin
    \/ Session!RunCreated
    \/ Session!RunSaved
    \/ Session!RunGoogle
    \/ \E w \in writes, ok \in BOOLEAN : Session!WriteAnswered(w, ok)

ScreenStep ==
    \/ NoteList!RaiseAnswer
    \/ NoteList!Deliver
    \/ \E r \in home : NoteList!SelectRow(r)
    \/ NoteList!Back
    \/ NoteList!PresentSheet
    \/ NoteList!DismissSheet
    \/ NoteList!composeNote
    \/ \E text \in Details : NoteList!Save(text)
    \/ NoteList!deleteNote
    \/ NoteList!CancelDelete
    \/ NoteList!ConfirmDelete
    \/ NoteList!ConfirmDeleteSignedOut
    \/ \E id \in NoteIds, text \in Details : NoteList!AddPressed(id, text)
    \/ \E id \in NoteIds : NoteList!AddCompleted(id)
    \/ \E id \in NoteIds : NoteList!AddFailed(id)
    \/ NoteList!NotesChange

Next ==
    \/ OpenHome
    \/ goToController
    \/ \E c \in calls : SignedIn(c)
    \/ logoutButtonPressed
    \/ Terminate
    \/ SessionStep /\ UNCHANGED <<noteVars, opened>>
    \/ ScreenStep /\ UNCHANGED <<sessionVars, opened>>

Spec == Init /\ [][Next]_vars

-----------------------------------------------------------------------------
(* Properties *)

\* Notes are on screen, with no route on its way, only while a user is signed in;
\* only a sign-out that FirebaseAuth makes on its own leaves them there.
NotesNeedUser ==
    screen # "away" /\ routes = <<>> /\ ~revoked => authUser # NoUser

\* The user does not change under an open Home, to whom its Add, save and delete
\* would then write, except by the late answer to a call of a login page that is
\* gone.
HomeKeepsItsUser ==
    screen # "away" /\ ~opened.late => authUser \in {opened.user, NoUser}

\* The composition keeps NoteList's specification, so that what is shown of the
\* list there holds in the app.
ImplementsNoteList == NoteList!Spec

=============================================================================
