--------------------------- MODULE QuickNoteProofs ---------------------------
(***************************************************************************)
(* Theorems about QuickNote, for any accounts, notes and bounds.           *)
(***************************************************************************)
EXTENDS QuickNote, TLAPS

\* The theorems of SessionProofs and of NoteListProofs, about the same variables.
Routing == INSTANCE SessionProofs WITH mainQueue <- closures
List    == INSTANCE NoteListProofs WITH user <- authUser

-----------------------------------------------------------------------------
(* Every step is one of Session *)

\* The user changes by no step of the note screens, and none of them opens Home.
LEMMA ScreenKeepsUser ==
    ASSUME ScreenStep
    PROVE  UNCHANGED authUser /\ (screen = "away" => screen' = "away")
BY DEF ScreenStep, NoteList!screens, NoteList!RaiseAnswer, NoteList!RaiseSnapshot,
       NoteList!RaiseError, NoteList!Deliver, NoteList!TakeAnswer, NoteList!SelectRow,
       NoteList!Back, NoteList!PresentSheet, NoteList!DismissSheet, NoteList!composeNote,
       NoteList!Save, NoteList!deleteNote, NoteList!CancelDelete, NoteList!ConfirmDelete,
       NoteList!ConfirmDeleteSignedOut, NoteList!AddPressed, NoteList!AddCompleted,
       NoteList!AddFailed, NoteList!NotesChange, NoteList!RemoteChange

\* Session, as SessionProofs and as QuickNote see it, takes the same steps.
LEMMA SameSession ==
    ASSUME [Next]_vars
    PROVE  [Routing!Next]_(Routing!vars)
<1>2. Session!Launch => Routing!Launch
  BY DEF Session!Launch, Routing!Launch, Session!checkAuthentication,
         Routing!checkAuthentication, Session!pageFor, Routing!pageFor,
         Session!server, Routing!server, Session!ghosts, Routing!ghosts
<1>3. Session!goToController => Routing!goToController
  BY DEF Session!goToController, Routing!goToController
<1>4. Session!Terminate => Routing!Terminate
  BY DEF Session!Terminate, Routing!Terminate, Session!loseProcess, Routing!loseProcess
<1>5. ASSUME NEW kind \in Session!Kinds, NEW u \in Users, Session!StartCall(kind, u)
      PROVE  kind \in Routing!Kinds /\ Routing!StartCall(kind, u)
  BY <1>5 DEF Session!Kinds, Routing!Kinds, Session!StartCall, Routing!StartCall,
              Session!Slots, Routing!Slots, Session!Busy, Routing!Busy,
              Session!Elements, Routing!Elements, Session!ghosts, Routing!ghosts
<1>6. ASSUME NEW c \in calls, Session!SignedIn(c) PROVE Routing!SignedIn(c)
  BY <1>6 DEF Session!SignedIn, Routing!SignedIn, Session!admits, Routing!admits,
              Session!Closure, Routing!Closure
<1>7. ASSUME NEW c \in calls, Session!CallFailed(c) PROVE Routing!CallFailed(c)
  BY <1>7 DEF Session!CallFailed, Routing!CallFailed, Session!Closure, Routing!Closure,
              Session!ghosts, Routing!ghosts
<1>8. Session!signOutByForce => Routing!signOutByForce
  BY DEF Session!signOutByForce, Routing!signOutByForce, Session!server, Routing!server
<1>9. Session!RunFailure => Routing!RunFailure
  BY DEF Session!RunFailure, Routing!RunFailure, Session!Run, Routing!Run,
         Session!Kinds, Routing!Kinds, Session!server, Routing!server,
         Session!ghosts, Routing!ghosts
<1>10. Session!RunLogin \/ Session!RunSaved => Routing!RunLogin \/ Routing!RunSaved
  BY DEF Session!RunLogin, Routing!RunLogin, Session!RunSaved, Routing!RunSaved,
         Session!Run, Routing!Run, Session!routeFromPage, Routing!routeFromPage,
         Session!checkAuthentication, Routing!checkAuthentication,
         Session!pageFor, Routing!pageFor, Session!server, Routing!server,
         Session!ghosts, Routing!ghosts
<1>11. Session!RunCreated => Routing!RunCreated
  BY DEF Session!RunCreated, Routing!RunCreated, Session!created, Routing!created,
         Session!Run, Routing!Run, Session!profileWrite, Routing!profileWrite,
         Session!ghosts, Routing!ghosts
<1>12. Session!RunGoogle => Routing!RunGoogle
  BY DEF Session!RunGoogle, Routing!RunGoogle, Session!Run, Routing!Run,
         Session!profileWrite, Routing!profileWrite,
         Session!checkAuthentication, Routing!checkAuthentication,
         Session!pageFor, Routing!pageFor, Session!ghosts, Routing!ghosts
<1>13. Session!RunGoogleUnowned => Routing!RunGoogleUnowned
  BY DEF Session!RunGoogleUnowned, Routing!RunGoogleUnowned, Session!profileWrite,
         Routing!profileWrite, Session!loseProcess, Routing!loseProcess
<1>14. ASSUME NEW w \in writes, NEW ok \in BOOLEAN, Session!WriteAnswered(w, ok)
       PROVE  Routing!WriteAnswered(w, ok)
  BY <1>14 DEF Session!WriteAnswered, Routing!WriteAnswered, Session!Closure,
               Routing!Closure, Session!ghosts, Routing!ghosts
<1>15. logoutButtonPressed => Routing!logoutButtonPressed
  BY DEF logoutButtonPressed, Routing!logoutButtonPressed,
         Session!logoutAndRoute, Routing!logoutAndRoute,
         Session!checkAuthentication, Routing!checkAuthentication,
         Session!pageFor, Routing!pageFor, Routing!server
<1>16. UNCHANGED <<authUser, sessionVars>> => UNCHANGED Routing!vars
  BY DEF sessionVars, Routing!vars, Routing!server, Routing!ghosts
<1>17. OpenHome => UNCHANGED Routing!vars
  BY <1>16 DEF OpenHome, NoteList!OpenHome
<1>18. ScreenStep /\ UNCHANGED <<sessionVars, opened>> => UNCHANGED Routing!vars
  BY <1>16, ScreenKeepsUser
<1>19. UNCHANGED vars => UNCHANGED Routing!vars
  BY <1>16 DEF vars
<1> QED
  BY <1>2, <1>3, <1>4, <1>5, <1>6, <1>7, <1>8, <1>9, <1>10, <1>11, <1>12, <1>13, <1>14,
     <1>15, <1>17, <1>18, <1>19 DEF Next, SessionStep, goToController, SignedIn, Terminate,
     Routing!Next, Routing!RunMain

-----------------------------------------------------------------------------
(* Home and its user *)

\* Home lies on the landing page, whose login page is gone with all its calls.
ScreensInv ==
    /\ Routing!RoutesInv
    /\ screen # "away" => root = "LandingPage"
    /\ root = "LandingPage" => \A c \in calls : ~c.here
    /\ opened.late \in BOOLEAN
    /\ opened = [user |-> opened.user, late |-> opened.late]
    /\ HomeKeepsItsUser

LEMMA ScreensStart == Init => ScreensInv
<1> SUFFICES ASSUME Init PROVE ScreensInv
  OBVIOUS
<1>1. /\ calls = {} /\ routes = <<>> /\ root = "none" /\ screen = "away"
      /\ opened = [user |-> NoUser, late |-> FALSE]
  BY DEF Init, Session!Init, NoteList!Init
<1>2. Routing!RoutesInv
  BY <1>1 DEF Routing!RoutesInv, Routing!LandingNeedsUser, Routing!Destination
<1> QED BY <1>1, <1>2 DEF ScreensInv, HomeKeepsItsUser

\* What a step of Session alone does to the root page, the user and the calls.
LEMMA SessionStepsApart ==
    ASSUME SessionStep
    PROVE  /\ root' = root \/ (root' = "blank" /\ root = "none")
           /\ authUser' \in {authUser, NoUser}
           /\ root = "LandingPage" => calls' \subseteq calls
           /\ \A c \in calls' : c \in calls \/ c.user \in Users
<1> USE DEF Session!server, Session!ghosts
<1>1. CASE Session!Launch
  BY <1>1 DEF Session!Launch
<1>2. ASSUME NEW kind \in Session!Kinds, NEW u \in Users, Session!StartCall(kind, u)
      PROVE  /\ UNCHANGED <<root, authUser>> /\ root # "LandingPage"
             /\ \A c \in calls' : c \in calls \/ c.user \in Users
  <2>1. PICK n : calls' =
           calls \cup {[n |-> n, kind |-> kind, user |-> u, here |-> TRUE]}
    BY <1>2 DEF Session!StartCall
  <2> QED BY <1>2, <2>1 DEF Session!StartCall
<1>3. ASSUME NEW c \in calls, Session!CallFailed(c)
      PROVE  UNCHANGED <<root, authUser>> /\ calls' \subseteq calls
  BY <1>3 DEF Session!CallFailed
<1>4. CASE Session!signOutByForce
  BY <1>4 DEF Session!signOutByForce
<1>5. CASE \/ Session!RunFailure \/ Session!RunLogin \/ Session!RunCreated
           \/ Session!RunSaved \/ Session!RunGoogle
  BY <1>5 DEF Session!RunFailure, Session!RunLogin, Session!RunCreated,
              Session!RunSaved, Session!RunGoogle
<1>6. ASSUME NEW w \in writes, NEW ok \in BOOLEAN, Session!WriteAnswered(w, ok)
      PROVE  UNCHANGED <<root, authUser, calls>>
  BY <1>6 DEF Session!WriteAnswered
<1> QED BY <1>1, <1>2, <1>3, <1>4, <1>5, <1>6 DEF SessionStep

\* No step of Session alone changes the user under an open Home, except to nobody.
LEMMA SessionKeepsScreens ==
    ASSUME ScreensInv, SessionStep, UNCHANGED <<noteVars, opened>>, Routing!RoutesInv'
    PROVE  ScreensInv'
<1>1. UNCHANGED <<screen, opened>>
  BY DEF noteVars
<1> QED BY <1>1, SessionStepsApart DEF ScreensInv, HomeKeepsItsUser

LEMMA ScreensStep ==
    ASSUME ScreensInv, [Next]_vars
    PROVE  ScreensInv'
<1>1. Routing!RoutesInv'
  BY SameSession, NoUserAppAssumption, Routing!RoutesStep DEF ScreensInv
<1>2. CASE OpenHome
  <2>1. UNCHANGED <<authUser, root, calls>> /\ opened' = [user |-> authUser, late |-> FALSE]
        /\ root = "LandingPage"
    BY <1>2 DEF OpenHome, NoteList!OpenHome, sessionVars
  <2> QED BY <1>1, <2>1 DEF ScreensInv, HomeKeepsItsUser
<1>3. CASE goToController
  <2>1. screen' = "away"
    BY <1>3 DEF goToController, replaceRoot, NoteList!HomeGone, noteVars
  <2>2. \A c \in calls' : ~c.here
    BY <1>1, <1>3 DEF goToController, Session!goToController, ScreensInv,
                      Routing!RoutesInv, Routing!Calls
  <2>3. UNCHANGED opened
    BY <1>3 DEF goToController
  <2> QED BY <1>1, <2>1, <2>2, <2>3 DEF ScreensInv, HomeKeepsItsUser
<1>4. ASSUME NEW c \in calls, SignedIn(c) PROVE ScreensInv'
  <2>1. /\ UNCHANGED <<root, screen>> /\ calls' \subseteq calls
        /\ opened' = [opened EXCEPT !.late = @ \/ ~c.here]
    BY <1>4 DEF SignedIn, Session!SignedIn, noteVars
  <2>2. /\ opened'.late = (opened.late \/ ~c.here) /\ opened'.user = opened.user
        /\ opened' = [user |-> opened'.user, late |-> opened'.late]
    <3>1. opened = [user |-> opened.user, late |-> opened.late]
      BY DEF ScreensInv
    <3> DEFINE late == opened.late \/ ~c.here
    <3>2. opened' = [opened EXCEPT !.late = late]
      BY <2>1
    <3> HIDE DEF late
    <3>3. opened' = [user |-> opened.user, late |-> late]
      BY <3>1, <3>2
    <3> QED BY <3>3 DEF late
  <2>3. opened'.late \in BOOLEAN
    BY <2>2 DEF ScreensInv
  <2>4. HomeKeepsItsUser'
    <3>1. CASE screen # "away"
      <4>1. ~c.here
        BY <3>1 DEF ScreensInv
      <4> QED BY <2>2, <4>1 DEF HomeKeepsItsUser
    <3>2. CASE screen = "away"
      BY <2>1, <3>2 DEF HomeKeepsItsUser
    <3> QED BY <3>1, <3>2
  <2> QED BY <1>1, <2>1, <2>2, <2>3, <2>4 DEF ScreensInv
<1>5. CASE logoutButtonPressed
  <2>1. authUser' = NoUser /\ UNCHANGED <<root, calls, screen, opened>>
    BY <1>5 DEF logoutButtonPressed, Session!logoutAndRoute, noteVars
  <2> QED BY <1>1, <2>1 DEF ScreensInv, HomeKeepsItsUser
<1>6. CASE Terminate
  <2>1. screen' = "away" /\ root' = "none" /\ UNCHANGED opened
    BY <1>6 DEF Terminate, NoteList!Terminate, Session!Terminate,
                Session!RunGoogleUnowned, Session!loseProcess
  <2> QED BY <1>1, <2>1 DEF ScreensInv, HomeKeepsItsUser
<1>7. CASE SessionStep /\ UNCHANGED <<noteVars, opened>>
  BY <1>1, <1>7, SessionKeepsScreens
<1>8. CASE ScreenStep /\ UNCHANGED <<sessionVars, opened>>
  <2>1. /\ UNCHANGED <<authUser, root, calls, opened>>
        /\ screen' # "away" => screen # "away"
    BY <1>8, ScreenKeepsUser DEF sessionVars
  <2> QED BY <1>1, <2>1 DEF ScreensInv, HomeKeepsItsUser
<1>9. CASE UNCHANGED vars
  <2>1. UNCHANGED <<authUser, root, calls, screen, opened>>
    BY <1>9 DEF vars, sessionVars, noteVars
  <2> QED BY <1>1, <2>1 DEF ScreensInv, HomeKeepsItsUser
<1> QED BY <1>2, <1>3, <1>4, <1>5, <1>6, <1>7, <1>8, <1>9 DEF Next

LEMMA ScreensHold == Spec => []ScreensInv
BY ScreensStart, ScreensStep, PTL DEF Spec

\* With no route under way nobody faces the notes without being signed in, except
\* after a sign-out FirebaseAuth made on its own.
THEOREM NotesAreOwned == Spec => []NotesNeedUser
<1>1. ScreensInv => NotesNeedUser
  BY DEF ScreensInv, NotesNeedUser, Routing!RoutesInv, Routing!LandingNeedsUser,
         Routing!Destination
<1> QED BY <1>1, ScreensHold, PTL

\* The user of an open Home is the one it was opened for, or nobody, until an
\* answer to a call of a login page that is gone signs somebody in.
THEOREM HomeIsOfOneUser == Spec => []HomeKeepsItsUser
<1>1. ScreensInv => HomeKeepsItsUser
  BY DEF ScreensInv
<1> QED BY <1>1, ScreensHold, PTL

-----------------------------------------------------------------------------
(* The note list in the app *)

\* Only an account, or nobody, is signed in, and only accounts sign in.
UsersInv ==
    /\ authUser \in Users \cup {NoUser}
    /\ \A c \in calls : c.user \in Users

LEMMA UsersHold == Spec => []UsersInv
<1>1. Init => UsersInv
  BY DEF Init, Session!Init, UsersInv
<1>2. ScreensInv /\ UsersInv /\ [Next]_vars => UsersInv'
  <2> SUFFICES ASSUME ScreensInv, UsersInv, [Next]_vars PROVE UsersInv'
    OBVIOUS
  <2>1. CASE goToController
    <3>1. authUser' = authUser /\ calls' = {[c EXCEPT !.here = FALSE] : c \in calls}
      BY <2>1 DEF goToController, Session!goToController
    <3>2. calls \subseteq Routing!Calls
      BY DEF ScreensInv, Routing!RoutesInv
    <3>3. \A c \in calls' : c.user \in Users
      BY <3>1, <3>2 DEF Routing!Calls
    <3> QED BY <3>1, <3>3 DEF UsersInv
  <2>2. ASSUME NEW c \in calls, SignedIn(c) PROVE UsersInv'
    BY <2>2 DEF SignedIn, Session!SignedIn, UsersInv
  <2>3. CASE SessionStep
    BY <2>3, SessionStepsApart DEF UsersInv
  <2>4. CASE Terminate
    BY <2>4 DEF Terminate, Session!Terminate, Session!RunGoogleUnowned,
                Session!loseProcess, UsersInv
  <2>5. CASE \/ OpenHome \/ logoutButtonPressed \/ UNCHANGED vars
             \/ ScreenStep /\ UNCHANGED <<sessionVars, opened>>
    <3>1. authUser' \in {authUser, NoUser} /\ UNCHANGED calls
      BY <2>5, ScreenKeepsUser DEF OpenHome, NoteList!OpenHome, logoutButtonPressed,
         Session!logoutAndRoute, vars, sessionVars
    <3> QED BY <3>1 DEF UsersInv
  <2> QED BY <2>1, <2>2, <2>3, <2>4, <2>5 DEF Next
<1> QED BY <1>1, <1>2, ScreensHold, PTL DEF Spec

\* Each step of the app is one that NoteList allows its screens, its user and its
\* system: what NoteListProofs shows of the list holds of it here.
THEOREM KeepsNoteList == Spec => ImplementsNoteList
<1>1. Init => NoteList!Init
  BY DEF Init
<1>2. UsersInv /\ UsersInv' /\ [Next]_vars => [NoteList!Next]_(NoteList!vars)
  <2> SUFFICES ASSUME UsersInv, UsersInv', [Next]_vars
               PROVE  [NoteList!Next]_(NoteList!vars)
    OBVIOUS
  <2>1. UNCHANGED noteVars => NoteList!AuthChanges(authUser')
    BY DEF noteVars, NoteList!AuthChanges, NoteList!UserChanges, NoteList!firestore,
           NoteList!reads, NoteList!screens, NoteList!history
  <2>2. UNCHANGED noteVars => NoteList!Next
    BY <2>1 DEF UsersInv, NoteList!Next
  <2>3. CASE OpenHome
    BY <2>3 DEF OpenHome, NoteList!Next
  <2>4. CASE goToController
    BY <2>2, <2>4 DEF goToController, replaceRoot, NoteList!Next
  <2>5. CASE (\E c \in calls : SignedIn(c)) \/ logoutButtonPressed
    BY <2>2, <2>5 DEF SignedIn, logoutButtonPressed
  <2>6. CASE Terminate
    BY <2>6 DEF Terminate, NoteList!Next
  <2>7. CASE SessionStep /\ UNCHANGED <<noteVars, opened>>
    BY <2>2, <2>7
  <2>8. CASE ScreenStep /\ UNCHANGED <<sessionVars, opened>>
    BY <2>8 DEF ScreenStep, NoteList!Next
  <2>9. CASE UNCHANGED vars
    BY <2>2, <2>9 DEF vars
  <2> QED BY <2>3, <2>4, <2>5, <2>6, <2>7, <2>8, <2>9 DEF Next
<1> QED BY <1>1, <1>2, UsersHold, PTL DEF Spec, ImplementsNoteList, NoteList!Spec

-----------------------------------------------------------------------------
(* NoteList, as NoteListProofs and as QuickNote see it *)

LEMMA SameListInit ==
    ASSUME NoteList!Init
    PROVE  List!Init
BY DEF NoteList!Init, List!Init, NoteList!CollectionInit, List!CollectionInit,
       NoteList!NoLoad, List!NoLoad, NoteList!NoDocs, List!NoDocs

LEMMA SameReload ==
    ASSUME NoteList!loadNoteDataFromFirebase
    PROVE  List!loadNoteDataFromFirebase
BY DEF NoteList!loadNoteDataFromFirebase, List!loadNoteDataFromFirebase,
       NoteList!removeAll, List!removeAll, NoteList!Outstanding, List!Outstanding,
       NoteList!NoLoad, List!NoLoad, NoteList!getDocuments, List!getDocuments

LEMMA SameEdits ==
    /\ \A text \in Details : NoteList!Save(text) => List!Save(text)
    /\ NoteList!ConfirmDelete => List!ConfirmDelete
<1>1. ASSUME NEW text \in Details, NoteList!Save(text) PROVE List!Save(text)
  BY <1>1, SameReload DEF NoteList!Save, List!Save, NoteList!Update, List!Update,
     NoteList!updateData, List!updateData
<1>2. NoteList!ConfirmDelete => List!ConfirmDelete
  BY SameReload DEF NoteList!ConfirmDelete, List!ConfirmDelete, NoteList!Delete,
     List!Delete, NoteList!popDetail, List!popDetail
<1> QED BY <1>1, <1>2

\* The steps about the answers and the documents.
LEMMA SameAnswers ==
    /\ NoteList!RaiseAnswer => List!RaiseAnswer
    /\ NoteList!Deliver => List!Deliver
    /\ NoteList!NotesChange => List!NotesChange
    /\ NoteList!Terminate => List!Terminate
<1> USE DEF NoteList!screens, List!screens, NoteList!history, List!history,
            NoteList!firestore, List!firestore, NoteList!reads, List!reads
<1>1. NoteList!DocumentsChange => List!DocumentsChange
  BY DEF NoteList!DocumentsChange, List!DocumentsChange, NoteList!FreshId, List!FreshId,
         NoteList!Docs, List!Docs
<1>2. NoteList!RaiseAnswer => List!RaiseAnswer
  BY DEF NoteList!RaiseAnswer, List!RaiseAnswer, NoteList!RaiseSnapshot,
         List!RaiseSnapshot, NoteList!RaiseError, List!RaiseError, NoteList!Ready,
         List!Ready, NoteList!detached, List!detached, NoteList!NoDocs, List!NoDocs
<1>3. NoteList!Deliver => List!Deliver
  BY DEF NoteList!Deliver, List!Deliver, NoteList!TakeAnswer, List!TakeAnswer,
         NoteList!TextsChange, List!TextsChange, NoteList!Docs, List!Docs,
         NoteList!noticed, List!noticed, NoteList!RowsOf, List!RowsOf,
         NoteList!loadList, List!loadList
<1>4. NoteList!NotesChange => List!NotesChange
  BY <1>1 DEF NoteList!NotesChange, List!NotesChange, NoteList!RemoteChange,
         List!RemoteChange, NoteList!noticed, List!noticed
<1>5. NoteList!Terminate => List!Terminate
  BY <1>1 DEF NoteList!Terminate, List!Terminate, NoteList!ProcessEnds,
         List!ProcessEnds, NoteList!NoLoad, List!NoLoad, NoteList!popDetail,
         List!popDetail
<1> QED BY <1>2, <1>3, <1>4, <1>5

\* NoteList, as NoteListProofs and as QuickNote see it, takes the same steps.
LEMMA SameList ==
    ASSUME [NoteList!Next]_(NoteList!vars)
    PROVE  [List!Next]_(List!vars)
<1> USE DEF NoteList!screens, List!screens, NoteList!history, List!history,
            NoteList!firestore, List!firestore, NoteList!reads, List!reads,
            NoteList!popDetail, List!popDetail
<1>1. NoteList!OpenHome => List!OpenHome
  BY SameReload DEF NoteList!OpenHome, List!OpenHome
<1>2. /\ NoteList!HomeGone => List!HomeGone
      /\ \A r \in home : NoteList!SelectRow(r) => List!SelectRow(r)
      /\ NoteList!Back => List!Back
      /\ NoteList!PresentSheet => List!PresentSheet
      /\ NoteList!DismissSheet => List!DismissSheet
      /\ NoteList!composeNote => List!composeNote
      /\ NoteList!deleteNote => List!deleteNote
      /\ NoteList!CancelDelete => List!CancelDelete
      /\ NoteList!ConfirmDeleteSignedOut => List!ConfirmDeleteSignedOut
  BY DEF NoteList!HomeGone, List!HomeGone, NoteList!SelectRow, List!SelectRow,
         NoteList!Back, List!Back, NoteList!PresentSheet, List!PresentSheet,
         NoteList!DismissSheet, List!DismissSheet, NoteList!composeNote,
         List!composeNote, NoteList!deleteNote, List!deleteNote,
         NoteList!CancelDelete, List!CancelDelete, NoteList!ConfirmDeleteSignedOut,
         List!ConfirmDeleteSignedOut
<1>3. ASSUME NEW id \in NoteIds, NEW text \in Details, NoteList!AddPressed(id, text)
      PROVE  List!AddPressed(id, text)
  BY <1>3 DEF NoteList!AddPressed, List!AddPressed, NoteList!Add, List!Add,
         NoteList!FreshId, List!FreshId, NoteList!setData, List!setData,
         NoteList!noticed, List!noticed
<1>4. ASSUME NEW id \in NoteIds
      PROVE  /\ NoteList!AddCompleted(id) => List!AddCompleted(id)
             /\ NoteList!AddFailed(id) => List!AddFailed(id)
  BY SameReload DEF NoteList!AddCompleted, List!AddCompleted, NoteList!AddFailed,
     List!AddFailed, NoteList!AddAnswered, List!AddAnswered
<1>5. ASSUME NEW u \in Users \cup {NoUser}, NoteList!AuthChanges(u)
      PROVE  List!AuthChanges(u)
  BY <1>5 DEF NoteList!AuthChanges, List!AuthChanges, NoteList!UserChanges,
         List!UserChanges
<1>6. UNCHANGED NoteList!vars => UNCHANGED List!vars
  BY DEF NoteList!vars, List!vars, NoteList!collection, List!collection
<1> QED
  BY <1>1, <1>2, <1>3, <1>4, <1>5, <1>6, SameEdits, SameAnswers
     DEF NoteList!Next, List!Next

LEMMA AppKeepsList == Spec => List!Spec
  BY KeepsNoteList, SameListInit, SameList, PTL
     DEF ImplementsNoteList, NoteList!Spec, List!Spec

LEMMA ListAssumptions ==
    List!NoUserAssumption /\ List!AbsentAssumption /\ List!MaxLoadsAssumption
BY NoUserAppAssumption, AbsentAppAssumption, MaxLoadsAppAssumption
   DEF List!NoUserAssumption, List!AbsentAssumption, List!MaxLoadsAssumption

-----------------------------------------------------------------------------
(* What the list promises, in the app *)

\* In the app, too, Home shows the account as it is once the reload that ends a
\* save, a delete or an add has been answered, whatever was routed meanwhile.
THEOREM ListSettlesInApp == Spec => []NoteList!SettledListIsCurrent
<1>1. List!Spec => []List!SettledListIsCurrent
  BY ListAssumptions, List!SettledListCorrect
<1>2. List!SettledListIsCurrent => NoteList!SettledListIsCurrent
  BY DEF List!SettledListIsCurrent, NoteList!SettledListIsCurrent, List!Settled,
         NoteList!Settled, List!RowsOf, NoteList!RowsOf
<1> QED BY <1>1, <1>2, AppKeepsList, PTL

\* In the app, Home shows DataSource's rows from the newest answer on.
THEOREM HomeFollowsInApp == Spec => []NoteList!HomeShowsDataSource
<1>1. List!Spec => []List!HomeShowsDataSource
  BY ListAssumptions, List!HomeFollowsDataSource
<1>2. List!HomeShowsDataSource => NoteList!HomeShowsDataSource
  BY DEF List!HomeShowsDataSource, NoteList!HomeShowsDataSource
<1> QED BY <1>1, <1>2, AppKeepsList, PTL

\* In the app, no row outlives removeAll or comes from a read that is not
\* answered, and a note is listed twice only by overlapping loads.
THEOREM RowsTracedInApp ==
    Spec => [](NoteList!RowsTraceToOpenReads /\ NoteList!DuplicatesNeedOverlap)
<1>1. /\ List!Spec => []List!RowsTraceToOpenReads
      /\ List!Spec => []List!DuplicatesNeedOverlap
  BY ListAssumptions, List!RowsTraced, List!DuplicatesTraced
<1>2. /\ List!RowsTraceToOpenReads => NoteList!RowsTraceToOpenReads
      /\ List!DuplicatesNeedOverlap => NoteList!DuplicatesNeedOverlap
  BY DEF List!RowsTraceToOpenReads, NoteList!RowsTraceToOpenReads, List!Outstanding,
         NoteList!Outstanding, List!DuplicatesNeedOverlap,
         NoteList!DuplicatesNeedOverlap
<1> QED BY <1>1, <1>2, AppKeepsList, PTL

\* In the app, Save and Delete write only the account the note was read from,
\* although a late sign-in may have put another user under the detail screen.
THEOREM EditsStayInApp == Spec => NoteList!EditsStayInTheirAccount
<1> DEFINE Local ==
             \A u \in Users : store'[u] # store[u] => u = authUser /\ u = detail.user
<1>1. List!Spec => List!EditsStayInTheirAccount
  BY ListAssumptions, List!EditsStay
<1>2. [(\E text \in Details : List!Save(text)) \/ List!ConfirmDelete
          => Local]_(List!vars)
      => [(\E text \in Details : NoteList!Save(text)) \/ NoteList!ConfirmDelete
          => Local]_(NoteList!vars)
  <2>1. UNCHANGED List!vars => UNCHANGED NoteList!vars
    BY DEF NoteList!vars, List!vars, NoteList!collection, List!collection,
           NoteList!screens, List!screens, NoteList!history, List!history,
           NoteList!firestore, List!firestore, NoteList!reads, List!reads
  <2> QED BY <2>1, SameEdits
<1> QED BY <1>1, <1>2, AppKeepsList, PTL
        DEF List!EditsStayInTheirAccount, NoteList!EditsStayInTheirAccount

-----------------------------------------------------------------------------
(* What Session promises, in the app *)

LEMMA AppKeepsSession == Spec => Routing!Spec
<1>1. Init => Routing!Init
  BY DEF Init, Session!Init, Routing!Init
<1> QED BY <1>1, SameSession, PTL DEF Spec, Routing!Spec

\* In the app, with Home over the landing page and its log-out button: the landing
\* page last chosen has a user, a profile has an account, and who is signed in on a
\* login page is there for one of the two reasons known.
THEOREM SessionHoldsInApp ==
    Spec => [](/\ Session!LandingNeedsUser
               /\ Session!ProfilesHaveAccounts
               /\ Session!StuckOnlyByLateAnswerOrProfile)
<1>1. Routing!NoUserSessionAssumption
  BY NoUserAppAssumption DEF Routing!NoUserSessionAssumption
<1>2. /\ Routing!Spec => []Routing!LandingNeedsUser
      /\ Routing!Spec => []Routing!ProfilesHaveAccounts
      /\ Routing!Spec => []Routing!StuckOnlyByLateAnswerOrProfile
  BY <1>1, Routing!LandingIsSafe, Routing!ProfilesAreOfAccounts,
     Routing!OnlyTheseAreStuck
<1>3. /\ Routing!LandingNeedsUser => Session!LandingNeedsUser
      /\ Routing!ProfilesHaveAccounts => Session!ProfilesHaveAccounts
      /\ Routing!StuckOnlyByLateAnswerOrProfile => Session!StuckOnlyByLateAnswerOrProfile
  BY DEF Routing!LandingNeedsUser, Session!LandingNeedsUser, Routing!Destination,
         Session!Destination, Routing!ProfilesHaveAccounts,
         Session!ProfilesHaveAccounts, Routing!StuckOnlyByLateAnswerOrProfile,
         Session!StuckOnlyByLateAnswerOrProfile
<1> QED BY <1>2, <1>3, AppKeepsSession, PTL

=============================================================================
