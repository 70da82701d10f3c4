------------------------------- MODULE Session -------------------------------
(***************************************************************************)
(* Who is signed in and which page is shown: FirebaseAuth's current user,  *)
(* AuthService, the log-in, register and Google sign-in handlers of the    *)
(* login page, the log-out buttons behind the landing page, and the routes *)
(* SceneDelegate takes between the two.                                    *)
(*                                                                         *)
(* FirebaseAuth sets the current user on its own queue and only then hands *)
(* the caller's closure to the main queue; Firestore does likewise with    *)
(* the outcome of a write.  A route is decided on the main thread and      *)
(* taken later, when the animation it starts completes.                    *)
(*                                                                         *)
(* A closure knows the page it was made on; all that matters of it is      *)
(* whether that page is still the root page, the field `here'.             *)
(***************************************************************************)
EXTENDS Integers, Sequences, FiniteSets

CONSTANTS
    Users,    \* the e-mail addresses
    NoUser,   \* currentUser is nil
    MaxCalls, \* bound: Auth calls, closures and profile writes under way
    MaxRoutes \* bound: buttons are pressed only with fewer routes to take

ASSUME NoUserSessionAssumption == NoUser \notin Users

VARIABLES
    authUser,  \* FIRAuth's _currentUser, kept in the keychain over launches
    accounts,  \* the accounts that exist on the server
    profiles,  \* the users/{email} documents on the server
    calls,     \* Auth calls not answered yet
    writes,    \* profile writes the server has not answered
    mainQueue, \* closures waiting for the main thread
    routes,    \* pages chosen by checkAuthentication and not shown yet
    root,      \* the root page: "none" without a process, "blank" at its start
    signedBy,  \* history: the call that set authUser last
    revoked    \* history: the user was signed out without the app asking

server == <<accounts, profiles, calls, writes>>
ghosts == <<signedBy, revoked>>
vars   == <<authUser, server, mainQueue, routes, root, ghosts>>

-----------------------------------------------------------------------------

Kinds    == {"login", "register", "google"}
Slots    == 1..MaxCalls
Calls    == [n : Slots, kind : Kinds, user : Users, here : BOOLEAN]
Writes   == [n : Slots, user : Users, queue : Users \cup {NoUser},
             waits : BOOLEAN, here : BOOLEAN]
Closures == [n : Slots, kind : Kinds \cup {"saved"}, user : Users, ok : BOOLEAN,
             here : BOOLEAN]

Elements(s) == {s[k] : k \in 1..Len(s)}

\* The slots of the calls under way, of their closures and of their writes.
Busy == {x.n : x \in calls} \cup {x.n : x \in writes} \cup {x.n : x \in Elements(mainQueue)}

Closure(kind, c, ok) ==
    [n |-> c.n, kind |-> kind, user |-> c.user, ok |-> ok, here |-> c.here]

Init ==
    /\ authUser \in Users \cup {NoUser}
    /\ accounts \in {S \in SUBSET Users : authUser \in S \cup {NoUser}}
    /\ profiles \in SUBSET accounts
    /\ calls = {}
    /\ writes = {}
    /\ mainQueue = <<>>
    /\ routes = <<>>
    /\ root = "none"
    /\ signedBy = [kind |-> "launch", here |-> FALSE]
    /\ revoked = FALSE

-----------------------------------------------------------------------------
(* SceneDelegate *)

\* Faulty variant: Home is named without the landing page in front of it.
homePageFor(u) == IF u = NoUser THEN "LoginPage" ELSE "HomePage"

pageFor(u) == IF u = NoUser THEN "LoginPage" ELSE "LandingPage"

\* Faulty variant: a route is taken before those chosen earlier.
routeAhead(u) == routes' = <<pageFor(u)>> \o routes

\* The page is chosen now; the closure that shows it captures the choice.
checkAuthentication(u) == routes' = Append(routes, pageFor(u))

\* The process starts: scene(_:willConnectTo:) sets up the window and routes.
Launch ==
    /\ root = "none"
    /\ root' = "blank"
    /\ checkAuthentication(authUser)
    /\ UNCHANGED <<authUser, server, mainQueue, ghosts>>

\* The completion of goToController's animation replaces the root page; calls
\* and closures made on the old one are no longer at home.
goToController ==
    /\ routes # <<>>
    /\ root' = Head(routes)
    /\ routes' = Tail(routes)
    /\ calls' = {[c EXCEPT !.here = FALSE] : c \in calls}
    /\ writes' = {[w EXCEPT !.here = FALSE] : w \in writes}
    /\ mainQueue' = [k \in 1..Len(mainQueue) |-> [mainQueue[k] EXCEPT !.here = FALSE]]
    /\ signedBy' = [signedBy EXCEPT !.here = FALSE]
    /\ UNCHANGED <<authUser, accounts, profiles, revoked>>

\* What the process holds in memory is lost.  Firestore keeps pending writes on
\* disk and sends them after the next launch, but nobody waits for them then.
loseProcess(pending) ==
    /\ root' = "none"
    /\ routes' = <<>>
    /\ mainQueue' = <<>>
    /\ calls' = {}
    /\ writes' = {[w EXCEPT !.waits = FALSE, !.here = FALSE] : w \in pending}
    /\ signedBy' = [signedBy EXCEPT !.here = FALSE]

Terminate ==
    /\ root # "none"
    /\ loseProcess(writes)
    /\ UNCHANGED <<authUser, accounts, profiles, revoked>>

-----------------------------------------------------------------------------
(* FirebaseAuth *)

\* loginButtonPressed, registerButtonPressed with equal passwords, googleSignin
\* once Google's own dialog is answered.  The buttons are disabled for a second
\* after a press; a call takes as long as it takes.
StartCall(kind, u) ==
    /\ root = "LoginPage"
    /\ Len(routes) < MaxRoutes
    /\ \E n \in Slots \ Busy :
          /\ \A m \in Slots \ Busy : n <= m
          /\ calls' = calls \cup {[n |-> n, kind |-> kind, user |-> u, here |-> TRUE]}
    /\ UNCHANGED <<authUser, accounts, profiles, writes, mainQueue, routes, root, ghosts>>

\* The server lets a call through: log in to what exists, register what does not.
admits(c) ==
    \/ c.kind = "login"    /\ c.user \in accounts
    \/ c.kind = "register" /\ c.user \notin accounts
    \/ c.kind = "google"

\* A sign-in flow completes: current user first, closure second.
SignedIn(c) ==
    /\ admits(c)
    /\ calls' = calls \ {c}
    /\ accounts' = accounts \cup {c.user}
    /\ authUser' = c.user
    /\ mainQueue' = Append(mainQueue, Closure(c.kind, c, TRUE))
    /\ signedBy' = [kind |-> c.kind, here |-> c.here]
    /\ revoked' = FALSE
    /\ UNCHANGED <<profiles, writes, routes, root>>

\* The call fails: refused, no connection, a keychain that cannot be written.  All
\* but a log-in may have created the account when the answer is lost.
CallFailed(c) ==
    /\ calls' = calls \ {c}
    /\ mainQueue' = Append(mainQueue, Closure(c.kind, c, FALSE))
    /\ \/ UNCHANGED accounts
       \/ c.kind # "login" /\ accounts' = accounts \cup {c.user}
    /\ UNCHANGED <<authUser, profiles, writes, routes, root, ghosts>>

\* The token is refused: FirebaseAuth signs the user out, the app is not told.
signOutByForce ==
    /\ root # "none"
    /\ authUser # NoUser
    /\ authUser' = NoUser
    /\ revoked' = TRUE
    /\ UNCHANGED <<server, mainQueue, routes, root, signedBy>>

-----------------------------------------------------------------------------
(* The closures of the login page's handlers *)

\* Take the next closure off the main queue: it is of this kind and outcome.
Run(kind, ok) ==
    /\ mainQueue # <<>>
    /\ mainQueue' = Tail(mainQueue)
    /\ Head(mainQueue).kind = kind
    /\ Head(mainQueue).ok = ok

\* Faulty variant: only the loader is shown.
stayOnPage == UNCHANGED routes

\* Route if the page has a window: it is still the root page.
routeFromPage ==
    IF Head(mainQueue).here
    THEN checkAuthentication(authUser)
    ELSE UNCHANGED routes

\* An error ends in a label (log in, register) or in the log (Google); the page
\* stays, also when registerUser had signed the user in before it failed.
RunFailure ==
    /\ \E kind \in Kinds \cup {"saved"} : Run(kind, FALSE)
    /\ UNCHANGED <<authUser, server, routes, root, ghosts>>

\* loginButtonPressed
RunLogin ==
    /\ Run("login", TRUE)
    /\ routeFromPage
    /\ UNCHANGED <<authUser, server, root, ghosts>>

\* setData on users/{email}, queued under whoever is signed in by now.
profileWrite(c, waits) ==
    [n |-> c.n, user |-> c.user, queue |-> authUser, waits |-> waits, here |-> c.here]

\* Faulty variant: the profile is written whatever createUser answered.
createdOrNot == \E ok \in BOOLEAN : Run("register", ok)

\* registerUser goes on only without an error and with a user.
created == Run("register", TRUE)

\* registerUser, second half: the account exists, save its profile.  The page
\* hears of it when the write is acknowledged.
RunCreated ==
    /\ created
    /\ writes' = writes \cup {profileWrite(Head(mainQueue), TRUE)}
    /\ UNCHANGED <<authUser, accounts, profiles, calls, routes, root, ghosts>>

\* registerButtonPressed, after both steps succeeded.
RunSaved ==
    /\ Run("saved", TRUE)
    /\ routeFromPage
    /\ UNCHANGED <<authUser, server, root, ghosts>>

\* setupGoogle: save the profile without waiting for the outcome, then route.
RunGoogle ==
    /\ Run("google", TRUE)
    /\ Head(mainQueue).here
    /\ writes' = writes \cup {profileWrite(Head(mainQueue), FALSE)}
    /\ checkAuthentication(authUser)
    /\ UNCHANGED <<authUser, accounts, profiles, calls, root, ghosts>>

\* The same closure when its ViewController is gone: the use of the unowned self
\* ends the process, with or without the profile write on disk.
RunGoogleUnowned ==
    /\ mainQueue # <<>>
    /\ LET c == Head(mainQueue)
       IN  /\ c.kind = "google" /\ c.ok /\ ~c.here
           /\ \E pending \in {writes, writes \cup {profileWrite(c, FALSE)}} :
                 loseProcess(pending)
    /\ UNCHANGED <<authUser, accounts, profiles, revoked>>

\* The server acknowledges or refuses a profile write.  Firestore sends a write
\* only while the user it was queued under is signed in.
WriteAnswered(w, ok) ==
    /\ root # "none"
    /\ authUser = w.queue
    /\ writes' = writes \ {w}
    /\ profiles' = IF ok THEN profiles \cup {w.user} ELSE profiles
    /\ mainQueue' = IF w.waits THEN Append(mainQueue, Closure("saved", w, ok)) ELSE mainQueue
    /\ UNCHANGED <<authUser, accounts, calls, routes, root, ghosts>>

-----------------------------------------------------------------------------
(* The landing page and Home *)

\* Faulty variant: the user is signed out and the pages are left as they are.
logoutOnly == authUser' = NoUser /\ revoked' = FALSE /\ UNCHANGED routes

\* AuthService.signOut, then checkAuthentication.
logoutAndRoute ==
    authUser' = NoUser /\ revoked' = FALSE /\ checkAuthentication(NoUser)

\* logoutButtonPressed of either page.  (When the keychain refuses, an alert is
\* all that happens.)
logoutButtonPressed ==
    /\ root = "LandingPage"
    /\ Len(routes) < MaxRoutes
    /\ logoutAndRoute
    /\ UNCHANGED <<server, mainQueue, root, signedBy>>

RunMain ==
    \/ RunFailure
    \/ RunLogin
    \/ RunCreated
    \/ RunSaved
    \/ RunGoogle
    \/ RunGoogleUnowned

Next ==
    \/ Launch
    \/ goToController
    \/ Terminate
    \/ \E kind \in Kinds, u \in Users : StartCall(kind, u)
    \/ \E c \in calls : SignedIn(c)
    \/ \E c \in calls : CallFailed(c)
    \/ signOutByForce
    \/ RunMain
    \/ \E w \in writes, ok \in BOOLEAN : WriteAnswered(w, ok)
    \/ logoutButtonPressed

Spec == Init /\ [][Next]_vars

\* The main queue and the animations keep going.  Nothing is assumed of the
\* server, of the network or of the user.
FairSpec == Spec /\ WF_vars(RunMain) /\ WF_vars(goToController)

-----------------------------------------------------------------------------
(* Properties *)

TypeOK ==
    /\ authUser \in Users \cup {NoUser}
    /\ accounts \subseteq Users
    /\ profiles \subseteq Users
    /\ calls \subseteq Calls
    /\ writes \subseteq Writes
    /\ mainQueue \in Seq(Closures)
    /\ routes \in Seq({"LoginPage", "LandingPage"})
    /\ root \in {"none", "blank", "LoginPage", "LandingPage"}
    /\ signedBy \in [kind : Kinds \cup {"launch"}, here : BOOLEAN]
    /\ revoked \in BOOLEAN

\* The page that is shown once the routes chosen so far are taken.
Destination == IF routes = <<>> THEN root ELSE routes[Len(routes)]

\* The app heads for the landing page, and the notes behind it, only while a user
\* is signed in: late answers and presses during a route change nothing of that.
\* Only a sign-out that FirebaseAuth makes on its own leaves the page standing.
LandingNeedsUser ==
    Destination = "LandingPage" /\ ~revoked => authUser # NoUser

\* Who is signed in and still faces the login page, with nothing under way, has
\* registered (the profile is not acknowledged or was refused) or got the answer
\* to a call from a page that is gone; a log-in or a Google sign-in from the page
\* on screen never ends there.
StuckOnlyByLateAnswerOrProfile ==
    root = "LoginPage" /\ routes = <<>> /\ mainQueue = <<>> /\ authUser # NoUser =>
        ~signedBy.here \/ signedBy.kind = "register"

\* A profile is only ever written for an account that exists, although creating
\* the account and writing the profile are two calls that fail on their own.
ProfilesHaveAccounts ==
    profiles \cup {w.user : w \in writes} \subseteq accounts

\* After a log-in from the page on screen the app leaves that page, unless the
\* user is signed out or another sign-in comes first.
LoginLeavesPage ==
    (root = "LoginPage" /\ authUser # NoUser /\ signedBy = [kind |-> "login", here |-> TRUE])
       ~> \/ root # "LoginPage"
          \/ authUser = NoUser
          \/ signedBy # [kind |-> "login", here |-> TRUE]

\* Who logs out on the landing page or on Home is led off them, whatever route was
\* under way before, unless somebody is signed in first.
LogoutLeavesLanding ==
    root = "LandingPage" /\ authUser = NoUser /\ ~revoked
        ~> root # "LandingPage" \/ authUser # NoUser

\* [unowned self]: the ViewController is there when its closure runs.
UnownedSelfIsAlive ==
    mainQueue # <<>> /\ Head(mainQueue).kind = "google" /\ Head(mainQueue).ok =>
        Head(mainQueue).here

=============================================================================
