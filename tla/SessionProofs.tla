---------------------------- MODULE SessionProofs ----------------------------
(***************************************************************************)
(* Theorems about Session, for every set of accounts and every bound on    *)
(* the calls and routes under way.                                         *)
(***************************************************************************)
EXTENDS Session, TLAPS

PageNames == {"LoginPage", "LandingPage"}

\* What the routes rest on: calls are made for accounts, routes name pages.
RoutesInv ==
    /\ calls \subseteq Calls
    /\ routes \in Seq(PageNames)
    /\ LandingNeedsUser

\* Routing by the current user keeps the destination true to it.
LEMMA RouteFollowsUser ==
    ASSUME routes \in Seq(PageNames), NEW u, checkAuthentication(u), authUser' = u
    PROVE  routes' \in Seq(PageNames) /\ LandingNeedsUser'
<1>1. pageFor(u) \in PageNames /\ (pageFor(u) = "LandingPage" => u # NoUser)
  BY DEF pageFor, PageNames
<1>2. routes' = Append(routes, pageFor(u))
  BY DEF checkAuthentication
<1>3. /\ routes' \in Seq(PageNames)
      /\ routes' # <<>>
      /\ routes'[Len(routes')] = pageFor(u)
  BY <1>1, <1>2
<1> QED BY <1>1, <1>3 DEF LandingNeedsUser, Destination

\* Closures route by the user there is when they run, or do not route at all.
LEMMA ClosureRoutes ==
    ASSUME RoutesInv, routeFromPage \/ UNCHANGED routes \/ checkAuthentication(authUser),
           UNCHANGED <<authUser, root, revoked>>
    PROVE  routes' \in Seq(PageNames) /\ LandingNeedsUser'
<1>1. CASE checkAuthentication(authUser)
  BY <1>1, RouteFollowsUser DEF RoutesInv
<1>2. CASE UNCHANGED routes
  BY <1>2 DEF RoutesInv, LandingNeedsUser, Destination
<1> QED BY <1>1, <1>2 DEF routeFromPage

LEMMA RoutesStep ==
    ASSUME RoutesInv, [Next]_vars
    PROVE  RoutesInv'
<1> USE DEF server, ghosts
<1>1. CASE Launch
  BY <1>1, RouteFollowsUser DEF Launch, RoutesInv
<1>2. CASE goToController
  <2>1. /\ root' \in PageNames /\ routes' \in Seq(PageNames)
        /\ Len(routes) \in Nat \ {0} /\ root' = routes[1]
        /\ Len(routes') = Len(routes) - 1
        /\ \A k \in 1..Len(routes') : routes'[k] = routes[k + 1]
    BY <1>2 DEF goToController, RoutesInv
  <2>2. Destination' = Destination
    <3>1. CASE routes' = <<>>
      <4>1. Len(routes') = 0
        BY <3>1
      <4>2. Len(routes) = 1
        BY <2>1, <4>1
      <4> QED BY <1>2, <2>1, <3>1, <4>2 DEF goToController, Destination
    <3>2. CASE routes' # <<>>
      <4>1. Len(routes') \in 1..Len(routes')
        BY <2>1, <3>2
      <4>2. routes'[Len(routes')] = routes[Len(routes)]
        BY <2>1, <4>1
      <4> QED BY <1>2, <3>2, <4>2 DEF goToController, Destination
    <3> QED BY <3>1, <3>2
  <2>3. calls' \subseteq Calls
    BY <1>2 DEF goToController, RoutesInv, Calls
  <2> QED BY <1>2, <2>1, <2>2, <2>3 DEF goToController, RoutesInv, LandingNeedsUser
<1>3. CASE Terminate \/ RunGoogleUnowned
  <2>1. calls' = {} /\ routes' = <<>> /\ root' = "none"
    BY <1>3 DEF Terminate, RunGoogleUnowned, loseProcess
  <2> QED BY <2>1 DEF RoutesInv, LandingNeedsUser, Destination
<1>4. ASSUME NEW kind \in Kinds, NEW u \in Users, StartCall(kind, u) PROVE RoutesInv'
  <2>1. calls' \subseteq Calls
    <3>1. PICK n \in Slots \ Busy :
             calls' = calls \cup {[n |-> n, kind |-> kind, user |-> u, here |-> TRUE]}
      BY <1>4 DEF StartCall
    <3>2. [n |-> n, kind |-> kind, user |-> u, here |-> TRUE] \in Calls
      BY DEF Calls
    <3> QED BY <3>1, <3>2 DEF RoutesInv
  <2> QED BY <1>4, <2>1 DEF StartCall, RoutesInv, LandingNeedsUser, Destination
<1>5. ASSUME NEW c \in calls, SignedIn(c) PROVE RoutesInv'
  <2>1. authUser' # NoUser
    BY <1>5, NoUserSessionAssumption DEF SignedIn, RoutesInv, Calls
  <2> QED BY <1>5, <2>1 DEF SignedIn, RoutesInv, LandingNeedsUser
<1>6. ASSUME NEW c \in calls, CallFailed(c) PROVE RoutesInv'
  BY <1>6 DEF CallFailed, RoutesInv, LandingNeedsUser, Destination
<1>7. CASE signOutByForce
  BY <1>7 DEF signOutByForce, RoutesInv, LandingNeedsUser
<1>8. CASE RunFailure \/ RunLogin \/ RunCreated \/ RunSaved \/ RunGoogle
  <2>1. /\ routeFromPage \/ UNCHANGED routes \/ checkAuthentication(authUser)
        /\ UNCHANGED <<authUser, root, revoked, calls>>
    BY <1>8 DEF RunFailure, RunLogin, RunCreated, RunSaved, RunGoogle
  <2> QED BY <2>1, ClosureRoutes DEF RoutesInv
<1>9. ASSUME NEW w \in writes, NEW ok \in BOOLEAN, WriteAnswered(w, ok) PROVE RoutesInv'
  BY <1>9 DEF WriteAnswered, RoutesInv, LandingNeedsUser, Destination
<1>10. CASE logoutButtonPressed
  BY <1>10, RouteFollowsUser DEF logoutButtonPressed, logoutAndRoute, RoutesInv
<1>11. CASE UNCHANGED vars
  BY <1>11 DEF vars, RoutesInv, LandingNeedsUser, Destination
<1> QED BY <1>1, <1>2, <1>3, <1>4, <1>5, <1>6, <1>7, <1>8, <1>9, <1>10, <1>11
        DEF Next, RunMain

\* The landing page, and the notes behind it, are only headed for with a user
\* signed in, however answers, log-outs and routes interleave.
THEOREM LandingIsSafe == Spec => []LandingNeedsUser
<1>1. Init => RoutesInv
  BY DEF Init, RoutesInv, LandingNeedsUser, Destination
<1>2. RoutesInv /\ [Next]_vars => RoutesInv'
  BY RoutesStep
<1>3. RoutesInv => LandingNeedsUser
  BY DEF RoutesInv
<1> QED BY <1>1, <1>2, <1>3, PTL DEF Spec

-----------------------------------------------------------------------------

\* A closure that reports a sign-in or a registration reports an account.
ProfileInv ==
    /\ calls \subseteq Calls
    /\ mainQueue \in Seq(Closures)
    /\ \A k \in 1..Len(mainQueue) :
          mainQueue[k].ok /\ mainQueue[k].kind \in Kinds => mainQueue[k].user \in accounts
    /\ writes \subseteq Writes
    /\ authUser \in Users \cup {NoUser}
    /\ ProfilesHaveAccounts

\* A closure appended to the queue keeps the reports true, accounts only grow.
LEMMA AppendKeepsReports ==
    ASSUME ProfileInv, NEW c \in Closures,
           mainQueue' = Append(mainQueue, c), accounts \subseteq accounts',
           c.ok /\ c.kind \in Kinds => c.user \in accounts'
    PROVE  /\ mainQueue' \in Seq(Closures)
           /\ \A k \in 1..Len(mainQueue') :
                 mainQueue'[k].ok /\ mainQueue'[k].kind \in Kinds
                    => mainQueue'[k].user \in accounts'
<1>1. mainQueue' \in Seq(Closures) /\ Len(mainQueue') = Len(mainQueue) + 1
      /\ Len(mainQueue) \in Nat
  BY DEF ProfileInv
<1>2. \A k \in 1..Len(mainQueue') :
        \/ k \in 1..Len(mainQueue) /\ mainQueue'[k] = mainQueue[k]
        \/ mainQueue'[k] = c
  BY DEF ProfileInv
<1> QED BY <1>1, <1>2 DEF ProfileInv

\* A closure taken off the queue leaves true reports.
LEMMA TailKeepsReports ==
    ASSUME ProfileInv, mainQueue # <<>>, mainQueue' = Tail(mainQueue), UNCHANGED accounts
    PROVE  /\ mainQueue' \in Seq(Closures)
           /\ \A k \in 1..Len(mainQueue') :
                 mainQueue'[k].ok /\ mainQueue'[k].kind \in Kinds
                    => mainQueue'[k].user \in accounts'
           /\ Head(mainQueue) \in Closures
           /\ Head(mainQueue).ok /\ Head(mainQueue).kind \in Kinds
                 => Head(mainQueue).user \in accounts
<1>1. /\ Len(mainQueue) \in Nat \ {0}
      /\ Head(mainQueue) = mainQueue[1] /\ 1 \in 1..Len(mainQueue)
      /\ Head(mainQueue) \in Closures
      /\ mainQueue' \in Seq(Closures)
  BY DEF ProfileInv
<1>2. \A k \in 1..Len(mainQueue') :
        k + 1 \in 1..Len(mainQueue) /\ mainQueue'[k] = mainQueue[k + 1]
  BY DEF ProfileInv
<1> QED BY <1>1, <1>2 DEF ProfileInv

\* The write that a closure with a true report makes is for an account.
LEMMA WriteHasAccount ==
    ASSUME ProfileInv, NEW c \in Closures, c.user \in accounts, NEW waits \in BOOLEAN
    PROVE  profileWrite(c, waits) \in Writes /\ profileWrite(c, waits).user \in accounts
BY DEF ProfileInv, profileWrite, Closures, Writes

LEMMA ProfileStep ==
    ASSUME ProfileInv, [Next]_vars
    PROVE  ProfileInv'
<1> USE DEF server, ghosts
<1>1. CASE Launch \/ signOutByForce \/ logoutButtonPressed \/ UNCHANGED vars
  BY <1>1 DEF Launch, signOutByForce, logoutButtonPressed, logoutAndRoute, vars, ProfileInv,
              ProfilesHaveAccounts
<1>2. CASE goToController
  <2>1. calls' \subseteq Calls /\ writes' \subseteq Writes
    BY <1>2 DEF goToController, ProfileInv, Calls, Writes
  <2>2. /\ mainQueue' \in Seq(Closures) /\ Len(mainQueue') = Len(mainQueue)
        /\ \A k \in 1..Len(mainQueue) :
              /\ mainQueue'[k].ok = mainQueue[k].ok
              /\ mainQueue'[k].kind = mainQueue[k].kind
              /\ mainQueue'[k].user = mainQueue[k].user
    <3>1. Len(mainQueue) \in Nat /\ \A k \in 1..Len(mainQueue) : mainQueue[k] \in Closures
      BY DEF ProfileInv
    <3>2. \A k \in 1..Len(mainQueue) :
             [mainQueue[k] EXCEPT !.here = FALSE] \in Closures
      BY <3>1 DEF Closures
    <3>3. mainQueue' = [k \in 1..Len(mainQueue) |-> [mainQueue[k] EXCEPT !.here = FALSE]]
      BY <1>2 DEF goToController
    <3>4. mainQueue' \in Seq(Closures) /\ Len(mainQueue') = Len(mainQueue)
      BY <3>1, <3>2, <3>3
    <3> QED BY <3>1, <3>3, <3>4 DEF Closures
  <2>3. {w.user : w \in writes'} \subseteq {w.user : w \in writes}
    BY <1>2 DEF goToController, ProfileInv, Writes
  <2>4. UNCHANGED <<authUser, accounts, profiles>>
    BY <1>2 DEF goToController
  <2>5. \A k \in 1..Len(mainQueue') :
           mainQueue'[k].ok /\ mainQueue'[k].kind \in Kinds
              => mainQueue'[k].user \in accounts'
    BY <2>2, <2>4 DEF ProfileInv
  <2>6. ProfilesHaveAccounts'
    BY <2>3, <2>4 DEF ProfileInv, ProfilesHaveAccounts
  <2>7. authUser' \in Users \cup {NoUser}
    BY <2>4 DEF ProfileInv
  <2> QED BY <2>1, <2>2, <2>5, <2>6, <2>7 DEF ProfileInv
<1>3. ASSUME NEW pending, pending \subseteq Writes,
             {w.user : w \in pending} \subseteq accounts,
             loseProcess(pending), UNCHANGED <<authUser, accounts, profiles>>
      PROVE  ProfileInv'
  <2>1. /\ calls' = {} /\ mainQueue' = <<>>
        /\ writes' = {[w EXCEPT !.waits = FALSE, !.here = FALSE] : w \in pending}
    BY <1>3 DEF loseProcess
  <2>2. writes' \subseteq Writes /\ {w.user : w \in writes'} \subseteq accounts
    BY <1>3, <2>1 DEF Writes
  <2>3. mainQueue' \in Seq(Closures)
    <3>1. << >> \in Seq(Closures)
      OBVIOUS
    <3> QED BY <2>1, <3>1
  <2>4. Len(mainQueue') = 0
    <3>1. Len(<< >>) = 0
      OBVIOUS
    <3> QED BY <2>1, <3>1
  <2>5. \A k \in 1..Len(mainQueue') : FALSE
    BY <2>4
  <2>6. ProfilesHaveAccounts'
    BY <1>3, <2>2 DEF ProfileInv, ProfilesHaveAccounts
  <2>7. /\ authUser' \in Users \cup {NoUser}
        /\ calls' \subseteq Calls /\ writes' \subseteq Writes
    BY <1>3, <2>1, <2>2 DEF ProfileInv
  <2> QED BY <2>3, <2>5, <2>6, <2>7 DEF ProfileInv
<1>4. CASE Terminate
  BY <1>3, <1>4 DEF Terminate, ProfileInv, ProfilesHaveAccounts
<1>5. CASE RunGoogleUnowned
  <2> DEFINE c == Head(mainQueue)
  <2>1. mainQueue # <<>> /\ c.kind = "google" /\ c.ok
    BY <1>5 DEF RunGoogleUnowned
  <2>2. c \in Closures /\ c.user \in accounts
    <3>1. /\ Len(mainQueue) \in Nat \ {0}
          /\ c = mainQueue[1] /\ 1 \in 1..Len(mainQueue) /\ c \in Closures
      BY <2>1 DEF ProfileInv
    <3> QED BY <2>1, <3>1 DEF ProfileInv, Kinds
  <2>3. profileWrite(c, FALSE) \in Writes /\ profileWrite(c, FALSE).user \in accounts
    BY <2>2, WriteHasAccount
  <2>4. PICK pending \in {writes, writes \cup {profileWrite(c, FALSE)}} : loseProcess(pending)
    BY <1>5 DEF RunGoogleUnowned
  <2>5. pending \subseteq Writes /\ {w.user : w \in pending} \subseteq accounts
    BY <2>3, <2>4 DEF ProfileInv, ProfilesHaveAccounts
  <2> QED BY <1>3, <1>5, <2>4, <2>5 DEF RunGoogleUnowned
<1>6. ASSUME NEW kind \in Kinds, NEW u \in Users, StartCall(kind, u) PROVE ProfileInv'
  <2>1. calls' \subseteq Calls
    <3>1. PICK n \in Slots \ Busy :
             calls' = calls \cup {[n |-> n, kind |-> kind, user |-> u, here |-> TRUE]}
      BY <1>6 DEF StartCall
    <3>2. [n |-> n, kind |-> kind, user |-> u, here |-> TRUE] \in Calls
      BY DEF Calls
    <3> QED BY <3>1, <3>2 DEF ProfileInv
  <2> QED BY <1>6, <2>1 DEF StartCall, ProfileInv, ProfilesHaveAccounts
<1>7. ASSUME NEW c \in calls, SignedIn(c) \/ CallFailed(c) PROVE ProfileInv'
  <2>1. PICK ok \in BOOLEAN :
          /\ mainQueue' = Append(mainQueue, Closure(c.kind, c, ok))
          /\ ok => c.user \in accounts'
    BY <1>7 DEF SignedIn, CallFailed
  <2>2. /\ Closure(c.kind, c, ok) \in Closures
        /\ Closure(c.kind, c, ok).ok = ok /\ Closure(c.kind, c, ok).user = c.user
    BY DEF ProfileInv, Calls, Closures, Closure
  <2>3. accounts \subseteq accounts' /\ calls' \subseteq calls
        /\ UNCHANGED <<profiles, writes>> /\ authUser' \in Users \cup {NoUser}
    BY <1>7 DEF SignedIn, CallFailed, ProfileInv, Calls
  <2> QED BY <2>1, <2>2, <2>3, AppendKeepsReports DEF ProfileInv, ProfilesHaveAccounts
<1>8. CASE RunFailure \/ RunLogin \/ RunSaved
  <2>1. /\ mainQueue # <<>> /\ mainQueue' = Tail(mainQueue)
        /\ UNCHANGED <<authUser, accounts, profiles, calls, writes>>
    BY <1>8 DEF RunFailure, RunLogin, RunSaved, Run
  <2> QED BY <2>1, TailKeepsReports DEF ProfileInv, ProfilesHaveAccounts
<1>9. CASE RunCreated \/ RunGoogle
  <2> DEFINE c == Head(mainQueue)
  <2>1. /\ mainQueue # <<>> /\ mainQueue' = Tail(mainQueue)
        /\ c.ok /\ c.kind \in Kinds
        /\ UNCHANGED <<authUser, accounts, profiles, calls>>
    BY <1>9 DEF RunCreated, RunGoogle, Run, created, Kinds
  <2>2. PICK waits \in BOOLEAN : writes' = writes \cup {profileWrite(c, waits)}
    BY <1>9 DEF RunCreated, RunGoogle
  <2>3. profileWrite(c, waits) \in Writes /\ profileWrite(c, waits).user \in accounts
    BY <2>1, TailKeepsReports, WriteHasAccount
  <2>4. writes' \subseteq Writes /\ {w.user : w \in writes'} \subseteq accounts
    BY <2>2, <2>3 DEF ProfileInv, ProfilesHaveAccounts
  <2> QED BY <2>1, <2>4, TailKeepsReports DEF ProfileInv, ProfilesHaveAccounts
<1>10. ASSUME NEW w \in writes, NEW ok \in BOOLEAN, WriteAnswered(w, ok) PROVE ProfileInv'
  <2>1. w \in Writes /\ w.user \in accounts
    BY DEF ProfileInv, ProfilesHaveAccounts
  <2>2. Closure("saved", w, ok) \in Closures /\ Closure("saved", w, ok).kind \notin Kinds
    BY <2>1 DEF Closure, Closures, Writes, Kinds
  <2>3. /\ UNCHANGED <<authUser, accounts, calls>> /\ writes' \subseteq writes
        /\ profiles' \subseteq profiles \cup {w.user}
        /\ \/ UNCHANGED mainQueue
           \/ mainQueue' = Append(mainQueue, Closure("saved", w, ok))
    BY <1>10 DEF WriteAnswered
  <2>4. /\ mainQueue' \in Seq(Closures)
        /\ \A k \in 1..Len(mainQueue') :
              mainQueue'[k].ok /\ mainQueue'[k].kind \in Kinds
                 => mainQueue'[k].user \in accounts'
    <3>1. CASE UNCHANGED mainQueue
      BY <2>3, <3>1 DEF ProfileInv
    <3>2. CASE mainQueue' = Append(mainQueue, Closure("saved", w, ok))
      BY <2>2, <2>3, <3>2, AppendKeepsReports
    <3> QED BY <2>3, <3>1, <3>2
  <2> QED BY <2>1, <2>3, <2>4 DEF ProfileInv, ProfilesHaveAccounts
<1> QED BY <1>1, <1>2, <1>4, <1>5, <1>6, <1>7, <1>8, <1>9, <1>10 DEF Next, RunMain

\* No profile is written for an account that was not created: the second half of
\* registerUser runs only on the report of a created account.
THEOREM ProfilesAreOfAccounts == Spec => []ProfilesHaveAccounts
<1>1. Init => ProfileInv
  BY DEF Init, ProfileInv, ProfilesHaveAccounts
<1>2. ProfileInv /\ [Next]_vars => ProfileInv'
  BY ProfileStep
<1>3. ProfileInv => ProfilesHaveAccounts
  BY DEF ProfileInv
<1> QED BY <1>1, <1>2, <1>3, PTL DEF Spec

-----------------------------------------------------------------------------
(* Types *)

\* What RoutesInv and ProfileInv leave of the types.
RestOfTypes ==
    /\ accounts \subseteq Users
    /\ root \in {"none", "blank", "LoginPage", "LandingPage"}
    /\ signedBy \in [kind : Kinds \cup {"launch"}, here : BOOLEAN]
    /\ revoked \in BOOLEAN

SessionInv == RoutesInv /\ ProfileInv /\ RestOfTypes

LEMMA RestOfTypesStep ==
    ASSUME SessionInv, [Next]_vars
    PROVE  RestOfTypes'
<1> USE DEF server, ghosts, RestOfTypes, SessionInv
<1>1. CASE Launch
  BY <1>1 DEF Launch
<1>2. CASE goToController
  <2>1. routes # <<>> /\ root' = Head(routes) /\ UNCHANGED <<accounts, revoked>>
        /\ signedBy' = [signedBy EXCEPT !.here = FALSE]
    BY <1>2 DEF goToController
  <2>2. Head(routes) \in PageNames
    BY <2>1 DEF RoutesInv
  <2> QED BY <2>1, <2>2 DEF PageNames
<1>3. CASE Terminate \/ RunGoogleUnowned
  BY <1>3 DEF Terminate, RunGoogleUnowned, loseProcess
<1>4. CASE (\E kind \in Kinds, u \in Users : StartCall(kind, u))
             \/ (\E w \in writes, ok \in BOOLEAN : WriteAnswered(w, ok))
  BY <1>4 DEF StartCall, WriteAnswered
<1>5. ASSUME NEW c \in calls, SignedIn(c) \/ CallFailed(c) PROVE RestOfTypes'
  <2>1. c \in Calls
    BY DEF RoutesInv
  <2>2. c.kind \in Kinds \cup {"launch"} /\ c.here \in BOOLEAN /\ c.user \in Users
    BY <2>1 DEF Calls
  <2>3. CASE SignedIn(c)
    BY <2>2, <2>3 DEF SignedIn
  <2>4. CASE CallFailed(c)
    BY <2>2, <2>4 DEF CallFailed
  <2> QED BY <1>5, <2>3, <2>4
<1>6. CASE signOutByForce \/ logoutButtonPressed
  BY <1>6 DEF signOutByForce, logoutButtonPressed, logoutAndRoute
<1>7. CASE RunFailure \/ RunLogin \/ RunCreated \/ RunSaved \/ RunGoogle
  BY <1>7 DEF RunFailure, RunLogin, RunCreated, RunSaved, RunGoogle
<1>8. CASE UNCHANGED vars
  BY <1>8 DEF vars
<1> QED BY <1>1, <1>2, <1>3, <1>4, <1>5, <1>6, <1>7, <1>8 DEF Next, RunMain

LEMMA SessionInit == Init => SessionInv /\ signedBy = [kind |-> "launch", here |-> FALSE]
<1> SUFFICES ASSUME Init PROVE SessionInv
  BY DEF Init
<1> USE DEF Init
<1>1. RoutesInv
  BY DEF RoutesInv, LandingNeedsUser, Destination
<1>2. ProfileInv
  BY DEF ProfileInv, ProfilesHaveAccounts
<1>3. RestOfTypes
  BY DEF RestOfTypes
<1> QED BY <1>1, <1>2, <1>3 DEF SessionInv

\* Every variable keeps its type: in particular a call, its closure and its write
\* stay within the slots, and routes only name the two pages there are.
THEOREM TypeCorrect == Spec => []TypeOK
<1>1. Init => SessionInv
  BY SessionInit
<1>2. SessionInv /\ [Next]_vars => SessionInv'
  BY RoutesStep, ProfileStep, RestOfTypesStep DEF SessionInv
<1>3. SessionInv => TypeOK
  BY DEF SessionInv, RoutesInv, ProfileInv, ProfilesHaveAccounts, RestOfTypes, TypeOK,
         PageNames
<1> QED BY <1>1, <1>2, <1>3, PTL DEF Spec

-----------------------------------------------------------------------------
(* Who stays behind on the login page *)

\* A closure that will route: of a log-in or a Google sign-in from this page.
WillRoute(k) ==
    /\ k \in 1..Len(mainQueue)
    /\ mainQueue[k].ok /\ mainQueue[k].here
    /\ mainQueue[k].kind \in {"login", "google"}

\* Whoever was signed in from the page on screen, and not by registering, has such
\* a closure waiting or is on the way to the landing page.
OnTheWay ==
    authUser # NoUser /\ signedBy.here /\ signedBy.kind # "register" =>
        \/ \E k \in Nat : WillRoute(k)
        \/ Destination = "LandingPage"

\* Routing by a user who is signed in leads to the landing page.
LEMMA RouteLeads ==
    ASSUME routes \in Seq(PageNames), checkAuthentication(authUser), UNCHANGED authUser
    PROVE  OnTheWay'
<1>1. CASE authUser = NoUser
  BY <1>1 DEF OnTheWay
<1>2. CASE authUser # NoUser
  <2>1. routes' = Append(routes, "LandingPage") /\ "LandingPage" \in PageNames
    BY <1>2 DEF checkAuthentication, pageFor, PageNames
  <2>2. routes' # <<>> /\ routes'[Len(routes')] = "LandingPage"
    BY <2>1
  <2> QED BY <2>2 DEF OnTheWay, Destination
<1> QED BY <1>1, <1>2

\* A closure that does not route leaves those behind it in the queue.
LEMMA OthersWait ==
    ASSUME ProfileInv, mainQueue # <<>>, mainQueue' = Tail(mainQueue),
           ~(Head(mainQueue).ok /\ Head(mainQueue).here
                /\ Head(mainQueue).kind \in {"login", "google"}),
           OnTheWay, UNCHANGED <<authUser, signedBy, routes, root>>
    PROVE  OnTheWay'
<1>1. /\ Len(mainQueue) \in Nat /\ Len(mainQueue') = Len(mainQueue) - 1
      /\ \A k \in 1..Len(mainQueue') : mainQueue'[k] = mainQueue[k + 1]
      /\ Head(mainQueue) = mainQueue[1]
  BY DEF ProfileInv
<1>2. ASSUME NEW k \in Nat, WillRoute(k) PROVE k - 1 \in Nat /\ WillRoute(k - 1)'
  <2>1. k \in 1..Len(mainQueue) /\ k # 1
    BY <1>1, <1>2 DEF WillRoute
  <2>2. k - 1 \in 1..Len(mainQueue') /\ (k - 1) + 1 = k
    BY <1>1, <2>1
  <2>3. mainQueue'[k - 1] = mainQueue[k]
    BY <1>1, <2>2
  <2> QED BY <1>2, <2>2, <2>3 DEF WillRoute
<1> QED BY <1>2 DEF OnTheWay, Destination

\* A closure appended to the queue leaves those before it.
LEMMA QueueGrows ==
    ASSUME ProfileInv, NEW c \in Closures, mainQueue' = Append(mainQueue, c)
    PROVE  /\ \A k \in Nat : WillRoute(k) => WillRoute(k)'
           /\ c.ok /\ c.here /\ c.kind \in {"login", "google"} =>
                 \E k \in Nat : WillRoute(k)'
<1>1. /\ Len(mainQueue) \in Nat /\ Len(mainQueue') = Len(mainQueue) + 1
      /\ \A k \in 1..Len(mainQueue) : mainQueue'[k] = mainQueue[k]
      /\ mainQueue'[Len(mainQueue) + 1] = c
  BY DEF ProfileInv
<1>2. \A k \in Nat : WillRoute(k) => WillRoute(k)'
  BY <1>1 DEF WillRoute
<1>3. PICK k \in Nat : k \in 1..Len(mainQueue') /\ mainQueue'[k] = c
  BY <1>1
<1>4. c.ok /\ c.here /\ c.kind \in {"login", "google"} => WillRoute(k)'
  BY <1>3, Zenon DEF WillRoute
<1> QED BY <1>2, <1>4

LEMMA OnTheWayStep ==
    ASSUME SessionInv, OnTheWay, [Next]_vars
    PROVE  OnTheWay'
<1> USE DEF server, ghosts, SessionInv
<1>1. CASE Launch
  BY <1>1, RouteLeads DEF Launch, RoutesInv
<1>2. CASE goToController \/ Terminate \/ RunGoogleUnowned
  <2>1. signedBy' = [signedBy EXCEPT !.here = FALSE]
    BY <1>2 DEF goToController, Terminate, RunGoogleUnowned, loseProcess
  <2>2. ~signedBy'.here
    BY <2>1 DEF RestOfTypes
  <2> QED BY <2>2 DEF OnTheWay
<1>3. CASE \E kind \in Kinds, u \in Users : StartCall(kind, u)
  BY <1>3 DEF StartCall, OnTheWay, WillRoute, Destination
<1>4. ASSUME NEW c \in calls, SignedIn(c) PROVE OnTheWay'
  <2>1. c \in Calls
    BY DEF RoutesInv
  <2> DEFINE e == Closure(c.kind, c, TRUE)
  <2>2. e \in Closures /\ e.ok = TRUE /\ e.here = c.here /\ e.kind = c.kind
    BY <2>1 DEF Closure, Closures, Calls
  <2>3. c.kind = "register" \/ c.kind \in {"login", "google"}
    BY <2>1 DEF Calls, Kinds
  <2>4. mainQueue' = Append(mainQueue, e) /\ signedBy' = [kind |-> c.kind, here |-> c.here]
    BY <1>4 DEF SignedIn
  <2> HIDE DEF e
  <2>5. ASSUME c.here, c.kind # "register" PROVE \E k \in Nat : WillRoute(k)'
    <3>1. e.ok /\ e.here /\ e.kind \in {"login", "google"}
      BY <2>2, <2>3, <2>5, Zenon
    <3> QED BY <2>2, <2>4, <3>1, QueueGrows
  <2> QED BY <2>4, <2>5 DEF OnTheWay
<1>5. ASSUME NEW e \in Closures, mainQueue' = Append(mainQueue, e),
             UNCHANGED <<authUser, signedBy, routes, root>>
      PROVE  OnTheWay'
  BY <1>5, QueueGrows DEF OnTheWay, Destination
<1>6. ASSUME NEW c \in calls, CallFailed(c) PROVE OnTheWay'
  <2>1. Closure(c.kind, c, FALSE) \in Closures
    BY DEF RoutesInv, Closure, Closures, Calls
  <2> QED BY <1>5, <1>6, <2>1 DEF CallFailed
<1>7. CASE signOutByForce \/ logoutButtonPressed
  BY <1>7 DEF signOutByForce, logoutButtonPressed, logoutAndRoute, OnTheWay
<1>8. CASE RunFailure \/ RunCreated
  BY <1>8, OthersWait DEF RunFailure, RunCreated, created, Run
<1>9. CASE RunLogin \/ RunSaved
  <2>1. /\ mainQueue # <<>> /\ mainQueue' = Tail(mainQueue)
        /\ UNCHANGED <<authUser, signedBy, root>> /\ routeFromPage
    BY <1>9 DEF RunLogin, RunSaved, Run
  <2>2. CASE Head(mainQueue).here
    BY <2>1, <2>2, RouteLeads DEF routeFromPage, RoutesInv
  <2>3. CASE ~Head(mainQueue).here
    BY <2>1, <2>3, OthersWait DEF routeFromPage
  <2> QED BY <2>2, <2>3
<1>10. CASE RunGoogle
  BY <1>10, RouteLeads DEF RunGoogle, RoutesInv
<1>11. ASSUME NEW w \in writes, NEW ok \in BOOLEAN, WriteAnswered(w, ok) PROVE OnTheWay'
  <2>1. Closure("saved", w, ok) \in Closures
    BY DEF ProfileInv, Closure, Closures, Writes
  <2>2. /\ UNCHANGED <<authUser, signedBy, routes, root>>
        /\ mainQueue' = mainQueue \/ mainQueue' = Append(mainQueue, Closure("saved", w, ok))
    BY <1>11 DEF WriteAnswered
  <2>3. CASE mainQueue' = mainQueue
    BY <2>2, <2>3 DEF OnTheWay, WillRoute, Destination
  <2> QED BY <1>5, <2>1, <2>2, <2>3
<1>12. CASE UNCHANGED vars
  BY <1>12 DEF vars, OnTheWay, WillRoute, Destination
<1> QED BY <1>1, <1>2, <1>3, <1>4, <1>6, <1>7, <1>8, <1>9, <1>10, <1>11, <1>12
        DEF Next, RunMain

\* Nobody who logged in, or signed in with Google, from the page on screen is left
\* standing on it: only a registration, or an answer to a call from a page that is
\* gone, ends there.
THEOREM OnlyTheseAreStuck == Spec => []StuckOnlyByLateAnswerOrProfile
<1>1. Init => SessionInv /\ OnTheWay
  BY SessionInit DEF OnTheWay
<1>2. SessionInv /\ OnTheWay /\ [Next]_vars => SessionInv' /\ OnTheWay'
  BY RoutesStep, ProfileStep, RestOfTypesStep, OnTheWayStep DEF SessionInv
<1>3. OnTheWay => StuckOnlyByLateAnswerOrProfile
  <2> SUFFICES ASSUME OnTheWay, root = "LoginPage", routes = <<>>, mainQueue = <<>>,
                      authUser # NoUser, signedBy.here, signedBy.kind # "register"
               PROVE  FALSE
    BY DEF StuckOnlyByLateAnswerOrProfile
  <2>1. Destination # "LandingPage"
    BY DEF Destination
  <2>2. \A k \in Nat : ~WillRoute(k)
    BY DEF WillRoute
  <2> QED BY <2>1, <2>2 DEF OnTheWay
<1> QED BY <1>1, <1>2, <1>3, PTL DEF Spec

=============================================================================
