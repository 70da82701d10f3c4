------------------------- MODULE StreamCredentials -------------------------
(***************************************************************************)
(* Under whose token a stream of the Firestore client runs.                *)
(*                                                                         *)
(* The user changes on FIRAuth's work queue; the notification of it passes *)
(* through the main queue to the credentials provider, and from there      *)
(* through the worker queue to the sync engine, which restarts the streams.*)
(* A stream that starts asks for a token: the request is served on         *)
(* FIRAuth's work queue, possibly after a refresh over the network, its    *)
(* answer passes through the main queue to the provider and through the    *)
(* worker queue to the stream.  The provider's token counter and the       *)
(* stream's close count are to keep the two courses apart.                 *)
(***************************************************************************)
EXTENDS Integers, Sequences

CONSTANTS
    Users,      \* the uids of the accounts
    NoUser,     \* nobody is signed in
    MaxChanges, \* bound: changes of the user or of its token
    MaxCloses   \* bound: times the stream is closed

ASSUME NoUserAssumption == NoUser \notin Users
ASSUME BoundsAssumption == MaxChanges \in Nat /\ MaxCloses \in Nat

VARIABLES
    authUser,     \* FIRAuth._currentUser
    asked,        \* getToken requests on FIRAuth's work queue
    refreshing,   \* requests waiting for a token over the network
    mainQueue,    \* notifications and token callbacks, oldest first
    current_user, \* the provider's user
    token_counter,\* the provider's count of notifications
    workerQueue,  \* credential changes and resumptions, oldest first
    current_user_,\* the sync engine's user
    state,        \* the stream: "Stopped" (Initial, Error, Backoff), "Starting", "Open"
    close_count,  \* times the stream was closed
    token         \* the user whose token the stream was last opened with

provider == <<current_user, token_counter>>
stream   == <<state, close_count, token>>
vars     == <<authUser, asked, refreshing, mainQueue, provider, workerQueue,
              current_user_, stream>>

Accounts == Users \cup {NoUser}

\* A request knows the counter it was made under and the stream it is for.
Requests == [counter : Nat, close : Nat]

Notification(u)   == [kind |-> "notification", user |-> u]
Callback(req, u)  == [kind |-> "token", req |-> req, user |-> u]
CredentialTask(u) == [kind |-> "credential", user |-> u]
ResumeTask(c, u)  == [kind |-> "resume", close |-> c, user |-> u]

Closures == [kind : {"notification"}, user : Accounts]
                \cup [kind : {"token"}, req : Requests, user : Accounts]
Tasks    == [kind : {"credential"}, user : Accounts]
                \cup [kind : {"resume"}, close : Nat, user : Accounts]

Init ==
    /\ authUser \in Accounts
    /\ asked = {} /\ refreshing = {}
    /\ mainQueue = <<>>
    /\ current_user = authUser
    /\ token_counter = 0
    /\ workerQueue = <<>>
    /\ current_user_ = authUser
    /\ state = "Stopped"
    /\ close_count = 0
    /\ token = NoUser

-----------------------------------------------------------------------------
(* FIRAuth's work queue *)

WithinChanges ==
    token_counter + Len(SelectSeq(mainQueue, LAMBDA c : c.kind = "notification")) < MaxChanges

\* updateCurrentUser with possiblyPostAuthStateChangeNotification: a new user, no
\* user, or a new token of the same one.
updateCurrentUser(u) ==
    /\ WithinChanges
    /\ authUser' = u
    /\ mainQueue' = Append(mainQueue, Notification(u))
    /\ UNCHANGED <<asked, refreshing, provider, workerQueue, current_user_, stream>>

\* getTokenForcingRefresh, with a token that is valid: its callback is enqueued.
TokenIsValid(req) ==
    /\ asked' = asked \ {req}
    /\ mainQueue' = Append(mainQueue, Callback(req, authUser))
    /\ UNCHANGED <<authUser, refreshing, provider, workerQueue, current_user_, stream>>

\* Faulty variant: nobody's token is refreshed.
anybody == TRUE

\* Without a current user the callback gets nil at once.
signedIn == authUser # NoUser

\* The same with a token that has expired: it is fetched for the user of now.
TokenHasExpired(req) ==
    /\ signedIn
    /\ asked' = asked \ {req}
    /\ refreshing' = refreshing \cup {[req |-> req, user |-> authUser]}
    /\ UNCHANGED <<authUser, mainQueue, provider, workerQueue, current_user_, stream>>

\* The fetched token arrives, for the user it was fetched for.
TokenFetched(f) ==
    /\ refreshing' = refreshing \ {f}
    /\ mainQueue' = Append(mainQueue, Callback(f.req, f.user))
    /\ UNCHANGED <<authUser, asked, provider, workerQueue, current_user_, stream>>

-----------------------------------------------------------------------------
(* The credentials provider, on the main queue *)

\* The observer of the notification.
Notified ==
    /\ mainQueue # <<>> /\ Head(mainQueue).kind = "notification"
    /\ mainQueue' = Tail(mainQueue)
    /\ current_user' = Head(mainQueue).user
    /\ token_counter' = token_counter + 1
    /\ workerQueue' = Append(workerQueue, CredentialTask(Head(mainQueue).user))
    /\ UNCHANGED <<authUser, asked, refreshing, current_user_, stream>>

\* get_token_callback: after a notification the token may be of another user; it is
\* thrown away and another asked for.
TokenReceived ==
    /\ mainQueue # <<>> /\ Head(mainQueue).kind = "token"
    /\ mainQueue' = Tail(mainQueue)
    /\ LET req == Head(mainQueue).req
       IN  IF req.counter = token_counter
           THEN /\ workerQueue' = Append(workerQueue, ResumeTask(req.close, Head(mainQueue).user))
                /\ UNCHANGED asked
           ELSE /\ asked' = asked \cup {[req EXCEPT !.counter = token_counter]}
                /\ UNCHANGED workerQueue
    /\ UNCHANGED <<authUser, refreshing, provider, current_user_, stream>>

-----------------------------------------------------------------------------
(* The stream, on the worker queue *)

\* Faulty variant: closing leaves no mark.
sameCount == close_count

\* Step 3 of Stream::Close, which invalidates what was asked for before.
nextCount == close_count + 1

\* Faulty variant: the close count is that of the stream's first start.
firstRequest(closes) == [counter |-> token_counter, close |-> 0]

\* What GetToken and RequestCredentials take note of.
request(closes) == [counter |-> token_counter, close |-> closes]

\* Stream::Start, RequestCredentials
Start(closes) ==
    /\ state' = "Starting"
    /\ asked' = asked \cup {request(closes)}

StartStream ==
    /\ state = "Stopped"
    /\ Start(close_count)
    /\ UNCHANGED <<authUser, refreshing, mainQueue, provider, workerQueue,
                   current_user_, close_count, token>>

\* The stream has not been closed since it asked.
sameStream(task) == task.close = close_count

\* ResumeStartWithCredentials and OnStreamStart; or the stream was closed meanwhile.
Resume ==
    /\ workerQueue # <<>> /\ Head(workerQueue).kind = "resume"
    /\ workerQueue' = Tail(workerQueue)
    /\ IF sameStream(Head(workerQueue))
       THEN state' = "Open" /\ token' = Head(workerQueue).user
       ELSE UNCHANGED <<state, token>>
    /\ UNCHANGED <<authUser, asked, refreshing, mainQueue, provider, current_user_,
                   close_count>>

\* Close with an error, before or after the stream opened, or when it is idle.
StreamCloses ==
    /\ state \in {"Starting", "Open"}
    /\ close_count < MaxCloses
    /\ close_count' = nextCount
    /\ state' = "Stopped"
    /\ UNCHANGED <<authUser, asked, refreshing, mainQueue, provider, workerQueue,
                   current_user_, token>>

\* Faulty variant: the stream goes on for the new user.
leaveStream == UNCHANGED <<state, asked, close_count>>

\* RestartNetwork: the stream is stopped, and started again if the new user has
\* anything for it.
restartStream ==
    /\ close_count' = IF state \in {"Starting", "Open"} THEN nextCount ELSE close_count
    /\ \/ Start(close_count')
       \/ state' = "Stopped" /\ UNCHANGED asked

\* HandleCredentialChange
CredentialChange ==
    /\ workerQueue # <<>> /\ Head(workerQueue).kind = "credential"
    /\ workerQueue' = Tail(workerQueue)
    /\ current_user_' = Head(workerQueue).user
    /\ restartStream
    /\ UNCHANGED <<authUser, refreshing, mainQueue, provider, token>>

Next ==
    \/ \E u \in Accounts : updateCurrentUser(u)
    \/ \E req \in asked : TokenIsValid(req) \/ TokenHasExpired(req)
    \/ \E f \in refreshing : TokenFetched(f)
    \/ Notified
    \/ TokenReceived
    \/ StartStream
    \/ Resume
    \/ StreamCloses
    \/ CredentialChange

Spec == Init /\ [][Next]_vars

\* The three queues keep running, and a request over the network ends.
Fairness ==
    /\ WF_vars(\E req \in asked : TokenIsValid(req) \/ TokenHasExpired(req))
    /\ WF_vars(\E f \in refreshing : TokenFetched(f))
    /\ WF_vars(Notified \/ TokenReceived)
    /\ WF_vars(Resume \/ CredentialChange)

FairSpec == Spec /\ Fairness

-----------------------------------------------------------------------------
(* Properties *)

TypeOK ==
    /\ authUser \in Accounts /\ current_user \in Accounts /\ current_user_ \in Accounts
    /\ token \in Accounts
    /\ asked \subseteq Requests
    /\ refreshing \subseteq [req : Requests, user : Users]
    /\ mainQueue \in Seq(Closures)
    /\ workerQueue \in Seq(Tasks)
    /\ token_counter \in Nat /\ close_count \in Nat
    /\ state \in {"Stopped", "Starting", "Open"}

\* An open stream runs under a token of the user whose mutation queue the sync
\* engine sends on it: the writes of one account are never sent in the name of
\* another, however the change of user, the token and the stream overlap.
WritesUnderTheirUser == state = "Open" => token = current_user_

\* The assertion of ResumeStartWithCredentials: a token that is for this stream
\* finds it still starting, because every request is answered once.
ResumeFindsStarting ==
    \A k \in 1..Len(workerQueue) :
        workerQueue[k].kind = "resume" /\ workerQueue[k].close = close_count =>
            state = "Starting"

\* A stream that starts gets its token or is closed, although changes of user make
\* the provider ask again.
StartingEnds == state = "Starting" ~> state # "Starting"

=============================================================================
