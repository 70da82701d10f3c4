---------------------- MODULE StreamCredentialsProofs ----------------------
(***************************************************************************)
(* A stream of the Firestore client never runs under the token of another  *)
(* user than the one whose writes it sends, for any accounts, any number   *)
(* of changes of user and any number of restarts of the stream.            *)
(*                                                                         *)
(* The notifications in the main queue and the credential changes in the   *)
(* worker queue form one line, the end of which is FIRAuth's user.  Tokens *)
(* move along the same line: one that has no change ahead of it is of the  *)
(* sync engine's user, and one that has is for a stream that the change    *)
(* will close.                                                             *)
(***************************************************************************)
EXTENDS StreamCredentials, TLAPS

IsNotification(k) == k \in 1..Len(mainQueue) /\ mainQueue[k].kind = "notification"
IsCredential(k)   == k \in 1..Len(workerQueue) /\ workerQueue[k].kind = "credential"
IsToken(k)        == k \in 1..Len(mainQueue) /\ mainQueue[k].kind = "token"
IsResume(k)       == k \in 1..Len(workerQueue) /\ workerQueue[k].kind = "resume"

NoNotification == \A k : ~IsNotification(k)
NoCredential   == \A k : ~IsCredential(k)

\* What is asked for now is for a stream that is not stopped, or for one that has
\* been closed since.
Timely(close) == close <= close_count /\ (close = close_count => state # "Stopped")

RequestsTimely ==
    /\ \A req \in asked : Timely(req.close)
    /\ \A f \in refreshing : Timely(f.req.close)
    /\ \A k : IsToken(k) => Timely(mainQueue[k].req.close)
    /\ \A k : IsResume(k) => Timely(workerQueue[k].close)

\* The last change in the line is to FIRAuth's user.
LineEndsAtAuth ==
    /\ \A k : IsNotification(k) /\ (\A j : j > k => ~IsNotification(j)) =>
                  mainQueue[k].user = authUser
    /\ \A k : NoNotification /\ IsCredential(k) /\ (\A j : j > k => ~IsCredential(j)) =>
                  workerQueue[k].user = authUser
    /\ NoNotification /\ NoCredential => authUser = current_user_

\* A token for the stream of now that has no change ahead of it is the engine's.
TokensAreTheEngines ==
    /\ \A f \in refreshing :
          NoNotification /\ NoCredential /\ f.req.close = close_count =>
              f.user = current_user_
    /\ \A k : NoCredential /\ IsToken(k) /\ (\A j : j < k => ~IsNotification(j))
                  /\ mainQueue[k].req.close = close_count =>
              mainQueue[k].user = current_user_
    /\ \A k : IsResume(k) /\ (\A j : j < k => ~IsCredential(j))
                  /\ workerQueue[k].close = close_count =>
              workerQueue[k].user = current_user_

IInv ==
    /\ TypeOK
    /\ RequestsTimely
    /\ LineEndsAtAuth
    /\ TokensAreTheEngines
    /\ WritesUnderTheirUser

-----------------------------------------------------------------------------
(* Sequences *)

\* What Append and Tail make of a queue, by position.
LEMMA AppendFacts ==
    ASSUME NEW S, NEW q \in Seq(S), NEW e \in S
    PROVE  /\ Append(q, e) \in Seq(S)
           /\ Len(Append(q, e)) = Len(q) + 1
           /\ \A k \in 1..Len(q) : Append(q, e)[k] = q[k]
           /\ Append(q, e)[Len(q) + 1] = e
    OBVIOUS

\* The queue without its oldest element.
LEMMA TailFacts ==
    ASSUME NEW S, NEW q \in Seq(S), q # <<>>
    PROVE  /\ Len(q) \in Nat /\ Len(q) >= 1
           /\ Head(q) \in S /\ Head(q) = q[1]
           /\ Tail(q) \in Seq(S)
           /\ Len(Tail(q)) = Len(q) - 1
           /\ \A k \in 1..(Len(q) - 1) : Tail(q)[k] = q[k + 1]
    OBVIOUS

-----------------------------------------------------------------------------
(* Types *)

\* The records of this module have their types.
LEMMA RecordTypes ==
    /\ \A u \in Accounts : Notification(u) \in Closures /\ CredentialTask(u) \in Tasks
    /\ \A req \in Requests, u \in Accounts :
          Callback(req, u) \in Closures /\ ResumeTask(req.close, u) \in Tasks
    /\ \A c \in Closures :
          /\ c.user \in Accounts
          /\ c.kind \in {"notification", "token"}
          /\ c.kind = "token" => c.req \in Requests
    /\ \A t \in Tasks :
          /\ t.user \in Accounts
          /\ t.kind \in {"credential", "resume"}
          /\ t.kind = "resume" => t.close \in Nat
  BY DEF Notification, Callback, CredentialTask, ResumeTask, Closures, Tasks, Requests

\* Every variable keeps its type: the users in the queues are accounts, and a
\* refresh is always somebody's.
THEOREM TypeCorrect == Spec => []TypeOK
<1>1. Init => TypeOK
  BY DEF Init, TypeOK, Accounts
<1>2. TypeOK /\ [Next]_vars => TypeOK'
  <2> SUFFICES ASSUME TypeOK, [Next]_vars PROVE TypeOK'
    OBVIOUS
  <2> USE DEF TypeOK, provider, stream
  <2>1. ASSUME NEW u \in Accounts, updateCurrentUser(u) PROVE TypeOK'
    BY <2>1, RecordTypes, AppendFacts DEF updateCurrentUser
  <2>2. ASSUME NEW req \in asked, TokenIsValid(req) PROVE TypeOK'
    BY <2>2, RecordTypes, AppendFacts DEF TokenIsValid
  <2>3. ASSUME NEW req \in asked, TokenHasExpired(req) PROVE TypeOK'
    BY <2>3 DEF TokenHasExpired, signedIn, Accounts
  <2>4. ASSUME NEW f \in refreshing, TokenFetched(f) PROVE TypeOK'
    <3>1. f.req \in Requests /\ f.user \in Accounts
      BY DEF Accounts
    <3> QED  BY <2>4, <3>1, RecordTypes, AppendFacts DEF TokenFetched
  <2>5. CASE Notified
    <3>1. Head(mainQueue) \in Closures /\ Tail(mainQueue) \in Seq(Closures)
      BY <2>5, TailFacts DEF Notified
    <3>2. CredentialTask(Head(mainQueue).user) \in Tasks /\ Head(mainQueue).user \in Accounts
      BY <3>1, RecordTypes
    <3> QED  BY <2>5, <3>1, <3>2, AppendFacts DEF Notified
  <2>6. CASE TokenReceived
    <3>1. Head(mainQueue) \in Closures /\ Tail(mainQueue) \in Seq(Closures)
      BY <2>6, TailFacts DEF TokenReceived
    <3>2. /\ Head(mainQueue).req \in Requests
          /\ ResumeTask(Head(mainQueue).req.close, Head(mainQueue).user) \in Tasks
      BY <2>6, <3>1, RecordTypes DEF TokenReceived
    <3>3. [Head(mainQueue).req EXCEPT !.counter = token_counter] \in Requests
      BY <3>2 DEF Requests
    <3>4. asked' \subseteq Requests
      BY <2>6, <3>3 DEF TokenReceived
    <3>5. workerQueue' \in Seq(Tasks)
      <4> DEFINE task == ResumeTask(Head(mainQueue).req.close, Head(mainQueue).user)
      <4>1. task \in Tasks
        BY <3>2
      <4>2. workerQueue' \in {workerQueue, Append(workerQueue, task)}
        BY <2>6 DEF TokenReceived
      <4> HIDE DEF task
      <4>3. workerQueue \in Seq(Tasks)
        OBVIOUS
      <4>4. Append(workerQueue, task) \in Seq(Tasks)
        BY <4>1, <4>3, AppendFacts
      <4> QED  BY <4>2, <4>3, <4>4, Zenon
    <3> QED  BY <2>6, <3>1, <3>4, <3>5 DEF TokenReceived
  <2>7. CASE StartStream
    BY <2>7 DEF StartStream, Start, request, Requests
  <2>8. CASE Resume
    <3>1. Head(workerQueue) \in Tasks /\ Tail(workerQueue) \in Seq(Tasks)
      BY <2>8, TailFacts DEF Resume
    <3> QED  BY <2>8, <3>1, RecordTypes DEF Resume
  <2>9. CASE StreamCloses
    BY <2>9 DEF StreamCloses, nextCount
  <2>10. CASE CredentialChange
    <3>1. Head(workerQueue) \in Tasks /\ Tail(workerQueue) \in Seq(Tasks)
      BY <2>10, TailFacts DEF CredentialChange
    <3>2. close_count' \in Nat
      BY <2>10 DEF CredentialChange, restartStream, nextCount
    <3>3. asked' \subseteq Requests /\ state' \in {"Stopped", "Starting"}
      BY <2>10, <3>2 DEF CredentialChange, restartStream, Start, request, Requests
    <3> QED  BY <2>10, <3>1, <3>2, <3>3, RecordTypes DEF CredentialChange, restartStream
  <2>11. CASE UNCHANGED vars
    BY <2>11 DEF vars
  <2> QED  BY <2>1, <2>2, <2>3, <2>4, <2>5, <2>6, <2>7, <2>8, <2>9, <2>10, <2>11 DEF Next
<1> QED  BY <1>1, <1>2, PTL DEF Spec

-----------------------------------------------------------------------------
(* The line of changes and tokens *)

\* FIRAuth's work queue moves: closures are appended to the main queue.
LEMMA AuthSteps ==
    ASSUME IInv, TypeOK',
           \/ \E u \in Accounts : updateCurrentUser(u)
           \/ \E req \in asked : TokenIsValid(req) \/ TokenHasExpired(req)
           \/ \E f \in refreshing : TokenFetched(f)
    PROVE  RequestsTimely' /\ LineEndsAtAuth' /\ TokensAreTheEngines'
             /\ WritesUnderTheirUser'
<1> USE DEF IInv, TypeOK, provider, stream, IsNotification, IsCredential, IsToken, IsResume,
            NoNotification, NoCredential, Timely
<1>1. ASSUME NEW u \in Accounts, updateCurrentUser(u)
      PROVE  RequestsTimely' /\ LineEndsAtAuth' /\ TokensAreTheEngines'
               /\ WritesUnderTheirUser'
  <2>1. /\ Len(mainQueue') = Len(mainQueue) + 1 /\ Len(mainQueue) \in Nat
        /\ \A k \in 1..Len(mainQueue) : mainQueue'[k] = mainQueue[k]
        /\ mainQueue'[Len(mainQueue) + 1].kind = "notification"
        /\ mainQueue'[Len(mainQueue) + 1].user = u
    BY <1>1, RecordTypes, AppendFacts DEF updateCurrentUser, Notification
  <2>2. UNCHANGED <<asked, refreshing, provider, workerQueue, current_user_, stream>>
          /\ authUser' = u
    BY <1>1 DEF updateCurrentUser
  <2>3. IsNotification(Len(mainQueue))'
    BY <2>1
  <2>4. RequestsTimely'
    BY <2>1, <2>2 DEF RequestsTimely
  <2>5. LineEndsAtAuth'
    <3>1. ~NoNotification'
      BY <2>3
    <3>2. ASSUME NEW k, IsNotification(k)', \A j : j > k => ~IsNotification(j)'
          PROVE  mainQueue'[k].user = authUser'
      <4>1. k = Len(mainQueue')
        BY <2>1, <2>3, <3>2
      <4> QED  BY <2>1, <2>2, <4>1
    <3> HIDE DEF NoNotification
    <3> QED  BY <3>1, <3>2 DEF LineEndsAtAuth
  <2>6. TokensAreTheEngines'
    <3>1. ASSUME NEW k, NoCredential', IsToken(k)', \A j : j < k => ~IsNotification(j)',
                 mainQueue'[k].req.close = close_count'
          PROVE  mainQueue'[k].user = current_user_'
      <4>1. k \in 1..Len(mainQueue) /\ mainQueue'[k] = mainQueue[k] /\ NoCredential
        BY <3>1, <2>1, <2>2
      <4>2. \A j : j < k => ~IsNotification(j)
        BY <3>1, <4>1, <2>1
      <4> QED  BY <3>1, <4>1, <4>2, <2>2 DEF TokensAreTheEngines
    <3>2. ~NoNotification'
      BY <2>3
    <3>3. \A k : IsResume(k)' /\ (\A j : j < k => ~IsCredential(j)')
                  /\ workerQueue'[k].close = close_count' =>
              workerQueue'[k].user = current_user_'
      BY <2>2 DEF TokensAreTheEngines
    <3> QED  BY <3>1, <3>2, <3>3 DEF TokensAreTheEngines
  <2> QED  BY <2>2, <2>4, <2>5, <2>6 DEF WritesUnderTheirUser
<1>2. ASSUME NEW req \in Requests, NEW v \in Accounts,
             mainQueue' = Append(mainQueue, Callback(req, v)),
             Timely(req.close),
             NoNotification /\ NoCredential /\ req.close = close_count => v = current_user_,
             asked' \subseteq asked, refreshing' \subseteq refreshing,
             UNCHANGED <<authUser, provider, workerQueue, current_user_, stream>>
      PROVE  RequestsTimely' /\ LineEndsAtAuth' /\ TokensAreTheEngines'
               /\ WritesUnderTheirUser'
  <2>1. /\ Len(mainQueue') = Len(mainQueue) + 1 /\ Len(mainQueue) \in Nat
        /\ \A k \in 1..Len(mainQueue) : mainQueue'[k] = mainQueue[k]
        /\ mainQueue'[Len(mainQueue) + 1].kind = "token"
        /\ mainQueue'[Len(mainQueue) + 1].req = req
        /\ mainQueue'[Len(mainQueue) + 1].user = v
    BY <1>2, RecordTypes, AppendFacts DEF Callback
  <2>2. \A k : IsNotification(k)' <=> IsNotification(k)
    BY <2>1
  <2>3. NoNotification' <=> NoNotification
    BY <2>2
  <2>4. RequestsTimely'
    BY <1>2, <2>1 DEF RequestsTimely
  <2>5. LineEndsAtAuth'
    BY <1>2, <2>1, <2>2, <2>3 DEF LineEndsAtAuth
  <2>6. TokensAreTheEngines'
    <3>1. ASSUME NEW k, NoCredential', IsToken(k)', \A j : j < k => ~IsNotification(j)',
                 mainQueue'[k].req.close = close_count'
          PROVE  mainQueue'[k].user = current_user_'
      <4>1. CASE k = Len(mainQueue) + 1
        <5>1. NoNotification
          BY <3>1, <4>1, <2>1, <2>2
        <5> QED  BY <1>2, <3>1, <4>1, <5>1, <2>1
      <4>2. CASE k \in 1..Len(mainQueue)
        BY <1>2, <3>1, <4>2, <2>1, <2>2 DEF TokensAreTheEngines
      <4> QED  BY <3>1, <4>1, <4>2, <2>1
    <3>2. \A f \in refreshing' :
             NoNotification' /\ NoCredential' /\ f.req.close = close_count' =>
                 f.user = current_user_'
      BY <1>2, <2>3 DEF TokensAreTheEngines
    <3>3. \A k : IsResume(k)' /\ (\A j : j < k => ~IsCredential(j)')
                  /\ workerQueue'[k].close = close_count' =>
              workerQueue'[k].user = current_user_'
      BY <1>2 DEF TokensAreTheEngines
    <3> QED  BY <3>1, <3>2, <3>3 DEF TokensAreTheEngines
  <2> QED  BY <1>2, <2>4, <2>5, <2>6 DEF WritesUnderTheirUser
<1>3. ASSUME NEW req \in asked, TokenIsValid(req)
      PROVE  RequestsTimely' /\ LineEndsAtAuth' /\ TokensAreTheEngines'
               /\ WritesUnderTheirUser'
  BY <1>2, <1>3 DEF TokenIsValid, RequestsTimely, LineEndsAtAuth
<1>4. ASSUME NEW req \in asked, TokenHasExpired(req)
      PROVE  RequestsTimely' /\ LineEndsAtAuth' /\ TokensAreTheEngines'
               /\ WritesUnderTheirUser'
  <2>1. /\ asked' \subseteq asked
        /\ refreshing' = refreshing \cup {[req |-> req, user |-> authUser]}
        /\ UNCHANGED <<authUser, mainQueue, provider, workerQueue, current_user_, stream>>
    BY <1>4 DEF TokenHasExpired
  <2>2. RequestsTimely'
    BY <2>1 DEF RequestsTimely
  <2>3. LineEndsAtAuth'
    BY <2>1 DEF LineEndsAtAuth
  <2>4. TokensAreTheEngines'
    BY <2>1 DEF TokensAreTheEngines, LineEndsAtAuth
  <2> QED  BY <2>1, <2>2, <2>3, <2>4 DEF WritesUnderTheirUser
<1>5. ASSUME NEW f \in refreshing, TokenFetched(f)
      PROVE  RequestsTimely' /\ LineEndsAtAuth' /\ TokensAreTheEngines'
               /\ WritesUnderTheirUser'
  <2>1. f.req \in Requests /\ f.user \in Accounts
    BY DEF Accounts
  <2>2. Timely(f.req.close)
    BY DEF RequestsTimely
  <2>3. NoNotification /\ NoCredential /\ f.req.close = close_count => f.user = current_user_
    BY DEF TokensAreTheEngines
  <2> HIDE DEF IInv, TypeOK, NoNotification, NoCredential, Timely
  <2> QED  BY <1>2, <1>5, <2>1, <2>2, <2>3 DEF TokenFetched
<1> QED  BY <1>1, <1>3, <1>4, <1>5

\* The provider moves a notification from the main queue to the worker queue.
LEMMA NotifiedStep ==
    ASSUME IInv, TypeOK', Notified
    PROVE  RequestsTimely' /\ LineEndsAtAuth' /\ TokensAreTheEngines'
             /\ WritesUnderTheirUser'
<1> USE DEF IInv, TypeOK, provider, stream, IsNotification, IsCredential, IsToken, IsResume,
            NoNotification, NoCredential, Timely
<1>1. /\ UNCHANGED <<authUser, asked, refreshing, current_user_, stream>>
      /\ mainQueue # <<>> /\ mainQueue' = Tail(mainQueue)
      /\ Head(mainQueue).kind = "notification"
      /\ workerQueue' = Append(workerQueue, CredentialTask(Head(mainQueue).user))
  BY DEF Notified
<1>2. /\ Len(mainQueue) \in Nat /\ Len(mainQueue') = Len(mainQueue) - 1
      /\ \A k \in 1..Len(mainQueue') : mainQueue'[k] = mainQueue[k + 1]
      /\ IsNotification(1)
      /\ mainQueue[1].user \in Accounts
  BY <1>1, TailFacts, RecordTypes
<1>3. /\ Len(workerQueue) \in Nat /\ Len(workerQueue') = Len(workerQueue) + 1
      /\ \A k \in 1..Len(workerQueue) : workerQueue'[k] = workerQueue[k]
      /\ workerQueue'[Len(workerQueue')].kind = "credential"
      /\ workerQueue'[Len(workerQueue')].user = mainQueue[1].user
  BY <1>1, <1>2, TailFacts, RecordTypes, AppendFacts DEF CredentialTask
<1>4. \A k \in 1..Len(mainQueue') : IsNotification(k)' <=> IsNotification(k + 1)
  BY <1>2
<1>5. IsCredential(Len(workerQueue))'
  BY <1>3
<1>6. RequestsTimely'
  BY <1>1, <1>2, <1>3 DEF RequestsTimely
<1>7. LineEndsAtAuth'
  <2>1. ASSUME NEW k, IsNotification(k)', \A j : j > k => ~IsNotification(j)'
        PROVE  mainQueue'[k].user = authUser'
    <3>1. IsNotification(k + 1) /\ mainQueue'[k] = mainQueue[k + 1]
      BY <2>1, <1>2
    <3>2. ASSUME NEW j, j > k + 1, IsNotification(j) PROVE FALSE
      <4>1. j - 1 \in 1..Len(mainQueue') /\ j - 1 > k
        BY <3>2, <2>1, <1>2
      <4>2. IsNotification(j - 1)'
        BY <4>1, <1>4, <3>2, <1>2
      <4> QED  BY <4>1, <4>2, <2>1
    <3> QED  BY <3>1, <3>2, <1>1 DEF LineEndsAtAuth
  <2>2. ASSUME NEW k, NoNotification', IsCredential(k)', \A j : j > k => ~IsCredential(j)'
        PROVE  workerQueue'[k].user = authUser'
    <3>1. k = Len(workerQueue')
      <4>1. k \in 1..Len(workerQueue')
        BY <2>2
      <4>2. ~(Len(workerQueue') > k)
        BY <2>2, <1>5
      <4> QED  BY <4>1, <4>2, <1>3
    <3>2. ASSUME NEW j, j > 1, IsNotification(j) PROVE FALSE
      <4>1. j - 1 \in 1..Len(mainQueue')
        BY <3>2, <1>2
      <4>2. IsNotification(j - 1)'
        BY <4>1, <1>4, <3>2, <1>2
      <4> QED  BY <4>2, <2>2
    <3> QED  BY <3>1, <3>2, <1>1, <1>2, <1>3 DEF LineEndsAtAuth
  <2> QED  BY <2>1, <2>2, <1>5 DEF LineEndsAtAuth
<1>8. TokensAreTheEngines'
  <2>1. ASSUME NEW k, IsResume(k)', \A j : j < k => ~IsCredential(j)',
               workerQueue'[k].close = close_count'
        PROVE  workerQueue'[k].user = current_user_'
    <3>1. IsResume(k) /\ workerQueue'[k] = workerQueue[k]
      BY <2>1, <1>3
    <3>2. \A j : j < k => ~IsCredential(j)
      BY <2>1, <1>3
    <3> QED  BY <2>1, <3>1, <3>2, <1>1 DEF TokensAreTheEngines
  <2> QED  BY <2>1, <1>5 DEF TokensAreTheEngines
<1> QED  BY <1>1, <1>6, <1>7, <1>8 DEF WritesUnderTheirUser

\* The provider moves a token from the main queue to the worker queue, or asks for
\* another.
LEMMA TokenReceivedStep ==
    ASSUME IInv, TypeOK', TokenReceived
    PROVE  RequestsTimely' /\ LineEndsAtAuth' /\ TokensAreTheEngines'
             /\ WritesUnderTheirUser'
<1> USE DEF IInv, TypeOK, provider, stream, IsNotification, IsCredential, IsToken, IsResume,
            NoNotification, NoCredential, Timely
<1> DEFINE req  == Head(mainQueue).req
           task == ResumeTask(req.close, Head(mainQueue).user)
<1>1. /\ UNCHANGED <<authUser, refreshing, provider, current_user_, stream>>
      /\ mainQueue # <<>> /\ mainQueue' = Tail(mainQueue)
      /\ Head(mainQueue).kind = "token"
      /\ \/ workerQueue' = Append(workerQueue, task) /\ asked' = asked
         \/ /\ workerQueue' = workerQueue
            /\ asked' = asked \cup {[req EXCEPT !.counter = token_counter]}
  BY DEF TokenReceived
<1>2. /\ Len(mainQueue) \in Nat /\ Len(mainQueue') = Len(mainQueue) - 1
      /\ \A k \in 1..Len(mainQueue') : mainQueue'[k] = mainQueue[k + 1]
      /\ IsToken(1) /\ mainQueue[1] = Head(mainQueue)
      /\ req \in Requests /\ task \in Tasks
  BY <1>1, TailFacts, RecordTypes
<1>3. task.kind = "resume" /\ task.close = req.close /\ task.user = mainQueue[1].user
  BY <1>2 DEF ResumeTask
<1>4. Timely(req.close) /\ Timely([req EXCEPT !.counter = token_counter].close)
  BY <1>2 DEF RequestsTimely, Requests
<1> HIDE DEF task, req
<1>5. \A k \in 1..Len(mainQueue') : IsNotification(k)' <=> IsNotification(k + 1)
  BY <1>2
<1>6. /\ Len(workerQueue) \in Nat /\ Len(workerQueue') >= Len(workerQueue)
      /\ Len(workerQueue') \in Nat /\ Len(workerQueue') <= Len(workerQueue) + 1
      /\ \A k \in 1..Len(workerQueue) : workerQueue'[k] = workerQueue[k]
      /\ \A k \in 1..Len(workerQueue') : k > Len(workerQueue) => workerQueue'[k] = task
  BY <1>1, <1>2, AppendFacts
<1>7. \A k : IsCredential(k)' <=> IsCredential(k)
  BY <1>3, <1>6
<1>8. NoCredential' <=> NoCredential
  BY <1>7
<1>9. NoNotification' <=> NoNotification
  <2>1. ASSUME NEW j, IsNotification(j) PROVE IsNotification(j - 1)'
    <3>1. j # 1
      BY <2>1, <1>2
    <3> QED  BY <2>1, <3>1, <1>2
  <2> QED  BY <2>1, <1>5
<1>10. RequestsTimely'
  <2>1. \A r \in asked' : Timely(r.close)'
    BY <1>1, <1>4 DEF RequestsTimely
  <2>2. \A k : IsToken(k)' => Timely(mainQueue[k].req.close)'
    BY <1>1, <1>2 DEF RequestsTimely
  <2>3. ASSUME NEW k, IsResume(k)' PROVE Timely(workerQueue[k].close)'
    <3>1. CASE k \in 1..Len(workerQueue)
      <4>1. workerQueue'[k] = workerQueue[k] /\ Timely(workerQueue[k].close)
        BY <1>6, <2>3, <3>1 DEF RequestsTimely
      <4> QED  BY <1>1, <4>1
    <3>2. CASE k \notin 1..Len(workerQueue)
      <4>1. workerQueue'[k].close = req.close
        BY <1>3, <1>6, <2>3, <3>2
      <4> QED  BY <1>1, <1>4, <4>1
    <3> QED  BY <3>1, <3>2
  <2> QED  BY <1>1, <2>1, <2>2, <2>3 DEF RequestsTimely
<1>11. LineEndsAtAuth'
  <2>1. ASSUME NEW k, IsNotification(k)', \A j : j > k => ~IsNotification(j)'
        PROVE  mainQueue'[k].user = authUser'
    <3>1. IsNotification(k + 1) /\ mainQueue'[k] = mainQueue[k + 1]
      BY <2>1, <1>2
    <3>2. ASSUME NEW j, j > k + 1, IsNotification(j) PROVE FALSE
      <4>1. j - 1 \in 1..Len(mainQueue') /\ j - 1 > k
        BY <3>2, <2>1, <1>2
      <4>2. IsNotification(j - 1)'
        BY <4>1, <1>5, <3>2, <1>2
      <4> QED  BY <4>1, <4>2, <2>1
    <3> QED  BY <3>1, <3>2, <1>1 DEF LineEndsAtAuth
  <2>2. ASSUME NEW k, NoNotification', IsCredential(k)', \A j : j > k => ~IsCredential(j)'
        PROVE  workerQueue'[k].user = authUser'
    <3>1. IsCredential(k) /\ workerQueue'[k] = workerQueue[k]
      BY <2>2, <1>7, <1>6
    <3> QED  BY <2>2, <3>1, <1>1, <1>7, <1>9 DEF LineEndsAtAuth
  <2>3. NoNotification' /\ NoCredential' => authUser' = current_user_'
    BY <1>1, <1>8, <1>9 DEF LineEndsAtAuth
  <2> QED  BY <2>1, <2>2, <2>3 DEF LineEndsAtAuth
<1>12. TokensAreTheEngines'
  <2>1. \A f \in refreshing' :
           NoNotification' /\ NoCredential' /\ f.req.close = close_count' =>
               f.user = current_user_'
    BY <1>1, <1>8, <1>9 DEF TokensAreTheEngines
  <2>2. ASSUME NEW k, NoCredential', IsToken(k)', \A j : j < k => ~IsNotification(j)',
               mainQueue'[k].req.close = close_count'
        PROVE  mainQueue'[k].user = current_user_'
    <3>1. IsToken(k + 1) /\ mainQueue'[k] = mainQueue[k + 1]
      BY <2>2, <1>2
    <3>2. ASSUME NEW j, j < k + 1, IsNotification(j) PROVE FALSE
      <4>1. j # 1
        BY <3>2, <1>2
      <4>2. j - 1 \in 1..Len(mainQueue') /\ j - 1 < k
        BY <3>2, <4>1, <2>2, <1>2
      <4>3. IsNotification(j - 1)'
        BY <4>2, <1>5, <3>2, <1>2
      <4> QED  BY <4>2, <4>3, <2>2
    <3> QED  BY <2>2, <3>1, <3>2, <1>1, <1>8 DEF TokensAreTheEngines
  <2>3. ASSUME NEW k, IsResume(k)', \A j : j < k => ~IsCredential(j)',
               workerQueue'[k].close = close_count'
        PROVE  workerQueue'[k].user = current_user_'
    <3>1. CASE k \in 1..Len(workerQueue)
      BY <2>3, <3>1, <1>1, <1>6, <1>7 DEF TokensAreTheEngines
    <3>2. CASE k > Len(workerQueue)
      <4>1. workerQueue'[k] = task
        BY <2>3, <3>2, <1>6
      <4>2. \A j : IsCredential(j) => j < k
        BY <3>2, <1>6, <2>3
      <4>3. NoCredential
        BY <4>2, <2>3, <1>7
      <4>4. mainQueue[1].req.close = close_count
        BY <4>1, <1>2, <1>3, <2>3, <1>1 DEF req
      <4>5. \A j : j < 1 => ~IsNotification(j)
        OBVIOUS
      <4>6. mainQueue[1].user = current_user_
        BY <4>3, <4>4, <4>5, <1>2 DEF TokensAreTheEngines
      <4> QED  BY <4>1, <4>6, <1>1, <1>3
    <3> QED  BY <2>3, <3>1, <3>2, <1>6
  <2> QED  BY <2>1, <2>2, <2>3 DEF TokensAreTheEngines
<1> QED  BY <1>1, <1>10, <1>11, <1>12 DEF WritesUnderTheirUser

\* The stream starts, opens with a token, or closes.
LEMMA StreamSteps ==
    ASSUME IInv, TypeOK', StartStream \/ Resume \/ StreamCloses
    PROVE  RequestsTimely' /\ LineEndsAtAuth' /\ TokensAreTheEngines'
             /\ WritesUnderTheirUser'
<1> USE DEF IInv, TypeOK, provider, stream, IsNotification, IsCredential, IsToken, IsResume,
            NoNotification, NoCredential, Timely
<1>1. CASE StartStream
  <2>1. /\ UNCHANGED <<authUser, refreshing, mainQueue, provider, workerQueue, current_user_,
                       close_count, token>>
        /\ state' = "Starting"
        /\ asked' = asked \cup {[counter |-> token_counter, close |-> close_count]}
    BY <1>1 DEF StartStream, Start, request
  <2>2. RequestsTimely'
    BY <2>1 DEF RequestsTimely
  <2>3. LineEndsAtAuth' /\ TokensAreTheEngines'
    BY <2>1 DEF LineEndsAtAuth, TokensAreTheEngines
  <2> QED  BY <2>1, <2>2, <2>3 DEF WritesUnderTheirUser
<1>2. CASE StreamCloses
  <2>1. /\ UNCHANGED <<authUser, asked, refreshing, mainQueue, provider, workerQueue,
                       current_user_, token>>
        /\ state' = "Stopped" /\ close_count' = close_count + 1
    BY <1>2 DEF StreamCloses, nextCount
  <2>2. /\ \A r \in asked' : r.close < close_count'
        /\ \A f \in refreshing' : f.req.close < close_count'
        /\ \A k : IsToken(k)' => mainQueue'[k].req.close < close_count'
        /\ \A k : IsResume(k)' => workerQueue'[k].close < close_count'
    <3>1. \A r \in Requests : r.close \in Nat
      BY DEF Requests
    <3>2. \A k : IsToken(k) => mainQueue[k].req.close \in Nat
      BY <3>1, RecordTypes
    <3>3. \A k : IsResume(k) => workerQueue[k].close \in Nat
      BY RecordTypes
    <3> QED  BY <2>1, <3>1, <3>2, <3>3 DEF RequestsTimely
  <2>3. RequestsTimely'
    <3>1. \A r \in asked' : Timely(r.close)'
      BY <2>2, <2>1 DEF Requests
    <3>2. \A f \in refreshing' : Timely(f.req.close)'
      BY <2>2, <2>1 DEF Requests
    <3>3. \A k : IsToken(k)' => Timely(mainQueue[k].req.close)'
      <4>1. \A k : IsToken(k)' => mainQueue'[k].req \in Requests
        BY RecordTypes
      <4> QED  BY <4>1, <2>2, <2>1 DEF Requests
    <3>4. \A k : IsResume(k)' => Timely(workerQueue[k].close)'
      <4>1. \A k : IsResume(k)' => workerQueue'[k].close \in Nat
        BY RecordTypes
      <4> QED  BY <4>1, <2>2, <2>1
    <3> QED  BY <3>1, <3>2, <3>3, <3>4 DEF RequestsTimely
  <2>4. LineEndsAtAuth'
    BY <2>1 DEF LineEndsAtAuth
  <2>5. TokensAreTheEngines'
    BY <2>2 DEF TokensAreTheEngines
  <2> QED  BY <2>1, <2>3, <2>4, <2>5 DEF WritesUnderTheirUser
<1>3. CASE Resume
  <2>1. /\ UNCHANGED <<authUser, asked, refreshing, mainQueue, provider, current_user_,
                       close_count>>
        /\ workerQueue # <<>> /\ Head(workerQueue).kind = "resume"
        /\ workerQueue' = Tail(workerQueue)
        /\ IF Head(workerQueue).close = close_count
           THEN state' = "Open" /\ token' = Head(workerQueue).user
           ELSE UNCHANGED <<state, token>>
    BY <1>3 DEF Resume, sameStream
  <2>2. /\ Len(workerQueue) \in Nat /\ Len(workerQueue') = Len(workerQueue) - 1
        /\ \A k \in 1..Len(workerQueue') : workerQueue'[k] = workerQueue[k + 1]
        /\ IsResume(1) /\ workerQueue[1] = Head(workerQueue)
    BY <2>1, TailFacts
  <2>3. \A j : IsCredential(j) => IsCredential(j - 1)'
    <3>1. ASSUME NEW j, IsCredential(j) PROVE IsCredential(j - 1)'
      <4>1. j # 1 /\ j \in 1..Len(workerQueue)
        BY <3>1, <2>2
      <4>2. j - 1 \in 1..Len(workerQueue') /\ (j - 1) + 1 = j
        BY <4>1, <2>2
      <4>3. workerQueue'[j - 1] = workerQueue[j]
        BY <4>2, <2>2
      <4> QED  BY <3>1, <4>2, <4>3
    <3> QED  BY <3>1
  <2>4. \A j : IsCredential(j)' => IsCredential(j + 1)
    BY <2>2
  <2>5. NoCredential' <=> NoCredential
    BY <2>3, <2>4
  <2>6. RequestsTimely'
    BY <2>1, <2>2 DEF RequestsTimely
  <2>7. LineEndsAtAuth'
    <3>1. ASSUME NEW k, NoNotification', IsCredential(k)', \A j : j > k => ~IsCredential(j)'
          PROVE  workerQueue'[k].user = authUser'
      <4>1. IsCredential(k + 1) /\ workerQueue'[k] = workerQueue[k + 1]
        BY <3>1, <2>2
      <4>2. ASSUME NEW j, j > k + 1, IsCredential(j) PROVE FALSE
        <5>1. j - 1 > k
          BY <4>2, <3>1
        <5>2. IsCredential(j - 1)'
          BY <4>2, <2>3
        <5> QED  BY <5>1, <5>2, <3>1
      <4> QED  BY <3>1, <4>1, <4>2, <2>1 DEF LineEndsAtAuth
    <3> QED  BY <3>1, <2>1, <2>5 DEF LineEndsAtAuth
  <2>8. TokensAreTheEngines'
    <3>1. ASSUME NEW k, IsResume(k)', \A j : j < k => ~IsCredential(j)',
                 workerQueue'[k].close = close_count'
          PROVE  workerQueue'[k].user = current_user_'
      <4>1. IsResume(k + 1) /\ workerQueue'[k] = workerQueue[k + 1]
        BY <3>1, <2>2
      <4>2. ASSUME NEW j, j < k + 1, IsCredential(j) PROVE FALSE
        <5>1. j - 1 < k
          BY <4>2, <3>1
        <5>2. IsCredential(j - 1)'
          BY <4>2, <2>3
        <5> QED  BY <5>1, <5>2, <3>1
      <4> QED  BY <3>1, <4>1, <4>2, <2>1 DEF TokensAreTheEngines
    <3>2. \A k : NoCredential' /\ IsToken(k)' /\ (\A j : j < k => ~IsNotification(j)')
                  /\ mainQueue'[k].req.close = close_count' =>
              mainQueue'[k].user = current_user_'
      BY <2>1, <2>5 DEF TokensAreTheEngines
    <3>3. \A f \in refreshing' :
             NoNotification' /\ NoCredential' /\ f.req.close = close_count' =>
                 f.user = current_user_'
      BY <2>1, <2>5 DEF TokensAreTheEngines
    <3> QED  BY <3>1, <3>2, <3>3 DEF TokensAreTheEngines
  <2>9. WritesUnderTheirUser'
    <3>1. CASE Head(workerQueue).close = close_count
      <4>1. \A j : j < 1 => ~IsCredential(j)
        OBVIOUS
      <4>2. workerQueue[1].user = current_user_
        BY <4>1, <3>1, <2>2 DEF TokensAreTheEngines
      <4> QED  BY <3>1, <4>2, <2>1, <2>2 DEF WritesUnderTheirUser
    <3>2. CASE Head(workerQueue).close # close_count
      BY <3>2, <2>1 DEF WritesUnderTheirUser
    <3> QED  BY <3>1, <3>2
  <2> QED  BY <2>6, <2>7, <2>8, <2>9
<1> QED  BY <1>1, <1>2, <1>3

\* The engine takes up the next user in the line: what the stream was given or has
\* asked for before is for a stream that is now closed.
LEMMA CredentialChangeStep ==
    ASSUME IInv, TypeOK', CredentialChange
    PROVE  IInv'
<1> USE DEF IInv, TypeOK, provider, stream, IsNotification, IsCredential, IsToken, IsResume,
            NoNotification, NoCredential, Timely
<1>1. /\ UNCHANGED <<authUser, refreshing, mainQueue, provider, token>>
      /\ workerQueue # <<>> /\ Head(workerQueue).kind = "credential"
      /\ workerQueue' = Tail(workerQueue)
      /\ current_user_' = Head(workerQueue).user
      /\ close_count' = IF state \in {"Starting", "Open"} THEN close_count + 1 ELSE close_count
      /\ \/ /\ state' = "Starting"
            /\ asked' = asked \cup {[counter |-> token_counter, close |-> close_count']}
         \/ state' = "Stopped" /\ asked' = asked
  BY DEF CredentialChange, restartStream, Start, request, nextCount
<1>2. /\ Len(workerQueue) \in Nat /\ Len(workerQueue') = Len(workerQueue) - 1
      /\ \A k \in 1..Len(workerQueue') : workerQueue'[k] = workerQueue[k + 1]
      /\ IsCredential(1) /\ workerQueue[1] = Head(workerQueue)
  BY <1>1, TailFacts
<1>3. \A c \in Nat : Timely(c) => c < close_count'
  BY <1>1
<1>4. /\ \A r \in asked : r.close < close_count'
      /\ \A f \in refreshing : f.req.close < close_count'
      /\ \A k : IsToken(k) => mainQueue[k].req.close < close_count'
      /\ \A k : IsResume(k) => workerQueue[k].close < close_count'
  <2>1. \A r \in Requests : r.close \in Nat
    BY DEF Requests
  <2>2. \A k : IsToken(k) => mainQueue[k].req.close \in Nat
    BY <2>1, RecordTypes
  <2>3. \A k : IsResume(k) => workerQueue[k].close \in Nat
    BY RecordTypes
  <2> QED  BY <1>3, <2>1, <2>2, <2>3 DEF RequestsTimely
<1>5. \A k : IsResume(k)' => workerQueue'[k].close < close_count'
  <2>1. ASSUME NEW k, IsResume(k)' PROVE workerQueue'[k].close < close_count'
    <3>1. IsResume(k + 1) /\ workerQueue'[k] = workerQueue[k + 1]
      BY <2>1, <1>2
    <3> QED  BY <3>1, <1>4
  <2> QED  BY <2>1
<1>6. RequestsTimely'
  <2>1. \A r \in asked' : Timely(r.close)'
    <3>1. \A r \in asked : r.close < close_count' /\ r.close \in Nat
      BY <1>4 DEF Requests
    <3> QED  BY <1>1, <3>1
  <2>2. \A f \in refreshing' : Timely(f.req.close)'
    BY <1>1, <1>4 DEF Requests
  <2>3. \A k : IsToken(k)' => Timely(mainQueue[k].req.close)'
    <3>1. \A k : IsToken(k) => mainQueue[k].req.close \in Nat
      BY RecordTypes DEF Requests
    <3> QED  BY <1>1, <1>4, <3>1
  <2>4. \A k : IsResume(k)' => Timely(workerQueue[k].close)'
    <3>1. \A k : IsResume(k)' => workerQueue'[k].close \in Nat
      BY RecordTypes
    <3> QED  BY <1>5, <3>1
  <2> QED  BY <2>1, <2>2, <2>3, <2>4 DEF RequestsTimely
<1>7. \A j : IsCredential(j) /\ j # 1 => IsCredential(j - 1)'
  <2>1. ASSUME NEW j, IsCredential(j), j # 1 PROVE IsCredential(j - 1)'
    <3>1. j - 1 \in 1..Len(workerQueue') /\ (j - 1) + 1 = j
      BY <2>1, <1>2
    <3>2. workerQueue'[j - 1] = workerQueue[j]
      BY <3>1, <1>2
    <3> QED  BY <2>1, <3>1, <3>2
  <2> QED  BY <2>1
<1>8. LineEndsAtAuth'
  <2>1. ASSUME NEW k, NoNotification', IsCredential(k)', \A j : j > k => ~IsCredential(j)'
        PROVE  workerQueue'[k].user = authUser'
    <3>1. IsCredential(k + 1) /\ workerQueue'[k] = workerQueue[k + 1]
      BY <2>1, <1>2
    <3>2. ASSUME NEW j, j > k + 1, IsCredential(j) PROVE FALSE
      <4>1. j - 1 > k /\ j # 1
        BY <3>2, <2>1
      <4>2. IsCredential(j - 1)'
        BY <3>2, <4>1, <1>7
      <4> QED  BY <4>1, <4>2, <2>1
    <3> QED  BY <2>1, <3>1, <3>2, <1>1 DEF LineEndsAtAuth
  <2>2. ASSUME NoNotification', NoCredential' PROVE authUser' = current_user_'
    <3>1. NoNotification
      BY <2>2, <1>1
    <3>2. \A j : j > 1 => ~IsCredential(j)
      BY <2>2, <1>7
    <3>3. workerQueue[1].user = authUser
      BY <3>1, <3>2, <1>2 DEF LineEndsAtAuth
    <3> QED  BY <3>3, <1>1, <1>2
  <2> QED  BY <2>1, <2>2, <1>1 DEF LineEndsAtAuth
<1>9. TokensAreTheEngines'
  <2>1. \A f \in refreshing' : f.req.close # close_count'
    BY <1>1, <1>4 DEF Requests
  <2>2. \A k : IsToken(k)' => mainQueue'[k].req.close # close_count'
    <3>1. \A k : IsToken(k) => mainQueue[k].req.close \in Nat
      BY RecordTypes DEF Requests
    <3> QED  BY <1>1, <1>4, <3>1
  <2>3. \A k : IsResume(k)' => workerQueue'[k].close # close_count'
    <3>1. \A k : IsResume(k)' => workerQueue'[k].close \in Nat
      BY RecordTypes
    <3> QED  BY <1>5, <3>1
  <2> QED  BY <2>1, <2>2, <2>3 DEF TokensAreTheEngines
<1>10. WritesUnderTheirUser'
  BY <1>1 DEF WritesUnderTheirUser
<1> QED  BY <1>6, <1>8, <1>9, <1>10

\* The invariant holds at first,
LEMMA InitIInv == Init => IInv
<1>1. Init => TypeOK
  BY DEF Init, TypeOK, Accounts
<1> SUFFICES ASSUME Init PROVE IInv
  OBVIOUS
<1> USE DEF Init, IsNotification, IsCredential, IsToken, IsResume, NoNotification, NoCredential
<1>2. (\A k : k \notin 1..Len(mainQueue)) /\ (\A k : k \notin 1..Len(workerQueue))
  OBVIOUS
<1>3. RequestsTimely
  BY <1>2 DEF RequestsTimely
<1>4. LineEndsAtAuth
  BY <1>2 DEF LineEndsAtAuth
<1>5. TokensAreTheEngines
  BY <1>2 DEF TokensAreTheEngines
<1> QED  BY <1>1, <1>3, <1>4, <1>5 DEF IInv, WritesUnderTheirUser

\* and every step keeps it.
LEMMA IInvStep == IInv /\ TypeOK' /\ [Next]_vars => IInv'
<1> SUFFICES ASSUME IInv, TypeOK', [Next]_vars PROVE IInv'
  OBVIOUS
<1>1. CASE \E u \in Accounts : updateCurrentUser(u)
  BY <1>1, AuthSteps DEF IInv
<1>2. CASE \E req \in asked : TokenIsValid(req) \/ TokenHasExpired(req)
  BY <1>2, AuthSteps DEF IInv
<1>3. CASE \E f \in refreshing : TokenFetched(f)
  BY <1>3, AuthSteps DEF IInv
<1>4. CASE Notified
  BY <1>4, NotifiedStep DEF IInv
<1>5. CASE TokenReceived
  BY <1>5, TokenReceivedStep DEF IInv
<1>6. CASE StartStream \/ Resume \/ StreamCloses
  BY <1>6, StreamSteps DEF IInv
<1>7. CASE CredentialChange
  BY <1>7, CredentialChangeStep
<1>8. CASE UNCHANGED vars
  <2> USE DEF vars, provider, stream, IsNotification, IsCredential, IsToken, IsResume,
              NoNotification, NoCredential, Timely
  <2>1. RequestsTimely'
    BY <1>8 DEF IInv, RequestsTimely
  <2>2. LineEndsAtAuth'
    BY <1>8 DEF IInv, LineEndsAtAuth
  <2>3. TokensAreTheEngines'
    BY <1>8 DEF IInv, TokensAreTheEngines
  <2> QED  BY <1>8, <2>1, <2>2, <2>3 DEF IInv, WritesUnderTheirUser
<1> QED  BY <1>1, <1>2, <1>3, <1>4, <1>5, <1>6, <1>7, <1>8 DEF Next

\* An open stream runs under a token of the user whose mutation queue the sync
\* engine sends on it: the close count of Stream::Close and the order of the main
\* queue and of the worker queue are enough for it.
THEOREM TokensSafe == Spec => []WritesUnderTheirUser
<1>1. Init => IInv
  BY InitIInv
<1>2. IInv /\ TypeOK' /\ [Next]_vars => IInv'
  BY IInvStep
<1>3. IInv => WritesUnderTheirUser
  BY DEF IInv
<1> QED  BY <1>1, <1>2, <1>3, TypeCorrect, PTL DEF Spec

-----------------------------------------------------------------------------
(* A request is answered once *)

\* A request for the stream as it is now, on its way from GetToken to the stream.
LiveAsked(r)  == r \in asked /\ r.close = close_count
LiveFetch(f)  == f \in refreshing /\ f.req.close = close_count
LiveToken(k)  == IsToken(k) /\ mainQueue[k].req.close = close_count
LiveResume(k) == IsResume(k) /\ workerQueue[k].close = close_count

\* There is at most one of them, and only while the stream is starting.
OneRequest ==
    /\ \A r : LiveAsked(r) => state = "Starting"
    /\ \A f : LiveFetch(f) => state = "Starting"
    /\ \A k : LiveToken(k) => state = "Starting"
    /\ \A k : LiveResume(k) => state = "Starting"
    /\ \A r, s : LiveAsked(r) /\ LiveAsked(s) => r = s
    /\ \A f, g : LiveFetch(f) /\ LiveFetch(g) => f = g
    /\ \A j, k : LiveToken(j) /\ LiveToken(k) => j = k
    /\ \A j, k : LiveResume(j) /\ LiveResume(k) => j = k
    /\ \A r, f : ~(LiveAsked(r) /\ LiveFetch(f))
    /\ \A r, k : ~(LiveAsked(r) /\ LiveToken(k))
    /\ \A r, k : ~(LiveAsked(r) /\ LiveResume(k))
    /\ \A f, k : ~(LiveFetch(f) /\ LiveToken(k))
    /\ \A f, k : ~(LiveFetch(f) /\ LiveResume(k))
    /\ \A j, k : ~(LiveToken(j) /\ LiveResume(k))

\* What holds when nothing is asked of the stream as it is now.
NoRequest ==
    /\ \A r : ~LiveAsked(r)
    /\ \A f : ~LiveFetch(f)
    /\ \A k : ~LiveToken(k)
    /\ \A k : ~LiveResume(k)

\* Appending a closure to the main queue leaves its live tokens where they are.
LEMMA TokenAppended ==
    ASSUME TypeOK, close_count' = close_count,
           NEW c \in Closures, mainQueue' = Append(mainQueue, c)
    PROVE  /\ \A k : LiveToken(k)' <=>
                  \/ LiveToken(k)
                  \/ k = Len(mainQueue) + 1 /\ c.kind = "token" /\ c.req.close = close_count
           /\ ~LiveToken(Len(mainQueue) + 1)
<1> USE DEF TypeOK, LiveToken, IsToken
<1>1. /\ Len(mainQueue') = Len(mainQueue) + 1 /\ Len(mainQueue) \in Nat
      /\ \A k \in 1..Len(mainQueue) : mainQueue'[k] = mainQueue[k]
      /\ mainQueue'[Len(mainQueue) + 1] = c
  BY AppendFacts
<1> QED  BY <1>1

\* Taking the oldest closure moves the live tokens up.
LEMMA TokenTaken ==
    ASSUME TypeOK, close_count' = close_count, mainQueue # <<>>, mainQueue' = Tail(mainQueue)
    PROVE  /\ \A k : LiveToken(k)' => k \in Nat /\ k # 0 /\ LiveToken(k + 1)
           /\ LiveToken(1) <=>
                  Head(mainQueue).kind = "token" /\ Head(mainQueue).req.close = close_count
<1> USE DEF TypeOK, LiveToken, IsToken
<1>1. /\ Len(mainQueue') = Len(mainQueue) - 1 /\ Len(mainQueue) \in Nat /\ Len(mainQueue) >= 1
      /\ \A k \in 1..(Len(mainQueue) - 1) : mainQueue'[k] = mainQueue[k + 1]
      /\ Head(mainQueue) = mainQueue[1]
  BY TailFacts
<1> QED  BY <1>1

\* The same of a task appended to the worker queue.
LEMMA ResumeAppended ==
    ASSUME TypeOK, close_count' = close_count,
           NEW t \in Tasks, workerQueue' = Append(workerQueue, t)
    PROVE  /\ \A k : LiveResume(k)' <=>
                  \/ LiveResume(k)
                  \/ k = Len(workerQueue) + 1 /\ t.kind = "resume" /\ t.close = close_count
           /\ ~LiveResume(Len(workerQueue) + 1)
<1> USE DEF TypeOK, LiveResume, IsResume
<1>1. /\ Len(workerQueue') = Len(workerQueue) + 1 /\ Len(workerQueue) \in Nat
      /\ \A k \in 1..Len(workerQueue) : workerQueue'[k] = workerQueue[k]
      /\ workerQueue'[Len(workerQueue) + 1] = t
  BY AppendFacts
<1> QED  BY <1>1

\* The same of the oldest task, taken from it.
LEMMA ResumeTaken ==
    ASSUME TypeOK, close_count' = close_count, workerQueue # <<>>,
           workerQueue' = Tail(workerQueue)
    PROVE  /\ \A k : LiveResume(k)' => k \in Nat /\ k # 0 /\ LiveResume(k + 1)
           /\ LiveResume(1) <=>
                  Head(workerQueue).kind = "resume" /\ Head(workerQueue).close = close_count
<1> USE DEF TypeOK, LiveResume, IsResume
<1>1. /\ Len(workerQueue') = Len(workerQueue) - 1 /\ Len(workerQueue) \in Nat
      /\ Len(workerQueue) >= 1
      /\ \A k \in 1..(Len(workerQueue) - 1) : workerQueue'[k] = workerQueue[k + 1]
      /\ Head(workerQueue) = workerQueue[1]
  BY TailFacts
<1> QED  BY <1>1

\* A request moves from one of its four places to the next, and no other appears.
LEMMA OneRequestStep ==
    ASSUME IInv, IInv', OneRequest, [Next]_vars
    PROVE  OneRequest'
<1> USE DEF IInv, provider, stream
<1>1. ASSUME NEW u \in Accounts, updateCurrentUser(u) PROVE OneRequest'
  <2>1. Notification(u) \in Closures /\ Notification(u).kind = "notification"
    BY RecordTypes DEF Notification
  <2>2. /\ mainQueue' = Append(mainQueue, Notification(u))
        /\ UNCHANGED <<asked, refreshing, workerQueue, state, close_count>>
    BY <1>1 DEF updateCurrentUser
  <2>3. \A k : LiveToken(k)' <=> LiveToken(k)
    BY <2>1, <2>2, TokenAppended
  <2>4. /\ \A r : LiveAsked(r)' <=> LiveAsked(r)
        /\ \A f : LiveFetch(f)' <=> LiveFetch(f)
        /\ \A k : LiveResume(k)' <=> LiveResume(k)
    BY <2>2 DEF LiveAsked, LiveFetch, LiveResume, IsResume
  <2> QED  BY <2>2, <2>3, <2>4 DEF OneRequest
<1>2. ASSUME NEW req \in asked, TokenIsValid(req) PROVE OneRequest'
  <2> DEFINE c == Callback(req, authUser)
  <2>1. c \in Closures /\ c.kind = "token" /\ c.req = req
    BY RecordTypes DEF Callback, TypeOK
  <2>2. /\ mainQueue' = Append(mainQueue, c) /\ asked' = asked \ {req}
        /\ UNCHANGED <<refreshing, workerQueue, state, close_count>>
    BY <1>2 DEF TokenIsValid
  <2> HIDE DEF c
  <2>3. /\ \A k : LiveToken(k)' <=>
               LiveToken(k) \/ (k = Len(mainQueue) + 1 /\ LiveAsked(req))
    BY <2>1, <2>2, TokenAppended DEF LiveAsked
  <2>4. /\ \A r : LiveAsked(r)' <=> LiveAsked(r) /\ r # req
        /\ \A f : LiveFetch(f)' <=> LiveFetch(f)
        /\ \A k : LiveResume(k)' <=> LiveResume(k)
    BY <2>2 DEF LiveAsked, LiveFetch, LiveResume, IsResume
  <2> QED  BY <2>2, <2>3, <2>4 DEF OneRequest
<1>3. ASSUME NEW req \in asked, TokenHasExpired(req) PROVE OneRequest'
  <2>1. /\ asked' = asked \ {req}
        /\ refreshing' = refreshing \cup {[req |-> req, user |-> authUser]}
        /\ UNCHANGED <<mainQueue, workerQueue, state, close_count>>
    BY <1>3 DEF TokenHasExpired
  <2>2. \A f : LiveFetch(f)' <=>
            LiveFetch(f) \/ (f = [req |-> req, user |-> authUser] /\ LiveAsked(req))
    BY <2>1 DEF LiveAsked, LiveFetch
  <2>3. /\ \A r : LiveAsked(r)' <=> LiveAsked(r) /\ r # req
        /\ \A k : LiveToken(k)' <=> LiveToken(k)
        /\ \A k : LiveResume(k)' <=> LiveResume(k)
    BY <2>1 DEF LiveAsked, LiveToken, LiveResume, IsToken, IsResume
  <2> QED  BY <2>1, <2>2, <2>3 DEF OneRequest
<1>4. ASSUME NEW f \in refreshing, TokenFetched(f) PROVE OneRequest'
  <2> DEFINE c == Callback(f.req, f.user)
  <2>1. c \in Closures /\ c.kind = "token" /\ c.req = f.req
    BY RecordTypes DEF Callback, TypeOK, Accounts
  <2>2. /\ mainQueue' = Append(mainQueue, c) /\ refreshing' = refreshing \ {f}
        /\ UNCHANGED <<asked, workerQueue, state, close_count>>
    BY <1>4 DEF TokenFetched
  <2> HIDE DEF c
  <2>3. \A k : LiveToken(k)' <=>
               LiveToken(k) \/ (k = Len(mainQueue) + 1 /\ LiveFetch(f))
    BY <2>1, <2>2, TokenAppended DEF LiveFetch
  <2>4. /\ \A g : LiveFetch(g)' <=> LiveFetch(g) /\ g # f
        /\ \A r : LiveAsked(r)' <=> LiveAsked(r)
        /\ \A k : LiveResume(k)' <=> LiveResume(k)
    BY <2>2 DEF LiveAsked, LiveFetch, LiveResume, IsResume
  <2> QED  BY <2>2, <2>3, <2>4 DEF OneRequest
<1>5. CASE Notified
  <2> DEFINE t == CredentialTask(Head(mainQueue).user)
  <2>1. /\ mainQueue # <<>> /\ mainQueue' = Tail(mainQueue)
        /\ workerQueue' = Append(workerQueue, t)
        /\ UNCHANGED <<asked, refreshing, state, close_count>>
    BY <1>5 DEF Notified
  <2>2. t \in Tasks /\ t.kind = "credential"
    BY <2>1, TailFacts, RecordTypes DEF TypeOK, CredentialTask
  <2> HIDE DEF t
  <2>3. \A k : LiveToken(k)' => k \in Nat /\ LiveToken(k + 1)
    BY <2>1, TokenTaken
  <2>4. \A k : LiveResume(k)' <=> LiveResume(k)
    BY <2>1, <2>2, ResumeAppended
  <2>5. /\ \A r : LiveAsked(r)' <=> LiveAsked(r)
        /\ \A f : LiveFetch(f)' <=> LiveFetch(f)
    BY <2>1 DEF LiveAsked, LiveFetch
  <2> QED  BY <2>1, <2>3, <2>4, <2>5 DEF OneRequest
<1>6. CASE TokenReceived
  <2> DEFINE req == Head(mainQueue).req
             t   == ResumeTask(req.close, Head(mainQueue).user)
             again == [req EXCEPT !.counter = token_counter]
  <2>1. /\ mainQueue # <<>> /\ mainQueue' = Tail(mainQueue)
        /\ Head(mainQueue).kind = "token"
        /\ UNCHANGED <<refreshing, state, close_count>>
        /\ \/ workerQueue' = Append(workerQueue, t) /\ asked' = asked
           \/ workerQueue' = workerQueue /\ asked' = asked \cup {again}
    BY <1>6 DEF TokenReceived
  <2>2. Head(mainQueue) \in Closures
    BY <2>1, TailFacts DEF TypeOK
  <2>3. t \in Tasks /\ t.kind = "resume" /\ t.close = req.close /\ again.close = req.close
    BY <2>1, <2>2, RecordTypes DEF ResumeTask, Requests
  <2>4. LiveToken(1) <=> req.close = close_count
    BY <2>1, TokenTaken
  <2> HIDE DEF t, again, req
  <2>5. \A k : LiveToken(k)' => k \in Nat /\ k # 0 /\ LiveToken(k + 1)
    BY <2>1, TokenTaken
  <2>6. \A f : LiveFetch(f)' <=> LiveFetch(f)
    BY <2>1 DEF LiveFetch
  <2>7. CASE workerQueue' = Append(workerQueue, t) /\ asked' = asked
    <3>1. \A k : LiveResume(k)' <=>
              LiveResume(k) \/ (k = Len(workerQueue) + 1 /\ LiveToken(1))
      BY <2>1, <2>3, <2>4, <2>7, ResumeAppended
    <3>2. \A r : LiveAsked(r)' <=> LiveAsked(r)
      BY <2>1, <2>7 DEF LiveAsked
    <3>3. ASSUME NEW k, LiveToken(1) PROVE ~LiveToken(k)'
      BY <3>3, <2>5 DEF OneRequest
    <3> QED  BY <2>1, <2>5, <2>6, <3>1, <3>2, <3>3 DEF OneRequest
  <2>8. CASE workerQueue' = workerQueue /\ asked' = asked \cup {again}
    <3>1. \A r : LiveAsked(r)' <=> LiveAsked(r) \/ (r = again /\ LiveToken(1))
      BY <2>1, <2>3, <2>4, <2>8 DEF LiveAsked
    <3>2. \A k : LiveResume(k)' <=> LiveResume(k)
      BY <2>1, <2>8 DEF LiveResume, IsResume
    <3>3. ASSUME NEW k, LiveToken(1) PROVE ~LiveToken(k)'
      BY <3>3, <2>5 DEF OneRequest
    <3> QED  BY <2>1, <2>5, <2>6, <3>1, <3>2, <3>3 DEF OneRequest
  <2> QED  BY <2>1, <2>7, <2>8
<1>7. CASE StartStream
  <2>1. /\ state = "Stopped" /\ state' = "Starting"
        /\ asked' = asked \cup {request(close_count)}
        /\ UNCHANGED <<refreshing, mainQueue, workerQueue, close_count>>
    BY <1>7 DEF StartStream, Start
  <2>2. NoRequest
    BY <2>1 DEF OneRequest, NoRequest
  <2>3. \A r : LiveAsked(r)' => r = request(close_count)
    BY <2>1, <2>2 DEF LiveAsked, NoRequest
  <2>4. /\ \A f : ~LiveFetch(f)'
        /\ \A k : ~LiveToken(k)'
        /\ \A k : ~LiveResume(k)'
    BY <2>1, <2>2 DEF NoRequest, LiveFetch, LiveToken, LiveResume, IsToken, IsResume
  <2> QED  BY <2>1, <2>3, <2>4 DEF OneRequest
<1>8. CASE Resume
  <2>1. /\ workerQueue # <<>> /\ Head(workerQueue).kind = "resume"
        /\ workerQueue' = Tail(workerQueue)
        /\ UNCHANGED <<asked, refreshing, mainQueue, close_count>>
        /\ IF Head(workerQueue).close = close_count THEN TRUE ELSE state' = state
    BY <1>8 DEF Resume, sameStream
  <2>2. LiveResume(1) <=> Head(workerQueue).close = close_count
    BY <2>1, ResumeTaken
  <2>3. \A k : LiveResume(k)' => k \in Nat /\ k # 0 /\ LiveResume(k + 1)
    BY <2>1, ResumeTaken
  <2>4. /\ \A r : LiveAsked(r)' <=> LiveAsked(r)
        /\ \A f : LiveFetch(f)' <=> LiveFetch(f)
        /\ \A k : LiveToken(k)' <=> LiveToken(k)
    BY <2>1 DEF LiveAsked, LiveFetch, LiveToken, IsToken
  <2>5. CASE Head(workerQueue).close = close_count
    <3>1. ASSUME NEW k PROVE ~LiveResume(k)'
      BY <2>2, <2>3, <2>5 DEF OneRequest
    <3> QED  BY <2>2, <2>4, <2>5, <3>1 DEF OneRequest
  <2>6. CASE Head(workerQueue).close # close_count
    <3>1. \A j, k : LiveResume(j)' /\ LiveResume(k)' => j = k
      <4> SUFFICES ASSUME NEW j, NEW k, LiveResume(j)', LiveResume(k)' PROVE j = k
        OBVIOUS
      <4>1. j + 1 = k + 1 /\ j \in Nat /\ k \in Nat
        BY <2>3 DEF OneRequest
      <4> QED  BY <4>1
    <3>2. state' = state
      BY <2>1, <2>6
    <3> QED  BY <2>3, <2>4, <3>1, <3>2 DEF OneRequest
  <2> QED  BY <2>5, <2>6
<1>9. ASSUME close_count' = close_count + 1, UNCHANGED <<refreshing, mainQueue>>,
             \A k : IsResume(k)' => workerQueue'[k].close < close_count',
             \A r : r \in asked' => r \in asked \/ r = request(close_count'),
             state' = "Starting" \/ asked' = asked
      PROVE  OneRequest'
  <2>1. /\ \A r \in asked : r.close # close_count'
        /\ \A f \in refreshing : f.req.close # close_count'
        /\ \A k : IsToken(k) => mainQueue[k].req.close # close_count'
    <3>1. \A k : IsToken(k) => mainQueue[k].req \in Requests
      BY RecordTypes DEF TypeOK, IsToken
    <3> QED  BY <1>9, <3>1 DEF RequestsTimely, Timely, TypeOK, Requests
  <2>2. /\ \A f : ~LiveFetch(f)'
        /\ \A k : ~LiveToken(k)'
    BY <2>1, <1>9 DEF LiveFetch, LiveToken, IsToken
  <2>3. \A k : ~LiveResume(k)'
    <3>1. \A k : IsResume(k)' => workerQueue'[k].close \in Nat
      BY RecordTypes DEF TypeOK, IsResume
    <3>2. close_count' \in Nat
      BY DEF TypeOK
    <3> QED  BY <3>1, <3>2, <1>9 DEF LiveResume
  <2>4. \A r : LiveAsked(r)' => r = request(close_count') /\ state' = "Starting"
    BY <2>1, <1>9 DEF LiveAsked
  <2> QED  BY <2>2, <2>3, <2>4 DEF OneRequest
<1>10. CASE StreamCloses
  <2>1. /\ close_count' = close_count + 1
        /\ UNCHANGED <<asked, refreshing, mainQueue, workerQueue>>
    BY <1>10 DEF StreamCloses, nextCount
  <2>2. \A k : IsResume(k)' => workerQueue'[k].close < close_count'
    <3>1. \A k : IsResume(k) => workerQueue[k].close \in Nat
      BY RecordTypes DEF TypeOK, IsResume
    <3> QED  BY <2>1, <3>1 DEF RequestsTimely, Timely, TypeOK, IsResume
  <2> QED  BY <1>9, <2>1, <2>2
<1>11. CASE CredentialChange
  <2>1. /\ UNCHANGED <<refreshing, mainQueue>>
        /\ workerQueue # <<>> /\ workerQueue' = Tail(workerQueue)
        /\ close_count' = IF state \in {"Starting", "Open"} THEN close_count + 1
                                                             ELSE close_count
        /\ \/ state' = "Starting" /\ asked' = asked \cup {request(close_count')}
           \/ state' = "Stopped" /\ asked' = asked
    BY <1>11 DEF CredentialChange, restartStream, Start, nextCount
  <2>2. \A k : IsResume(k)' => IsResume(k + 1) /\ workerQueue'[k] = workerQueue[k + 1]
    BY <2>1, TailFacts DEF TypeOK, IsResume
  <2>3. CASE state \in {"Starting", "Open"}
    <3>1. \A k : IsResume(k)' => workerQueue'[k].close < close_count'
      <4>1. \A k : IsResume(k) => workerQueue[k].close \in Nat
        BY RecordTypes DEF TypeOK, IsResume
      <4>2. \A k : IsResume(k) => workerQueue[k].close < close_count + 1
        BY <4>1 DEF RequestsTimely, Timely, TypeOK
      <4> QED  BY <2>1, <2>2, <2>3, <4>2
    <3> QED  BY <1>9, <2>1, <2>3, <3>1
  <2>4. CASE state \notin {"Starting", "Open"}
    <3>1. NoRequest
      BY <2>4 DEF OneRequest, NoRequest
    <3>2. close_count' = close_count
      BY <2>1, <2>4
    <3>3. \A k : ~LiveResume(k)'
      BY <2>1, <2>2, <3>1, <3>2 DEF LiveResume, NoRequest
    <3>4. /\ \A f : ~LiveFetch(f)'
          /\ \A k : ~LiveToken(k)'
      BY <2>1, <3>1, <3>2 DEF LiveFetch, LiveToken, IsToken, NoRequest
    <3>5. \A r : LiveAsked(r)' => r = request(close_count') /\ state' = "Starting"
      BY <2>1, <3>1, <3>2 DEF LiveAsked, NoRequest
    <3> QED  BY <3>3, <3>4, <3>5 DEF OneRequest
  <2> QED  BY <2>3, <2>4
<1>12. CASE UNCHANGED vars
  <2>1. /\ \A r : LiveAsked(r)' <=> LiveAsked(r)
        /\ \A f : LiveFetch(f)' <=> LiveFetch(f)
        /\ \A k : LiveToken(k)' <=> LiveToken(k)
        /\ \A k : LiveResume(k)' <=> LiveResume(k)
    BY <1>12 DEF vars, LiveAsked, LiveFetch, LiveToken, LiveResume, IsToken, IsResume
  <2> QED  BY <1>12, <2>1 DEF vars, OneRequest
<1> QED  BY <1>1, <1>2, <1>3, <1>4, <1>5, <1>6, <1>7, <1>8, <1>10, <1>11, <1>12 DEF Next

\* ResumeStartWithCredentials finds the stream starting: a request is answered once,
\* although the provider may ask again for it, and closing the stream disowns it.
THEOREM ResumeIsExpected == Spec => []ResumeFindsStarting
<1>1. Init => IInv /\ OneRequest
  <2> SUFFICES ASSUME Init PROVE IInv /\ OneRequest
    OBVIOUS
  <2>1. (\A k : k \notin 1..Len(mainQueue)) /\ (\A k : k \notin 1..Len(workerQueue))
    BY DEF Init
  <2>2. IInv
    BY InitIInv
  <2> QED  BY <2>1, <2>2 DEF Init, OneRequest, LiveAsked, LiveFetch, LiveToken, LiveResume,
                             IsToken, IsResume
<1>2. IInv /\ OneRequest /\ TypeOK' /\ [Next]_vars => IInv' /\ OneRequest'
  BY IInvStep, OneRequestStep
<1>3. OneRequest => ResumeFindsStarting
  BY DEF OneRequest, ResumeFindsStarting, LiveResume, IsResume
<1> QED  BY <1>1, <1>2, <1>3, TypeCorrect, PTL DEF Spec

=============================================================================
