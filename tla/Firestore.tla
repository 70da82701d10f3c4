----------------------------- MODULE Firestore -----------------------------
(***************************************************************************)
(* The Firestore client as Quick Note uses it: setData, updateData, delete *)
(* and one-shot getDocuments on users/{email}/Notes.                       *)
(*                                                                         *)
(* A write is put in the mutation queue of the sync engine's user, on      *)
(* disk, and overlays the cached documents at once; the write stream       *)
(* commits the queue in order and its results move the documents into the  *)
(* cache.  A read listens: it is answered when the watch stream has        *)
(* brought the query up to date, or once the client believes itself        *)
(* offline, and stops listening when its closure runs.                     *)
(*                                                                         *)
(* The worker queue does one task at a time and each is one action here,   *)
(* except that the answers a task raises are steps of their own, done      *)
(* before the next task (see Idle).  What the main thread enqueues on the  *)
(* worker queue is done with the call: a worker task between the two reads *)
(* nothing the main thread writes, so it may as well come first.           *)
(***************************************************************************)
EXTENDS Integers, Sequences, FiniteSets, SequencesExt

CONSTANTS
    Users, NoteIds, Details, NoUser, Absent, MaxLoads,  \* as in NoteCollection
    MaxPipeline, \* kMaxPendingWrites: batches sent and not answered
    MaxWrites,   \* bound: setData, updateData and delete calls
    MaxCommits,  \* bound: versions of documents the server makes
    MaxChanges   \* bound: changes of the user or of its token

ASSUME NoUserAssumption == NoUser \notin Users
ASSUME AbsentAssumption == Absent \notin Details
ASSUME BoundsAssumption ==
    /\ MaxLoads \in Nat
    /\ MaxPipeline \in Nat \ {0}
    /\ MaxWrites \in Nat
    /\ MaxCommits \in Nat
    /\ MaxChanges \in Nat

VARIABLES
    user,       \* Auth.auth().currentUser?.email
    loads,      \* getDocuments calls made so far
    owner,      \* history: the account a UUID was ever used in
    mainQueue,  \* closures enqueued on the main thread, oldest first
    changes,    \* credential changes so far
    engineUser, \* SyncEngine.current_user_
    queue,      \* per user, the mutation queue on disk
    cache,      \* per account and UUID, the remote document cache on disk
    callbacks,  \* mutation_callbacks_: completions of setData
    writes,     \* batches so far: their ids
    views,      \* per account, its query: "none", "local", "synced", "failed"
    held,       \* per account and UUID, the text its query's View still shows in
                \* place of the local document, Absent if it shows the local one
    listeners,  \* per account, the reads listening to its query
    online,     \* OnlineStateTracker: "Unknown", "Online", "Offline"
    timer,      \* online_state_timer_ is set
    failed,     \* watch_stream_failures_ # 0
    watch,      \* the watch stream: "stopped", "starting", "open"
    inflight,   \* the consistent snapshot on its way on the watch stream
    writeOpen,  \* the write stream is open and its handshake done
    results,    \* versions committed whose results are on the write stream
    log,        \* the server's versions of documents, oldest first
    refused     \* history: batches the server refused

calls     == <<user, loads, owner, changes>>
localData == <<engineUser, queue, cache, callbacks, writes>>
reading   == <<views, held, listeners>>
tracker   == <<online, timer, failed>>
writing   == <<writeOpen, results>>
server    == <<log, refused>>
vars      == <<calls, mainQueue, localData, reading, tracker, watch, inflight,
               writing, server>>

-----------------------------------------------------------------------------

Accounts == Users \cup {NoUser}
Texts    == Details \cup {Absent}
Docs     == [NoteIds -> Texts]
NoDocs   == [i \in NoteIds |-> Absent]
NoView   == "none"
Nothing  == [u |-> NoUser, at |-> 0]
NoEntry  == [ver |-> 0, text |-> Absent, state |-> "synced"]

\* DocumentState in the cache: as the watch stream brought it, the outcome of a
\* write of this device that was acknowledged, or one known only to exist.
States   == {"synced", "committed", "unknown"}
NoTexts  == [u \in Users |-> NoDocs]

Batches  == [b : 1..MaxWrites, u : Users, id : NoteIds,
             op : {"set", "update", "delete"}, text : Texts]

\* The version of the document the server had after its first n commits, 0 when
\* there has been none.
VersionAt(u, id, n) ==
    Max({0} \cup {v \in 1..n : log[v].u = u /\ log[v].id = id})

TextOf(v)     == IF v = 0 THEN Absent ELSE log[v].text
Remote(u, id) == TextOf(VersionAt(u, id, Len(log)))
FreshId(id)   == owner[id] = NoUser

\* What a mutation makes of a document: an update is conditional on it.
mutated(text, batch) ==
    CASE batch.op = "set"    -> batch.text
      [] batch.op = "update" -> IF text = Absent THEN Absent ELSE batch.text
      [] batch.op = "delete" -> Absent

\* Faulty variant: the pending batches are not looked at.
CachedView(u) == [id \in NoteIds |-> cache[u][id].text]

\* A document with the first k of the batches laid over it, each on what those
\* before it have made of it.
laidOver(text, u, id, batches) ==
    LET after[k \in 0..Len(batches)] ==
            IF k = 0 THEN text
            ELSE IF batches[k].u = u /\ batches[k].id = id
                 THEN mutated(after[k - 1], batches[k])
                 ELSE after[k - 1]
    IN  after

\* The cached documents of an account with the pending batches laid over them.
LocalView(u) ==
    [id \in NoteIds |->
        laidOver(cache[u][id].text, u, id, queue[engineUser])[Len(queue[engineUser])]]

\* The batches that are laid over a document.
Pending(u, id) ==
    {k \in 1..Len(queue[engineUser]) :
        queue[engineUser][k].u = u /\ queue[engineUser][k].id = id}

\* The documents of the View of an account's query; those a new query would start
\* with if there is none.
Shown(u) ==
    [id \in NoteIds |-> IF held[u][id] # Absent THEN held[u][id] ELSE LocalView(u)[id]]

\* Faulty variant: the newest batch goes first.
PipelineNewestFirst == Reverse(queue[engineUser])

\* write_pipeline_: the oldest batches of the user, refilled whenever one leaves.
Pipeline ==
    SubSeq(queue[engineUser], 1,
           IF Len(queue[engineUser]) < MaxPipeline THEN Len(queue[engineUser])
                                                   ELSE MaxPipeline)

\* listen_targets_
Targets(v) == {u \in Users : v[u] \in {"local", "synced"}}

Waiting(u) == {k \in 1..Len(listeners[u]) : ~listeners[u][k].raised}

\* Faulty variant: only a query that is up to date or has failed is answered.
DueWhenOnline(u) == Waiting(u) # {} /\ views[u] \in {"failed", "synced"}

\* A listener is due when its query has failed, is up to date, or the client is
\* offline: ShouldRaiseInitialEvent with wait_for_sync_when_online.
Due(u) ==
    Waiting(u) # {} /\ (views[u] \in {"failed", "synced"} \/ online = "Offline")

\* No task has answers left to raise: the worker queue may take the next one.
Idle == \A u \in Users : ~Due(u)

Init ==
    /\ user \in Accounts
    /\ loads = 0
    /\ owner = [i \in NoteIds |-> NoUser]
    /\ mainQueue = <<>>
    /\ changes = 0
    /\ engineUser = user
    /\ queue = [u \in Accounts |-> <<>>]
    /\ cache = [u \in Users |-> [i \in NoteIds |-> NoEntry]]
    /\ callbacks = {}
    /\ writes = 0
    /\ views = [u \in Users |-> NoView]
    /\ held = NoTexts
    /\ listeners = [u \in Users |-> <<>>]
    /\ online = "Unknown" /\ timer = FALSE /\ failed = FALSE
    /\ watch = "stopped"
    /\ inflight = Nothing
    /\ writeOpen = FALSE /\ results = <<>>
    /\ log = <<>> /\ refused = {}

-----------------------------------------------------------------------------
(* OnlineStateTracker *)

\* Faulty variant: the timer of an earlier attempt keeps running.
UpdateStateOnly(state) ==
    online' = state /\ failed' = FALSE /\ UNCHANGED timer

UpdateState(state) ==
    online' = state /\ failed' = FALSE /\ timer' = FALSE

\* HandleWatchStreamStart after the state was last updated: the timer is started.
AwaitOnline ==
    online' = "Unknown" /\ failed' = FALSE /\ timer' = TRUE

\* HandleWatchStreamFailure, then HandleWatchStreamStart for the next attempt: a
\* stream that was healthy gets its time again, otherwise one failure is enough.
HandleWatchStreamFailure ==
    IF online = "Online"
    THEN AwaitOnline
    ELSE online' = "Offline" /\ failed' = TRUE /\ timer' = FALSE

\* View::ApplyOnlineStateChange: offline, no query counts as up to date.
ViewsWhen(state) ==
    [u \in Users |-> IF state = "Offline" /\ views[u] = "synced" THEN "local" ELSE views[u]]

-----------------------------------------------------------------------------
(* View: what it shows after the cache or a queue has changed *)

\* ShouldWaitForSyncedDocument: the View shows a document with local mutations and
\* now gets one without, that a write of this device has made of it.
ShouldWait(u, id) ==
    /\ held[u][id] # Absent \/ Pending(u, id) # {}
    /\ Pending(u, id)' = {}
    /\ cache'[u][id].state = "committed"

\* ComputeDocumentChanges for one document of a query that has a View: a document
\* held back stays as it was, until it is gone or the watch stream brings it.
computed(u, id) ==
    IF /\ u \in Targets(views)
       /\ Shown(u)[id] # Absent /\ LocalView(u)'[id] # Absent
       /\ ShouldWait(u, id)
    THEN Shown(u)[id]
    ELSE Absent

\* The Views get the documents that have changed; for the others this is no change.
EmitNewSnapshots ==
    held' = [u \in Users |-> [id \in NoteIds |-> computed(u, id)]]

-----------------------------------------------------------------------------
(* Writes *)

\* WriteLocally, then FillWritePipeline.  Pending documents are shown as they are.
WriteMutations(batch) ==
    /\ writes' = batch.b
    /\ queue' = [queue EXCEPT ![engineUser] = Append(@, batch)]
    /\ held' = [held EXCEPT ![batch.u][batch.id] = Absent]
    /\ UNCHANGED <<user, loads, changes, mainQueue, engineUser, cache, views, listeners,
                   tracker, watch, inflight, writing, server>>

Batch(id, op, text) ==
    [b |-> writes + 1, u |-> user, id |-> id, op |-> op, text |-> text]

\* AddNoteViewController: a new UUID, with a completion.
SetData(id, text) ==
    /\ Idle /\ user # NoUser /\ writes < MaxWrites
    /\ FreshId(id)
    /\ WriteMutations(Batch(id, "set", text))
    /\ owner' = [owner EXCEPT ![id] = user]
    /\ callbacks' = callbacks \cup {[q |-> engineUser, b |-> writes + 1, id |-> id]}

\* DetailViewController, of a note it can show.
UpdateData(id, text) ==
    /\ Idle /\ user # NoUser /\ writes < MaxWrites
    /\ LocalView(user)[id] # Absent
    /\ WriteMutations(Batch(id, "update", text))
    /\ UNCHANGED <<owner, callbacks>>

DeleteDocument(id) ==
    /\ Idle /\ user # NoUser /\ writes < MaxWrites
    /\ LocalView(user)[id] # Absent
    /\ WriteMutations(Batch(id, "delete", Absent))
    /\ UNCHANGED <<owner, callbacks>>

\* OnWriteStreamHandshakeComplete: the pipeline is sent.
WriteStreamOpens ==
    /\ Idle /\ ~writeOpen
    /\ Pipeline # <<>>
    /\ writeOpen' = TRUE
    /\ UNCHANGED <<calls, mainQueue, localData, reading, tracker, watch, inflight,
                   results, server>>

\* The server commits the next batch it was sent and sends the result.
ServerCommits ==
    /\ writeOpen
    /\ Len(results) < Len(Pipeline)
    /\ Len(log) < MaxCommits
    /\ LET batch == Pipeline[Len(results) + 1]
       IN  /\ batch.op = "update" => Remote(batch.u, batch.id) # Absent
           /\ log' = Append(log, [u |-> batch.u, id |-> batch.id, q |-> engineUser,
                                  b |-> batch.b,
                                  text |-> mutated(Remote(batch.u, batch.id), batch)])
           /\ results' = Append(results, Len(log'))
    /\ UNCHANGED <<calls, mainQueue, localData, reading, tracker, watch, inflight,
                   writeOpen, refused>>

\* NotifyUser: the completion of the batch, if this process still has it.
NotifyUser(batch, ok) ==
    LET mine == {c \in callbacks : c.q = engineUser /\ c.b = batch.b}
    IN  /\ callbacks' = callbacks \ mine
        /\ mainQueue' =
             IF mine = {} THEN mainQueue
             ELSE Append(mainQueue, [kind |-> "written", id |-> batch.id,
                                     b |-> batch.b, ok |-> ok])

\* Faulty variant: the version is not recorded.
committedUnversioned(entry, batch, v) ==
    [entry EXCEPT !.text = mutated(@, batch),
                  !.state = IF batch.op = "update" /\ entry.text = Absent
                            THEN "unknown" ELSE "committed"]

\* What the cache makes of a batch the server committed: an update of a document
\* it does not have leaves one that exists and is not known.
committed(entry, batch, v) ==
    [ver |-> v, text |-> mutated(entry.text, batch),
     state |-> IF batch.op = "update" /\ entry.text = Absent
               THEN "unknown" ELSE "committed"]

\* ApplyBatchResult: unless the watch stream brought this version or a newer one.
acknowledged(entry, batch, v) ==
    IF entry.ver < v THEN committed(entry, batch, v) ELSE entry

\* OnWriteStreamMutationResult
MutationResult ==
    /\ Idle
    /\ results # <<>>
    /\ LET batch == Head(Pipeline)
       IN  /\ NotifyUser(batch, TRUE)
           /\ cache' = [cache EXCEPT ![batch.u][batch.id] =
                            acknowledged(@, batch, Head(results))]
           /\ queue' = [queue EXCEPT ![engineUser] = Tail(@)]
    /\ results' = Tail(results)
    /\ UNCHANGED <<calls, engineUser, writes, views, listeners, tracker, watch, inflight,
                   writeOpen, server>>
    /\ EmitNewSnapshots

\* OnWriteStreamClose with a permanent error: the oldest batch is given up, after
\* the results sent before it.  An update of a document that is gone is one case,
\* the server's rules are another.
WriteRefused ==
    /\ Idle /\ writeOpen
    /\ results = <<>> /\ Pipeline # <<>>
    /\ NotifyUser(Head(Pipeline), FALSE)
    /\ refused' = refused \cup {Head(Pipeline).b}
    /\ queue' = [queue EXCEPT ![engineUser] = Tail(@)]
    /\ writeOpen' = FALSE
    /\ UNCHANGED <<calls, engineUser, cache, writes, views, listeners, tracker, watch,
                   inflight, results, log>>
    /\ EmitNewSnapshots

\* Faulty variant: the batch that was being written is given up.
givenUp(batches) == IF batches = <<>> THEN <<>> ELSE Tail(batches)

\* Whatever is not permanent is retried: nothing leaves the queue.
retried(batches) == batches

\* OnWriteStreamClose otherwise, or idle: results on their way are lost, and the
\* server will be sent the batches again.
WriteStreamCloses ==
    /\ Idle /\ writeOpen
    /\ writeOpen' = FALSE
    /\ results' = <<>>
    /\ queue' = [queue EXCEPT ![engineUser] = retried(@)]
    /\ UNCHANGED <<calls, mainQueue, engineUser, cache, callbacks, writes, reading,
                   tracker, watch, inflight, server>>

-----------------------------------------------------------------------------
(* Reads *)

\* GetDocuments, AddQueryListener: the first listener of a query starts it, and the
\* watch stream if it is not started; a later one joins whatever there is.
GetDocuments ==
    /\ Idle
    /\ user # NoUser
    /\ loads < MaxLoads
    /\ loads' = loads + 1
    /\ listeners' = [listeners EXCEPT ![user] =
                        Append(@, [n |-> loads + 1, raised |-> FALSE])]
    /\ IF views[user] = NoView
       THEN views' = [views EXCEPT ![user] = "local"]
       ELSE UNCHANGED views
    /\ UNCHANGED held
    /\ IF watch = "stopped"
       THEN watch' = "starting" /\ AwaitOnline
       ELSE UNCHANGED <<watch, tracker>>
    /\ UNCHANGED <<user, owner, changes, mainQueue, localData, inflight, writing, server>>

\* OnWatchStreamOpen
WatchStreamOpens ==
    /\ Idle
    /\ watch = "starting"
    /\ watch' = "open"
    /\ UNCHANGED <<calls, mainQueue, localData, reading, tracker, inflight, writing, server>>

\* OnWatchStreamClose: retried while there are targets, otherwise (idle or not)
\* the stream rests.
WatchStreamCloses ==
    /\ Idle
    /\ watch # "stopped"
    /\ inflight' = Nothing
    /\ IF Targets(views) # {}
       THEN /\ watch' = "starting"
            /\ HandleWatchStreamFailure
            /\ views' = ViewsWhen(online')
       ELSE /\ watch' = "stopped"
            /\ UpdateState("Unknown")
            /\ UNCHANGED views
    /\ UNCHANGED <<calls, mainQueue, localData, held, listeners, writing, server>>

\* The 10 seconds of kOnlineStateTimeout are over.
OnlineStateTimeout ==
    /\ Idle
    /\ timer
    /\ timer' = FALSE
    /\ online' = "Offline"
    /\ views' = ViewsWhen("Offline")
    /\ UNCHANGED <<calls, mainQueue, localData, held, listeners, failed, watch, inflight,
                   writing, server>>

\* OnWatchStreamChange: any message proves that the client is online.
WatchMessage ==
    /\ Idle
    /\ watch = "open" /\ Targets(views) # {}
    /\ online # "Online"
    /\ UpdateState("Online")
    /\ UNCHANGED <<calls, mainQueue, localData, reading, watch, inflight, writing, server>>

\* The server sends a consistent snapshot of an account's query.
ServerSendsSnapshot(u) ==
    /\ watch = "open" /\ u \in Targets(views)
    /\ inflight = Nothing
    /\ inflight' = [u |-> u, at |-> Len(log)]
    /\ UNCHANGED <<calls, mainQueue, localData, reading, tracker, watch, writing, server>>

\* Faulty variant: what the watch stream brings replaces what the cache holds.
populatedAlways(entry, v) == [ver |-> v, text |-> TextOf(v), state |-> "synced"]

\* PopulateDocumentChanges: an older version than the one in the cache is ignored,
\* and so is the same one unless the cache has it from a write.
populated(entry, v) ==
    IF v > entry.ver \/ (v = entry.ver /\ entry.state # "synced")
    THEN [ver |-> v, text |-> TextOf(v), state |-> "synced"]
    ELSE entry

\* RaiseWatchSnapshot, ApplyRemoteEvent: the query is up to date.
WatchSnapshot ==
    /\ Idle
    /\ inflight # Nothing
    /\ inflight' = Nothing
    /\ UpdateState("Online")
    /\ views' = [views EXCEPT ![inflight.u] = "synced"]
    /\ cache' = [cache EXCEPT ![inflight.u] =
                    [id \in NoteIds |->
                        populated(@[id], VersionAt(inflight.u, id, inflight.at))]]
    /\ UNCHANGED <<calls, mainQueue, engineUser, queue, callbacks, writes, listeners,
                   watch, writing, server>>
    /\ EmitNewSnapshots

\* Faulty variant: what is on its way for a query that has ended is still applied.
inflightStill(u) == inflight

\* Changes of a target that is no longer active are dropped.
inflightWithout(u) == IF inflight.u = u THEN Nothing ELSE inflight

\* ProcessTargetError, HandleRejectedListen: the server refuses the query.
TargetError(u) ==
    /\ Idle
    /\ watch = "open" /\ u \in Targets(views)
    /\ UpdateState("Online")
    /\ inflight' = inflightWithout(u)
    /\ held' = [held EXCEPT ![u] = NoDocs]
    /\ IF Waiting(u) # {}
       THEN /\ views' = [views EXCEPT ![u] = "failed"]
            /\ UNCHANGED listeners
       ELSE /\ views' = [views EXCEPT ![u] = NoView]
            /\ listeners' = [listeners EXCEPT ![u] = <<>>]
    /\ UNCHANGED <<calls, mainQueue, localData, watch, writing, server>>

\* Faulty variant: the newest listener is served first.
lastListener(u) == Max(Waiting(u))

\* The listeners of a query are served in the order they were added.
nextListener(u) == Min(Waiting(u))

\* OnEvent of the oldest listener that is due: its closure is enqueued on the main
\* queue.  After an error the listeners are gone, otherwise they stay until they
\* stop listening, and what they hear meanwhile is muted.
RaiseEvent(u) ==
    /\ Due(u)
    /\ LET k  == nextListener(u)
           ok == views[u] # "failed"
       IN  /\ mainQueue' =
                Append(mainQueue,
                       [kind |-> "answer", ok |-> ok,
                        read |-> [n |-> listeners[u][k].n, user |-> u],
                        docs |-> IF ok THEN Shown(u) ELSE NoDocs])
           /\ IF ok \/ Waiting(u) # {k}
              THEN /\ listeners' = [listeners EXCEPT ![u][k].raised = TRUE]
                   /\ UNCHANGED views
              ELSE /\ listeners' = [listeners EXCEPT ![u] = <<>>]
                   /\ views' = [views EXCEPT ![u] = NoView]
    /\ UNCHANGED <<calls, localData, held, tracker, watch, inflight, writing, server>>

\* QueryListenersInfo::Erase: the listener of this read, if it is still there.
Erase(l, read) ==
    LET places == {k \in 1..Len(l) : l[k].n = read.n}
    IN  IF places = {} THEN l ELSE RemoveAt(l, Min(places))

\* ListenerRegistration::Remove, RemoveQueryListener: the last listener of a query
\* ends it, and without targets nothing keeps the client offline.
RemoveListener(read) ==
    LET u    == read.user
        left == Erase(listeners[u], read)
    IN  /\ listeners' = [listeners EXCEPT ![u] = left]
        /\ IF left = <<>> /\ listeners[u] # <<>>
           THEN /\ views' = [views EXCEPT ![u] = NoView]
                /\ held' = [held EXCEPT ![u] = NoDocs]
                /\ inflight' = inflightWithout(u)
                /\ IF watch = "open" \/ Targets(views') # {}
                   THEN UNCHANGED tracker
                   ELSE UpdateState("Unknown")
           ELSE UNCHANGED <<views, held, inflight, tracker>>

-----------------------------------------------------------------------------
(* The main queue *)

\* The closure of getDocuments: the listener is removed first.
TakeAnswer ==
    /\ Head(mainQueue).kind = "answer"
    /\ RemoveListener(Head(mainQueue).read)
    /\ UNCHANGED <<calls, localData, watch, writing, server>>

\* The completion of setData.
TakeWritten ==
    /\ Head(mainQueue).kind = "written"
    /\ UNCHANGED <<calls, localData, reading, tracker, watch, inflight, writing, server>>

\* RestartNetwork: both streams are stopped, and started again where needed.
RestartNetwork ==
    /\ inflight' = Nothing
    /\ writeOpen' = FALSE
    /\ results' = <<>>
    /\ IF Targets(views) # {}
       THEN watch' = "starting" /\ AwaitOnline
       ELSE watch' = "stopped" /\ UpdateState("Unknown")

\* Faulty variant: the batches of the old user are dropped.
queuesDropped(u) == IF u = engineUser THEN queue ELSE [queue EXCEPT ![engineUser] = <<>>]

\* HandleUserChange: every user keeps its own mutation queue.
queuesKept(u) == queue

\* The notification of FIRAuth, HandleCredentialChange.
TakeCredential ==
    /\ Head(mainQueue).kind = "credential"
    /\ engineUser' = Head(mainQueue).user
    /\ queue' = queuesKept(engineUser')
    /\ RestartNetwork
    /\ UNCHANGED <<calls, cache, callbacks, writes, views, listeners, server>>
    /\ EmitNewSnapshots

MainQueueRuns ==
    /\ Idle
    /\ mainQueue # <<>>
    /\ mainQueue' = Tail(mainQueue)
    /\ TakeAnswer \/ TakeWritten \/ TakeCredential

-----------------------------------------------------------------------------
(* The environment *)

\* FIRAuth: another user, none, or a new token of the same one.  The sync engine
\* hears of it through the main queue.
CredentialChange(u) ==
    /\ changes < MaxChanges
    /\ changes' = changes + 1
    /\ user' = u
    /\ mainQueue' = Append(mainQueue, [kind |-> "credential", user |-> u])
    /\ UNCHANGED <<loads, owner, localData, reading, tracker, watch, inflight, writing,
                   server>>

\* The callback of the ConnectivityMonitor.
ConnectivityChange ==
    /\ Idle
    /\ changes < MaxChanges
    /\ changes' = changes + 1
    /\ RestartNetwork
    /\ UNCHANGED <<user, loads, owner, mainQueue, localData, reading, server>>

\* Another device of the account creates, edits or deletes a note.
OtherDevice(u, id, text) ==
    /\ Len(log) < MaxCommits
    /\ IF Remote(u, id) = Absent THEN FreshId(id) /\ text # Absent ELSE TRUE
    /\ log' = Append(log, [u |-> u, id |-> id, q |-> NoUser, b |-> 0, text |-> text])
    /\ owner' = [owner EXCEPT ![id] = u]
    /\ UNCHANGED <<user, loads, changes, mainQueue, localData, reading, tracker, watch,
                   inflight, writing, refused>>

\* The process ends: what is on disk and in the keychain is left.
Terminate ==
    /\ mainQueue' = <<>>
    /\ engineUser' = user
    /\ callbacks' = {}
    /\ views' = [u \in Users |-> NoView]
    /\ held' = NoTexts
    /\ listeners' = [u \in Users |-> <<>>]
    /\ UpdateState("Unknown")
    /\ watch' = "stopped"
    /\ inflight' = Nothing
    /\ writeOpen' = FALSE
    /\ results' = <<>>
    /\ UNCHANGED <<calls, queue, cache, writes, server>>

Next ==
    \/ \E id \in NoteIds, text \in Details : SetData(id, text) \/ UpdateData(id, text)
    \/ \E id \in NoteIds : DeleteDocument(id)
    \/ WriteStreamOpens
    \/ ServerCommits
    \/ MutationResult
    \/ WriteRefused
    \/ WriteStreamCloses
    \/ GetDocuments
    \/ WatchStreamOpens
    \/ WatchStreamCloses
    \/ OnlineStateTimeout
    \/ WatchMessage
    \/ \E u \in Users : ServerSendsSnapshot(u) \/ TargetError(u)
    \/ WatchSnapshot
    \/ \E u \in Users : RaiseEvent(u)
    \/ MainQueueRuns
    \/ \E u \in Accounts : CredentialChange(u)
    \/ ConnectivityChange
    \/ \E u \in Users, id \in NoteIds, text \in Texts : OtherDevice(u, id, text)
    \/ Terminate

Spec == Init /\ [][Next]_vars

\* The worker queue and the main queue keep running, and so does the clock.  An
\* attempt at the watch stream ends one way or the other, and for ever the other
\* way if the network is gone.  On a stream that is open again and again a snapshot
\* is sent and received some day: only for this is fairness strong.
WatchAttemptEnds ==
    online # "Offline" /\ watch = "starting" /\ (WatchStreamOpens \/ WatchStreamCloses)

Fairness ==
    /\ \A u \in Users :
        /\ WF_vars(RaiseEvent(u))
        /\ SF_vars(ServerSendsSnapshot(u))
    /\ SF_vars(WatchSnapshot)
    /\ WF_vars(WatchAttemptEnds)
    /\ WF_vars(OnlineStateTimeout)
    /\ WF_vars(MainQueueRuns)

FairSpec == Spec /\ Fairness

-----------------------------------------------------------------------------
(* The contract *)

Unanswered ==
    UNION {{[n |-> listeners[u][k].n, user |-> u] : k \in Waiting(u)} : u \in Users}

IsAnswer(closure) == closure.kind = "answer"
AnswerOf(closure) == [read |-> closure.read, ok |-> closure.ok, docs |-> closure.docs]

\* The answers among the first k closures, oldest first.
answersAmong(closures) ==
    LET upTo[k \in 0..Len(closures)] ==
            IF k = 0 THEN <<>>
            ELSE IF IsAnswer(closures[k])
                 THEN Append(upTo[k - 1], AnswerOf(closures[k]))
                 ELSE upTo[k - 1]
    IN  upTo

AnswersRaised == answersAmong(mainQueue)[Len(mainQueue)]

AddsUnanswered ==
    {c.id : c \in callbacks}
        \cup {c.id : c \in {d \in ToSet(mainQueue) : d.kind = "written"}}

Contract == INSTANCE NoteCollection
    WITH store     <- [u \in Users |-> Shown(u)],
         adds      <- AddsUnanswered,
         waiting   <- Unanswered,
         mainQueue <- AnswersRaised

-----------------------------------------------------------------------------
(* Properties *)

\* Types; each account's query is watched exactly while it has listeners, and the
\* watch stream is started whenever a query is.
TypeOK ==
    /\ user \in Accounts /\ engineUser \in Accounts
    /\ loads \in 0..MaxLoads /\ writes \in 0..MaxWrites /\ changes \in 0..MaxChanges
    /\ owner \in [NoteIds -> Accounts]
    /\ \A u \in Accounts : ToSet(queue[u]) \subseteq Batches
    /\ cache \in [Users -> [NoteIds -> [ver : 0..Len(log), text : Texts, state : States]]]
    /\ callbacks \subseteq [q : Accounts, b : 1..writes, id : NoteIds]
    /\ views \in [Users -> {NoView, "local", "synced", "failed"}]
    /\ held \in [Users -> Docs]
    /\ \A u \in Users : (views[u] = NoView) <=> (listeners[u] = <<>>)
    /\ online \in {"Unknown", "Online", "Offline"}
    /\ timer \in BOOLEAN /\ failed \in BOOLEAN /\ writeOpen \in BOOLEAN
    /\ watch \in {"stopped", "starting", "open"}
    /\ Targets(views) # {} => watch # "stopped"
    /\ inflight # Nothing => watch = "open" /\ inflight.u \in Targets(views)
    /\ results # <<>> => writeOpen /\ Len(results) <= Len(Pipeline)

\* The client keeps the promises of NoteCollection: a call shows in the documents
\* at once and survives the process, every read is answered once, in order and
\* with what its View shows at that moment, which the end of the read changes in
\* texts only, and no UUID changes its account, whatever the streams, the server,
\* the user and the process do in between.
ImplementsContract == Contract!CollectionSpec

\* The assertions of OnlineStateTracker: the timer runs only while the state is
\* Unknown and no attempt has failed, and none of it is left once the client is
\* Online or its watch stream at rest.
TrackerAssertions ==
    /\ timer => online = "Unknown" /\ ~failed
    /\ online = "Online" => ~timer /\ ~failed
    /\ watch = "stopped" => online = "Unknown" /\ ~timer /\ ~failed

Committed(b) == \E v \in 1..Len(log) : log[v].b = b

\* No write is lost: it is in a queue, or the server has committed or refused it,
\* and the completion of setData reports success only of a note the server has
\* and failure only of one it refused, through lost results, retries, a change of
\* user and a restart.
WritesSurvive ==
    /\ \A b \in 1..writes :
        \/ \E u \in Accounts : \E k \in 1..Len(queue[u]) : queue[u][k].b = b
        \/ Committed(b)
        \/ b \in refused
    /\ \A k \in 1..Len(mainQueue) :
        mainQueue[k].kind = "written" =>
            IF mainQueue[k].ok THEN Committed(mainQueue[k].b)
                               ELSE mainQueue[k].b \in refused

\* Once no write to a note is pending, the last version this device made of it is
\* that of the last call the server did not refuse, although batches whose results
\* were lost are committed a second time.
LastCallWins ==
    \A u \in Users, id \in NoteIds :
        LET pending == {k \in 1..Len(queue[u]) : queue[u][k].u = u /\ queue[u][k].id = id}
            own     == {v \in 1..Len(log) :
                            /\ log[v].q = u /\ log[v].u = u /\ log[v].id = id
                            /\ log[v].b \notin refused}
        IN  pending = {} /\ own # {} =>
                \A v \in own : log[v].b <= log[Max(own)].b

\* A cached document is what the server had at the version it is cached under,
\* whichever of the two streams brought it, or is not in the cache at all when all
\* the client knows is that an update of it succeeded.
CacheIsServerVersion ==
    \A u \in Users, id \in NoteIds :
        LET entry == cache[u][id]
        IN  /\ entry.text = IF entry.state # "unknown" THEN TextOf(entry.ver) ELSE Absent
            /\ entry.ver > 0 => log[entry.ver].u = u /\ log[entry.ver].id = id

\* The cache never goes back to an older version: a snapshot sent before a write
\* was acknowledged does not undo it.
CacheMovesForward ==
    [][\A u \in Users, id \in NoteIds : cache'[u][id].ver >= cache[u][id].ver]_cache

\* Every getDocuments is answered, or the process ends: the watch stream, the
\* online state timer and the listeners' rule never leave a read waiting on each
\* other.
EveryReadIsRaised ==
    \A n \in 1..MaxLoads :
        (\E r \in Unanswered : r.n = n) ~> ~(\E r \in Unanswered : r.n = n)

=============================================================================
