----------------------------- MODULE NoteDetail -----------------------------
(***************************************************************************)
(* The attachment half of the detail screen: DetailViewController          *)
(* downloads the object its note names to a file named after the object,   *)
(* and its completion shows what that file holds.                          *)
(*                                                                         *)
(* All downloads of one object, by this screen or an earlier one that is   *)
(* gone, end in the same file.  Firebase Storage takes the bytes from the  *)
(* server, puts the finished download in the file's place on the fetchers' *)
(* one serial queue, and only later runs the completion on the main        *)
(* thread, which reads the file anew.                                      *)
(***************************************************************************)
EXTENDS Naturals, Sequences

CONSTANTS
    Paths,       \* the paths notes name objects by (Note.doc)
    Shown,       \* those whose name ends in pdf or png
    Contents,    \* what an object may hold
    NoDoc,       \* note.doc is "", no object, no file
    MaxScreens   \* bound: detail screens pushed

ASSUME ShownAssumption      == Shown \subseteq Paths
ASSUME NoDocNoteAssumption  == NoDoc \notin Paths \cup Contents
ASSUME MaxScreensAssumption == MaxScreens \in Nat

VARIABLES
    objects,   \* Firebase Storage: path to content
    files,     \* the documents directory: path to content
    opened,    \* detail screens pushed so far; each is a controller of its own
    top,       \* the one on screen, 0 for none
    doc,       \* note.doc, per controller
    display,   \* noteImage and viewForPDF, per controller
    downloads, \* downloads the fetcher has not finished, with the bytes got so far
    mainQueue, \* finished ones whose completion has not run
    outcome,   \* history: how the download of a controller went
    held,      \* history: what its object held since the controller was opened
    under,     \* history: what unfinished downloads of the object had got by then
    lost       \* history: controllers whose file was removed before they read it

cloud   == <<objects, files>>
stack   == <<opened, top, doc, display>>
history == <<outcome, held, under, lost>>
vars    == <<cloud, stack, downloads, mainQueue, history>>

-----------------------------------------------------------------------------

Screens   == 1..MaxScreens
Downloads == [screen : Screens, got : Contents \cup {NoDoc}]
Answers   == [screen : Screens, ok : BOOLEAN]

\* Both views as the storyboard has them, and both hidden.
Undecided == "undecided"
Hidden    == "hidden"

ASSUME DisplayAssumption == Contents \cap {Undecided, Hidden} = {}

Of(path) == {d \in downloads : doc[d.screen] = path}

\* The controllers told that their file is there and that have not read it.
Unread(path) ==
    {mainQueue[k].screen : k \in {j \in 1..Len(mainQueue) :
                                     mainQueue[j].ok /\ doc[mainQueue[j].screen] = path}}

Init ==
    /\ objects \in [Paths -> Contents \cup {NoDoc}]
    /\ files = [p \in Paths |-> NoDoc]
    /\ opened = 0
    /\ top = 0
    /\ doc = [s \in Screens |-> NoDoc]
    /\ display = [s \in Screens |-> Undecided]
    /\ downloads = {}
    /\ mainQueue = <<>>
    /\ outcome = [s \in Screens |-> "none"]
    /\ held = [s \in Screens |-> {}]
    /\ under = [s \in Screens |-> {}]
    /\ lost = {}

-----------------------------------------------------------------------------
(* The screen *)

\* Faulty variant: the file of an earlier download is removed first.
clearFile(path) == files' = [files EXCEPT ![path] = NoDoc]

\* The file of an earlier download stays until this one is there.
keepFile(path) == UNCHANGED files

\* viewDidLoad of a note without attachment: both views are hidden.
viewDidLoadPlain ==
    /\ display' = [display EXCEPT ![opened'] = Hidden]
    /\ UNCHANGED <<cloud, doc, downloads, mainQueue, history>>

\* viewDidLoad of a note with one: docRef.write(toFile:), its task enqueued.
viewDidLoadAttached(path) ==
    /\ doc' = [doc EXCEPT ![opened'] = path]
    /\ downloads' = downloads \cup {[screen |-> opened', got |-> NoDoc]}
    /\ keepFile(path)
    /\ outcome' = [outcome EXCEPT ![opened'] = "waiting"]
    /\ held' = [held EXCEPT ![opened'] = {objects[path]}]
    /\ under' = [under EXCEPT ![opened'] = {d.got : d \in Of(path)}]
    /\ UNCHANGED <<objects, display, mainQueue, lost>>

\* Home pushes a controller.
SelectRow(path) ==
    /\ top = 0
    /\ opened < MaxScreens
    /\ opened' = opened + 1
    /\ top' = opened'
    /\ IF path = NoDoc THEN viewDidLoadPlain ELSE viewDidLoadAttached(path)

\* Back, a delete or a route: the controller lives on in its completion.
Popped ==
    /\ top # 0
    /\ top' = 0
    /\ UNCHANGED <<cloud, opened, doc, display, downloads, mainQueue, history>>

\* Read the file; an image or a PDF is shown on `self', the controller the download
\* was made by; anything else hides both views.
showFile(s) ==
    LET path == doc[s]
    IN  display' = IF files[path] = NoDoc THEN display
                   ELSE [display EXCEPT ![s] =
                            IF path \in Shown THEN files[path] ELSE Hidden]

\* The completion of write(toFile:); an error is only printed.
RunCompletion ==
    /\ mainQueue # <<>>
    /\ mainQueue' = Tail(mainQueue)
    /\ LET s == Head(mainQueue).screen
       IN  IF Head(mainQueue).ok
           THEN showFile(s) /\ outcome' = [outcome EXCEPT ![s] = "ok"]
           ELSE UNCHANGED display /\ outcome' = [outcome EXCEPT ![s] = "error"]
    /\ UNCHANGED <<cloud, opened, top, doc, downloads, held, under, lost>>

-----------------------------------------------------------------------------
(* Firebase Storage *)

\* An upload, of this device or another one, replaces an object: see AddNote.
StoreObject(path, content) ==
    /\ objects' = [objects EXCEPT ![path] = content]
    /\ held' = [s \in Screens |-> IF doc[s] = path THEN held[s] \cup {content} ELSE held[s]]
    /\ UNCHANGED <<files, stack, downloads, mainQueue, outcome, under, lost>>

\* The bytes arrive, as the object is now.
Receive(d) ==
    /\ d.got = NoDoc
    /\ objects[doc[d.screen]] # NoDoc
    /\ downloads' = (downloads \ {d}) \cup {[d EXCEPT !.got = objects[doc[d.screen]]]}
    /\ UNCHANGED <<cloud, stack, mainQueue, history>>

\* Faulty variant: only a success is observed.
firedOnSuccess(s, ok) ==
    IF ok THEN Append(mainQueue, [screen |-> s, ok |-> ok]) ELSE mainQueue

\* The observers of success and of failure hand the completion to the main queue.
fired(s, ok) == Append(mainQueue, [screen |-> s, ok |-> ok])

Finish(d, ok) ==
    /\ downloads' = downloads \ {d}
    /\ mainQueue' = fired(d.screen, ok)
    /\ UNCHANGED <<objects, stack, outcome, held, under>>

\* Faulty variant: the move is refused by a file in its place.
moveOver(path, content) == IF files[path] = NoDoc THEN content ELSE files[path]

\* The previous file has been removed, the download takes its place.
moveTo(path, content) == content

\* didFinishDownloadingToURL: the previous file is removed, the download moved.
Saved(d) ==
    /\ d.got # NoDoc
    /\ files' = [files EXCEPT ![doc[d.screen]] = moveTo(doc[d.screen], d.got)]
    /\ Finish(d, TRUE)
    /\ UNCHANGED lost

removeFile(path) ==
    /\ files' = [files EXCEPT ![path] = NoDoc]
    /\ lost' = lost \cup Unread(path)

\* The same when the move fails, or when the server answered with an error
\* status: the previous file is removed all the same.
Refused(d) ==
    /\ removeFile(doc[d.screen])
    /\ Finish(d, FALSE)

\* No answer at all: the file stays.
Failed(d) ==
    /\ Finish(d, FALSE)
    /\ UNCHANGED <<files, lost>>

\* A status or an error worth another try: the download starts again.
Retried(d) ==
    /\ downloads' = (downloads \ {d}) \cup {[d EXCEPT !.got = NoDoc]}
    /\ removeFile(doc[d.screen]) \/ UNCHANGED <<files, lost>>
    /\ UNCHANGED <<objects, stack, mainQueue, outcome, held, under>>

\* Faulty variant: the tasks go on in a session of the system.
tasksGoOn == downloads

\* The fetchers use no background session: the tasks end with the process.
tasksLeft == {}

\* The process ends: the files stay.
Terminate ==
    /\ top' = 0
    /\ doc' = [s \in Screens |-> NoDoc]
    /\ display' = [s \in Screens |-> Undecided]
    /\ downloads' = tasksLeft
    /\ mainQueue' = <<>>
    /\ outcome' = [s \in Screens |-> "none"]
    /\ held' = [s \in Screens |-> {}]
    /\ under' = [s \in Screens |-> {}]
    /\ lost' = {}
    /\ UNCHANGED <<cloud, opened>>

Next ==
    \/ \E path \in Paths \cup {NoDoc} : SelectRow(path)
    \/ Popped
    \/ RunCompletion
    \/ \E path \in Paths, content \in Contents : StoreObject(path, content)
    \/ \E d \in downloads : Receive(d)
    \/ \E d \in downloads : Saved(d)
    \/ \E d \in downloads : Refused(d)
    \/ \E d \in downloads : Failed(d)
    \/ \E d \in downloads : Retried(d)
    \/ Terminate

Spec == Init /\ [][Next]_vars

\* A download is not retried for ever: its backoff is bounded by
\* maxDownloadRetryInterval, and a server is taken not to answer Retry-After without
\* end.  It ends, one way or another.  The main queue keeps running.
Ends(s) == \E d \in downloads : d.screen = s /\ (Saved(d) \/ Refused(d) \/ Failed(d))

FairSpec == Spec /\ WF_vars(RunCompletion) /\ \A s \in Screens : WF_vars(Ends(s))

-----------------------------------------------------------------------------
(* Properties *)

\* Types, and a download is always one of a controller with an attachment.
TypeOK ==
    /\ objects \in [Paths -> Contents \cup {NoDoc}]
    /\ files \in [Paths -> Contents \cup {NoDoc}]
    /\ opened \in 0..MaxScreens
    /\ top \in {0, opened}
    /\ doc \in [Screens -> Paths \cup {NoDoc}]
    /\ display \in [Screens -> Contents \cup {Undecided, Hidden}]
    /\ downloads \subseteq Downloads
    /\ mainQueue \in Seq(Answers)
    /\ outcome \in [Screens -> {"none", "waiting", "ok", "error"}]
    /\ held \in [Screens -> SUBSET (Contents \cup {NoDoc})]
    /\ under \in [Screens -> SUBSET (Contents \cup {NoDoc})]
    /\ lost \subseteq Screens
    /\ \A d \in downloads : doc[d.screen] \in Paths

\* A detail screen shows what its object held since the screen was opened; only a
\* download of the same object that had its bytes by then and was not finished can
\* put an older version before it: the file a screen reads may not be the one its
\* own download wrote, nor may its own download be the last.
ShowsWhatWasHeld ==
    \A s \in Screens :
        display[s] \in Contents => display[s] \in held[s] \cup under[s]

\* A screen that is told its download is there shows it, unless another download
\* of the same object is refused between the two: nothing else removes the file.
SuccessIsShown ==
    \A s \in Screens :
        outcome[s] = "ok" /\ display[s] = Undecided => s \in lost

\* Every download ends in its completion, also after its screen is gone.
EveryDownloadIsAnswered ==
    \A s \in Screens : outcome[s] = "waiting" ~> outcome[s] # "waiting"

=============================================================================
