--------------------------- MODULE NoteDetailProofs ---------------------------
(***************************************************************************)
(* Theorems about NoteDetail, for all objects and contents and every       *)
(* number of detail screens.                                               *)
(***************************************************************************)
EXTENDS NoteDetail, TLAPS

\* Downloads and their answers are of controllers opened before; the others have
\* nothing on display.
ScreensInv ==
    /\ TypeOK
    /\ \A s \in Screens : s > opened => doc[s] = NoDoc /\ display[s] = Undecided
    /\ \A k \in 1..Len(mainQueue) : doc[mainQueue[k].screen] \in Paths

\* Whatever a download of an object has got, every screen of that object may show.
GotInv ==
    /\ \A s \in Screens : doc[s] \in Paths => objects[doc[s]] \in held[s]
    /\ \A d \in downloads, s \in Screens :
          d.got # NoDoc /\ doc[s] = doc[d.screen] => d.got \in held[s] \cup under[s]

\* The file a controller has been told of is one it may show, or is gone; it is
\* only gone when it was removed since.
FileInv ==
    \A k \in 1..Len(mainQueue) :
        LET s    == mainQueue[k].screen
            file == files[doc[s]]
        IN  mainQueue[k].ok =>
                IF file = NoDoc THEN s \in lost ELSE file \in held[s] \cup under[s]

DetailInv == ScreensInv /\ GotInv /\ FileInv /\ ShowsWhatWasHeld /\ SuccessIsShown

-----------------------------------------------------------------------------

\* Appending an answer adds one, of the controller whose download ended.
LEMMA FinishAppends ==
    ASSUME TypeOK, NEW d \in downloads, NEW ok \in BOOLEAN, Finish(d, ok)
    PROVE  /\ mainQueue' \in Seq(Answers)
           /\ d.screen \in Screens /\ doc[d.screen] \in Paths
           /\ downloads' \subseteq downloads
           /\ \A k \in 1..Len(mainQueue') :
                 \/ k \in 1..Len(mainQueue) /\ mainQueue'[k] = mainQueue[k]
                 \/ mainQueue'[k] = [screen |-> d.screen, ok |-> ok]
<1> DEFINE a == [screen |-> d.screen, ok |-> ok]
<1>1. d \in Downloads /\ doc[d.screen] \in Paths
  BY DEF TypeOK
<1>2. a \in Answers /\ d.screen \in Screens
  BY <1>1 DEF Downloads, Answers
<1>3. mainQueue' = Append(mainQueue, a) /\ downloads' \subseteq downloads
  BY DEF Finish, fired
<1> HIDE DEF a
<1>4. /\ mainQueue' \in Seq(Answers)
      /\ \A k \in 1..Len(mainQueue') :
            \/ k \in 1..Len(mainQueue) /\ mainQueue'[k] = mainQueue[k]
            \/ mainQueue'[k] = a
  BY <1>2, <1>3 DEF TypeOK
<1> QED BY <1>1, <1>2, <1>3, <1>4 DEF a

\* Running a completion takes the oldest answer.
LEMMA RunTakes ==
    ASSUME TypeOK, mainQueue # <<>>, mainQueue' = Tail(mainQueue)
    PROVE  /\ mainQueue' \in Seq(Answers)
           /\ Head(mainQueue) = mainQueue[1] /\ 1 \in 1..Len(mainQueue)
           /\ Head(mainQueue) \in Answers
           /\ \A k \in 1..Len(mainQueue') :
                 k + 1 \in 1..Len(mainQueue) /\ mainQueue'[k] = mainQueue[k + 1]
<1>1. mainQueue \in Seq(Answers)
  BY DEF TypeOK
<1>2. Len(mainQueue) \in Nat \ {0} /\ Head(mainQueue) = mainQueue[1]
  BY <1>1
<1>3. 1 \in 1..Len(mainQueue) /\ Head(mainQueue) \in Answers
  BY <1>1, <1>2
<1>4. /\ mainQueue' \in Seq(Answers)
      /\ Len(mainQueue') = Len(mainQueue) - 1
      /\ \A k \in 1..Len(mainQueue') : mainQueue'[k] = mainQueue[k + 1]
  BY <1>1, <1>2
<1> QED BY <1>2, <1>3, <1>4

\* A new screen of an object may show what is there or on its way; the screens
\* before it are not concerned.
LEMMA SelectStep ==
    ASSUME DetailInv, NEW path \in Paths \cup {NoDoc}, SelectRow(path)
    PROVE  DetailInv'
<1> DEFINE new == opened + 1
<1>1. /\ new \in Screens /\ opened' = new /\ top' = new /\ opened \in Nat
      /\ doc[new] = NoDoc /\ display[new] = Undecided
  BY MaxScreensAssumption DEF DetailInv, ScreensInv, TypeOK, SelectRow, Screens
<1> HIDE DEF new
<1>2. CASE path = NoDoc
  <2>1. /\ display' = [display EXCEPT ![new] = Hidden]
        /\ UNCHANGED <<cloud, doc, downloads, mainQueue, history>>
    BY <1>1, <1>2 DEF SelectRow, viewDidLoadPlain
  <2>2. TypeOK'
    BY <1>1, <2>1 DEF DetailInv, ScreensInv, TypeOK, cloud, history, Screens
  <2>3. ScreensInv'
    BY <1>1, <2>1, <2>2 DEF DetailInv, ScreensInv, Screens, new
  <2>4. GotInv' /\ FileInv'
    BY <2>1 DEF DetailInv, GotInv, FileInv, cloud, history
  <2>5. \A s \in Screens : display'[s] = display[s] \/ display'[s] = Hidden
    BY <1>1, <2>1 DEF DetailInv, ScreensInv, TypeOK
  <2>6. ShowsWhatWasHeld'
    BY <2>1, <2>5, DisplayAssumption DEF DetailInv, ShowsWhatWasHeld, history
  <2>7. SuccessIsShown'
    BY <2>1, <2>5 DEF DetailInv, SuccessIsShown, history, Undecided, Hidden
  <2> QED BY <2>3, <2>4, <2>6, <2>7 DEF DetailInv
<1>3. CASE path \in Paths
  <2> DEFINE add == [screen |-> new, got |-> NoDoc]
  <2>0. path # NoDoc
    BY <1>3, NoDocNoteAssumption
  <2>1. /\ doc' = [doc EXCEPT ![new] = path]
        /\ downloads' = downloads \cup {add}
        /\ outcome' = [outcome EXCEPT ![new] = "waiting"]
        /\ held' = [held EXCEPT ![new] = {objects[path]}]
        /\ under' = [under EXCEPT ![new] = {d.got : d \in Of(path)}]
        /\ UNCHANGED <<files, objects, display, mainQueue, lost>>
    BY <1>1, <2>0 DEF SelectRow, viewDidLoadAttached, keepFile
  <2>2. add \in Downloads /\ add.screen = new /\ add.got = NoDoc
    BY <1>1 DEF Downloads
  <2> HIDE DEF add
  <2>3. /\ doc'[new] = path /\ held'[new] = {objects[path]} /\ outcome'[new] = "waiting"
        /\ under'[new] = {d.got : d \in Of(path)}
        /\ \A s \in Screens : s # new =>
              /\ doc'[s] = doc[s] /\ held'[s] = held[s] /\ under'[s] = under[s]
              /\ outcome'[s] = outcome[s]
    BY <1>1, <2>1 DEF DetailInv, ScreensInv, TypeOK
  <2>4. \A d \in downloads : d \in Downloads /\ d.screen \in Screens /\ d.screen # new
    BY <1>1, NoDocNoteAssumption DEF DetailInv, ScreensInv, TypeOK, Downloads
  <2>5. \A k \in 1..Len(mainQueue) :
           mainQueue[k].screen \in Screens /\ mainQueue[k].screen # new
    <3>1. ASSUME NEW k \in 1..Len(mainQueue)
          PROVE  mainQueue[k].screen \in Screens /\ mainQueue[k].screen # new
      <4>1. mainQueue[k] \in Answers
        BY DEF DetailInv, ScreensInv, TypeOK
      <4> QED BY <1>1, <4>1, NoDocNoteAssumption DEF DetailInv, ScreensInv, Answers
    <3> QED BY <3>1
  <2>6. under'[new] \subseteq Contents \cup {NoDoc}
    BY <2>3, <2>4 DEF Of, Downloads
  <2>7. TypeOK'
    <3>1. /\ doc' \in [Screens -> Paths \cup {NoDoc}]
          /\ outcome' \in [Screens -> {"none", "waiting", "ok", "error"}]
          /\ held' \in [Screens -> SUBSET (Contents \cup {NoDoc})]
      BY <1>1, <1>3, <2>1 DEF DetailInv, ScreensInv, TypeOK
    <3>2. under' \in [Screens -> SUBSET (Contents \cup {NoDoc})]
      BY <1>1, <2>1, <2>3, <2>6 DEF DetailInv, ScreensInv, TypeOK
    <3>3. downloads' \subseteq Downloads /\ \A d \in downloads' : doc'[d.screen] \in Paths
      BY <1>3, <2>1, <2>2, <2>3, <2>4 DEF DetailInv, ScreensInv, TypeOK
    <3>4. opened' \in 0..MaxScreens /\ top' \in {0, opened'}
      BY <1>1, MaxScreensAssumption DEF Screens
    <3> QED BY <2>1, <3>1, <3>2, <3>3, <3>4 DEF DetailInv, ScreensInv, TypeOK
  <2>8. ScreensInv'
    <3>1. \A s \in Screens : s > opened' => doc'[s] = NoDoc /\ display'[s] = Undecided
      BY <1>1, <2>1, <2>3 DEF DetailInv, ScreensInv, new, Screens
    <3>2. \A k \in 1..Len(mainQueue') : doc'[mainQueue'[k].screen] \in Paths
      BY <2>1, <2>3, <2>5 DEF DetailInv, ScreensInv
    <3> QED BY <2>7, <3>1, <3>2 DEF ScreensInv
  <2>9. GotInv'
    <3>1. ASSUME NEW s \in Screens, doc'[s] \in Paths
          PROVE  objects'[doc'[s]] \in held'[s]
      BY <2>1, <2>3, <3>1 DEF DetailInv, GotInv
    <3>2. ASSUME NEW d \in downloads', NEW s \in Screens, d.got # NoDoc,
                 doc'[s] = doc'[d.screen]
          PROVE  d.got \in held'[s] \cup under'[s]
      <4>1. d \in downloads /\ d.screen # new /\ doc'[d.screen] = doc[d.screen]
        BY <2>1, <2>2, <2>3, <2>4, <3>2
      <4>2. CASE s = new
        BY <2>3, <3>2, <4>1, <4>2 DEF Of
      <4>3. CASE s # new
        BY <2>3, <3>2, <4>1, <4>3 DEF DetailInv, GotInv
      <4> QED BY <4>2, <4>3
    <3> QED BY <3>1, <3>2 DEF GotInv
  <2>10. FileInv'
    BY <2>1, <2>3, <2>5 DEF DetailInv, FileInv
  <2>11. ShowsWhatWasHeld'
    <3>1. display[new] \notin Contents
      BY <1>1, DisplayAssumption
    <3> QED BY <2>1, <2>3, <3>1 DEF DetailInv, ShowsWhatWasHeld
  <2>12. SuccessIsShown'
    BY <2>1, <2>3 DEF DetailInv, SuccessIsShown
  <2> QED BY <2>8, <2>9, <2>10, <2>11, <2>12 DEF DetailInv
<1> QED BY <1>2, <1>3

\* Back changes nothing the invariant speaks of, except which screen is on top.
LEMMA PoppedStep ==
    ASSUME DetailInv, Popped
    PROVE  DetailInv'
<1>1. /\ top' = 0
      /\ UNCHANGED <<objects, files, opened, doc, display, downloads, mainQueue,
                     outcome, held, under, lost>>
  BY DEF Popped, cloud, history
<1>2. TypeOK'
  BY <1>1 DEF DetailInv, ScreensInv, TypeOK
<1>3. ScreensInv' /\ GotInv' /\ FileInv' /\ ShowsWhatWasHeld' /\ SuccessIsShown'
  BY <1>1, <1>2 DEF DetailInv, ScreensInv, GotInv, FileInv, ShowsWhatWasHeld, SuccessIsShown
<1> QED BY <1>3 DEF DetailInv

\* A completion shows the file, of which FileInv says that the screen may.
LEMMA RunStep ==
    ASSUME DetailInv, RunCompletion
    PROVE  DetailInv'
<1> DEFINE s == Head(mainQueue).screen
           path == doc[s]
<1>1. /\ mainQueue # <<>> /\ mainQueue' = Tail(mainQueue)
      /\ IF Head(mainQueue).ok
         THEN showFile(s) /\ outcome' = [outcome EXCEPT ![s] = "ok"]
         ELSE UNCHANGED display /\ outcome' = [outcome EXCEPT ![s] = "error"]
      /\ UNCHANGED <<objects, files, opened, top, doc, downloads, held, under, lost>>
  BY DEF RunCompletion, cloud
<1>2. /\ mainQueue' \in Seq(Answers)
      /\ Head(mainQueue) = mainQueue[1] /\ 1 \in 1..Len(mainQueue)
      /\ Head(mainQueue) \in Answers
      /\ \A k \in 1..Len(mainQueue') :
            k + 1 \in 1..Len(mainQueue) /\ mainQueue'[k] = mainQueue[k + 1]
  BY <1>1, RunTakes DEF DetailInv, ScreensInv
<1>3. s \in Screens /\ path \in Paths /\ files[path] \in Contents \cup {NoDoc}
  BY <1>2 DEF Answers, DetailInv, ScreensInv, TypeOK
<1>4. Head(mainQueue).ok =>
         IF files[path] = NoDoc THEN s \in lost ELSE files[path] \in held[s] \cup under[s]
  BY <1>2 DEF DetailInv, FileInv
<1> HIDE DEF s
<1>5. \A t \in Screens : t # s => display'[t] = display[t] /\ outcome'[t] = outcome[t]
  BY <1>1, <1>3 DEF showFile, DetailInv, ScreensInv, TypeOK
<1>6. /\ display'[s] \in {display[s], files[path], Hidden}
      /\ display'[s] = files[path] =>
            display'[s] = display[s] \/ Head(mainQueue).ok
      /\ outcome'[s] \in {"ok", "error"}
      /\ outcome'[s] = "ok" =>
            /\ Head(mainQueue).ok
            /\ files[path] # NoDoc => display'[s] \in {files[path], Hidden}
      /\ display' \in [Screens -> Contents \cup {Undecided, Hidden}]
      /\ outcome' \in [Screens -> {"none", "waiting", "ok", "error"}]
  <2>1. CASE Head(mainQueue).ok /\ files[path] = NoDoc
    BY <1>1, <1>3, <2>1 DEF showFile, DetailInv, ScreensInv, TypeOK
  <2>2. CASE Head(mainQueue).ok /\ files[path] # NoDoc
    <3>1. /\ display' = [display EXCEPT ![s] =
                            IF path \in Shown THEN files[path] ELSE Hidden]
          /\ outcome' = [outcome EXCEPT ![s] = "ok"]
      BY <1>1, <2>2 DEF showFile
    <3> QED BY <1>3, <2>2, <3>1 DEF DetailInv, ScreensInv, TypeOK
  <2>3. CASE ~Head(mainQueue).ok
    BY <1>1, <1>3, <2>3 DEF DetailInv, ScreensInv, TypeOK
  <2> QED BY <2>1, <2>2, <2>3
<1>7. TypeOK'
  BY <1>1, <1>2, <1>6 DEF DetailInv, ScreensInv, TypeOK
<1>8. ScreensInv'
  <2>1. ~(s > opened)
    BY <1>3, NoDocNoteAssumption DEF DetailInv, ScreensInv
  <2>2. \A t \in Screens : t > opened' => doc'[t] = NoDoc /\ display'[t] = Undecided
    BY <1>1, <1>5, <2>1 DEF DetailInv, ScreensInv
  <2>3. \A k \in 1..Len(mainQueue') : doc'[mainQueue'[k].screen] \in Paths
    BY <1>1, <1>2 DEF DetailInv, ScreensInv
  <2> QED BY <1>7, <2>2, <2>3 DEF ScreensInv
<1>9. GotInv'
  BY <1>1 DEF DetailInv, GotInv
<1>10. FileInv'
  BY <1>1, <1>2 DEF DetailInv, FileInv
<1>11. ShowsWhatWasHeld'
  <2>1. display'[s] \in Contents => display'[s] \in held'[s] \cup under'[s]
    <3>1. display[s] \in Contents => display[s] \in held[s] \cup under[s]
      BY <1>3 DEF DetailInv, ShowsWhatWasHeld
    <3>2. Hidden \notin Contents /\ NoDoc \notin Contents
      BY DisplayAssumption, NoDocNoteAssumption
    <3> QED BY <1>1, <1>3, <1>4, <1>6, <3>1, <3>2
  <2> QED BY <1>1, <1>5, <2>1 DEF DetailInv, ShowsWhatWasHeld
<1>12. SuccessIsShown'
  <2>1. outcome'[s] = "ok" /\ display'[s] = Undecided => s \in lost'
    <3>1. Undecided \notin Contents /\ Undecided # Hidden
      BY DisplayAssumption DEF Undecided, Hidden
    <3> QED BY <1>1, <1>3, <1>4, <1>6, <3>1
  <2> QED BY <1>1, <1>5, <2>1 DEF DetailInv, SuccessIsShown
<1> QED BY <1>8, <1>9, <1>10, <1>11, <1>12 DEF DetailInv

\* A new content is noted for every open screen of its object.
LEMMA StoreStep ==
    ASSUME DetailInv, NEW path \in Paths, NEW content \in Contents,
           StoreObject(path, content)
    PROVE  DetailInv'
<1>1. /\ objects' = [objects EXCEPT ![path] = content]
      /\ held' = [s \in Screens |->
                     IF doc[s] = path THEN held[s] \cup {content} ELSE held[s]]
      /\ UNCHANGED <<files, opened, top, doc, display, downloads, mainQueue,
                     outcome, under, lost>>
  BY DEF StoreObject, stack
<1>2. TypeOK'
  BY <1>1 DEF DetailInv, ScreensInv, TypeOK
<1>3. ScreensInv'
  BY <1>1, <1>2 DEF DetailInv, ScreensInv
<1>4. \A s \in Screens :
         held[s] \subseteq held'[s] /\ (doc[s] = path => content \in held'[s])
  BY <1>1
<1>5. GotInv'
  <2>1. ASSUME NEW s \in Screens, doc'[s] \in Paths
        PROVE  objects'[doc'[s]] \in held'[s]
    BY <1>1, <1>4, <2>1 DEF DetailInv, ScreensInv, TypeOK, GotInv
  <2>2. ASSUME NEW d \in downloads', NEW s \in Screens, d.got # NoDoc,
               doc'[s] = doc'[d.screen]
        PROVE  d.got \in held'[s] \cup under'[s]
    BY <1>1, <1>4, <2>2 DEF DetailInv, GotInv
  <2> QED BY <2>1, <2>2 DEF GotInv
<1>6. FileInv'
  <2>1. ASSUME NEW k \in 1..Len(mainQueue)
        PROVE  mainQueue[k].screen \in Screens
    <3>1. mainQueue[k] \in Answers
      BY DEF DetailInv, ScreensInv, TypeOK
    <3> QED BY <3>1 DEF Answers
  <2> QED BY <1>1, <1>4, <2>1 DEF DetailInv, FileInv
<1>7. ShowsWhatWasHeld' /\ SuccessIsShown'
  BY <1>1, <1>4 DEF DetailInv, ShowsWhatWasHeld, SuccessIsShown
<1> QED BY <1>3, <1>5, <1>6, <1>7 DEF DetailInv

\* The bytes that arrive are the object's, which every open screen of it may show.
LEMMA ReceiveStep ==
    ASSUME DetailInv, NEW d \in downloads, Receive(d)
    PROVE  DetailInv'
<1> DEFINE content == objects[doc[d.screen]]
           got     == [d EXCEPT !.got = content]
<1>1. /\ content # NoDoc
      /\ downloads' = (downloads \ {d}) \cup {got}
      /\ UNCHANGED <<objects, files, opened, top, doc, display, mainQueue, outcome,
                     held, under, lost>>
  BY DEF Receive, cloud, stack, history
<1>2. d \in Downloads /\ doc[d.screen] \in Paths /\ content \in Contents \cup {NoDoc}
  BY DEF DetailInv, ScreensInv, TypeOK
<1>3. got \in Downloads /\ got.screen = d.screen /\ got.got = content
  BY <1>2 DEF Downloads
<1> HIDE DEF got
<1>4. TypeOK'
  BY <1>1, <1>2, <1>3 DEF DetailInv, ScreensInv, TypeOK
<1>5. ScreensInv'
  BY <1>1, <1>4 DEF DetailInv, ScreensInv
<1>6. GotInv'
  <2>1. ASSUME NEW e \in downloads', NEW s \in Screens, e.got # NoDoc,
               doc'[s] = doc'[e.screen]
        PROVE  e.got \in held'[s] \cup under'[s]
    <3>1. CASE e = got
      BY <1>1, <1>2, <1>3, <2>1, <3>1 DEF DetailInv, GotInv
    <3>2. CASE e \in downloads
      BY <1>1, <2>1, <3>2 DEF DetailInv, GotInv
    <3> QED BY <1>1, <2>1, <3>1, <3>2
  <2> QED BY <1>1, <2>1 DEF DetailInv, GotInv
<1>7. FileInv' /\ ShowsWhatWasHeld' /\ SuccessIsShown'
  BY <1>1 DEF DetailInv, FileInv, ShowsWhatWasHeld, SuccessIsShown
<1> QED BY <1>5, <1>6, <1>7 DEF DetailInv

\* The end of a download, whatever becomes of the file, except for what FileInv
\* says of the files.
LEMMA FinishStep ==
    ASSUME DetailInv, NEW d \in downloads, NEW ok \in BOOLEAN, Finish(d, ok),
           files' \in [Paths -> Contents \cup {NoDoc}],
           lost \subseteq lost', lost' \subseteq Screens
    PROVE  ScreensInv' /\ GotInv' /\ ShowsWhatWasHeld' /\ SuccessIsShown'
<1>1. UNCHANGED <<objects, opened, top, doc, display, outcome, held, under>>
  BY DEF Finish, stack
<1>2. /\ mainQueue' \in Seq(Answers)
      /\ d.screen \in Screens /\ doc[d.screen] \in Paths
      /\ downloads' \subseteq downloads
      /\ \A k \in 1..Len(mainQueue') :
            \/ k \in 1..Len(mainQueue) /\ mainQueue'[k] = mainQueue[k]
            \/ mainQueue'[k] = [screen |-> d.screen, ok |-> ok]
  BY FinishAppends DEF DetailInv, ScreensInv
<1>3. TypeOK'
  BY <1>1, <1>2 DEF DetailInv, ScreensInv, TypeOK
<1>4. \A k \in 1..Len(mainQueue') : doc'[mainQueue'[k].screen] \in Paths
  BY <1>1, <1>2 DEF DetailInv, ScreensInv
<1>5. ScreensInv'
  BY <1>1, <1>3, <1>4 DEF DetailInv, ScreensInv
<1>6. GotInv'
  BY <1>1, <1>2 DEF DetailInv, GotInv
<1>7. ShowsWhatWasHeld' /\ SuccessIsShown'
  BY <1>1 DEF DetailInv, ShowsWhatWasHeld, SuccessIsShown
<1> QED BY <1>5, <1>6, <1>7

\* A finished download takes the place of the file: it is one that every controller
\* told of that file may show.
LEMMA SavedStep ==
    ASSUME DetailInv, NEW d \in downloads, Saved(d)
    PROVE  DetailInv'
<1>1. /\ d.got # NoDoc
      /\ files' = [files EXCEPT ![doc[d.screen]] = d.got]
      /\ Finish(d, TRUE)
      /\ UNCHANGED <<doc, held, under, lost>>
  BY DEF Saved, moveTo, Finish, stack
<1>2. d \in Downloads /\ d.got \in Contents \cup {NoDoc} /\ doc[d.screen] \in Paths
  BY DEF DetailInv, ScreensInv, TypeOK, Downloads
<1>3. files' \in [Paths -> Contents \cup {NoDoc}] /\ lost' \subseteq Screens
  BY <1>1, <1>2 DEF DetailInv, ScreensInv, TypeOK
<1>4. ScreensInv' /\ GotInv' /\ ShowsWhatWasHeld' /\ SuccessIsShown'
  BY <1>1, <1>3, FinishStep
<1>5. FileInv'
  <2>1. ASSUME NEW k \in 1..Len(mainQueue'), mainQueue'[k].ok
        PROVE  LET s == mainQueue'[k].screen
               IN  IF files'[doc[s]] = NoDoc THEN s \in lost
                   ELSE files'[doc[s]] \in held[s] \cup under[s]
    <3> DEFINE s == mainQueue'[k].screen
    <3>1. mainQueue'[k] \in Answers
      BY <1>4 DEF ScreensInv, TypeOK
    <3>2. s \in Screens /\ doc[s] \in Paths
      BY <1>1, <1>4, <3>1 DEF ScreensInv, Answers
    <3>3. \/ k \in 1..Len(mainQueue) /\ mainQueue'[k] = mainQueue[k]
          \/ mainQueue'[k] = [screen |-> d.screen, ok |-> TRUE]
      BY <1>1, FinishAppends DEF DetailInv, ScreensInv
    <3>4. CASE doc[s] = doc[d.screen]
      <4>1. files'[doc[s]] = d.got
        BY <1>1, <1>2, <3>4 DEF DetailInv, ScreensInv, TypeOK
      <4>2. d.got \in held[s] \cup under[s]
        BY <1>1, <3>2, <3>4 DEF DetailInv, GotInv
      <4> QED BY <1>1, <4>1, <4>2
    <3>5. CASE doc[s] # doc[d.screen]
      <4>1. files'[doc[s]] = files[doc[s]]
        BY <1>1, <3>2, <3>5 DEF DetailInv, ScreensInv, TypeOK
      <4>2. k \in 1..Len(mainQueue) /\ mainQueue'[k] = mainQueue[k]
        BY <3>3, <3>5
      <4> QED BY <2>1, <4>1, <4>2 DEF DetailInv, FileInv
    <3> QED BY <3>4, <3>5
  <2> QED BY <1>1, <2>1 DEF FileInv
<1> QED BY <1>4, <1>5 DEF DetailInv

\* After a removal, every controller that has been told of the file is noted as
\* having lost it.
LEMMA RemovedFile ==
    ASSUME DetailInv, NEW path \in Paths, removeFile(path)
    PROVE  /\ files' \in [Paths -> Contents \cup {NoDoc}]
           /\ lost \subseteq lost' /\ lost' \subseteq Screens
           /\ \A k \in 1..Len(mainQueue) :
                 LET s == mainQueue[k].screen
                 IN  mainQueue[k].ok =>
                        IF files'[doc[s]] = NoDoc THEN s \in lost'
                        ELSE files'[doc[s]] \in held[s] \cup under[s]
<1>1. /\ files' = [files EXCEPT ![path] = NoDoc]
      /\ lost' = lost \cup Unread(path)
  BY DEF removeFile
<1>2. \A k \in 1..Len(mainQueue) :
         mainQueue[k].screen \in Screens /\ doc[mainQueue[k].screen] \in Paths
  <2>1. ASSUME NEW k \in 1..Len(mainQueue)
        PROVE  mainQueue[k].screen \in Screens
    <3>1. mainQueue[k] \in Answers
      BY DEF DetailInv, ScreensInv, TypeOK
    <3> QED BY <3>1 DEF Answers
  <2> QED BY <2>1 DEF DetailInv, ScreensInv
<1>3. Unread(path) \subseteq Screens
  BY <1>2 DEF Unread
<1>4. files' \in [Paths -> Contents \cup {NoDoc}] /\ lost' \subseteq Screens
  BY <1>1, <1>3 DEF DetailInv, ScreensInv, TypeOK
<1>5. ASSUME NEW k \in 1..Len(mainQueue), mainQueue[k].ok
      PROVE  LET s == mainQueue[k].screen
             IN  IF files'[doc[s]] = NoDoc THEN s \in lost'
                 ELSE files'[doc[s]] \in held[s] \cup under[s]
  <2>1. CASE doc[mainQueue[k].screen] = path
    <3>1. files'[path] = NoDoc
      BY <1>1 DEF DetailInv, ScreensInv, TypeOK
    <3>2. mainQueue[k].screen \in Unread(path)
      BY <1>5, <2>1 DEF Unread
    <3> QED BY <1>1, <2>1, <3>1, <3>2
  <2>2. CASE doc[mainQueue[k].screen] # path
    <3>1. files'[doc[mainQueue[k].screen]] = files[doc[mainQueue[k].screen]]
      BY <1>1, <1>2, <2>2 DEF DetailInv, ScreensInv, TypeOK
    <3> QED BY <1>1, <1>5, <3>1 DEF DetailInv, FileInv
  <2> QED BY <2>1, <2>2
<1> QED BY <1>1, <1>4, <1>5

\* A refused download removes the file; its own answer is an error.
LEMMA RefusedStep ==
    ASSUME DetailInv, NEW d \in downloads, Refused(d)
    PROVE  DetailInv'
<1>1. doc[d.screen] \in Paths
  BY DEF DetailInv, ScreensInv, TypeOK
<1>2. /\ removeFile(doc[d.screen]) /\ Finish(d, FALSE)
      /\ UNCHANGED <<doc, held, under>>
  BY DEF Refused, Finish, stack
<1>3. ScreensInv' /\ GotInv' /\ ShowsWhatWasHeld' /\ SuccessIsShown'
  BY <1>1, <1>2, RemovedFile, FinishStep
<1>4. FileInv'
  <2>1. \A k \in 1..Len(mainQueue') :
           \/ k \in 1..Len(mainQueue) /\ mainQueue'[k] = mainQueue[k]
           \/ mainQueue'[k] = [screen |-> d.screen, ok |-> FALSE]
    BY <1>2, FinishAppends DEF DetailInv, ScreensInv
  <2> QED BY <1>1, <1>2, <2>1, RemovedFile DEF FileInv
<1> QED BY <1>3, <1>4 DEF DetailInv

\* A failed download leaves the files.
LEMMA FailedStep ==
    ASSUME DetailInv, NEW d \in downloads, Failed(d)
    PROVE  DetailInv'
<1>1. Finish(d, FALSE) /\ UNCHANGED <<doc, held, under, files, lost>>
  BY DEF Failed, Finish, stack
<1>2. ScreensInv' /\ GotInv' /\ ShowsWhatWasHeld' /\ SuccessIsShown'
  BY <1>1, FinishStep DEF DetailInv, ScreensInv, TypeOK
<1>3. FileInv'
  <2>1. \A k \in 1..Len(mainQueue') :
           \/ k \in 1..Len(mainQueue) /\ mainQueue'[k] = mainQueue[k]
           \/ mainQueue'[k] = [screen |-> d.screen, ok |-> FALSE]
    BY <1>1, FinishAppends DEF DetailInv, ScreensInv
  <2> QED BY <1>1, <2>1 DEF DetailInv, FileInv
<1> QED BY <1>2, <1>3 DEF DetailInv

\* A download that starts again has no bytes, and may have removed the file.
LEMMA RetriedStep ==
    ASSUME DetailInv, NEW d \in downloads, Retried(d)
    PROVE  DetailInv'
<1> DEFINE again == [d EXCEPT !.got = NoDoc]
<1>1. /\ downloads' = (downloads \ {d}) \cup {again}
      /\ removeFile(doc[d.screen]) \/ UNCHANGED <<files, lost>>
      /\ UNCHANGED <<objects, opened, top, doc, display, mainQueue, outcome, held, under>>
  BY DEF Retried, stack
<1>2. d \in Downloads /\ doc[d.screen] \in Paths
  BY DEF DetailInv, ScreensInv, TypeOK
<1>3. again \in Downloads /\ again.screen = d.screen /\ again.got = NoDoc
  BY <1>2 DEF Downloads
<1> HIDE DEF again
<1>4. /\ files' \in [Paths -> Contents \cup {NoDoc}]
      /\ lost \subseteq lost' /\ lost' \subseteq Screens
  BY <1>1, <1>2, RemovedFile DEF DetailInv, ScreensInv, TypeOK
<1>5. TypeOK'
  BY <1>1, <1>2, <1>3, <1>4 DEF DetailInv, ScreensInv, TypeOK
<1>6. ScreensInv'
  BY <1>1, <1>5 DEF DetailInv, ScreensInv
<1>7. GotInv'
  BY <1>1, <1>3 DEF DetailInv, GotInv
<1>8. FileInv'
  <2>1. CASE removeFile(doc[d.screen])
    BY <1>1, <1>2, <2>1, RemovedFile DEF FileInv
  <2>2. CASE UNCHANGED <<files, lost>>
    BY <1>1, <2>2 DEF DetailInv, FileInv
  <2> QED BY <1>1, <2>1, <2>2
<1>9. ShowsWhatWasHeld' /\ SuccessIsShown'
  BY <1>1, <1>4 DEF DetailInv, ShowsWhatWasHeld, SuccessIsShown
<1> QED BY <1>6, <1>7, <1>8, <1>9 DEF DetailInv

\* After the end of the process no screen is open and nothing is under way.
LEMMA TerminateStep ==
    ASSUME DetailInv, Terminate
    PROVE  DetailInv'
<1>1. /\ top' = 0
      /\ doc' = [s \in Screens |-> NoDoc]
      /\ display' = [s \in Screens |-> Undecided]
      /\ downloads' = {}
      /\ mainQueue' = <<>>
      /\ outcome' = [s \in Screens |-> "none"]
      /\ held' = [s \in Screens |-> {}]
      /\ under' = [s \in Screens |-> {}]
      /\ lost' = {}
      /\ UNCHANGED <<objects, files, opened>>
  BY DEF Terminate, tasksLeft, cloud
<1>2. TypeOK'
  BY <1>1 DEF DetailInv, ScreensInv, TypeOK
<1>3. ScreensInv' /\ FileInv' /\ SuccessIsShown'
  BY <1>1, <1>2 DEF ScreensInv, FileInv, SuccessIsShown
<1>4. GotInv'
  BY <1>1, NoDocNoteAssumption DEF GotInv
<1>5. ShowsWhatWasHeld'
  BY <1>1, DisplayAssumption DEF ShowsWhatWasHeld
<1> QED BY <1>3, <1>4, <1>5 DEF DetailInv

\* The invariant of NoteDetail.
LEMMA DetailHolds == Spec => []DetailInv
<1>1. Init => DetailInv
  <2> SUFFICES ASSUME Init PROVE DetailInv
    OBVIOUS
  <2>1. TypeOK
    BY MaxScreensAssumption DEF Init, TypeOK
  <2>2. ScreensInv /\ FileInv /\ SuccessIsShown
    BY <2>1 DEF Init, ScreensInv, FileInv, SuccessIsShown
  <2>3. GotInv
    BY NoDocNoteAssumption DEF Init, GotInv
  <2>4. ShowsWhatWasHeld
    BY DisplayAssumption DEF Init, ShowsWhatWasHeld
  <2> QED BY <2>2, <2>3, <2>4 DEF DetailInv
<1>2. DetailInv /\ [Next]_vars => DetailInv'
  <2> SUFFICES ASSUME DetailInv, [Next]_vars
               PROVE  DetailInv'
    OBVIOUS
  <2>1. CASE \E path \in Paths \cup {NoDoc} : SelectRow(path)
    BY <2>1, SelectStep
  <2>2. CASE Popped
    BY <2>2, PoppedStep
  <2>3. CASE RunCompletion
    BY <2>3, RunStep
  <2>4. CASE \E path \in Paths, content \in Contents : StoreObject(path, content)
    BY <2>4, StoreStep
  <2>5. CASE \E d \in downloads : Receive(d)
    BY <2>5, ReceiveStep
  <2>6. CASE \E d \in downloads : Saved(d)
    BY <2>6, SavedStep
  <2>7. CASE \E d \in downloads : Refused(d)
    BY <2>7, RefusedStep
  <2>8. CASE \E d \in downloads : Failed(d)
    BY <2>8, FailedStep
  <2>9. CASE \E d \in downloads : Retried(d)
    BY <2>9, RetriedStep
  <2>10. CASE Terminate
    BY <2>10, TerminateStep
  <2>11. CASE UNCHANGED vars
    BY <2>11 DEF vars, cloud, stack, history, DetailInv, ScreensInv, TypeOK, GotInv,
                 FileInv, ShowsWhatWasHeld, SuccessIsShown
  <2> QED BY <2>1, <2>2, <2>3, <2>4, <2>5, <2>6, <2>7, <2>8, <2>9, <2>10, <2>11 DEF Next
<1> QED BY <1>1, <1>2, PTL DEF Spec

-----------------------------------------------------------------------------

\* Types, and a download is always one of a controller with an attachment, in
\* every reachable state: write(toFile:) and its completion keep them.
THEOREM DetailTypes == Spec => []TypeOK
<1>1. DetailInv => TypeOK
  BY DEF DetailInv, ScreensInv
<1> QED BY <1>1, DetailHolds, PTL

\* The completion in viewDidLoad shows what the object held since the screen was
\* opened, or what a download unfinished by then had got, whichever of the downloads
\* of one file end last.
THEOREM ScreenShowsWhatWasHeld == Spec => []ShowsWhatWasHeld
<1>1. DetailInv => ShowsWhatWasHeld
  BY DEF DetailInv
<1> QED BY <1>1, DetailHolds, PTL

\* A completion told of success finds its file, unless another download of the
\* object was refused since.
THEOREM SuccessShown == Spec => []SuccessIsShown
<1>1. DetailInv => SuccessIsShown
  BY DEF DetailInv
<1> QED BY <1>1, DetailHolds, PTL

=============================================================================
