------------------------------ MODULE DirCamera ------------------------------
(***************************************************************************)
(* class DirCamera (DirCamera.cpp), the camera that is simulated from a    *)
(* directory of images, and the publisher it notifies through (PubSub.cpp).*)
(*                                                                         *)
(* Start detaches a thread that uploads a random image, notifies and       *)
(* sleeps until it finds running cleared; Stop only clears running and     *)
(* waits for nobody, so a Start that follows soon enough leaves two        *)
(* threads.  They share one publisher, whose notification member points to *)
(* a CaptureNotification on the stack of the thread that set it last.      *)
(***************************************************************************)
EXTENDS FiniteSets, Naturals

CONSTANTS
  Captures,     \* the images InitCamera found, each uploaded under its name
  NoName,       \* no image, no name
  Torn,         \* what reading a name out of a dead stack frame may yield
  Threads,      \* identities of capture threads; bounds the live ones
  NoThread      \* the pointer no thread has set yet

ASSUME DirCameraAssumption ==
  /\ Captures # {}          \* rand() % captures.size() needs an image
  /\ NoName \notin Captures /\ Torn \notin Captures \union {NoName}
  /\ NoThread \notin Threads

VARIABLES
  running,      \* DirCamera::running
  pc,           \* pc[t]: where thread t is, "none" when there is no such thread
  file,         \* file[t]: the image t is uploading, a local variable
  notification, \* the thread on whose stack the publisher's pointer points
  blobs,        \* names in the blob container
  told          \* told[t]: the name t has given the subscriber it is in

threadVars == <<pc, file, notification, blobs, told>>
vars == <<running, threadVars>>

Live == {t \in Threads : pc[t] # "none"}

\* The pointer's target exists until Notify has returned.
Alive(t) == t # NoThread /\ pc[t] \in {"notify", "notified"}

TypeOK ==
  /\ running \in BOOLEAN
  /\ pc \in [Threads -> {"none", "check", "upload", "set", "notify", "notified",
                         "sleep", "leave"}]
  /\ file \in [Threads -> Captures \union {NoName}]
  /\ notification \in Threads \union {NoThread}
  /\ blobs \subseteq Captures
  /\ told \in [Threads -> Captures \union {NoName, Torn}]

Init ==
  /\ running = FALSE
  /\ pc = [t \in Threads |-> "none"]
  /\ file = [t \in Threads |-> NoName]
  /\ notification = NoThread
  /\ blobs = {}
  /\ told = [t \in Threads |-> NoName]

Goto(t, from, to) == pc[t] = from /\ pc' = [pc EXCEPT ![t] = to]

\* The upload is over, and with it the use of the image's name.
Drop(t) == file' = [file EXCEPT ![t] = NoName]

-----------------------------------------------------------------------------

\* Mutant of Start: a thread that is still there is relied on.
StartUnlessLive ==
  /\ running' = TRUE
  /\ IF Live = {} THEN \E t \in Threads : Goto(t, "none", "check") ELSE UNCHANGED pc
  /\ UNCHANGED <<file, notification, blobs, told>>

\* Under running_mutex: set the flag, detach a thread.
Start ==
  /\ running' = TRUE
  /\ \E t \in Threads : Goto(t, "none", "check")
  /\ UNCHANGED <<file, notification, blobs, told>>

\* Under running_mutex, which HandleCaptures does not take.
Stop ==
  /\ running' = FALSE
  /\ UNCHANGED threadVars

\* Mutant of Check: while(true), as in the IDS camera's HandleCaptures.
CheckNothing(t) ==
  /\ Goto(t, "check", "upload")
  /\ \E f \in Captures : file' = [file EXCEPT ![t] = f]
  /\ UNCHANGED <<running, notification, blobs, told>>

\* while(running): pick an image, or leave the loop.
Check(t) ==
  /\ \/ /\ running
        /\ Goto(t, "check", "upload")
        /\ \E f \in Captures : file' = [file EXCEPT ![t] = f]
     \/ /\ ~running
        /\ Goto(t, "check", "leave")
        /\ UNCHANGED file
  /\ UNCHANGED <<running, notification, blobs, told>>

\* Mutants of Upload: a name that was moved from; a notification outside the
\* try block.
UploadMovedName(t) ==
  /\ Goto(t, "upload", "set")
  /\ blobs' = blobs \union {NoName}
  /\ UNCHANGED <<running, file, notification, told>>

UploadAndNotify(t) ==
  /\ Goto(t, "upload", "set")
  /\ blobs' = blobs \union {file[t]} \/ UNCHANGED blobs
  /\ UNCHANGED <<running, file, notification, told>>

\* upload_from_file creates or overwrites the blob, or throws; the handler
\* swallows the exception together with the notification.
Upload(t) ==
  /\ \/ /\ Goto(t, "upload", "set")
        /\ blobs' = blobs \union {file[t]}
        /\ UNCHANGED file
     \/ Goto(t, "upload", "sleep") /\ Drop(t) /\ UNCHANGED blobs
  /\ UNCHANGED <<running, notification, told>>

\* Mutant of SetNotification: set by the first capture only.
SetFirstNotification(t) ==
  /\ Goto(t, "set", "notify")
  /\ notification' = IF notification = NoThread THEN t ELSE notification
  /\ UNCHANGED <<running, file, blobs, told>>

SetNotification(t) ==
  /\ Goto(t, "set", "notify")
  /\ notification' = t
  /\ UNCHANGED <<running, file, blobs, told>>

\* The names OnNotification may copy out of what the publisher points to.
Delivered == IF Alive(notification) THEN {file[notification]} ELSE {Torn}

\* Notify calls Device::OnNotification on thread t, which copies the name
\* first; over a dead frame its dynamic_cast may also find nothing to report.
Notify(t, name) ==
  /\ Goto(t, "notify", "notified")
  /\ name \in Delivered
  /\ told' = [told EXCEPT ![t] = name]
  /\ UNCHANGED <<running, file, notification, blobs>>

NotifyFindsNothing(t) ==
  /\ ~Alive(notification)
  /\ Goto(t, "notify", "sleep") /\ Drop(t)
  /\ UNCHANGED <<running, notification, blobs, told>>

\* OnNotification and Notify return; the notification goes out of scope.
NotifyReturns(t) ==
  /\ Goto(t, "notified", "sleep") /\ Drop(t)
  /\ told' = [told EXCEPT ![t] = NoName]
  /\ UNCHANGED <<running, notification, blobs>>

Wake(t) ==
  /\ Goto(t, "sleep", "check")
  /\ UNCHANGED <<running, file, notification, blobs, told>>

Leave(t) ==
  /\ Goto(t, "leave", "none")
  /\ UNCHANGED <<running, file, notification, blobs, told>>

\* What a thread does on its own, between the steps it shares with Device.
ThreadStep(t) ==
  Check(t) \/ Upload(t) \/ SetNotification(t) \/ NotifyFindsNothing(t)
    \/ Wake(t) \/ Leave(t)

\* Device starts and stops in turn, from the one thread of the SDK.
Next ==
  \/ ~running /\ Start
  \/ running /\ Stop
  \/ \E t \in Threads :
       \/ ThreadStep(t) \/ NotifyReturns(t)
       \/ \E n \in Captures \union {Torn} : Notify(t, n)

\* A thread is scheduled, an upload ends one way or the other, sleep returns.
Fairness ==
  \A t \in Threads :
    WF_vars(ThreadStep(t) \/ NotifyReturns(t)
              \/ \E n \in Captures \union {Torn} : Notify(t, n))

Spec == Init /\ [][Next]_vars /\ Fairness

-----------------------------------------------------------------------------

\* A started camera captures: whatever the threads of earlier sessions are
\* about to do, there is one that will look at running again (DirCamera::Start
\* detaches a thread each time instead of relying on one that is still there).
StartIsNotLost == running => \E t \in Live : pc[t] # "leave"

\* A stopped camera comes to rest: unless it is started again, every capture
\* thread of every session ends (the loop of HandleCaptures).
StopQuiesces == ~running ~> running \/ Live = {}

\* The subscriber hears only of images that are in the container: a failed
\* upload notifies nobody (the try block of UploadCaptureToBlobStorage).
ToldOnlyUploads == \A t \in Threads : told[t] \in blobs \union {NoName, Torn}

\* Each notification delivers the capture it was sent for ("Set
\* CaptureNotification ... Notify all subscribers", DirCamera.cpp:132-135).
\* Two threads of one publisher break it.
OwnCapture == \A t \in Threads : pc[t] = "notified" => told[t] = file[t]

\* It holds as long as no two capture threads are alive at once, that is, as
\* long as every Start finds the thread of the session before it gone.
Sequential == \A t, u \in Live : t = u
SequentialDeliversOwn == []Sequential => []OwnCapture
=============================================================================
