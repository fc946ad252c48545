-------------------------- MODULE DirCamera_proofs ---------------------------
(***************************************************************************)
(* Safety of DirCamera for every set of images and of capture threads.     *)
(***************************************************************************)
EXTENDS DirCamera, TLAPS

\* What a thread holds at each place: an image once it has picked one, and one
\* that is in the container from the upload on.  TypeOK rests on the first.
Holding ==
  \A t \in Threads :
    /\ pc[t] = "upload" => file[t] \in Captures
    /\ pc[t] \in {"set", "notify", "notified"} => file[t] \in blobs

UploadInv == TypeOK /\ Holding /\ ToldOnlyUploads

LEMMA InitUploads == Init => UploadInv
BY DEF Init, UploadInv, TypeOK, Holding, ToldOnlyUploads

\* The names Notify can deliver: garbage, or a name in the container.
LEMMA DeliveredIsUploaded ==
  ASSUME UploadInv, NEW n \in Delivered
  PROVE  n \in blobs \union {Torn}
BY DEF UploadInv, TypeOK, Holding, Delivered, Alive

LEMMA StepUploads == UploadInv /\ [Next]_vars => UploadInv'
<1> SUFFICES ASSUME UploadInv, [Next]_vars
             PROVE  UploadInv'
  OBVIOUS
<1> USE DEF UploadInv, TypeOK, Holding, ToldOnlyUploads, threadVars
<1>1. CASE Start
  BY <1>1 DEF Start, Goto
<1>2. CASE Stop
  BY <1>2 DEF Stop
<1>3. ASSUME NEW t \in Threads, Check(t)
      PROVE  UploadInv'
  BY <1>3 DEF Check, Goto
<1>4. ASSUME NEW t \in Threads, Upload(t)
      PROVE  UploadInv'
  <2>1. CASE Goto(t, "upload", "set") /\ blobs' = blobs \union {file[t]} /\ UNCHANGED file
    BY <1>4, <2>1 DEF Upload, Goto
  <2>2. CASE Goto(t, "upload", "sleep") /\ Drop(t) /\ UNCHANGED blobs
    BY <1>4, <2>2 DEF Upload, Goto, Drop
  <2> QED
    BY <1>4, <2>1, <2>2 DEF Upload
<1>5. ASSUME NEW t \in Threads, SetNotification(t)
      PROVE  UploadInv'
  BY <1>5 DEF SetNotification, Goto
<1>6. ASSUME NEW t \in Threads, NEW n, Notify(t, n)
      PROVE  UploadInv'
  <2>1. n \in blobs \union {Torn}
    BY <1>6, DeliveredIsUploaded DEF Notify
  <2> QED
    BY <1>6, <2>1 DEF Notify, Goto
<1>7. ASSUME NEW t \in Threads, NotifyFindsNothing(t) \/ NotifyReturns(t)
      PROVE  UploadInv'
  BY <1>7 DEF NotifyFindsNothing, NotifyReturns, Goto, Drop
<1>8. ASSUME NEW t \in Threads, Wake(t) \/ Leave(t)
      PROVE  UploadInv'
  BY <1>8 DEF Wake, Leave, Goto
<1>9. CASE UNCHANGED vars
  BY <1>9 DEF vars
<1> QED
  BY <1>1, <1>2, <1>3, <1>4, <1>5, <1>6, <1>7, <1>8, <1>9 DEF Next, ThreadStep

\* The subscriber is told of nothing that is not in the container, however many
\* threads share the publisher's one pointer (UploadCaptureToBlobStorage).
THEOREM ToldUploads == Spec => []ToldOnlyUploads
<1>1. UploadInv => ToldOnlyUploads
  BY DEF UploadInv
<1> QED
  BY <1>1, InitUploads, StepUploads, PTL DEF Spec

\* Every variable keeps its type.
THEOREM CameraTypeCorrect == Spec => []TypeOK
<1>1. UploadInv => TypeOK
  BY DEF UploadInv
<1> QED
  BY <1>1, InitUploads, StepUploads, PTL DEF Spec

-----------------------------------------------------------------------------
(* A thread that leaves has seen running cleared; the Start that sets it   *)
(* again brings a thread of its own.                                       *)

LEMMA StepNotLost ==
  TypeOK /\ StartIsNotLost /\ [Next]_vars => StartIsNotLost'
<1> SUFFICES ASSUME TypeOK, StartIsNotLost, [Next]_vars, running'
             PROVE  \E t \in Threads : pc'[t] # "none" /\ pc'[t] # "leave"
  BY DEF StartIsNotLost, Live
<1> USE DEF TypeOK, threadVars
<1>a. ~running \/ \E t \in Threads : pc[t] # "none" /\ pc[t] # "leave"
  BY DEF StartIsNotLost, Live
<1>1. CASE Start
  BY <1>1 DEF Start, Goto
<1>2. CASE Stop
  BY <1>2 DEF Stop
<1>3. ASSUME NEW t \in Threads, Check(t)
      PROVE  \E u \in Threads : pc'[u] # "none" /\ pc'[u] # "leave"
  BY <1>3, <1>a DEF Check, Goto
<1>4. ASSUME NEW t \in Threads,
             Upload(t) \/ SetNotification(t) \/ NotifyFindsNothing(t)
               \/ NotifyReturns(t) \/ Wake(t) \/ \E n : Notify(t, n)
      PROVE  \E u \in Threads : pc'[u] # "none" /\ pc'[u] # "leave"
  BY <1>4, <1>a DEF Upload, SetNotification, NotifyFindsNothing, NotifyReturns,
                    Wake, Notify, Goto
<1>5. ASSUME NEW t \in Threads, Leave(t)
      PROVE  \E u \in Threads : pc'[u] # "none" /\ pc'[u] # "leave"
  BY <1>5, <1>a DEF Leave, Goto
<1>6. CASE UNCHANGED vars
  BY <1>6, <1>a DEF vars
<1> QED
  BY <1>1, <1>2, <1>3, <1>4, <1>5, <1>6 DEF Next, ThreadStep

\* A started camera has a thread that will capture, whatever the threads of
\* earlier sessions do (DirCamera::Start, DirCamera::HandleCaptures).
THEOREM StartNotLost == Spec => []StartIsNotLost
<1>1. Init => StartIsNotLost
  BY DEF Init, StartIsNotLost
<1> QED
  BY <1>1, CameraTypeCorrect, StepNotLost, PTL DEF Spec

-----------------------------------------------------------------------------
(* With at most one live thread the pointer is the notifier's own.         *)

OwnInv ==
  \A t \in Threads :
    /\ pc[t] = "notify" => notification = t
    /\ pc[t] = "notified" => told[t] = file[t]

LEMMA StepOwn ==
  TypeOK /\ OwnInv /\ Sequential /\ [Next]_vars => OwnInv'
<1> SUFFICES ASSUME TypeOK, OwnInv, Sequential, [Next]_vars
             PROVE  OwnInv'
  OBVIOUS
<1> USE DEF TypeOK, OwnInv, threadVars
<1>a. \A t, u \in Threads : pc[t] # "none" /\ pc[u] # "none" => t = u
  BY DEF Sequential, Live
<1>1. CASE Start
  BY <1>1 DEF Start, Goto
<1>2. CASE Stop
  BY <1>2 DEF Stop
<1>3. ASSUME NEW t \in Threads, Check(t) \/ Wake(t) \/ Leave(t)
      PROVE  OwnInv'
  BY <1>3, <1>a DEF Check, Wake, Leave, Goto
<1>4. ASSUME NEW t \in Threads, Upload(t)
      PROVE  OwnInv'
  BY <1>4, <1>a DEF Upload, Goto, Drop
<1>5. ASSUME NEW t \in Threads, SetNotification(t)
      PROVE  OwnInv'
  BY <1>5, <1>a DEF SetNotification, Goto
<1>6. ASSUME NEW t \in Threads, NEW n, Notify(t, n)
      PROVE  OwnInv'
  <2>1. notification = t /\ Alive(t)
    BY <1>6, DirCameraAssumption DEF Notify, Goto, Alive
  <2>2. n = file[t]
    BY <1>6, <2>1 DEF Notify, Delivered
  <2> QED
    BY <1>6, <2>2, <1>a DEF Notify, Goto
<1>7. ASSUME NEW t \in Threads, NotifyFindsNothing(t) \/ NotifyReturns(t)
      PROVE  OwnInv'
  BY <1>7, <1>a DEF NotifyFindsNothing, NotifyReturns, Goto, Drop
<1>8. CASE UNCHANGED vars
  BY <1>8 DEF vars
<1> QED
  BY <1>1, <1>2, <1>3, <1>4, <1>5, <1>6, <1>7, <1>8 DEF Next, ThreadStep

\* Sessions that do not overlap deliver each notification with the capture it
\* was sent for (UploadCaptureToBlobStorage, CaptureNotificationPublisher).
THEOREM SequentialOwn == Spec => SequentialDeliversOwn
<1>1. Init => OwnInv
  BY DEF Init, OwnInv
<1>2. OwnInv => OwnCapture
  BY DEF OwnInv, OwnCapture
<1> QED
  BY <1>1, <1>2, CameraTypeCorrect, StepOwn, PTL DEF Spec, SequentialDeliversOwn
=============================================================================
