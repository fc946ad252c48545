----------------------- MODULE CaptureReporting_proofs -----------------------
(***************************************************************************)
(* Safety of the device and its simulated camera together, for every set   *)
(* of images, capture threads and message bodies.  The composition takes   *)
(* its steps from both parts, so what is proved of the parts carries over; *)
(* what the service is told of needs both.                                 *)
(***************************************************************************)
EXTENDS CaptureReporting, DeviceControl_proofs

CamProofs == INSTANCE DirCamera_proofs
  WITH Captures <- Names, Threads <- Notifiers, pc <- threadPc

LEMMA CameraAssumption ==
  /\ Names # {}
  /\ NoName \notin Names /\ Torn \notin Names \union {NoName}
  /\ NoThread \notin Notifiers
BY DeviceAssumption, ReportingAssumption

-----------------------------------------------------------------------------
(* Every step of the composition is one of the device ...                  *)

LEMMA DeviceSteps == [SystemNext]_systemVars => [Next]_vars
<1> SUFFICES ASSUME [SystemNext]_systemVars
             PROVE  [Next]_vars
  OBVIOUS
<1>1. CASE StartSession \/ StopSession \/ DashboardSetsSettings \/ OtherCommand
  BY <1>1 DEF StartSession, StopSession, DashboardSetsSettings, OtherCommand, Next, Command
<1>2. CASE FinishHandler
  BY <1>2 DEF FinishHandler, Next
<1>3. ASSUME NEW k \in Notifiers, CaptureStep(k)
      PROVE  [Next]_vars
  <2>1. CASE UNCHANGED running
    BY <1>3, <2>1 DEF CaptureStep, vars
  <2> QED
    BY <1>3, <2>1 DEF CaptureStep, Cam!ThreadStep, Cam!Check, Cam!Upload,
         Cam!SetNotification, Cam!NotifyFindsNothing, Cam!Wake, Cam!Leave
<1>4. ASSUME NEW k \in Notifiers, NotifyDevice(k) \/ OnNotificationReturns(k)
      PROVE  [Next]_vars
  BY <1>4 DEF NotifyDevice, OnNotificationReturns, Next
<1>5. ASSUME NEW s \in Senders, SenderThread(s)
      PROVE  [Next]_vars
  BY <1>5 DEF SenderThread, Next
<1>6. CASE UNCHANGED systemVars
  BY <1>6 DEF systemVars
<1> QED
  BY <1>1, <1>2, <1>3, <1>4, <1>5, <1>6 DEF SystemNext, CaptureThread

\* The composition is a device: whatever DeviceControl promises of Device it
\* keeps with a camera of its own and a dashboard that sends settings back.
THEOREM SystemIsDevice == SystemSpec => Spec
<1>1. SystemInit => Init
  BY DEF SystemInit
<1> QED
  BY <1>1, DeviceSteps, PTL DEF SystemSpec, Spec

\* So a device that captures on its own, announces and is sent its settings back
\* by a dashboard offers the service the same sessions as one that is only
\* commanded (Device.cpp with DirCamera.cpp): a run's configuration and settings
\* stay as they were, all that is serialized in it says RunState, and what was
\* accepted has been applied.
THEOREM SystemKeepsSessions ==
  SystemSpec => /\ ImplementsCaptureSession
                /\ RunFreezesSettings
                /\ RunSnapshotsAreLabelled
                /\ AcceptedMeansApplied
                /\ []CameraFollowsSettings
BY SystemIsDevice, RefinesSession, RunsFreezeSettings, RunIsLabelled, AcceptedApplies,
   CameraFollows, PTL

(* ... and one of the camera, which the device starts only when it is      *)
(* stopped and stops only when it runs.                                    *)

LEMMA CameraSteps ==
  TypeOK /\ CapturingIffInSession /\ [SystemNext]_systemVars
    => [CamProofs!Next]_CamProofs!vars
<1> SUFFICES ASSUME TypeOK, CapturingIffInSession, [SystemNext]_systemVars
             PROVE  [CamProofs!Next]_CamProofs!vars
  OBVIOUS
<1> USE DEF Cam!Goto, CamProofs!Goto, Cam!Drop, CamProofs!Drop
<1>1. CASE StartSession
  <2>1. ~running /\ Cam!Start
    BY <1>1 DEF StartSession, Start, StartPreview, BeginSession, Receive, Handled,
                CapturingIffInSession, Mode, TypeOK, States
  <2> QED
    BY <2>1 DEF Cam!Start, CamProofs!Start, CamProofs!Next
<1>2. CASE StopSession
  <2>1. running /\ Cam!Stop
    BY <1>2 DEF StopSession, Stop, StopPreview, EndSession, Receive, Handled,
                CapturingIffInSession, Mode, TypeOK, States
  <2> QED
    BY <2>1 DEF Cam!Stop, CamProofs!Stop, Cam!threadVars, CamProofs!threadVars,
                CamProofs!Next
<1>3. ASSUME NEW k \in Notifiers, CaptureStep(k)
      PROVE  CamProofs!ThreadStep(k)
  BY <1>3 DEF CaptureStep, Cam!ThreadStep, CamProofs!ThreadStep,
       Cam!Check, CamProofs!Check, Cam!Upload, CamProofs!Upload,
       Cam!SetNotification, CamProofs!SetNotification, Cam!Wake, CamProofs!Wake,
       Cam!NotifyFindsNothing, CamProofs!NotifyFindsNothing,
       Cam!Leave, CamProofs!Leave, Cam!Alive, CamProofs!Alive
<1>4. ASSUME NEW k \in Notifiers, NEW n \in Names \union {Torn}, Cam!Notify(k, n)
      PROVE  CamProofs!Notify(k, n)
  BY <1>4 DEF Cam!Notify, CamProofs!Notify, Cam!Delivered, CamProofs!Delivered,
              Cam!Alive, CamProofs!Alive
<1>5. ASSUME NEW k \in Notifiers, Cam!NotifyReturns(k)
      PROVE  CamProofs!NotifyReturns(k)
  BY <1>5 DEF Cam!NotifyReturns, CamProofs!NotifyReturns
<1>6. ASSUME NEW k \in Notifiers, CaptureThread(k)
      PROVE  CamProofs!Next
  BY <1>3, <1>4, <1>5, <1>6
     DEF CaptureThread, NotifyDevice, OnNotificationReturns, CamProofs!Next
<1>7. CASE \/ DashboardSetsSettings \/ OtherCommand \/ FinishHandler
           \/ \E s \in Senders : SenderThread(s)
  <2>1. UNCHANGED <<running, camVars>>
    BY <1>7, SendersOnlyRead
       DEF DashboardSetsSettings, OtherCommand, FinishHandler, SenderThread,
         SetDeviceSettings, Reject, GetDeviceSettings, HandlerStep, ChangeState,
         DeserializeBody, UpdateCamera
  <2> QED
    BY <2>1 DEF camVars, CamProofs!vars, CamProofs!threadVars
<1>8. CASE UNCHANGED systemVars
  BY <1>8 DEF systemVars, vars, camVars, CamProofs!vars, CamProofs!threadVars
<1> QED
  BY <1>1, <1>2, <1>6, <1>7, <1>8 DEF SystemNext, StartSession, StopSession, CamProofs!Next

-----------------------------------------------------------------------------
(* The invariant of both parts, and the properties that are its parts.     *)

\* What the two parts are proved to keep, and what the composition rests on.
PartsInv ==
  /\ TypeOK /\ CapturingIffInSession
  /\ CamProofs!UploadInv /\ CamProofs!StartIsNotLost

LEMMA InitParts == SystemInit => PartsInv
<1> SUFFICES ASSUME SystemInit PROVE PartsInv
  OBVIOUS
<1>1. TypeOK /\ CapturingIffInSession
  BY InitTyped DEF SystemInit, Init, CapturingIffInSession, Mode
<1>2. CamProofs!Init
  BY DEF SystemInit, Cam!Init, CamProofs!Init
<1>3. CamProofs!UploadInv
  BY <1>2, CamProofs!InitUploads, CameraAssumption, Zenon
<1>4. CamProofs!StartIsNotLost
  BY <1>2 DEF CamProofs!Init, CamProofs!StartIsNotLost
<1> QED
  BY <1>1, <1>3, <1>4 DEF PartsInv

LEMMA StepParts == PartsInv /\ [SystemNext]_systemVars => PartsInv'
<1> SUFFICES ASSUME PartsInv, [SystemNext]_systemVars
             PROVE  PartsInv'
  OBVIOUS
<1>1. [Next]_vars /\ [CamProofs!Next]_CamProofs!vars
  BY DeviceSteps, CameraSteps, Zenon DEF PartsInv
<1>2. TypeOK' /\ CapturingIffInSession'
  BY <1>1, StepTyped, StepCaptures, Zenon DEF PartsInv
<1>3. CamProofs!UploadInv'
  BY <1>1, CamProofs!StepUploads, CameraAssumption, Zenon DEF PartsInv
<1>4. CamProofs!StartIsNotLost'
  <2>1. CamProofs!TypeOK
    BY Zenon DEF PartsInv, CamProofs!UploadInv
  <2> QED
    BY <1>1, <2>1, CamProofs!StepNotLost, CameraAssumption, Zenon DEF PartsInv
<1> QED
  BY <1>2, <1>3, <1>4, Zenon DEF PartsInv

\* The two parts keep what each of them promises when they run together.
THEOREM SystemKeepsParts == SystemSpec => []PartsInv
BY InitParts, StepParts, PTL DEF SystemSpec

\* The composition is the camera, too: it starts and stops its capture threads and
\* delivers what they publish as DirCamera does on its own (DirCamera.cpp with
\* Device as its only subscriber).
THEOREM SystemIsCamera ==
  SystemSpec => CamProofs!Init /\ [][CamProofs!Next]_CamProofs!vars
<1>1. SystemInit => CamProofs!Init
  BY DEF SystemInit, Cam!Init, CamProofs!Init
<1>2. PartsInv /\ [SystemNext]_systemVars => [CamProofs!Next]_CamProofs!vars
  BY CameraSteps DEF PartsInv
<1> QED
  BY <1>1, <1>2, SystemKeepsParts, PTL DEF SystemSpec

\* As long as every session finds the capture thread of the one before gone, each
\* notification that reaches OnNotification brings the capture of its own thread,
\* whatever the device does in the meantime (PubSub.cpp, Device::OnNotification).
THEOREM SystemDeliversOwn == SystemSpec => CamProofs!SequentialDeliversOwn
<1>1. CamProofs!Init => CamProofs!OwnInv
  BY DEF CamProofs!Init, CamProofs!OwnInv
<1>2. CamProofs!OwnInv => CamProofs!OwnCapture
  BY DEF CamProofs!OwnInv, CamProofs!OwnCapture
<1>3. PartsInv /\ CamProofs!OwnInv /\ CamProofs!Sequential
        /\ [CamProofs!Next]_CamProofs!vars => CamProofs!OwnInv'
  <2>1. CamProofs!TypeOK /\ CamProofs!OwnInv /\ CamProofs!Sequential
          /\ [CamProofs!Next]_CamProofs!vars => CamProofs!OwnInv'
    BY CamProofs!StepOwn, CameraAssumption, Zenon
  <2> QED
    BY <2>1 DEF PartsInv, CamProofs!UploadInv
<1> QED
  BY <1>1, <1>2, <1>3, SystemIsCamera, SystemKeepsParts, PTL
     DEF CamProofs!SequentialDeliversOwn

\* Every variable of the process keeps its type.
THEOREM SystemTypeCorrect == SystemSpec => []SystemTypeOK
<1>1. PartsInv => SystemTypeOK
  BY DEF PartsInv, SystemTypeOK, CamProofs!UploadInv, CamProofs!TypeOK, Cam!TypeOK
<1> QED
  BY <1>1, SystemKeepsParts, PTL

\* During a session somebody captures: Device's handlers start the camera once
\* per session, and DirCamera::Start never relies on a thread that is leaving.
THEOREM SessionsCapture == SystemSpec => []SessionCaptures
<1>1. PartsInv => SessionCaptures
  BY DEF PartsInv, SessionCaptures, CapturingIffInSession, CamProofs!StartIsNotLost,
         CamProofs!Live, Cam!Live
<1> QED
  BY <1>1, SystemKeepsParts, PTL

-----------------------------------------------------------------------------
(* The way of a capture's name to the service.  It is in the container     *)
(* before it is notified, nothing is ever deleted from the container, and  *)
(* each of the hops hands on a name it was handed, or garbage.             *)

Fetchable == blobs \union {NoName, Torn}

HandedOn ==
  /\ settings.CurrentCaptureName \in Fetchable
  /\ msgbody.values.CurrentCaptureName \in Fetchable
  /\ \A k \in Notifiers : notifying[k] \in Fetchable
  /\ \A s \in Senders : snapshot[s].CurrentCaptureName \in Fetchable
  /\ AnnouncedCanBeFetched

LEMMA BlobsGrow == TypeOK /\ CapturingIffInSession /\ [SystemNext]_systemVars => blobs \subseteq blobs'
<1> SUFFICES ASSUME TypeOK, CapturingIffInSession, [SystemNext]_systemVars
             PROVE  blobs \subseteq blobs'
  OBVIOUS
<1>1. [CamProofs!Next]_CamProofs!vars
  BY CameraSteps, Zenon
<1> QED
  BY <1>1 DEF CamProofs!Next, CamProofs!vars, CamProofs!threadVars, CamProofs!Start,
       CamProofs!Stop, CamProofs!ThreadStep, CamProofs!Check, CamProofs!Upload,
       CamProofs!SetNotification, CamProofs!NotifyFindsNothing, CamProofs!Wake,
       CamProofs!Leave, CamProofs!Notify, CamProofs!NotifyReturns

\* The names a sender may read, and those a racy write may leave.
LEMMA InFlightFetchable ==
  ASSUME HandedOn, NEW K \in SUBSET Notifiers
  PROVE  CaptureNameInFlight(K) \subseteq Fetchable
BY DEF HandedOn, CaptureNameInFlight, Fetchable

LEMMA StepHandsOn ==
  PartsInv /\ HandedOn /\ [SystemNext]_systemVars => HandedOn'
<1> SUFFICES ASSUME PartsInv, HandedOn, [SystemNext]_systemVars
             PROVE  HandedOn'
  OBVIOUS
<1>a. TypeOK /\ CapturingIffInSession
  BY Zenon DEF PartsInv
<1>b. settings \in Settings /\ notifying \in [Notifiers -> Names \union {NoName, Torn}]
  BY <1>a DEF TypeOK
<1>c. Fetchable \subseteq Fetchable'
  BY <1>a, BlobsGrow DEF Fetchable
<1> USE DEF HandedOn, AnnouncedCanBeFetched
<1>1. CASE StartSession \/ StopSession
  <2>1. UNCHANGED <<settings, msgbody, notifying, snapshot, d2c>>
    BY <1>1 DEF StartSession, StopSession, Start, StartPreview, Stop, StopPreview,
                BeginSession, EndSession, senderVars
  <2> QED
    BY <2>1, <1>c DEF Fetchable
<1>2. CASE DashboardSetsSettings
  <2>1. UNCHANGED <<settings, notifying, snapshot, d2c>>
    BY <1>2 DEF DashboardSetsSettings, SetDeviceSettings, senderVars
  <2> QED
    BY <1>2, <2>1, <1>c DEF DashboardSetsSettings, Fetchable, camVars
<1>3. CASE OtherCommand
  <2>1. UNCHANGED <<settings, msgbody, notifying, snapshot, d2c>>
    BY <1>3 DEF OtherCommand, Reject, GetDeviceSettings, senderVars,
                SendD2C_DeviceSettings
  <2> QED
    BY <2>1, <1>c DEF Fetchable
<1>4. CASE FinishHandler
  <2>0. InitialSettings.CurrentCaptureName \in Fetchable
    BY ReportingAssumption DEF Fetchable
  <2>1. CASE ChangeState
    <3>1. settings'.CurrentCaptureName = settings.CurrentCaptureName
      BY <2>1, <1>b DEF ChangeState, Settings
    <3>2. UNCHANGED <<msgbody, notifying, snapshot, d2c>>
      BY <2>1 DEF ChangeState, senderVars
    <3> QED
      BY <3>1, <3>2, <1>c DEF Fetchable
  <2>2. CASE DeserializeBody
    <3>1. UNCHANGED <<msgbody, notifying, snapshot, d2c>>
      BY <2>2 DEF DeserializeBody, senderVars
    <3>2. settings'.CurrentCaptureName
            \in {settings.CurrentCaptureName, msgbody.values.CurrentCaptureName, Torn}
      BY <2>2 DEF DeserializeBody, Deserialize, Stored
    <3> QED
      BY <3>1, <3>2, <1>c DEF Fetchable
  <2>3. CASE UpdateCamera
    <3>1. UNCHANGED <<settings, notifying, snapshot, d2c>> /\ msgbody' = NoBody
      BY <2>3 DEF UpdateCamera, senderVars
    <3> QED
      BY <3>1, <2>0, <1>c DEF Fetchable, NoBody
  <2> QED
    BY <1>4, <2>1, <2>2, <2>3 DEF FinishHandler, HandlerStep
<1>5. ASSUME NEW k \in Notifiers, CaptureStep(k)
      PROVE  HandedOn'
  BY <1>5, <1>c DEF CaptureStep, handlerVars, senderVars, Fetchable
<1>6. ASSUME NEW k \in Notifiers, NotifyDevice(k)
      PROVE  HandedOn'
  <2>1. PICK n \in Names \union {Torn} : Cam!Notify(k, n) /\ EnterOnNotification(k, n)
    BY <1>6 DEF NotifyDevice
  <2>2. n \in CamProofs!Delivered
    BY <2>1 DEF Cam!Notify, Cam!Delivered, CamProofs!Delivered, Cam!Alive, CamProofs!Alive
  <2>3. n \in blobs \union {Torn}
    BY <2>2, CamProofs!DeliveredIsUploaded, CameraAssumption, Zenon DEF PartsInv
  <2>4. UNCHANGED <<settings, msgbody, snapshot, d2c>> /\ notifying' = [notifying EXCEPT ![k] = n]
    BY <2>1 DEF EnterOnNotification, handlerVars, senderVars
  <2> QED
    BY <2>3, <2>4, <1>b, <1>c DEF Fetchable
<1>7. ASSUME NEW k \in Notifiers, OnNotificationReturns(k)
      PROVE  HandedOn'
  <2>1. PICK v \in Stored(notifying[k], CaptureNameInFlight(Notifiers \ {k}) # {}) :
          settings' = [settings EXCEPT !.CurrentCaptureName = v]
    BY <1>7 DEF OnNotificationReturns, StoreCaptureName
  <2>2. v \in Fetchable
    BY <2>1 DEF Stored, Fetchable
  <2>3. settings'.CurrentCaptureName = v
    BY <2>1, <1>b DEF Settings
  <2>4. UNCHANGED <<msgbody, snapshot, d2c>> /\ notifying' = [notifying EXCEPT ![k] = NoName]
    BY <1>7 DEF OnNotificationReturns, StoreCaptureName, handlerVars,
                SendD2C_DeviceSettings
  <2> QED
    BY <2>2, <2>3, <2>4, <1>b, <1>c DEF Fetchable
<1>8. ASSUME NEW s \in Senders, SenderThread(s)
      PROVE  HandedOn'
  <2>0. UNCHANGED <<settings, msgbody, notifying, blobs>>
    BY <1>8, SendersOnlyRead DEF SenderThread, camVars
  <2>1. CASE Serialize(s)
    <3>1. PICK cn \in {settings.CurrentCaptureName} \union CaptureNameInFlight(Notifiers) :
            \E sn : snapshot' = [snapshot EXCEPT ![s] =
              [cmd |-> asked[s], StateName |-> sn, CurrentCaptureName |-> cn]]
      BY <2>1 DEF Serialize
    <3>2. cn \in Fetchable
      BY <3>1, InFlightFetchable
    <3>3. UNCHANGED d2c /\ snapshot \in [Senders -> Messages \union {NoMessage}]
      BY <2>1, <1>a DEF Serialize, TypeOK
    <3> QED
      BY <2>0, <3>1, <3>2, <3>3, <1>c DEF Fetchable
  <2>2. CASE SendEventAsync(s)
    <3>1. /\ d2c' = snapshot[s] /\ snapshot' = [snapshot EXCEPT ![s] = NoMessage]
          /\ snapshot \in [Senders -> Messages \union {NoMessage}]
      BY <2>2, <1>a DEF SendEventAsync, TypeOK
    <3>2. NoMessage.CurrentCaptureName = NoName
      BY DEF NoMessage
    <3> QED
      BY <2>0, <3>1, <3>2 DEF Fetchable
  <2> QED
    BY <1>8, <2>1, <2>2 DEF SenderThread, SendMessage
<1>9. CASE UNCHANGED systemVars
  BY <1>9 DEF systemVars, vars, handlerVars, senderVars, camVars, Fetchable
<1> QED
  BY <1>1, <1>2, <1>3, <1>4, <1>5, <1>6, <1>7, <1>8, <1>9 DEF SystemNext, CaptureThread

\* The service is told only of captures it can fetch: along four hops, with
\* senders that read while others write, no name precedes its upload
\* (UploadCaptureToBlobStorage, Notify, OnNotification, SendD2C_DeviceSettings).
THEOREM AnnouncesFetchable == SystemSpec => []AnnouncedCanBeFetched
<1>1. SystemInit => HandedOn
  <2> SUFFICES ASSUME SystemInit PROVE HandedOn
    OBVIOUS
  <2>1. settings.CurrentCaptureName = NoName /\ msgbody.values.CurrentCaptureName = NoName
    BY ReportingAssumption DEF SystemInit, Init, NoBody
  <2>2. /\ d2c.cmd # CaptureUploaded
        /\ \A s \in Senders : snapshot[s].CurrentCaptureName = NoName
    BY DEF SystemInit, Init, NoMessage, NoType, CaptureUploaded
  <2>3. \A k \in Notifiers : notifying[k] = NoName
    BY DEF SystemInit, Init
  <2> QED
    BY <2>1, <2>2, <2>3 DEF HandedOn, AnnouncedCanBeFetched, Fetchable
<1>2. HandedOn => AnnouncedCanBeFetched
  BY DEF HandedOn
<1> QED
  BY <1>1, <1>2, SystemKeepsParts, StepHandsOn, PTL DEF SystemSpec
=============================================================================
