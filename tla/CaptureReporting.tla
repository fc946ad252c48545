-------------------------- MODULE CaptureReporting ---------------------------
(***************************************************************************)
(* The process that statetest.cpp starts with -c <directory>: Device,      *)
(* subscribed to the notifications of a DirCamera.  The two share the      *)
(* running flag; a capture thread k runs Device::OnNotification when it    *)
(* notifies, and the SDK thread spawns and stops capture threads while it  *)
(* handles commands.  The third party is the dashboard, whose              *)
(* SetDeviceSettings sends back the settings it has received, edited.      *)
(***************************************************************************)
EXTENDS DeviceControl

CONSTANT NoThread

VARIABLES threadPc, file, notification, blobs, told

Cam == INSTANCE DirCamera
  WITH Captures <- Names, Threads <- Notifiers, pc <- threadPc

camVars == <<threadPc, file, notification, blobs, told>>
systemVars == <<vars, camVars>>

ASSUME ReportingAssumption ==
  /\ \A c \in InitialCameras : c.simulated
  /\ InitialSettings.CurrentCaptureName = NoName    \* the constructor's settings
  /\ Names # {} /\ Torn # NoName                    \* as DirCameraAssumption
  /\ NoThread \notin Notifiers

SystemTypeOK == TypeOK /\ Cam!TypeOK

SystemInit == Init /\ Cam!Init

-----------------------------------------------------------------------------

\* ReadyState's and RunState's, PreviewState's handlers reach the camera.
StartSession == (Start \/ StartPreview) /\ Cam!Start

StopSession == (Stop \/ StopPreview) /\ Cam!Stop

\* The capture names a dashboard knows are names of captures that were
\* uploaded, or the empty one the device begins with.
DashboardSetsSettings ==
  /\ SetDeviceSettings
  /\ msgbody'.values.CurrentCaptureName \in blobs \union {NoName}
  /\ UNCHANGED camVars

OtherCommand == (Reject \/ GetDeviceSettings) /\ UNCHANGED camVars

FinishHandler == HandlerStep /\ UNCHANGED camVars

\* Notify calls OnNotification, which copies the name ...
NotifyDevice(k) ==
  \E n \in Names \union {Torn} : Cam!Notify(k, n) /\ EnterOnNotification(k, n)

\* ... stores it, has a message sent and returns.
OnNotificationReturns(k) == StoreCaptureName(k) /\ Cam!NotifyReturns(k)

CaptureStep(k) ==
  Cam!ThreadStep(k)
    /\ UNCHANGED <<state, settings, camera, handlerVars, notifying, senderVars, d2c>>

CaptureThread(k) == CaptureStep(k) \/ NotifyDevice(k) \/ OnNotificationReturns(k)

SenderThread(s) == SendMessage(s) /\ UNCHANGED camVars

SystemNext ==
  \/ StartSession \/ StopSession \/ DashboardSetsSettings \/ OtherCommand
  \/ FinishHandler
  \/ \E k \in Notifiers : CaptureThread(k)
  \/ \E s \in Senders : SenderThread(s)

\* Strong fairness only makes up for the bound on sender threads: the code can
\* always detach one more, so that nothing keeps OnNotification from returning.
SystemFairness ==
  /\ WF_systemVars(FinishHandler)
  /\ \A k \in Notifiers : WF_systemVars(CaptureThread(k)) /\ SF_systemVars(OnNotificationReturns(k))
  /\ \A s \in Senders : WF_systemVars(SenderThread(s))

SystemSpec == SystemInit /\ [][SystemNext]_systemVars /\ SystemFairness

-----------------------------------------------------------------------------

\* During a session somebody captures, whatever sessions went before and
\* whatever their threads are still doing (StartCamera, DirCamera::Start).
SessionCaptures ==
  Mode # "ReadyState" => \E k \in Cam!Live : threadPc[k] # "leave"

\* The service is told only of captures it can fetch, although the name takes
\* four hops (stack frame, pointer, settings, message) and a dashboard may
\* overwrite it on the third; NoName and Torn say that there is none to fetch.
AnnouncedCanBeFetched ==
  d2c.cmd = CaptureUploaded =>
    d2c.CurrentCaptureName \in blobs \union {NoName, Torn}

\* A device that stays in ReadyState falls silent: the captures in flight at
\* Stop are announced and then no thread is left to announce more.
ReadyFallsSilent ==
  Mode = "ReadyState"
    ~> \/ Mode # "ReadyState"
       \/ /\ Cam!Live = {}
          /\ \A s \in Senders : CaptureUploaded \notin {asked[s], snapshot[s].cmd}

\* "CAPTURE_UPLOADED and look at the StateName field RunState -> DAT
\* PreviewState -> PRV" (Commands.h:32-34): the field tells measurement from
\* preview in every such message, garbled ones apart.
LabelTellsSession ==
  d2c.cmd = CaptureUploaded => d2c.StateName \in {"RunState", "PreviewState", Torn}

\* "Update settings with new current capture name and send them as D2C message"
\* (Device.cpp:213): a capture that was uploaded and notified is announced.
EveryCaptureIsAnnounced ==
  \A k \in Notifiers : \A n \in Names :
    notifying[k] = n ~> CaptureAnnounced(n)
=============================================================================
