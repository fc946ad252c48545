---------------------------- MODULE DeviceControl ----------------------------
(***************************************************************************)
(* class Device and its State pattern (Device.cpp): the C2D command        *)
(* handlers, the settings they share with the capture threads and with the *)
(* detached threads that send D2C messages, and the camera they drive.     *)
(*                                                                         *)
(* Threads.  The SDK's worker thread runs one C2D handler at a time; pc    *)
(* says where in a handler it is.  A capture thread k is inside            *)
(* Device::OnNotification while notifying[k] # NoName.  Every call of      *)
(* SendD2C_DeviceSettings detaches a thread that serializes the settings   *)
(* some time later and hands the message over later still: asked[s] is     *)
(* what a thread is yet to serialize, snapshot[s] what it has serialized.  *)
(*                                                                         *)
(* No lock protects the settings.  The strings two threads may access at   *)
(* once (StateName, CurrentCaptureName) are written by the step that ends  *)
(* the writer's control point; while the writer is at it, a reader sees    *)
(* the old value, the new one or Torn, which stands for whatever else a    *)
(* racy access of a std::string yields.                                    *)
(***************************************************************************)
EXTENDS PulseTiming, Sequences, FiniteSets

CONSTANTS
  Bodies,           \* message bodies of SetDeviceSettings, see BodyOK
  InitialSettings,  \* what the constructor of Device puts into settings
  InitialCameras,   \* the camera the program is started with, as its constructor leaves it
  Names,            \* names captures are uploaded under
  NoName,           \* the empty string
  Torn,             \* what a racy read or write of a string may leave
  Notifiers,        \* capture threads
  Senders           \* detached sender threads; their number is a bound

CaptureUploaded == "CaptureUploaded"
UpdateDashboardControls == "UpdateDashboardControls"
D2CTypes == {CaptureUploaded, UpdateDashboardControls}
NoType == "none"

States == {"ReadyState", "RunState", "PreviewState"}

\* The fields some behaviour depends on, in the order Deserialize assigns them.
FieldOrder == <<"StateName", "CapturePeriod", "CurrentCaptureName", "Gain",
                "Exposure", "PulseWidth", "Predelay">>

Settings ==
  [StateName : States \union {Torn}, CapturePeriod : Int,
   CurrentCaptureName : Names \union {NoName, Torn},
   Gain : Int, Exposure : Int, PulseWidth : Int, Predelay : Int]

Cameras == [simulated : BOOLEAN,   \* a DirCamera, else the IDS camera and the PRU
            pru : [trigger : Words, pulse : Words, pause : Words],
            gain : Int, exposure : Int, capturePeriod : Int]

\* A body is the values it gives and how many of the fields, in the order of
\* FieldOrder, are read before an exception: all, some, or none (no JSON).
BodyOK(b) == b.upto \in 0 .. Len(FieldOrder) /\ b.values \in Settings

ASSUME DeviceAssumption ==
  /\ \A b \in Bodies : BodyOK(b) /\ b = [upto |-> b.upto, values |-> b.values]
  /\ InitialSettings \in Settings /\ InitialCameras \subseteq Cameras
  /\ InitialSettings.StateName = "ReadyState"
  /\ NoName \notin Names /\ Torn \notin Names \union States

VARIABLES
  state,         \* _state: which Singleton<...State> handles commands
  settings,      \* the DeviceSettings object
  camera,        \* which it is, and what it was last told: PRU words, sensor, period
  running,       \* DirCamera::running, or pruDataMem[3] of the IDS camera
  pc,            \* where the SDK thread is
  target,        \* the state the handler is about to change to
  msgbody,       \* the body SetDeviceSettings is handling
  disposition,   \* what the last handler returned
  notifying,     \* notifying[k]: the name k's OnNotification is about to store
  asked,         \* asked[s]: the type of the message s is to serialize, or NoType
  snapshot,      \* snapshot[s]: the message s is to hand over, or NoMessage
  d2c            \* the last message handed to IoTHubClient_SendEventAsync

handlerVars == <<pc, target, msgbody, disposition>>
senderVars == <<asked, snapshot>>
vars == <<state, settings, camera, running, handlerVars, notifying, senderVars, d2c>>

\* Device::directory # "": which of the two cameras the handlers drive.
Simulated == camera.simulated

Messages == [cmd : D2CTypes, StateName : States \union {Torn},
             CurrentCaptureName : Names \union {NoName, Torn}]
NoMessage == [cmd |-> NoType, StateName |-> "ReadyState", CurrentCaptureName |-> NoName]
NoBody == [upto |-> 0, values |-> InitialSettings]

TypeOK ==
  /\ state \in States
  /\ settings \in Settings
  /\ camera \in Cameras
  /\ running \in BOOLEAN
  /\ pc \in {"idle", "changeState", "deserialize", "updateCamera"}
  /\ target \in States
  /\ msgbody \in Bodies \union {NoBody}
  /\ disposition \in {"ACCEPTED", "REJECTED"}
  /\ notifying \in [Notifiers -> Names \union {NoName, Torn}]
  /\ asked \in [Senders -> D2CTypes \union {NoType}]
  /\ snapshot \in [Senders -> Messages \union {NoMessage}]
  /\ d2c \in Messages \union {NoMessage}

Init ==
  /\ state = "ReadyState"
  /\ settings = InitialSettings
  /\ camera \in InitialCameras
  /\ running = FALSE
  /\ pc = "idle" /\ target = "ReadyState" /\ msgbody = NoBody
  /\ disposition = "ACCEPTED"
  /\ notifying = [k \in Notifiers |-> NoName]
  /\ asked = [s \in Senders |-> NoType]
  /\ snapshot = [s \in Senders |-> NoMessage]
  /\ d2c = NoMessage

-----------------------------------------------------------------------------
(* The settings object and the races on it.                                *)

\* The fields Deserialize assigns from body b before something throws.
Assigned(b) == {FieldOrder[i] : i \in 1 .. b.upto}

\* DeviceSettings::Deserialize catches the exception: the fields assigned
\* before it keep their new values, the rest their old ones.
Deserialize(s, b) ==
  LET value(f) == IF f \in Assigned(b) THEN b.values[f] ELSE s[f]
  IN [StateName |-> value("StateName"),
      CapturePeriod |-> value("CapturePeriod"),
      CurrentCaptureName |-> value("CurrentCaptureName"),
      Gain |-> value("Gain"), Exposure |-> value("Exposure"),
      PulseWidth |-> value("PulseWidth"), Predelay |-> value("Predelay")]

Deserializing(f) == pc = "deserialize" /\ f \in Assigned(msgbody)

\* Values a write in progress may show another thread beside the old one.
StateNameInFlight ==
  (IF pc = "changeState" THEN {target, Torn} ELSE {})
    \union (IF Deserializing("StateName")
            THEN {msgbody.values.StateName, Torn} ELSE {})

CaptureNameInFlight(notifiers) ==
  (UNION {{notifying[k], Torn} : k \in {j \in notifiers : notifying[j] # NoName}})
    \union (IF Deserializing("CurrentCaptureName")
            THEN {msgbody.values.CurrentCaptureName, Torn} ELSE {})

\* A string assigned while another thread assigns it too.
Stored(v, raced) == IF raced THEN {v, Torn} ELSE {v}

-----------------------------------------------------------------------------
(* D2C messages: SendD2C_DeviceSettings and the thread it detaches.        *)

Idle(s) == asked[s] = NoType /\ snapshot[s] = NoMessage

\* Mutant of SendD2C_DeviceSettings: one thread is taken to be enough as long as
\* its message has not been handed over.
SendUnlessSending(t) ==
  /\ IF \E s \in Senders : asked[s] = t \/ snapshot[s].cmd = t
     THEN UNCHANGED asked
     ELSE \E s \in Senders : Idle(s) /\ asked' = [asked EXCEPT ![s] = t]
  /\ UNCHANGED snapshot

SendD2C_DeviceSettings(t) ==
  /\ \E s \in Senders : Idle(s) /\ asked' = [asked EXCEPT ![s] = t]
  /\ UNCHANGED snapshot

\* The detached thread takes its snapshot: the settings of now, not of the call
\* that started it.
Serialize(s) ==
  /\ asked[s] # NoType
  /\ asked' = [asked EXCEPT ![s] = NoType]
  /\ \E sn \in {settings.StateName} \union StateNameInFlight :
       \E cn \in {settings.CurrentCaptureName} \union CaptureNameInFlight(Notifiers) :
         snapshot' = [snapshot EXCEPT ![s] =
                        [cmd |-> asked[s], StateName |-> sn, CurrentCaptureName |-> cn]]
  /\ UNCHANGED <<state, settings, camera, running, handlerVars, notifying, d2c>>

\* It makes a message of it and hands that over, whatever has become of the
\* device and its settings since.
SendEventAsync(s) ==
  /\ snapshot[s] # NoMessage
  /\ d2c' = snapshot[s]
  /\ snapshot' = [snapshot EXCEPT ![s] = NoMessage]
  /\ UNCHANGED <<state, settings, camera, running, handlerVars, notifying, asked>>

SendMessage(s) == Serialize(s) \/ SendEventAsync(s)

-----------------------------------------------------------------------------
(* Device::OnNotification, run by capture thread k.  Only the simulated     *)
(* camera gets that far: the IDS camera's upload fails before it notifies.  *)
(* The name may be Torn already when it gets here, see DirCamera.           *)

EnterOnNotification(k, name) ==
  /\ Simulated
  /\ notifying[k] = NoName
  /\ notifying' = [notifying EXCEPT ![k] = name]
  /\ UNCHANGED <<state, settings, camera, running, handlerVars, senderVars, d2c>>

StoreCaptureName(k) ==
  /\ notifying[k] # NoName
  /\ \E v \in Stored(notifying[k], CaptureNameInFlight(Notifiers \ {k}) # {}) :
       settings' = [settings EXCEPT !.CurrentCaptureName = v]
  /\ notifying' = [notifying EXCEPT ![k] = NoName]
  /\ SendD2C_DeviceSettings(CaptureUploaded)
  /\ UNCHANGED <<state, camera, running, handlerVars, d2c>>

-----------------------------------------------------------------------------
(* The C2D handlers.  ReceiveMessageCallback looks the command up and      *)
(* passes it to _state.                                                    *)

Commands == {"Start", "Stop", "StartPreview", "StopPreview",
             "SetDeviceSettings", "GetDeviceSettings"}

\* Mutants of Handled: RunState takes new settings; a preview turns into a run.
HandledWithRunSettings(s) ==
  CASE s = "ReadyState" -> {"Start", "StartPreview", "SetDeviceSettings", "GetDeviceSettings"}
    [] s = "RunState" -> {"Stop", "SetDeviceSettings", "GetDeviceSettings"}
    [] s = "PreviewState" -> {"StopPreview", "SetDeviceSettings", "GetDeviceSettings"}

HandledWithPreviewStart(s) ==
  CASE s = "ReadyState" -> {"Start", "StartPreview", "SetDeviceSettings", "GetDeviceSettings"}
    [] s = "RunState" -> {"Stop", "GetDeviceSettings"}
    [] s = "PreviewState" -> {"Start", "StopPreview", "SetDeviceSettings", "GetDeviceSettings"}

\* The commands a state's handler does not answer with a bare REJECTED.
Handled(s) ==
  CASE s = "ReadyState" -> {"Start", "StartPreview", "SetDeviceSettings", "GetDeviceSettings"}
    [] s = "RunState" -> {"Stop", "GetDeviceSettings"}
    [] s = "PreviewState" -> {"StopPreview", "SetDeviceSettings", "GetDeviceSettings"}

Receive(cmd) == pc = "idle" /\ cmd \in Handled(state)

\* The handler of a command the state does not serve, and the default of
\* ReceiveMessageCallback for a command or a message it does not know.
Reject ==
  /\ pc = "idle"
  /\ \E cmd \in Commands \union {"unknown"} : cmd \notin Handled(state)
  /\ disposition' = "REJECTED"
  /\ UNCHANGED <<state, settings, camera, running, pc, target, msgbody,
                 notifying, senderVars, d2c>>

\* Mutant of StartCamera: the settings are not handed over.
StartCameraAsItIs == running' = TRUE /\ UNCHANGED camera

\* Device::StartCamera: hand over the settings, then start capturing.
StartCamera ==
  /\ camera' = IF Simulated
               THEN [camera EXCEPT !.capturePeriod = settings.CapturePeriod]
               ELSE [camera EXCEPT !.pru = PruValues(settings)]
  /\ running' = TRUE

\* ReadyState::Start and ReadyState::StartPreview, up to ChangeState.
BeginSession(cmd, next) ==
  /\ Receive(cmd)
  /\ StartCamera
  /\ pc' = "changeState" /\ target' = next
  /\ UNCHANGED <<state, settings, msgbody, disposition, notifying, senderVars, d2c>>

Start == BeginSession("Start", "RunState")

StartPreview == BeginSession("StartPreview", "PreviewState")

\* Mutant of EndSession: StopCamera is forgotten.
EndSessionOnly(cmd) ==
  /\ Receive(cmd)
  /\ pc' = "changeState" /\ target' = "ReadyState"
  /\ UNCHANGED <<state, settings, camera, running, msgbody, disposition,
                 notifying, senderVars, d2c>>

\* RunState::Stop and PreviewState::StopPreview, up to ChangeState.
EndSession(cmd) ==
  /\ Receive(cmd)
  /\ running' = FALSE
  /\ pc' = "changeState" /\ target' = "ReadyState"
  /\ UNCHANGED <<state, settings, camera, msgbody, disposition, notifying, senderVars, d2c>>

Stop == EndSession("Stop")

StopPreview == EndSession("StopPreview")

\* Mutant of ChangeState: the settings keep the name of the old state.
ChangeStateOnly ==
  /\ pc = "changeState"
  /\ state' = target
  /\ pc' = "idle" /\ disposition' = "ACCEPTED"
  /\ UNCHANGED <<settings, camera, running, target, msgbody, notifying, senderVars, d2c>>

\* Device::ChangeState, and the handler's return.
ChangeState ==
  /\ pc = "changeState"
  /\ state' = target
  /\ settings' = [settings EXCEPT !.StateName = target]
  /\ pc' = "idle" /\ disposition' = "ACCEPTED"
  /\ UNCHANGED <<camera, running, target, msgbody, notifying, senderVars, d2c>>

GetDeviceSettings ==
  /\ Receive("GetDeviceSettings")
  /\ SendD2C_DeviceSettings(UpdateDashboardControls)
  /\ disposition' = "ACCEPTED"
  /\ UNCHANGED <<state, settings, camera, running, pc, target, msgbody, notifying, d2c>>

\* ReadyState::SetDeviceSettings and PreviewState::SetDeviceSettings call
\* Device::UpdateSettings: Deserialize, then the camera.
SetDeviceSettings ==
  /\ Receive("SetDeviceSettings")
  /\ msgbody' \in Bodies
  /\ pc' = "deserialize"
  /\ UNCHANGED <<state, settings, camera, running, target, disposition,
                 notifying, senderVars, d2c>>

DeserializeBody ==
  /\ pc = "deserialize"
  /\ LET new == Deserialize(settings, msgbody)
         raced == /\ Deserializing("CurrentCaptureName")
                  /\ \E k \in Notifiers : notifying[k] # NoName
     IN \E cn \in Stored(new.CurrentCaptureName, raced) :
          settings' = [new EXCEPT !.CurrentCaptureName = cn]
  /\ pc' = "updateCamera"
  /\ UNCHANGED <<state, camera, running, target, msgbody, disposition,
                 notifying, senderVars, d2c>>

\* What the IDS camera is left with: the PRU words always, the gain and then
\* the exposure as far as the driver takes them; ok when it takes both.
CameraAfterUpdate(ok) ==
  LET withPru == [camera EXCEPT !.pru = PruValues(settings)]
      withGain == [withPru EXCEPT !.gain = settings.Gain]
  IN IF ok THEN {[withGain EXCEPT !.exposure = settings.Exposure]}
     ELSE {withPru, withGain}

\* Mutant of UpdateCamera: the camera's refusal is not looked at.
UpdateCameraBlindly ==
  /\ pc = "updateCamera"
  /\ \E ok \in BOOLEAN : camera' \in CameraAfterUpdate(ok)
  /\ disposition' = "ACCEPTED"
  /\ pc' = "idle" /\ msgbody' = NoBody
  /\ UNCHANGED <<state, settings, running, target, notifying, senderVars, d2c>>

UpdateCamera ==
  /\ pc = "updateCamera"
  /\ \/ /\ Simulated
        /\ camera' = [camera EXCEPT !.capturePeriod = settings.CapturePeriod]
        /\ disposition' = "ACCEPTED"
     \/ /\ ~Simulated
        /\ \E ok \in BOOLEAN :
             /\ camera' \in CameraAfterUpdate(ok)
             /\ disposition' = IF ok THEN "ACCEPTED" ELSE "REJECTED"
  /\ pc' = "idle" /\ msgbody' = NoBody
  /\ UNCHANGED <<state, settings, running, target, notifying, senderVars, d2c>>

-----------------------------------------------------------------------------

HandlerStep == ChangeState \/ DeserializeBody \/ UpdateCamera

Command ==
  Reject \/ Start \/ StartPreview \/ Stop \/ StopPreview
    \/ GetDeviceSettings \/ SetDeviceSettings

Next ==
  \/ Command
  \/ HandlerStep
  \/ \E k \in Notifiers : \E n \in Names \union {Torn} : EnterOnNotification(k, n)
  \/ \E k \in Notifiers : StoreCaptureName(k)
  \/ \E s \in Senders : SendMessage(s)

Spec == Init /\ [][Next]_vars

-----------------------------------------------------------------------------
(* What the handlers keep.                                                 *)

\* The state the device is in or, once the camera has been started or stopped,
\* about to be in.
Mode == IF pc = "changeState" THEN target ELSE state

\* The camera captures exactly during a session: no order of commands, however
\* repeated or reordered, leaves it running in ReadyState, stopped in RunState
\* or PreviewState, or started twice (ReadyState::Start ... PreviewState::StopPreview).
CapturingIffInSession == running <=> Mode # "ReadyState"

\* While it captures, and outside the update itself, the camera works with the
\* timing the settings now give (StartCamera, UpdateSettings), although it was
\* handed over earlier and an update may have been cut short by an exception.
CameraFollowsSettings ==
  running /\ pc # "updateCamera" =>
    IF Simulated THEN camera.capturePeriod = settings.CapturePeriod
                 ELSE camera.pru = PruValues(settings)

\* Every message serialized in RunState says RunState, although SetDeviceSettings
\* may have overwritten StateName before and ChangeState assigns the name after
\* the state and the camera.  Of the messages handed over in RunState this is not
\* true: ChangeState may come between Serialize and SendEventAsync.
RunSnapshotsAreLabelled ==
  [][state = "RunState" /\ pc = "idle" =>
       \A s \in Senders :
         snapshot'[s] \notin {snapshot[s], NoMessage}
           => snapshot'[s].StateName = "RunState"]_vars

\* A measuring session keeps its parameters: no step taken in RunState changes
\* a setting other than the name of the last capture, however a settings message
\* or its camera update was timed, so all that is serialized in a run reports the
\* same parameters.  They need not be the camera's (a gain it refused is in the
\* settings), nor those of a capture that began in an earlier session.
RunFreezesSettings ==
  [][state = "RunState" =>
       \A f \in {"CapturePeriod", "Gain", "Exposure", "PulseWidth", "Predelay"} :
         settings'[f] = settings[f]]_vars

\* SetDeviceSettings is acknowledged only when the camera has everything the
\* settings say (Device::UpdateSettings returns false on the first failure).
AcceptedMeansApplied ==
  [][pc = "updateCamera" /\ disposition' = "ACCEPTED" /\ pc' = "idle" =>
       IF Simulated THEN camera'.capturePeriod = settings'.CapturePeriod
       ELSE /\ camera'.pru = PruValues(settings')
            /\ camera'.gain = settings'.Gain
            /\ camera'.exposure = settings'.Exposure]_vars

\* A name that OnNotification stores is announced, however many senders are
\* under way with older names, unless a later name replaces it or somebody else
\* writes the name too, whose write a sender may see instead (claimed of
\* CaptureReporting, whose threads are scheduled).
CaptureAnnounced(n) ==
  d2c.cmd = CaptureUploaded /\ d2c.CurrentCaptureName \in {n, Torn}

LatestCaptureIsAnnounced ==
  \A k \in Notifiers : \A n \in Names :
    notifying[k] = n
      ~> \/ CaptureAnnounced(n)
         \/ notifying[k] # n /\ settings.CurrentCaptureName # n
         \/ CaptureNameInFlight(Notifiers \ {k}) # {}

\* The device implements the capture session the service relies on.
Session == INSTANCE CaptureSession
  WITH mode <- Mode, capturing <- running, config <- camera, Configs <- Cameras

ImplementsCaptureSession == Session!Spec
=============================================================================
