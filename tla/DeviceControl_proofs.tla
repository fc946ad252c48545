------------------------ MODULE DeviceControl_proofs -------------------------
(***************************************************************************)
(* The invariants of DeviceControl and its refinement of CaptureSession,   *)
(* for every set of bodies, names and capture threads, both cameras and    *)
(* every timing of the PRU.                                                *)
(***************************************************************************)
EXTENDS DeviceControl, PulseTiming_proofs

\* The words handed to the PRU are words, whatever the settings are.
LEMMA PruValuesTyped ==
  ASSUME NEW s \in Settings
  PROVE  PruValues(s) \in [trigger : Words, pulse : Words, pause : Words]
BY PruValuesAreWords DEF Settings

\* Deserialize leaves proper settings behind wherever it is cut short.
LEMMA DeserializeTyped ==
  ASSUME NEW s \in Settings, NEW b, b.values \in Settings
  PROVE  Deserialize(s, b) \in Settings
BY DEF Deserialize, Settings

\* Storing a name keeps the rest of the settings, and so the timing.
LEMMA NameStored ==
  ASSUME NEW s \in Settings, NEW v \in Names \union {NoName, Torn}
  PROVE  LET t == [s EXCEPT !.CurrentCaptureName = v]
         IN t \in Settings /\ PruValues(t) = PruValues(s)
                /\ t.CapturePeriod = s.CapturePeriod /\ t.StateName = s.StateName
BY DEF Settings, PruValues, Pauseduration, Pulseduration, Triggerduration

LEMMA StateStored ==
  ASSUME NEW s \in Settings, NEW v \in States
  PROVE  LET t == [s EXCEPT !.StateName = v]
         IN t \in Settings /\ PruValues(t) = PruValues(s)
                /\ t.CapturePeriod = s.CapturePeriod /\ t.StateName = v
BY DEF Settings, PruValues, Pauseduration, Pulseduration, Triggerduration

\* What StartCamera and UpdateCamera leave is a camera.
LEMMA CameraTyped ==
  ASSUME NEW s \in Settings, NEW c \in Cameras
  PROVE  /\ [c EXCEPT !.capturePeriod = s.CapturePeriod] \in Cameras
         /\ [c EXCEPT !.pru = PruValues(s)] \in Cameras
         /\ [[c EXCEPT !.pru = PruValues(s)] EXCEPT !.gain = s.Gain] \in Cameras
         /\ [[[c EXCEPT !.pru = PruValues(s)] EXCEPT !.gain = s.Gain]
               EXCEPT !.exposure = s.Exposure] \in Cameras
BY PruValuesTyped DEF Settings, Cameras

-----------------------------------------------------------------------------
(* Type correctness.                                                       *)

LEMMA InitTyped == Init => TypeOK
<1> SUFFICES ASSUME Init PROVE TypeOK
  OBVIOUS
<1>1. /\ notifying \in [Notifiers -> Names \union {NoName, Torn}]
      /\ asked \in [Senders -> D2CTypes \union {NoType}]
      /\ snapshot \in [Senders -> Messages \union {NoMessage}]
  BY DeviceAssumption DEF Init
<1>2. settings \in Settings /\ camera \in Cameras
  BY DeviceAssumption DEF Init
<1> QED
  BY <1>1, <1>2 DEF Init, TypeOK, States

\* The body in hand gives proper settings.
LEMMA BodyTyped == TypeOK => msgbody.values \in Settings
BY DeviceAssumption DEF TypeOK, BodyOK, NoBody

LEMMA SendTyped ==
  ASSUME TypeOK, NEW t \in D2CTypes, SendD2C_DeviceSettings(t)
  PROVE  /\ asked' \in [Senders -> D2CTypes \union {NoType}]
         /\ snapshot' \in [Senders -> Messages \union {NoMessage}]
BY DEF TypeOK, SendD2C_DeviceSettings

\* A sender thread reads the settings and writes nothing but its own message.
LEMMA SendersOnlyRead ==
  ASSUME NEW s, SendMessage(s)
  PROVE  UNCHANGED <<state, settings, camera, running, pc, target, msgbody,
                     disposition, notifying>>
BY DEF SendMessage, Serialize, SendEventAsync, handlerVars

\* What it may read.
LEMMA InFlightTyped ==
  ASSUME TypeOK
  PROVE  /\ settings.StateName \in States \union {Torn}
         /\ StateNameInFlight \subseteq States \union {Torn}
         /\ settings.CurrentCaptureName \in Names \union {NoName, Torn}
         /\ CaptureNameInFlight(Notifiers) \subseteq Names \union {NoName, Torn}
BY BodyTyped DEF Settings, StateNameInFlight, CaptureNameInFlight, TypeOK

LEMMA SnapshotTyped ==
  ASSUME TypeOK, NEW s \in Senders, Serialize(s)
  PROVE  snapshot' \in [Senders -> Messages \union {NoMessage}]
<1>1. PICK sn \in {settings.StateName} \union StateNameInFlight,
           cn \in {settings.CurrentCaptureName} \union CaptureNameInFlight(Notifiers) :
        snapshot' = [snapshot EXCEPT ![s] =
                       [cmd |-> asked[s], StateName |-> sn, CurrentCaptureName |-> cn]]
  BY DEF Serialize
<1>2. sn \in States \union {Torn} /\ cn \in Names \union {NoName, Torn}
  BY InFlightTyped
<1>3. asked[s] \in D2CTypes
  BY DEF Serialize, TypeOK
<1>4. [cmd |-> asked[s], StateName |-> sn, CurrentCaptureName |-> cn] \in Messages
  BY <1>2, <1>3 DEF Messages
<1> QED
  BY <1>1, <1>4 DEF TypeOK

LEMMA StepTyped == TypeOK /\ [Next]_vars => TypeOK'
<1> SUFFICES ASSUME TypeOK, [Next]_vars
             PROVE  TypeOK'
  OBVIOUS
<1> USE DEF TypeOK, senderVars
<1>1. ASSUME NEW s \in Senders, SendMessage(s)
      PROVE  TypeOK'
  <2>1. CASE Serialize(s)
    <3>1. asked' \in [Senders -> D2CTypes \union {NoType}] /\ UNCHANGED d2c
      BY <2>1 DEF Serialize
    <3> QED
      BY <1>1, <2>1, <3>1, SnapshotTyped, SendersOnlyRead
  <2>2. CASE SendEventAsync(s)
    <3>1. /\ snapshot' \in [Senders -> Messages \union {NoMessage}]
          /\ d2c' \in Messages \union {NoMessage}
          /\ UNCHANGED asked
      BY <2>2 DEF SendEventAsync
    <3> QED
      BY <1>1, <3>1, SendersOnlyRead
  <2> QED
    BY <1>1, <2>1, <2>2 DEF SendMessage
<1>2. ASSUME NEW k \in Notifiers, NEW n \in Names \union {Torn}, EnterOnNotification(k, n)
      PROVE  TypeOK'
  BY <1>2 DEF EnterOnNotification, handlerVars
<1>3. ASSUME NEW k \in Notifiers, StoreCaptureName(k)
      PROVE  TypeOK'
  <2>1. PICK v \in Stored(notifying[k], CaptureNameInFlight(Notifiers \ {k}) # {}) :
          settings' = [settings EXCEPT !.CurrentCaptureName = v]
    BY <1>3 DEF StoreCaptureName
  <2>2. v \in Names \union {NoName, Torn}
    BY <2>1 DEF Stored
  <2>3. settings' \in Settings
    BY <2>1, <2>2, NameStored
  <2>4. /\ asked' \in [Senders -> D2CTypes \union {NoType}]
        /\ snapshot' \in [Senders -> Messages \union {NoMessage}]
    BY <1>3, SendTyped DEF StoreCaptureName, D2CTypes
  <2> QED
    BY <1>3, <2>3, <2>4 DEF StoreCaptureName, handlerVars
<1>4. CASE Reject
  BY <1>4 DEF Reject
<1>5. ASSUME NEW cmd, NEW next \in States, BeginSession(cmd, next)
      PROVE  TypeOK'
  BY <1>5, CameraTyped DEF BeginSession, StartCamera
<1>6. ASSUME NEW cmd, EndSession(cmd)
      PROVE  TypeOK'
  BY <1>6 DEF EndSession, States
<1>7. CASE ChangeState
  BY <1>7, StateStored DEF ChangeState
<1>8. CASE GetDeviceSettings
  BY <1>8, SendTyped DEF GetDeviceSettings, D2CTypes
<1>9. CASE SetDeviceSettings
  BY <1>9 DEF SetDeviceSettings
<1>10. CASE DeserializeBody
  <2> DEFINE new == Deserialize(settings, msgbody)
  <2>1. msgbody.values \in Settings
    BY BodyTyped
  <2>2. new \in Settings
    BY <2>1, DeserializeTyped
  <2>3. PICK cn \in {new.CurrentCaptureName, Torn} :
          settings' = [new EXCEPT !.CurrentCaptureName = cn]
    BY <1>10 DEF DeserializeBody, Stored
  <2>4. cn \in Names \union {NoName, Torn}
    BY <2>2 DEF Settings
  <2>5. settings' \in Settings
    <3> HIDE DEF new
    <3> QED
      BY <2>2, <2>3, <2>4, NameStored
  <2> QED
    BY <1>10, <2>5 DEF DeserializeBody
<1>11. CASE UpdateCamera
  <2>1. camera' \in Cameras
    BY <1>11, CameraTyped DEF UpdateCamera, CameraAfterUpdate
  <2> QED
    BY <1>11, <2>1 DEF UpdateCamera
<1>12. CASE UNCHANGED vars
  BY <1>12 DEF vars, handlerVars, senderVars
<1> QED
  BY <1>1, <1>2, <1>3, <1>4, <1>5, <1>6, <1>7, <1>8, <1>9, <1>10, <1>11, <1>12
     DEF Next, Command, HandlerStep, Start, StartPreview, Stop, StopPreview, States

\* Every variable keeps its type.
THEOREM TypeCorrect == Spec => []TypeOK
BY InitTyped, StepTyped, PTL DEF Spec

-----------------------------------------------------------------------------
(* The camera captures exactly during a session.  The invariant speaks of  *)
(* Mode, so the step that starts the camera and the later one that changes *)
(* the state keep it each by itself.                                       *)

LEMMA StepCaptures ==
  TypeOK /\ CapturingIffInSession /\ [Next]_vars => CapturingIffInSession'
<1> SUFFICES ASSUME TypeOK, CapturingIffInSession, [Next]_vars
             PROVE  CapturingIffInSession'
  OBVIOUS
<1> USE DEF CapturingIffInSession, Mode
<1>1. ASSUME NEW s \in Senders, SendMessage(s)
      PROVE  CapturingIffInSession'
  BY <1>1, SendersOnlyRead
<1>2. ASSUME NEW k \in Notifiers, NEW n \in Names \union {Torn}, EnterOnNotification(k, n)
      PROVE  CapturingIffInSession'
  BY <1>2 DEF EnterOnNotification, handlerVars
<1>3. ASSUME NEW k \in Notifiers, StoreCaptureName(k)
      PROVE  CapturingIffInSession'
  BY <1>3 DEF StoreCaptureName, handlerVars
<1>4. CASE Reject
  BY <1>4 DEF Reject
<1>5. ASSUME NEW cmd, NEW next \in {"RunState", "PreviewState"}, BeginSession(cmd, next)
      PROVE  CapturingIffInSession'
  BY <1>5 DEF BeginSession, StartCamera
<1>6. ASSUME NEW cmd, EndSession(cmd)
      PROVE  CapturingIffInSession'
  BY <1>6 DEF EndSession
<1>7. CASE ChangeState
  BY <1>7 DEF ChangeState
<1>8. CASE GetDeviceSettings
  BY <1>8 DEF GetDeviceSettings, Receive
<1>9. CASE SetDeviceSettings
  BY <1>9 DEF SetDeviceSettings, Receive
<1>10. CASE DeserializeBody
  BY <1>10 DEF DeserializeBody
<1>11. CASE UpdateCamera
  BY <1>11 DEF UpdateCamera
<1>12. CASE UNCHANGED vars
  BY <1>12 DEF vars, handlerVars, senderVars
<1> QED
  BY <1>1, <1>2, <1>3, <1>4, <1>5, <1>6, <1>7, <1>8, <1>9, <1>10, <1>11, <1>12
     DEF Next, Command, HandlerStep, Start, StartPreview, Stop, StopPreview

\* No order of commands leaves the camera running in ReadyState or stopped in
\* a session (the Start and Stop handlers of the three states).
THEOREM CapturesInSessions == Spec => []CapturingIffInSession
<1>1. Init => CapturingIffInSession
  BY DEF Init, CapturingIffInSession, Mode
<1> QED
  BY <1>1, TypeCorrect, StepCaptures, PTL DEF Spec

-----------------------------------------------------------------------------
(* What the camera is told.  Between DeserializeBody and UpdateCamera the  *)
(* settings are ahead of the camera; no session can begin there.           *)

LEMMA StepFollows ==
  TypeOK /\ CameraFollowsSettings /\ [Next]_vars => CameraFollowsSettings'
<1> SUFFICES ASSUME TypeOK, CameraFollowsSettings, [Next]_vars
             PROVE  CameraFollowsSettings'
  OBVIOUS
<1> USE DEF Simulated
<1> DEFINE Told(c, s) == IF c.simulated THEN c.capturePeriod = s.CapturePeriod
                         ELSE c.pru = PruValues(s)
<1>a. ASSUME UNCHANGED <<settings, camera, running>>,
             pc' # "updateCamera" => pc # "updateCamera"
      PROVE  CameraFollowsSettings'
  BY <1>a DEF CameraFollowsSettings
<1>b. ASSUME UNCHANGED <<camera, running>>,
             pc' # "updateCamera" => pc # "updateCamera",
             PruValues(settings') = PruValues(settings),
             settings'.CapturePeriod = settings.CapturePeriod
      PROVE  CameraFollowsSettings'
  BY <1>b DEF CameraFollowsSettings
<1>1. ASSUME NEW s \in Senders, SendMessage(s)
      PROVE  CameraFollowsSettings'
  BY <1>1, <1>a, SendersOnlyRead
<1>2. ASSUME NEW k \in Notifiers, NEW n \in Names \union {Torn}, EnterOnNotification(k, n)
      PROVE  CameraFollowsSettings'
  BY <1>2, <1>a DEF EnterOnNotification, handlerVars
<1>3. ASSUME NEW k \in Notifiers, StoreCaptureName(k)
      PROVE  CameraFollowsSettings'
  <2>1. PICK v \in Stored(notifying[k], CaptureNameInFlight(Notifiers \ {k}) # {}) :
          settings' = [settings EXCEPT !.CurrentCaptureName = v]
    BY <1>3 DEF StoreCaptureName
  <2>2. v \in Names \union {NoName, Torn} /\ settings \in Settings
    BY <2>1 DEF Stored, TypeOK
  <2> QED
    BY <1>3, <1>b, <2>1, <2>2, NameStored DEF StoreCaptureName, handlerVars
<1>4. CASE Reject
  BY <1>4, <1>a DEF Reject
<1>5. ASSUME NEW cmd, NEW next, BeginSession(cmd, next)
      PROVE  CameraFollowsSettings'
  BY <1>5 DEF BeginSession, StartCamera, CameraFollowsSettings, TypeOK, Cameras
<1>6. ASSUME NEW cmd, EndSession(cmd)
      PROVE  CameraFollowsSettings'
  BY <1>6 DEF EndSession, CameraFollowsSettings
<1>7. CASE ChangeState
  <2>1. settings' = [settings EXCEPT !.StateName = target]
          /\ target \in States /\ settings \in Settings
    BY <1>7 DEF ChangeState, TypeOK
  <2> QED
    BY <1>7, <1>b, <2>1, StateStored DEF ChangeState
<1>8. CASE GetDeviceSettings
  BY <1>8, <1>a DEF GetDeviceSettings
<1>9. CASE SetDeviceSettings
  BY <1>9, <1>a DEF SetDeviceSettings, Receive
<1>10. CASE DeserializeBody
  BY <1>10 DEF DeserializeBody, CameraFollowsSettings
<1>11. CASE UpdateCamera
  <2>1. settings' = settings /\ camera \in Cameras
    BY <1>11 DEF UpdateCamera, TypeOK
  <2>2. Told(camera', settings)
    BY <1>11, <2>1 DEF UpdateCamera, CameraAfterUpdate, Cameras
  <2> QED
    BY <2>1, <2>2 DEF CameraFollowsSettings
<1>12. CASE UNCHANGED vars
  BY <1>12, <1>a DEF vars, handlerVars, senderVars
<1> QED
  BY <1>1, <1>2, <1>3, <1>4, <1>5, <1>6, <1>7, <1>8, <1>9, <1>10, <1>11, <1>12
     DEF Next, Command, HandlerStep, Start, StartPreview, Stop, StopPreview

\* A capturing camera has the timing of the settings, however often they were
\* set before and during the session and however badly (SetCameraPruValues,
\* StartCamera, UpdateSettings).
THEOREM CameraFollows == Spec => []CameraFollowsSettings
<1>1. Init => CameraFollowsSettings
  BY DEF Init, CameraFollowsSettings
<1> QED
  BY <1>1, TypeCorrect, StepFollows, PTL DEF Spec

-----------------------------------------------------------------------------
(* Labels and parameters of a run.  Neither is inductive by itself: a      *)
(* SetDeviceSettings accepted in another state could finish in RunState.   *)
(* That it cannot, because a handler finishes before the next command, is  *)
(* the missing part.                                                       *)

UpdatesOutsideRuns == pc \in {"deserialize", "updateCamera"} => state # "RunState"

\* In RunState the settings carry RunState's name.
RunStateIsLabelled == state = "RunState" => settings.StateName = "RunState"

LabelInv == UpdatesOutsideRuns /\ RunStateIsLabelled

LEMMA StepLabels ==
  TypeOK /\ LabelInv /\ [Next]_vars => LabelInv'
<1> SUFFICES ASSUME TypeOK, LabelInv, [Next]_vars
             PROVE  LabelInv'
  OBVIOUS
<1> USE DEF LabelInv, UpdatesOutsideRuns, RunStateIsLabelled
<1>1. ASSUME NEW s \in Senders, SendMessage(s)
      PROVE  LabelInv'
  BY <1>1, SendersOnlyRead
<1>2. ASSUME NEW k \in Notifiers, NEW n \in Names \union {Torn}, EnterOnNotification(k, n)
      PROVE  LabelInv'
  BY <1>2 DEF EnterOnNotification, handlerVars
<1>3. ASSUME NEW k \in Notifiers, StoreCaptureName(k)
      PROVE  LabelInv'
  <2>1. PICK v \in Stored(notifying[k], CaptureNameInFlight(Notifiers \ {k}) # {}) :
          settings' = [settings EXCEPT !.CurrentCaptureName = v]
    BY <1>3 DEF StoreCaptureName
  <2>2. v \in Names \union {NoName, Torn} /\ settings \in Settings
    BY <2>1 DEF Stored, TypeOK
  <2> QED
    BY <1>3, <2>1, <2>2, NameStored DEF StoreCaptureName, handlerVars
<1>4. CASE Reject
  BY <1>4 DEF Reject
<1>5. ASSUME NEW cmd, NEW next, BeginSession(cmd, next)
      PROVE  LabelInv'
  BY <1>5 DEF BeginSession
<1>6. ASSUME NEW cmd, EndSession(cmd)
      PROVE  LabelInv'
  BY <1>6 DEF EndSession
<1>7. CASE ChangeState
  BY <1>7 DEF ChangeState, TypeOK, Settings
<1>8. CASE GetDeviceSettings
  BY <1>8 DEF GetDeviceSettings
<1>9. CASE SetDeviceSettings
  BY <1>9 DEF SetDeviceSettings, Receive, Handled, TypeOK, States
<1>10. CASE DeserializeBody
  BY <1>10 DEF DeserializeBody
<1>11. CASE UpdateCamera
  BY <1>11 DEF UpdateCamera
<1>12. CASE UNCHANGED vars
  BY <1>12 DEF vars, handlerVars, senderVars
<1> QED
  BY <1>1, <1>2, <1>3, <1>4, <1>5, <1>6, <1>7, <1>8, <1>9, <1>10, <1>11, <1>12
     DEF Next, Command, HandlerStep, Start, StartPreview, Stop, StopPreview

LEMMA StepReports ==
  TypeOK /\ LabelInv /\ [Next]_vars =>
    [state = "RunState" /\ pc = "idle" =>
       \A s \in Senders :
         snapshot'[s] \notin {snapshot[s], NoMessage}
           => snapshot'[s].StateName = "RunState"]_vars
<1> SUFFICES ASSUME TypeOK, LabelInv, Next, state = "RunState", pc = "idle",
                    NEW s \in Senders, snapshot'[s] \notin {snapshot[s], NoMessage}
             PROVE  snapshot'[s].StateName = "RunState"
  BY DEF vars, senderVars
<1>1. PICK r \in Senders : SendMessage(r)
  BY DEF Next, Command, HandlerStep, EnterOnNotification, StoreCaptureName, Reject,
         Start, StartPreview, BeginSession, Stop, StopPreview, EndSession, senderVars,
         GetDeviceSettings, SetDeviceSettings, ChangeState, DeserializeBody,
         UpdateCamera, SendD2C_DeviceSettings
<1>2. StateNameInFlight = {} /\ settings.StateName = "RunState"
  BY DEF StateNameInFlight, Deserializing, LabelInv, RunStateIsLabelled
<1>3. Serialize(r) /\ r = s
  BY <1>1 DEF SendMessage, Serialize, SendEventAsync, TypeOK
<1> QED
  BY <1>2, <1>3 DEF Serialize, TypeOK

\* What is serialized in RunState says RunState, whenever its thread was started
\* and whatever a SetDeviceSettings wrote before (Device::ChangeState,
\* RunState::SetDeviceSettings, the thread of SendD2C_DeviceSettings).
THEOREM RunIsLabelled == Spec => RunSnapshotsAreLabelled
<1>1. Init => LabelInv
  BY DEF Init, LabelInv, UpdatesOutsideRuns, RunStateIsLabelled
<1> QED
  BY <1>1, TypeCorrect, StepLabels, StepReports, PTL DEF Spec, RunSnapshotsAreLabelled

LEMMA StepFreezes ==
  TypeOK /\ LabelInv /\ [Next]_vars =>
    [state = "RunState" =>
       \A f \in {"CapturePeriod", "Gain", "Exposure", "PulseWidth", "Predelay"} :
         settings'[f] = settings[f]]_vars
<1> SUFFICES ASSUME TypeOK, LabelInv, Next, state = "RunState",
                    NEW f \in {"CapturePeriod", "Gain", "Exposure", "PulseWidth",
                               "Predelay"}
             PROVE  settings'[f] = settings[f]
  BY DEF vars
<1> settings \in Settings
  BY DEF TypeOK
<1>1. ASSUME NEW k \in Notifiers, StoreCaptureName(k)
      PROVE  settings'[f] = settings[f]
  BY <1>1 DEF StoreCaptureName, Settings
<1>2. CASE ChangeState
  BY <1>2 DEF ChangeState, Settings
<1>3. CASE DeserializeBody
  BY <1>3 DEF DeserializeBody, LabelInv, UpdatesOutsideRuns
<1>4. ASSUME UNCHANGED settings
      PROVE  settings'[f] = settings[f]
  BY <1>4
<1>5. Next => UNCHANGED settings \/ ChangeState \/ DeserializeBody
                \/ \E k \in Notifiers : StoreCaptureName(k)
  BY SendersOnlyRead
     DEF Next, Command, HandlerStep, EnterOnNotification, Reject, Start, StartPreview, BeginSession, Stop, StopPreview, EndSession,
         GetDeviceSettings, SetDeviceSettings, UpdateCamera
<1> QED
  BY <1>1, <1>2, <1>3, <1>4, <1>5

\* A run keeps the parameters it started with: all that is serialized in it
\* reports the same ones (RunState::SetDeviceSettings, Device::UpdateSettings).
THEOREM RunsFreezeSettings == Spec => RunFreezesSettings
<1>1. Init => LabelInv
  BY DEF Init, LabelInv, UpdatesOutsideRuns, RunStateIsLabelled
<1> QED
  BY <1>1, TypeCorrect, StepLabels, StepFreezes, PTL DEF Spec, RunFreezesSettings

-----------------------------------------------------------------------------
(* Acknowledgements.                                                       *)

LEMMA StepAccepts ==
  TypeOK /\ [Next]_vars =>
    [pc = "updateCamera" /\ disposition' = "ACCEPTED" /\ pc' = "idle" =>
       IF Simulated THEN camera'.capturePeriod = settings'.CapturePeriod
       ELSE /\ camera'.pru = PruValues(settings')
            /\ camera'.gain = settings'.Gain
            /\ camera'.exposure = settings'.Exposure]_vars
<1> SUFFICES ASSUME TypeOK, Next, pc = "updateCamera", pc' = "idle",
                    disposition' = "ACCEPTED"
             PROVE  IF Simulated THEN camera'.capturePeriod = settings'.CapturePeriod
                    ELSE /\ camera'.pru = PruValues(settings')
                         /\ camera'.gain = settings'.Gain
                         /\ camera'.exposure = settings'.Exposure
  BY DEF vars
<1>1. UpdateCamera
  <2>1. pc' = pc \/ HandlerStep \/ pc = "idle"
    BY SendersOnlyRead
       DEF Next, Command, EnterOnNotification, StoreCaptureName, handlerVars,
           Reject, Start, StartPreview, BeginSession, Stop, StopPreview,
           EndSession, GetDeviceSettings, SetDeviceSettings, Receive
  <2> QED
    BY <2>1 DEF HandlerStep, ChangeState, DeserializeBody
<1>2. camera \in Cameras /\ UNCHANGED settings
  BY <1>1 DEF UpdateCamera, TypeOK
<1>3. CASE Simulated
  BY <1>1, <1>2, <1>3 DEF UpdateCamera, Cameras
<1>4. CASE ~Simulated
  <2>1. camera' \in CameraAfterUpdate(TRUE)
    BY <1>1, <1>4 DEF UpdateCamera
  <2> QED
    BY <1>2, <1>4, <2>1 DEF CameraAfterUpdate, Cameras
<1> QED
  BY <1>3, <1>4

\* SetDeviceSettings is acknowledged only when the camera has what the settings
\* say, wherever the body was cut short (Device::UpdateSettings).
THEOREM AcceptedApplies == Spec => AcceptedMeansApplied
BY TypeCorrect, StepAccepts, PTL DEF Spec, AcceptedMeansApplied

-----------------------------------------------------------------------------
(* The device implements the capture session: commands are its steps, the  *)
(* rest of the handlers, the notifications and the messages stutter.       *)

SessionVars == <<Mode, running, camera>>

LEMMA BeginRefines ==
  ASSUME TypeOK, NEW cmd, NEW next \in Session!Active,
         BeginSession(cmd, next), state = "ReadyState"
  PROVE  Session!Begin(next)
<1>1. camera' \in Cameras
  BY CameraTyped DEF BeginSession, StartCamera, TypeOK
<1> QED
  BY <1>1 DEF Session!Begin, BeginSession, StartCamera, Receive, Mode

LEMMA EndRefines ==
  ASSUME TypeOK, NEW cmd, EndSession(cmd), state \in Session!Active
  PROVE  Session!End
BY DEF EndSession, Receive, Mode, Session!End

LEMMA UpdateRefines ==
  ASSUME TypeOK, LabelInv, UpdateCamera
  PROVE  Session!Configure
<1>1. camera' \in Cameras
  BY CameraTyped DEF UpdateCamera, CameraAfterUpdate, TypeOK
<1>2. pc = "updateCamera" /\ state # "RunState" /\ pc' = "idle"
  BY DEF UpdateCamera, LabelInv, UpdatesOutsideRuns
<1>3. UNCHANGED <<state, running>>
  BY DEF UpdateCamera
<1> QED
  BY <1>1, <1>2, <1>3 DEF Session!Configure, Mode

\* A state serves Start and Stop only where the abstract session does.
LEMMA ServedWhere ==
  ASSUME TypeOK
  PROVE  /\ Receive("Start") \/ Receive("StartPreview") => state = "ReadyState"
         /\ Receive("Stop") => state = "RunState"
         /\ Receive("StopPreview") => state = "PreviewState"
BY DEF Receive, Handled, TypeOK, States

LEMMA StepRefines ==
  TypeOK /\ LabelInv /\ [Next]_vars => [Session!Next]_SessionVars
<1> SUFFICES ASSUME TypeOK, LabelInv, [Next]_vars
             PROVE  Session!Next \/ UNCHANGED SessionVars
  OBVIOUS
<1>1. CASE Start
  <2>1. state = "ReadyState"
    BY <1>1, ServedWhere DEF Start, BeginSession
  <2> QED
    BY <1>1, <2>1, BeginRefines DEF Start, Session!Next, Session!Active
<1>2. CASE StartPreview
  <2>1. state = "ReadyState"
    BY <1>2, ServedWhere DEF StartPreview, BeginSession
  <2> QED
    BY <1>2, <2>1, BeginRefines DEF StartPreview, Session!Next, Session!Active
<1>3. CASE Stop
  <2>1. state = "RunState"
    BY <1>3, ServedWhere DEF Stop, EndSession
  <2> QED
    BY <1>3, <2>1, EndRefines DEF Stop, Session!Next, Session!Active
<1>4. CASE StopPreview
  <2>1. state = "PreviewState"
    BY <1>4, ServedWhere DEF StopPreview, EndSession
  <2> QED
    BY <1>4, <2>1, EndRefines DEF StopPreview, Session!Next, Session!Active
<1>5. CASE UpdateCamera
  BY <1>5, UpdateRefines DEF Session!Next
<1>6. CASE ChangeState
  BY <1>6 DEF ChangeState, SessionVars, Mode
<1>7. CASE SetDeviceSettings \/ DeserializeBody
  BY <1>7 DEF SetDeviceSettings, DeserializeBody, Receive, SessionVars, Mode
<1>8. CASE Reject \/ GetDeviceSettings
  BY <1>8 DEF Reject, GetDeviceSettings, SessionVars, Mode
<1>9. ASSUME NEW k \in Notifiers,
             StoreCaptureName(k) \/ \E n \in Names \union {Torn} : EnterOnNotification(k, n)
      PROVE  UNCHANGED SessionVars
  BY <1>9 DEF StoreCaptureName, EnterOnNotification, handlerVars, SessionVars, Mode
<1>10. ASSUME NEW s \in Senders, SendMessage(s)
       PROVE  UNCHANGED SessionVars
  BY <1>10, SendersOnlyRead DEF SessionVars, Mode
<1>11. CASE UNCHANGED vars
  BY <1>11 DEF vars, handlerVars, senderVars, SessionVars, Mode
<1> QED
  BY <1>1, <1>2, <1>3, <1>4, <1>5, <1>6, <1>7, <1>8, <1>9, <1>10, <1>11
     DEF Next, Command, HandlerStep

\* One session at a time, begun and ended as a whole, a run with the camera it
\* began with: what the service relies on (the state classes of Device.cpp).
THEOREM RefinesSession == Spec => ImplementsCaptureSession
<1>1. Init => LabelInv /\ Session!Init
  BY DeviceAssumption
     DEF Init, LabelInv, UpdatesOutsideRuns, RunStateIsLabelled, Session!Init, Mode
<1>2. [Session!Next]_SessionVars => [Session!Next]_Session!vars
  BY DEF SessionVars, Session!vars
<1> QED
  BY <1>1, <1>2, TypeCorrect, StepLabels, StepRefines, PTL
     DEF Spec, ImplementsCaptureSession, Session!Spec
=============================================================================
