----------------------------- MODULE IdsCapture ------------------------------
(***************************************************************************)
(* The IDS camera's captures: Camera::Start, Camera::Stop and the threads  *)
(* that Start detaches (Camera::HandleCaptures), over the PRU's trigger    *)
(* loop, whose detail is in PulseCycle.                                    *)
(*                                                                         *)
(* A trigger exposes the sensor; some time later the driver puts the frame *)
(* into the one image memory and sets the frame event.  The thread or      *)
(* threads that wake up name a file by the second and save what the image  *)
(* memory holds by then.  Nothing ends a capture thread but the process,   *)
(* and nothing but the process clock and the event keeps two apart.  The   *)
(* driver (uEye) is modelled from how Camera.cpp uses it.                  *)
(***************************************************************************)
EXTENDS Integers

CONSTANTS
  Handlers,   \* bound: capture threads, one for every Start of a process
  MaxFrame,   \* bound: frames the driver delivers, numbered from 1
  MaxClock    \* bound: seconds that pass

ASSUME IdsCaptureAssumption == MaxFrame \in Nat /\ MaxClock \in Nat

VARIABLES
  loop, phase,  \* the PRU, see TriggerLoop
  alive,        \* there is a process, and its camera is open
  mode,         \* "session" in RunState and PreviewState, else "ReadyState"
  host,         \* where the SDK thread is in Camera::Start, main in InitCamera
  pc,           \* where a capture thread is; "none" before it is detached
  second,       \* second[t]: the time t has put into its file's name
  exposing,     \* a frame is on its way
  event,        \* the frame event
  frame,        \* the frame in the image memory, 0 for none
  clock,        \* time(0)
  files,        \* files[s]: the frame in "capture<s>.jpg"
  spoiled,      \* threads whose save was met by a frame or another such save
  unhurried     \* every frame yet met the process at rest, in a new second

pruVars == <<loop, phase>>
threadVars == <<pc, second, files, spoiled>>
driverVars == <<exposing, event, frame>>
vars == <<pruVars, alive, mode, host, threadVars, driverVars, clock, unhurried>>

Pru == INSTANCE TriggerLoop

Seconds == 0 .. MaxClock
Frames == 1 .. MaxFrame
NoFile == 0        \* no file of this name
Garbled == -1      \* a file of parts of frames, or of the wrong one

TypeOK ==
  /\ Pru!TypeOK
  /\ alive \in BOOLEAN
  /\ mode \in {"ReadyState", "session"}
  /\ host \in {"init", "idle", "exec", "detach"}
  /\ pc \in [Handlers -> {"none", "wait", "name", "save", "upload"}]
  /\ second \in [Handlers -> Seconds]
  /\ exposing \in BOOLEAN /\ event \in BOOLEAN
  /\ frame \in Frames \union {0}
  /\ clock \in Seconds
  /\ files \in [Seconds -> Frames \union {NoFile, Garbled}]
  /\ spoiled \subseteq Handlers
  /\ unhurried \in BOOLEAN

In(place) == {t \in Handlers : pc[t] = place}

\* Nobody is handling a frame, and none waits to be handled.
AtRest == In("name") \union In("save") \union In("upload") = {} /\ ~event

\* Powered up, and through InitPRU.
Init ==
  /\ loop = FALSE /\ phase = "halted"
  /\ alive = FALSE /\ mode = "ReadyState" /\ host = "init"
  /\ pc = [t \in Handlers |-> "none"] /\ second = [t \in Handlers |-> 0]
  /\ exposing = FALSE /\ event = FALSE /\ frame = 0
  /\ clock = 0 /\ files = [s \in Seconds |-> NoFile]
  /\ spoiled = {} /\ unhurried = TRUE

-----------------------------------------------------------------------------
(* The SDK thread.                                                         *)

\* Mutant of Start: a PRU that cycles already is relied on to go on.
StartUnlessCycling ==
  /\ alive /\ host = "idle" /\ mode = "ReadyState"
  /\ In("none") # {}
  /\ loop' = (loop \/ phase = "halted") /\ UNCHANGED phase
  /\ mode' = "session" /\ host' = IF phase = "halted" THEN "exec" ELSE "detach"
  /\ UNCHANGED <<alive, threadVars, driverVars, clock, unhurried>>

\* Camera::Start turns the loop on (Device has it in ReadyState only) ...
Start ==
  /\ alive /\ host = "idle" /\ mode = "ReadyState"
  /\ In("none") # {}                                   \* bound
  /\ Pru!TurnOn
  /\ mode' = "session" /\ host' = "exec"
  /\ UNCHANGED <<alive, threadVars, driverVars, clock, unhurried>>

\* ... loads the program ...
ExecProgram ==
  /\ host = "exec" /\ host' = "detach"
  /\ Pru!Exec
  /\ UNCHANGED <<alive, mode, threadVars, driverVars, clock, unhurried>>

\* ... and detaches another capture thread.
DetachHandler ==
  /\ host = "detach" /\ host' = "idle"
  /\ \E t \in In("none") : pc' = [pc EXCEPT ![t] = "wait"]
  /\ UNCHANGED <<pruVars, alive, mode, second, files, spoiled, driverVars, clock,
                 unhurried>>

\* Mutant of Stop: the loop stays on.
StopSessionOnly ==
  /\ alive /\ host = "idle" /\ mode = "session"
  /\ mode' = "ReadyState"
  /\ UNCHANGED <<pruVars, alive, host, threadVars, driverVars, clock, unhurried>>

\* Camera::Stop: the loop is turned off, and that is all.
Stop ==
  /\ alive /\ host = "idle" /\ mode = "session"
  /\ Pru!TurnOff
  /\ mode' = "ReadyState"
  /\ UNCHANGED <<alive, host, threadVars, driverVars, clock, unhurried>>

-----------------------------------------------------------------------------
(* The PRU, the sensor and the driver.                                     *)

\* The trigger exposes the sensor if there is an open camera that is done with
\* the exposure before.
Fire ==
  /\ Pru!Fire
  /\ exposing' = (exposing \/ (alive /\ frame < MaxFrame))     \* bound
  /\ UNCHANGED <<alive, mode, host, threadVars, event, frame, clock, unhurried>>

Close ==
  /\ Pru!Close
  /\ UNCHANGED <<alive, mode, host, threadVars, driverVars, clock, unhurried>>

\* The frame goes into the image memory, whoever is saving what it held.
Frame ==
  /\ exposing /\ exposing' = FALSE
  /\ event' = TRUE /\ frame' = frame + 1
  /\ spoiled' = spoiled \union In("save")
  /\ unhurried' = (/\ unhurried /\ AtRest
                   /\ \A s \in Seconds : files[s] # NoFile => s < clock)
  /\ UNCHANGED <<pruVars, alive, mode, host, pc, second, files, clock>>

\* Time passes.
Tick ==
  /\ clock < MaxClock /\ clock' = clock + 1
  /\ UNCHANGED <<pruVars, alive, mode, host, threadVars, driverVars, unhurried>>

-----------------------------------------------------------------------------
(* HandleCaptures.                                                         *)

\* Mutant of Wake: is_WaitEvent is left without an event, say by a timeout.
WakeAnyway ==
  /\ event' = FALSE
  /\ \E woken \in (SUBSET In("wait")) \ {{}} :
       pc' = [t \in Handlers |-> IF t \in woken THEN "name" ELSE pc[t]]
  /\ UNCHANGED <<pruVars, alive, mode, host, second, files, spoiled, exposing, frame,
                 clock, unhurried>>

\* is_WaitEvent returns in one of the waiting threads, or in some of them.
Wake ==
  /\ event /\ event' = FALSE
  /\ \E woken \in (SUBSET In("wait")) \ {{}} :
       pc' = [t \in Handlers |-> IF t \in woken THEN "name" ELSE pc[t]]
  /\ UNCHANGED <<pruVars, alive, mode, host, second, files, spoiled, exposing, frame,
                 clock, unhurried>>

\* Mutants of Name: the time rounded up; the name made once, before the loop.
NameRoundedUp(t) ==
  /\ pc[t] = "name" /\ pc' = [pc EXCEPT ![t] = "save"]
  /\ second' = [second EXCEPT ![t] = clock + 1]
  /\ UNCHANGED <<pruVars, alive, mode, host, files, spoiled, driverVars, clock, unhurried>>

NameOnce(t) ==
  /\ pc[t] = "name" /\ pc' = [pc EXCEPT ![t] = "save"]
  /\ UNCHANGED <<pruVars, alive, mode, host, second, files, spoiled, driverVars, clock,
                 unhurried>>

\* "capture" + time(0) + ".jpg", and the save begins.  A save of another frame
\* to the same file, still under way, spoils this one too.
Name(t) ==
  /\ pc[t] = "name" /\ pc' = [pc EXCEPT ![t] = "save"]
  /\ second' = [second EXCEPT ![t] = clock]
  /\ spoiled' = IF \E u \in spoiled \intersect In("save") : second[u] = clock
                THEN spoiled \union {t} ELSE spoiled
  /\ UNCHANGED <<pruVars, alive, mode, host, files, driverVars, clock, unhurried>>

\* is_ImageFile is done; an older file of that name is gone.
Save(t) ==
  /\ pc[t] = "save" /\ pc' = [pc EXCEPT ![t] = "upload"]
  /\ files' = [files EXCEPT ![second[t]] = IF t \in spoiled THEN Garbled ELSE frame]
  /\ spoiled' = spoiled \ {t}
  /\ UNCHANGED <<pruVars, alive, mode, host, second, driverVars, clock, unhurried>>

\* UploadCaptureToBlobStorage: the name has no slash, so substr throws at once;
\* the exception is caught, nothing is uploaded, deleted or notified.
Upload(t) ==
  /\ pc[t] = "upload" /\ pc' = [pc EXCEPT ![t] = "wait"]
  /\ UNCHANGED <<pruVars, alive, mode, host, second, files, spoiled, driverVars, clock,
                 unhurried>>

-----------------------------------------------------------------------------
(* terminate_on_error when a save fails, or any other end of the process;  *)
(* the PRU goes on and the files stay, those being saved in any condition. *)

Exit ==
  /\ alive /\ alive' = FALSE
  /\ mode' = "ReadyState" /\ host' = "idle"
  /\ pc' = [t \in Handlers |-> "none"] /\ second' = [t \in Handlers |-> 0]
  /\ \E cut \in SUBSET {second[t] : t \in In("save")} :
       files' = [s \in Seconds |-> IF s \in cut THEN Garbled ELSE files[s]]
  /\ spoiled' = {} /\ unhurried' = FALSE
  /\ exposing' = FALSE /\ event' = FALSE
  /\ UNCHANGED <<pruVars, frame, clock>>

\* Mutant of Restart: the camera is opened first, and the PRU stopped later.
RestartWithCamera ==
  /\ ~alive /\ host = "idle"
  /\ host' = "init"
  /\ UNCHANGED <<pruVars, alive, mode, threadVars, driverVars, clock, unhurried>>

\* The constructor of the next process: InitPRU ...
Restart ==
  /\ ~alive /\ host = "idle"
  /\ Pru!TurnOff
  /\ host' = "init"
  /\ UNCHANGED <<alive, mode, threadVars, driverVars, clock, unhurried>>

\* ... and InitCamera, which opens the camera, enables the frame event and has
\* it triggered; the first of these calls to fail ends the process again.
InitCamera ==
  /\ host = "init" /\ host' = "idle"
  /\ alive' \in BOOLEAN
  /\ UNCHANGED <<pruVars, mode, threadVars, driverVars, clock, unhurried>>

-----------------------------------------------------------------------------

HostStep == ExecProgram \/ DetachHandler

Handle(t) == Name(t) \/ Save(t) \/ Upload(t)

Next ==
  \/ Start \/ Stop \/ HostStep
  \/ Fire \/ Close \/ Frame \/ Tick
  \/ Wake \/ \E t \in Handlers : Handle(t)
  \/ Exit \/ Restart \/ InitCamera

\* The PRU runs at its clock and the driver delivers what was exposed; threads
\* are scheduled; a program that has exited is opened again.
Fairness ==
  /\ WF_vars(Fire \/ Close) /\ WF_vars(Frame)
  /\ WF_vars(HostStep) /\ WF_vars(Wake)
  /\ \A t \in Handlers : WF_vars(Handle(t))
  /\ WF_vars(Restart) /\ WF_vars(InitCamera)

Spec == Init /\ [][Next]_vars /\ Fairness

-----------------------------------------------------------------------------

\* "Handle captures on each trigger" (Camera.cpp:391) holds as long as every
\* frame meets the process at rest and in a new second: whatever threads wake
\* for it, each frame is in a file of its own, which no later one replaces, or
\* is about to be.
Saved(f) == \E s \in Seconds : files[s] = f

UnhurriedKeepsAll ==
  unhurried =>
    \A f \in 1 .. frame :
      Saved(f) \/ (f = frame /\ (event \/ In("name") \union In("save") # {}))

\* Then a process that has started once, and so has one capture thread, also
\* saves no frame twice (Camera.cpp:392: every Start leaves another thread).
UnhurriedSavesOnce ==
  unhurried /\ (\A t, u \in Handlers \ In("none") : t = u) =>
    \A r, s \in Seconds : files[r] = files[s] /\ files[r] \in Frames => r = s

\* A session in which Start is through has a PRU that cycles with the loop on and a
\* thread that handles its frames, whenever in whose cycle it began: that of a
\* session just stopped or of a process that died (Camera::Start, Camera::Camera).
SessionIsServed ==
  alive /\ mode = "session" /\ host = "idle" =>
    loop /\ phase # "halted" /\ \E t \in Handlers : pc[t] # "none"

\* After Stop everything comes to rest, however many threads there are: the
\* last cycle ends, its frame is handled, and the event is left set only where
\* no thread waits for it, after a restart during the last cycle of a session.
IdleFallsStill ==
  mode = "ReadyState" /\ alive
    ~> \/ mode # "ReadyState" \/ ~alive
       \/ /\ phase = "halted" /\ ~exposing
          /\ In("name") \union In("save") \union In("upload") = {}
          /\ event => In("wait") = {}

\* A session whose process has died stops flashing even when no later process
\* can open the camera (Camera::Camera has InitPRU before InitCamera).
PruHaltsWithoutCamera == ~alive ~> alive \/ phase = "halted"

\* "Delete local file" (Camera.cpp:61), once it has been uploaded: what is saved
\* does not stay on the device.
FilesAreDeleted ==
  \A s \in Seconds : files[s] # NoFile ~> files[s] = NoFile \/ ~alive
=============================================================================
