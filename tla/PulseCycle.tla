------------------------------ MODULE PulseCycle -----------------------------
(***************************************************************************)
(* The IDS camera's trigger: class Camera's PRU half (Camera.cpp), the     *)
(* way Device drives it, and the PRU program pulse.p.                      *)
(*                                                                         *)
(* Host and PRU share four words of data RAM and nothing else.  The host   *)
(* writes them one at a time (todo holds the accesses its current handler  *)
(* has still to make); the PRU reads each when it gets to it: the trigger, *)
(* the pulse and the pause at the start of that delay, the loop flag at    *)
(* the end of the cycle.  Delays take as long as they take.  The PRU goes  *)
(* on when the process dies, since no destructor runs then.                *)
(***************************************************************************)
EXTENDS PulseTiming, Sequences

CONSTANTS
  SettingsChoices,  \* timings a SetDeviceSettings message may bring
  InitialSettings,  \* those of Device's constructor
  Defaults          \* the delays InitPRU writes: trigger, pulse, pause

TimedSettings == [CapturePeriod : Int, PulseWidth : Int, Predelay : Int]

\* The settings a device can come to: Deserialize stops at the first field a message
\* lacks, so each field may be from a message of its own, or the constructor's.
Brought(f) == {s[f] : s \in SettingsChoices \union {InitialSettings}}
Mixtures ==
  [CapturePeriod : Brought("CapturePeriod"), PulseWidth : Brought("PulseWidth"),
   Predelay : Brought("Predelay")]

ASSUME PulseCycleAssumption ==
  /\ SettingsChoices \subseteq TimedSettings
  /\ InitialSettings \in TimedSettings
  /\ Defaults \in [trigger : Words, pulse : Words, pause : Words]

VARIABLES
  mode,        \* Device's state, "dead" while there is no process
  settings,    \* the timing fields of DeviceSettings
  todo,        \* accesses to the PRU the host is about to make, in order
  mem,         \* PRU0's data RAM: three delays and the loop flag
  phase,       \* where pulse.p is
  loaded,      \* the delays the PRU has read in this cycle, or NoDelay
  undisturbed  \* the host has changed nothing since this cycle began

hostVars == <<mode, settings, todo>>
pruVars == <<phase, loaded>>
vars == <<hostVars, mem, pruVars, undisturbed>>

Delays == {"trigger", "pulse", "pause"}
Active == {"RunState", "PreviewState"}
NoDelay == -1
NothingLoaded == [d \in Delays |-> NoDelay]

Writes == [to : Delays, word : Words] \union [to : {"flag"}, word : {0, 1}]
Exec == [to |-> "exec", word |-> 0]
Accesses == Writes \union {Exec}

TypeOK ==
  /\ mode \in Active \union {"ReadyState", "dead"}
  /\ settings \in Mixtures
  /\ todo \in Seq(Accesses) /\ Len(todo) <= 5
  /\ DOMAIN mem = Delays \union {"flag"}
  /\ \A d \in Delays : mem[d] \in Words
  /\ mem.flag \in {0, 1}
  /\ phase \in {"halted", "trigger", "pulse", "pause", "flag", "again", "end"}
  /\ loaded \in [Delays -> Words \union {NoDelay}]
  /\ undisturbed \in BOOLEAN

Write(d, w) == [to |-> d, word |-> w]

\* Mutant of InitPRU: the loop of an earlier process is left on.
InitDelays ==
  <<Write("trigger", Defaults.trigger), Write("pulse", Defaults.pulse),
    Write("pause", Defaults.pause)>>

\* Camera::InitPRU.
InitPRU ==
  <<Write("trigger", Defaults.trigger), Write("pulse", Defaults.pulse),
    Write("pause", Defaults.pause), Write("flag", 0)>>

\* Mutant of SetCameraPruValues: the predelay is forgotten.
SetPulseAndPause(s) ==
  <<Write("pulse", Pulseduration(s)), Write("pause", Pauseduration(s))>>

\* Another one: two setters get each other's value.
SetPulseForTrigger(s) ==
  <<Write("pulse", Triggerduration(s)), Write("trigger", Pulseduration(s)),
    Write("pause", Pauseduration(s))>>

\* Device::SetCameraPruValues: the setters in the order it calls them.
SetCameraPruValues(s) ==
  <<Write("pulse", Pulseduration(s)), Write("trigger", Triggerduration(s)),
    Write("pause", Pauseduration(s))>>

\* Mutant of CameraStart: the program is loaded before the loop is turned on.
ExecBeforeFlag == <<Exec, Write("flag", 1)>>

\* Camera::Start.
CameraStart == <<Write("flag", 1), Exec>>

\* The device has powered up: no PRU program yet, RAM of any contents (zeros
\* stand for the delays', which nothing reads before they are written), and a
\* process that is at InitPRU.
Init ==
  /\ mode = "ReadyState" /\ settings = InitialSettings
  /\ todo = InitPRU
  /\ \E f \in {0, 1} :
       mem = [d \in Delays \union {"flag"} |-> IF d = "flag" THEN f ELSE 0]
  /\ phase = "halted" /\ loaded = NothingLoaded
  /\ undisturbed = FALSE

-----------------------------------------------------------------------------
(* The host.  A handler is over when todo is empty.                        *)

Ready == mode # "dead" /\ todo = <<>>

\* ReadyState::Start, ReadyState::StartPreview.
StartSession(next) ==
  /\ Ready /\ mode = "ReadyState"
  /\ mode' = next
  /\ todo' = SetCameraPruValues(settings) \o CameraStart
  /\ undisturbed' = FALSE
  /\ UNCHANGED <<settings, mem, pruVars>>

\* RunState::Stop, PreviewState::StopPreview: Camera::Stop.
StopSession ==
  /\ Ready /\ mode \in Active
  /\ mode' = "ReadyState"
  /\ todo' = <<Write("flag", 0)>>
  /\ undisturbed' = FALSE
  /\ UNCHANGED <<settings, mem, pruVars>>

\* DeviceSettings::Deserialize of a message of which it gets the first n of the
\* timing fields: the others stay as they are.
Deserialize(s, n) ==
  [CapturePeriod |-> IF n > 0 THEN s.CapturePeriod ELSE settings.CapturePeriod,
   PulseWidth |-> IF n > 1 THEN s.PulseWidth ELSE settings.PulseWidth,
   Predelay |-> IF n > 2 THEN s.Predelay ELSE settings.Predelay]

\* Mutant of UpdateSettings: RunState takes settings, too.
UpdateAnytime ==
  /\ Ready
  /\ \E s \in SettingsChoices, n \in 0 .. 3 : settings' = Deserialize(s, n)
  /\ todo' = SetCameraPruValues(settings')
  /\ undisturbed' = FALSE
  /\ UNCHANGED <<mode, mem, pruVars>>

\* ReadyState::SetDeviceSettings, PreviewState::SetDeviceSettings.
UpdateSettings ==
  /\ Ready /\ mode # "RunState"
  /\ \E s \in SettingsChoices, n \in 0 .. 3 : settings' = Deserialize(s, n)
  /\ todo' = SetCameraPruValues(settings')
  /\ undisturbed' = FALSE
  /\ UNCHANGED <<mode, mem, pruVars>>

\* The next access of the handler: a store to data RAM, or loading the
\* program, which takes the PRU to START from wherever it is.
HostStep ==
  /\ mode # "dead" /\ todo # <<>>
  /\ IF Head(todo) = Exec
     THEN /\ phase' = "trigger" /\ loaded' = NothingLoaded
          /\ UNCHANGED mem
     ELSE /\ mem' = [mem EXCEPT ![Head(todo).to] = Head(todo).word]
          /\ UNCHANGED pruVars
  /\ todo' = Tail(todo)
  /\ undisturbed' = FALSE
  /\ UNCHANGED <<mode, settings>>

\* exit(), terminate_on_error or a crash, at any point of a handler.
Exit ==
  /\ mode # "dead"
  /\ mode' = "dead" /\ todo' = <<>>
  /\ undisturbed' = FALSE
  /\ UNCHANGED <<settings, mem, pruVars>>

\* The program is opened again: constructors of Camera and Device.
Restart ==
  /\ mode = "dead"
  /\ mode' = "ReadyState" /\ settings' = InitialSettings
  /\ todo' = InitPRU
  /\ UNCHANGED <<mem, pruVars, undisturbed>>

-----------------------------------------------------------------------------
(* pulse.p.                                                                *)

\* Load a delay and loop it down; the trigger's is the first of a cycle.
Delay(d, next) ==
  /\ phase = d /\ phase' = next
  /\ IF d = "trigger"
     THEN /\ loaded' = [NothingLoaded EXCEPT !.trigger = mem.trigger]
          /\ undisturbed' = (todo = <<>>)
     ELSE /\ loaded' = [loaded EXCEPT ![d] = mem[d]]
          /\ UNCHANGED undisturbed
  /\ UNCHANGED <<hostVars, mem>>

Trigger == Delay("trigger", "pulse")

Pulse == Delay("pulse", "pause")

Pause == Delay("pause", "flag")

\* Load the flag ...
ReadFlag ==
  /\ phase = "flag"
  /\ phase' = IF mem.flag # 0 THEN "again" ELSE "end"
  /\ UNCHANGED <<hostVars, mem, loaded, undisturbed>>

\* ... and branch on it: to START, or notify the host and halt.
Branch ==
  /\ \/ phase = "again" /\ phase' = "trigger"
     \/ phase = "end" /\ phase' = "halted"
  /\ UNCHANGED <<hostVars, mem, loaded, undisturbed>>

PruStep == Trigger \/ Pulse \/ Pause \/ ReadFlag \/ Branch

-----------------------------------------------------------------------------

Next ==
  \/ \E m \in Active : StartSession(m)
  \/ StopSession \/ UpdateSettings \/ HostStep \/ Exit \/ Restart
  \/ PruStep

\* The PRU runs at its clock; handlers finish; a program that has exited "will
\* reopen automatically" (FirmwareUpdateHandler.cpp:78).
Fairness == WF_vars(PruStep) /\ WF_vars(HostStep) /\ WF_vars(Restart)

Spec == Init /\ [][Next]_vars /\ Fairness

-----------------------------------------------------------------------------

\* Once a session's Start handler is through, the PRU cycles until the session
\* ends: it cannot halt on the flag of the session before, however shortly
\* before Start that was cleared (Camera::Start, Camera::Stop, pulse.p).
SessionKeepsCycling ==
  mode \in Active /\ todo = <<>> => phase \notin {"end", "halted"}

\* In a session, a cycle no update fell into has exactly the words of the
\* settings, also after an update, a restart of the PRU in the middle of a
\* cycle, or a restart of the process (SetCameraPruValues and pulse.p).
CyclesFollowSettings ==
  mode \in Active /\ undisturbed /\ phase = "flag" => loaded = PruValues(settings)

\* Such cycles last the capture period and have no runaway delay when the
\* settings are in range.
CyclesLastTheirPeriod ==
  mode \in Active /\ undisturbed /\ phase = "flag" /\ InRange(settings) =>
    /\ \A d \in Delays : loaded[d] > 0
    /\ CycleTurns(loaded) = Turns(settings.CapturePeriod * UsPerMs)

\* A run is never disturbed: from the second cycle on, nothing but whole
\* cycles of the settings it was started with (RunState::SetDeviceSettings).
RunsAreUndisturbed ==
  mode = "RunState" /\ todo = <<>> /\ phase # "trigger" => undisturbed

\* Cycles that accesses do fall into may mix settings, but each delay the PRU
\* waits for was computed for that delay, or is its default: neither what the RAM
\* held at power-up nor another delay's word, also when a process died in the
\* middle of its writes (Camera::InitPRU, SetCameraPruValues, pulse.p).
Computed(d) ==
  {Defaults[d]} \union {PruValues(s)[d] : s \in Mixtures}

DelaysAreComputed == \A d \in Delays : loaded[d] \in Computed(d) \union {NoDelay}

\* When a Stop or an InitPRU has been through, the PRU only counts down to its
\* halt: the flash fires once more at the most, though the flag of the session
\* may have been read just before it was cleared (Camera::Stop, Camera::InitPRU).
StepsLeft(p) ==
  CASE p = "again" -> 6 [] p = "trigger" -> 5 [] p = "pulse" -> 4 [] p = "pause" -> 3
    [] p = "flag" -> 2 [] p = "end" -> 1 [] p = "halted" -> 0

Idle == mode = "ReadyState" /\ todo = <<>>

IdlePruWindsDown ==
  [][Idle /\ Idle' /\ pruVars' # pruVars => StepsLeft(phase') < StepsLeft(phase)]_vars

\* The PRU stops flashing when nobody measures: after Stop, and when the process
\* of a session has died and another one stays in ReadyState (Camera::Stop,
\* Camera::InitPRU).
IdlePruHalts == mode = "ReadyState" ~> phase = "halted" \/ mode # "ReadyState"

\* Seen by its trigger only, PRU and host together are the loop the camera's
\* capture threads rely on: the program is never loaded with the flag off, and
\* no access of the host makes a cycle end early, twice or without the flag.
CyclePhase ==
  CASE phase \in {"trigger", "again"} -> "trigger"
    [] phase \in {"pulse", "pause", "flag"} -> "rest"
    [] phase \in {"end", "halted"} -> "halted"

Loop == INSTANCE TriggerLoop WITH loop <- (mem.flag # 0), phase <- CyclePhase

ImplementsTriggerLoop == Loop!Spec

\* A session is on for the service from the load of the program to its Stop.
Served ==
  IF mode \in Active /\ \A i \in 1 .. Len(todo) : todo[i] # Exec THEN mode ELSE "ReadyState"

Session == INSTANCE CaptureSession
  WITH Configs <- [Delays -> Words], mode <- Served, capturing <- Served \in Active,
       config <- [d \in Delays |-> mem[d]]

\* What Device promises of its sessions holds of the words in the PRU's RAM: they
\* are written one by one, but not while a run is on, which keeps those it began
\* with, and no exit or restart turns one session into another (Device's states,
\* SetCameraPruValues, Camera::InitPRU).
ImplementsCaptureSession == Session!Spec
=============================================================================
