# A TLA+ model of the ISM device

The repository is the firmware of a measuring device: a process on a BeagleBone
that takes commands from an Azure IoT Hub, triggers a camera and a flash through
the board's PRU, uploads the pictures and reports them, and updates itself. Its
own code is small (`src/src`: `Device.cpp`, `Camera.cpp`, `DirCamera.cpp`,
`PubSub.cpp`, `FirmwareUpdateHandler.cpp`, `pulse.p`, `statetest.cpp`); the rest
are third-party headers. It has many threads, almost no locks, a coprocessor and
a disk that survives the process, and no tests. This directory models what those
actors do to each other, checks it with TLC and proves the core of it with TLAPS.

## The system

| component | state | operations | who calls it |
|---|---|---|---|
| `Device` and its State pattern | `_state`, `settings`, the camera | `Start`, `Stop`, `StartPreview`, `StopPreview`, `SetDeviceSettings`, `GetDeviceSettings`, `OnNotification`, `DeviceMethodCallback` | the SDK's worker thread (commands, direct method), capture threads (notifications) |
| `DeviceSettings` | 14 unlocked fields | `Serialize`, `Deserialize`, setters | SDK thread, capture threads, detached sender threads |
| senders | a detached thread per message | `SendD2C_DeviceSettings`, `SendD2C_FwUpdateStatus` | `Device` |
| `DirCamera` (option `-c`) | `running`, `capturePeriod`, the images | `Start`, `Stop`, capture threads | `Device` |
| publisher (`PubSub`) | one pointer to the current notification | `SetNotification`, `Notify` | capture threads |
| `Camera` (IDS) | gain, exposure, PRU data RAM, the driver's frame event and image memory, files named by the second | `Start`, `Stop`, `InitPRU`, `InitCamera`, setters, capture threads | `Device` |
| `pulse.p` on PRU0 | where it is in its cycle | trigger, pulse, pause, loop flag | runs by itself |
| `FirmwareUpdateHandler` and `Device`'s constructor | package, `~/.fwtmp`, `config.json`, all on disk | download, verify, extract, apply, report | a detached thread per call, the next process |

What is hard about it, and what would make it correct:

* *Commands* come in any order and more than once. The camera has to capture
  exactly while a session is on, a measuring run (`RunState`) has to keep its
  parameters, and an acknowledged setting has to be in the camera, although a
  settings message may be cut short by an exception that is swallowed and the
  camera driver may refuse part of it.
* *Threads*. `Stop` waits for nobody, so captures and whole capture threads
  outlive their session; senders serialize whatever the settings are by then; the
  publisher's pointer leads into some thread's stack. No start may be lost, every
  stop has to come to rest, and what is announced must be there to be fetched.
* *Host and PRU* share four words that are written and read one at a time, and the
  delays are computed in unsigned arithmetic that wraps, for loops in which zero is
  the longest delay. Sessions must keep cycling, idle devices must stop flashing,
  also after the process has died, and cycles have to last the capture period.
* *Frames* of the IDS camera arrive in one image memory with one event, for capture
  threads that no `Stop` ends and that name files by the second. None that came
  with time to spare may be lost, mixed with another or replaced.
* *Updates* end their own process, and the next one finds out from the disk what
  happened. Updates may meet each other, a call that cannot be parsed, a power cut, an
  exit for other reasons or a script that fails.

PROJECT.json lists these hazards one by one with their lines and the properties
aimed at them.

## Modules

| module | models | checked by | proved in |
|---|---|---|---|
| `PulseTiming` | `Device::SetCameraPruValues`, the delay loops of `pulse.p` | used by all runs | `PulseTiming_proofs` |
| `CaptureSession` | abstract: what the device promises the service | as a property of `DeviceControl` and `PulseCycle` | |
| `DeviceControl` | `Device`, its states, the settings, senders, both cameras as seen from there | `MCDeviceControl` | `DeviceControl_proofs` |
| `DirCamera` | `DirCamera`, `PubSub` | itself | `DirCamera_proofs` |
| `CaptureReporting` | `DeviceControl` and `DirCamera` composed, with a dashboard | `MCCaptureReporting` | `CaptureReporting_proofs` |
| `TriggerLoop` | abstract: what the PRU is to the camera and its threads | as a property | |
| `PulseCycle` | `Camera`'s PRU half, `pulse.p`, exits and restarts | `MCPulseCycle` | `PulseCycle_proofs` |
| `IdsCapture` | `Camera`'s other half: frames, capture threads, files, `InitCamera`; composed with `TriggerLoop` | itself | `IdsCapture_proofs` |
| `FirmwareUpdate` | `FirmwareUpdateHandler`, the direct method, the constructor's report | `MCFirmwareUpdate` | `FirmwareUpdate_proofs` |
| `UpdateProtocol` | abstract: what becomes of an update that is called for | as a property | |
| `SerialUpdates` | `FirmwareUpdate` with a history of updates that have not met | `MCFirmwareUpdate` | `SerialUpdates_proofs` |

`DeviceControl` is the core. Its `pc` splits a handler where another thread can
get in between: `Start` starts the camera, `ChangeState` follows in a step of its
own; `SetDeviceSettings` deserializes, then updates the camera. A message body is
the values it carries and the number of fields `Deserialize` reads before it
throws. A detached sender takes two steps: `Serialize` takes a snapshot of the settings
of that moment (`asked` to `snapshot`), `SendEventAsync` hands it over. Between them
anything may happen: a message serialized in `ReadyState` may be handed over in
`RunState`, and messages of two senders may change places. So what is said of a run's
labels is said of the snapshots (`RunSnapshotsAreLabelled`). The strings that two threads touch without a lock are subject to the race:
a reader sees the old value, the new one or `Torn`, and a write that meets another
write leaves one of the values or `Torn`. The seven fields no behaviour depends on
(`DeviceId`, `Current` and the five Matlab parameters) are left out. Settings and camera
may disagree on gain and exposure: when the driver refuses one, the settings keep it.
`RunFreezesSettings` is about the settings, and `CameraFollowsSettings` about the timing
only.
`InitialCameras` holds the cameras the process may have been started with; which one
it is never changes. With the IDS camera nothing is ever announced: the names of its
captures have no slash, so the upload throws before it notifies (`Camera.cpp:54`).

`CaptureReporting` conjoins the actions of the two components that are one call in
the code: `StartSession` is `Device`'s handler up to `DirCamera::Start`,
`NotifyDevice` is `Notify` entering `OnNotification`. Both share `running`. Its
dashboard sends settings back with capture names it can know. Every step of the
composition is one of `DeviceControl` and one of `DirCamera`, or leaves the latter
alone; the proofs rest on that.

`PulseCycle` has the same `Deserialize` for the three timing fields: the settings a
device can come to are mixtures of what it is sent (`Mixtures`). It keeps the accesses a handler has still to make in `todo`, so that the
PRU's reads fall between any two of the host's writes. `Exit` may happen anywhere:
no destructor runs and the PRU goes on. `undisturbed` is a history variable of the
model: the host has done nothing since the PRU began this cycle. Of all this detail
the trigger shows little: `PulseCycle` implements `TriggerLoop`, a loop that fires,
looks at the flag at the end of its cycle and is never started with the flag off. And
of all its words the service shall see no more than `CaptureSession` promises: a
session is on from the load of the program to its Stop (`Served`), and its
configuration is what is in the RAM, word by word.

`IdsCapture` takes that loop instead of the delays and words and adds what a trigger
sets off. A frame replaces the contents of the one image memory, also under a save
that is being made of them; any of the waiting threads may wake for an event; every
`Start` detaches one more of them. `InitCamera` is a step that opens the camera or
ends the process. `spoiled` marks saves that cannot come out right any more, and
`unhurried`, a history variable, says that no frame so far came while another was
being handled, or in the second of the one before.

`FirmwareUpdate` has what is on disk as its state proper and everything else die
with the process. A call is parsed on the SDK's thread, where an exception ends the
process. `faults` is chosen once. Scripts may fail in every case; with `"losses"`
`xfwupdate.sh` may also fail before it has made `.fwtmp`, so that the error finds no
place, and a status may not be sent because `config.json` does not parse
(`Device.cpp:472`; the exception is caught and printed). With `"leftovers"` the process
may also be cut off at any point, by the camera's `terminate_on_error`, say, or with the
power, and `rm -rf ~/.fwtmp` may fail: the constructor prints that and goes on with
whatever files are left (`Device.cpp:110-113`). `rmFailed` says that the last one did.
The program is reopened whenever it has ended, without waiting for `apply.sh`, which the
old process only started; its effect is modelled as having been started for the package
that was there. `setsetting`, whose result the constructor stores and ignores, and
`mkdir`, whose result nobody looks at, are taken to succeed. The scripts `verify.sh`,
`xfwupdate.sh` and `apply.sh` and whatever reopens the program are not in the
repository; they are modelled from how the code uses them.

`SerialUpdates` adds the history variable `serial`: updates have met neither each other
nor the constructor. What holds of them is `UpdateProtocol`: a call, the fetch of its
package, then one outcome, which is sent once. A lossy device (`faults` other than
`"none"`) may lose the outcome of a sound package that could not be extracted, or an
outcome instead of sending it, and nothing more: it does not bring it up later, or for
another update. The protocol's current update is the one
whose thread exists; its pending outcome is in the files of `.fwtmp` while the process
is down or booting, in `config.json` while the constructor announces, and last with the
detached sender (`Outcome`). From the moment on when updates have met, and for a device
with leftovers, the protocol allows anything; what holds even then is stated apart:
serial updates apply and record only what was verified (`SerialUpdatesAreSound`; a
failed `rm` may put an old error file beside them, which the next process then
reports), and an idle device is clean unless the last `rm` failed (`IdleIsClean`).

Each module also holds a few operators marked as mutants: a plausible mistake in
the definition that follows. Substituted for it, each makes a run fail; that
shows the properties have something to say about the code.

## Runs

| run | question | bounds |
|---|---|---|
| `device_control` | Do camera, state, settings, messages and acknowledgement stay together, and is it a `CaptureSession`? | either camera, bodies that stop at five different fields, a racing notifier, one sender |
| `capture_reporting` | With real capture threads: is a session ever without one, is anything announced that cannot be fetched? | 2 capture threads, 2 images, 1 sender, an echoing dashboard |
| `reporting_liveness` | Does a stopped device fall silent, is the last name stored announced? | 1 capture thread, 2 images, 2 senders, a dashboard that echoes one of them |
| `dir_camera` | Is a start lost, a stop; what is told to subscribers? | 2 threads, 2 images |
| `pulse_cycle` | Does a session keep cycling with its settings, an idle PRU wind down and halt, can a delay be stray, is it a `TriggerLoop` and a `CaptureSession`? | 2 messages that may be cut short, over the constructor's settings, so 9 settings: in range, wrapping, a pause of zero, a negative pause |
| `ids_capture` | Are unhurried frames kept, once each; is every session served; does a stopped camera come to rest, and the PRU of a dead process? | 2 capture threads, 3 frames, 4 seconds |
| `firmware_update` | Is an idle device clean, a serial update sound, and update, restart and report together an `UpdateProtocol`? | 2 updates, one valid; they may meet where there are leftovers |
| `notification_target` | *violated*: a notification delivers its own capture (`DirCamera.cpp:132-135`) | 2 threads |
| `state_label` | *violated*: StateName tells measurement from preview (`Commands.h:32-34`) | 2 threads |
| `every_capture` | *violated*: the new name is sent as a message (`Device.cpp:213`) | 1 thread, 2 images, 2 senders |
| `update_power_cut` | *violated*: if `.fwtmp` exists we just rebooted from an update (`Device.cpp:81`) | 1 update |
| `ids_upload` | *violated*: the local file is deleted once it is uploaded (`Camera.cpp:58-62`) | 2 capture threads, 2 frames |

Why the bounds are enough to be of interest: two capture threads are the least
that can share the publisher's pointer, race on a string and outlive a session;
more add no new pair. Two images let a name be overwritten by another one. Words of
six bits wrap at a capture period of 4 ms the way 32 bits wrap at 21475 ms, and the
settings include a product that wraps, a difference that is zero and one below zero.
Two updates, one of
them invalid, can overwrite each other's package between verification and
extraction. Three frames in four seconds are the least that let one be handled late
twice, by two threads; `Handlers` bounds the number of sessions of one process, since
threads never end, and `MaxFrame` and `MaxClock` bound history, not concurrency (the
proofs of `IdsCapture` hold for all three). `time(0)` is taken never to go back.
`Senders` is the one bound on a resource that is not in the code: the number of
detached senders at a time. Two can overtake each other. A capture thread that needs a
third waits in the model, where the code would detach one more; strong fairness of
`OnNotificationReturns` makes up for that (below). Symmetry is used in
`capture_reporting` only, over capture threads and over images, which no property there
tells apart.

The state space of the composition is kept in reach by leaving out, in the MC module,
what the properties of the run do not see: the runs of `CaptureReporting` that use
`MCSpec` or `MCLivenessSpec` have no `GetDeviceSettings` (its message differs from an
announcement in its type only, and `device_control` has it), and those that use
`MCLivenessSpec` no previews (a preview is a session of another name) and one capture
thread: two capture threads are in the safety run, and names are overwritten and sent
out of order with one, too. The run of `FirmwareUpdate` lets updates meet only where
there may be leftovers: what is claimed of updates that have met is claimed there, too,
where they can do all they do elsewhere.

What the violated properties show is the code's behaviour and not a shortcut of the
model; each is explained at its finding in PROJECT.json. `OwnCapture` has a
counterpart that holds (`SequentialDeliversOwn`: sessions that do not overlap are
safe), and so has `SerialCompletedWasApplied` (`UncutCompletedWasApplied`).

### Fairness

Threads of the process are scheduled, so a thread that can take a step does (weak
fairness per thread); an upload ends one way or the other; the PRU runs at its
clock and the driver delivers what was exposed; a program that has exited is
reopened, as the comment in `FirmwareUpdateHandler.cpp:78` relies on. The return from
`OnNotification` has strong fairness: it detaches a sender, which the code can always do
and the model only while one of its `Senders` is idle; they become idle again and again,
since each has weak fairness, so that all this asks for is that the wait the bound
brings in ends. Opening the
camera need never succeed. Nobody has to send commands, call for updates or cut the
power. `DeviceControl` on its own states no fairness, its threads being only halves
of real ones: liveness of notifications is checked of `CaptureReporting`.

## Proofs

TLAPS proves, for all values of the constants:

* `PulseTiming_proofs`: settings in range (`InRange`: positive delays that fit the
  period, a period that fits a word) yield words whose cycle lasts exactly the
  capture period and that contain no zero, for every word size and clock
  (`CycleIsCapturePeriod`). With the code's constants that is up to 21474 ms
  (`CodeRange`); at 21475 ms the product wraps and the cycle lasts twice as long
  (`FirstWrappingPeriod`). The lemmas say where the unsigned arithmetic does not
  wrap and that integer division loses less than the predelay and pulse have to
  spare.
* `DeviceControl_proofs`: the type invariant; then `CapturingIffInSession`;
  `CameraFollowsSettings`; `RunSnapshotsAreLabelled`; `RunFreezesSettings`;
  `AcceptedMeansApplied`; and that `DeviceControl` implements `CaptureSession`. None
  of the invariants is inductive alone. They need to know, above all, that a
  settings update is never on its way in `RunState` (`UpdatesOutsideRuns`): it
  begins in `ReadyState` or `PreviewState` and the one SDK thread finishes it before
  another command. The label needs in addition that a name in flight is the state
  about to be entered (`RunStateIsLabelled`).
* `DirCamera_proofs`: `ToldOnlyUploads`, with what a thread holds at each place
  (`Holding`); `StartIsNotLost`; and `SequentialDeliversOwn`, for any number of
  threads and images.
* `CaptureReporting_proofs`: the composition implements `DeviceControl`
  (`SystemIsDevice`), so everything proved there holds of it, and takes only steps of
  `DirCamera`, because a device starts its camera only while it is stopped
  (`CapturingIffInSession`); so the camera's invariants hold, too. From both follow
  `SessionCaptures` and, with an invariant that follows a name through its hops
  (`HandedOn`) and the fact that the container only grows, `AnnouncedCanBeFetched`.
  What carries over is stated as `SystemKeepsSessions`, `SystemIsCamera` and
  `SystemDeliversOwn`.
* `PulseCycle_proofs`: the type invariant and the safety properties. The
  invariant is about the accesses pending in `todo`: in a session each word of the data
  RAM is what the settings say, or a write of just that is pending; the flag is on, or
  about to be turned on and never off; the PRU cycles, or loading the program is the
  last thing pending. `undisturbed` ties what the PRU has read to the memory. The same
  invariant gives the safety part of the refinement of `TriggerLoop` (`LoopSafety`) and
  all of the refinement of `CaptureSession`: in `RunState` no access is pending once the
  program has been loaded. Outside sessions the flag is off or about to be
  (`FlagIsOff`), so that every step of an idle PRU takes it nearer to its halt
  (`IdlePruWindsDown`, the safety core of `IdlePruHalts`). `DelaysAreComputed` rests on
  the program being loaded only after all words are written (`WordsAreOwn`). It
  excludes a zero delay in every cycle, mixed ones included, if all `Mixtures` of what
  the device is sent are in range (`NoRunawayDelay`); that each message is in range
  would not do, since a message that is cut short may bring a shorter period to a pulse
  of another: `pulse_cycle` has a pause of zero that comes about that way.
* `IdsCapture_proofs`: the type invariant; `UnhurriedKeepsAll`, strengthened by what
  the files may hold (`Unspoiled`: a name made now or in hand is of a new file or of
  one with the current frame); and `UnhurriedSavesOnce`, by the frame having no file
  as long as it is announced or in hand. `SessionIsServed` follows from the flag being on
  exactly in the sessions of a process that lives (`ServedInv`), which also shows that
  the conditions `TriggerLoop` puts on the host never hold it up
  (`DrivesTriggerLoop`): a composition that only works because its parts block each
  other would not be one of the code.
* `FirmwareUpdate_proofs`: the type invariant and `IdleIsClean`, strengthened by "a
  directory that is not there has no files"; both with cuts and failing `rm`.
* `SerialUpdates_proofs`: `SerialUpdatesAreSound`, by what an update has put in place at
  each of its stages (`StageInv`) and what may be applied or recorded (`VerifiedInv`),
  wherever it is cut off and whatever a failed `rm` leaves; `UncutCompletedWasApplied`, by what a directory that is left
  to the next process says (`LeftInv`); and that all steps are steps or stutters of
  `UpdateProtocol` (`ImplementsUpdateProtocol`). For the last, each end of a process is
  one protocol step, the outcome being what the files say; the constructor and the
  thread it detaches hand it on unseen until it is sent (`HandingOnRefines`).

The assumptions are the named ASSUMEs of the modules: a positive word size and
clock, bodies whose values are settings, names distinct from the markers, an image
directory that is not empty (the code divides by its size).

Only model-checked: all liveness properties (`IdlePruHalts`, `IdleFallsStill`,
`PruHaltsWithoutCamera`, `StopQuiesces`, `ReadyFallsSilent`, `LatestCaptureIsAnnounced`,
`OutcomesAreSent`, which is the liveness of `UpdateProtocol`, and the liveness part of
`ImplementsTriggerLoop`): liveness under fairness is out of this prover's reach. What is
violated is, of course, only shown by TLC.

## Plan and what is left

Written in this order: `PulseTiming`, `CaptureSession`, `DeviceControl` and its proofs,
`DirCamera`, `FirmwareUpdate`, `CaptureReporting`, `PulseCycle`, then `TriggerLoop`,
`IdsCapture` and the proofs about the last four, and last `UpdateProtocol` and
`SerialUpdates`. An update that exits in the middle of a session needs no module of its
own: `Exit` in `PulseCycle` and `IdsCapture` may come at any point. What could follow:

* Liveness of a whole measurement with the IDS camera, once its uploads succeed.
* More safety cores of liveness properties, as `IdlePruWindsDown` is of `IdlePruHalts`.

## Not modelled

* Vendored headers: everything under `src/inc` and `src/src/json.hpp`, nearly all of
  the lines of the repository (the Azure SDK, the C++ REST SDK, the storage client and
  a JSON library). They are third-party code, mostly declarations and templates, and
  enter the models only through the calls the device makes: an upload that succeeds or
  throws, a message that is handed over, a payload that can be parsed or not.
* `InitBlobStorage`: calls of the storage library that leave no state of the program's
  own; a failure shows later as uploads that throw, which are modelled.
* The parameters `InitCamera` passes to the driver, option parsing, decrypting the
  settings, wiping secrets, logging.
* The delivery of messages, which is the SDK's: the confirmation callback only prints.
* How and when `apply.sh` ends: the program neither waits for it nor looks at its result,
  and the next process may remove `.fwtmp` under it (`FirmwareUpdateHandler.cpp:57-59`).
  "Applied" means that it was started.
* A failing `prussdrv_exec_program`, `mkdir` or `setsetting`: the results are ignored or
  only printed.
* An empty image directory (`DirCamera.cpp:54`): the program divides by its size.
* The comments beside the default delays (`Camera.cpp:347-349`) do not match the
  words; nothing depends on them, since `StartCamera` writes all three words before
  the program is loaded.
* Build files, which have no run-time behaviour.
