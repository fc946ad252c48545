-------------------------- MODULE IdsCapture_proofs --------------------------
(***************************************************************************)
(* What becomes of the IDS camera's frames, for every number of capture    *)
(* threads, of frames and of seconds.                                      *)
(***************************************************************************)
EXTENDS IdsCapture, TLAPS

\* The driver numbers no frame beyond the bound.
Counted == exposing => frame < MaxFrame

Typed == TypeOK /\ Counted

LEMMA PruKeepsType ==
  /\ Pru!TypeOK /\ (Pru!TurnOn \/ Pru!TurnOff \/ Pru!Exec \/ Pru!Cycle) => Pru!TypeOK'
  /\ Pru!TypeOK /\ UNCHANGED pruVars => Pru!TypeOK'
BY DEF Pru!TypeOK, Pru!TurnOn, Pru!TurnOff, Pru!Exec, Pru!Cycle, Pru!Fire, Pru!Close, pruVars

LEMMA InitTyped == Init => Typed
<1> SUFFICES ASSUME Init PROVE Typed
  OBVIOUS
<1>1. Pru!TypeOK
  BY DEF Init, Pru!TypeOK
<1>2. 0 \in Seconds
  BY IdsCaptureAssumption DEF Seconds
<1>3. exposing \in BOOLEAN /\ event \in BOOLEAN /\ alive \in BOOLEAN /\ unhurried \in BOOLEAN /\ ~exposing
  BY Zenon DEF Init
<1> QED
  BY <1>1, <1>2, <1>3 DEF Init, Typed, Counted, TypeOK, NoFile

LEMMA StepTyped == Typed /\ [Next]_vars => Typed'
<1> SUFFICES ASSUME Typed, [Next]_vars
             PROVE  Typed'
  OBVIOUS
<1>a. Pru!TypeOK /\ TypeOK /\ Counted
  BY DEF Typed, TypeOK
<1> USE IdsCaptureAssumption DEF Typed, TypeOK, Counted, Seconds, Frames, In
<1>1. CASE Start \/ Stop \/ HostStep
  <2>1. Pru!TypeOK'
    BY <1>1, <1>a, PruKeepsType DEF Start, Stop, HostStep, ExecProgram, DetachHandler
  <2> QED
    BY <1>1, <1>a, <2>1 DEF Start, Stop, HostStep, ExecProgram, DetachHandler, threadVars, driverVars
<1>2. CASE Fire \/ Close
  <2>1. Pru!TypeOK'
    BY <1>2, <1>a, PruKeepsType DEF Fire, Close, Pru!Cycle
  <2> QED
    BY <1>2, <1>a, <2>1 DEF Fire, Close, threadVars, driverVars
<1>3. CASE Frame
  <2>1. Pru!TypeOK'
    BY <1>3, <1>a, PruKeepsType DEF Frame
  <2>2. unhurried' \in BOOLEAN
    BY <1>3 DEF Frame
  <2>3. frame' \in 1 .. MaxFrame /\ exposing' = FALSE /\ event' = TRUE
    BY <1>3, <1>a DEF Frame
  <2>4. exposing' \in BOOLEAN /\ event' \in BOOLEAN /\ ~exposing'
    BY <2>3, Zenon
  <2>5. spoiled' \subseteq Handlers
    BY <1>3, <1>a DEF Frame
  <2> QED
    BY <1>3, <1>a, <2>1, <2>2, <2>3, <2>4, <2>5 DEF Frame
<1>4. CASE Tick \/ Restart \/ InitCamera
  <2>1. Pru!TypeOK'
    BY <1>4, <1>a, PruKeepsType DEF Tick, Restart, InitCamera
  <2> QED
    <3>1. alive' \in BOOLEAN
      BY <1>4, Zenon DEF Tick, Restart, InitCamera
    <3>2. clock' \in Seconds
      BY <1>4, <1>a DEF Tick, Restart, InitCamera
    <3> QED
      BY <1>4, <1>a, <2>1, <3>1, <3>2 DEF Tick, Restart, InitCamera, threadVars, driverVars
<1>5. CASE Wake
  <2>1. Pru!TypeOK'
    BY <1>5, <1>a, PruKeepsType DEF Wake
  <2> QED
    BY <1>5, <1>a, <2>1 DEF Wake
<1>6. ASSUME NEW t \in Handlers, Handle(t)
      PROVE  Typed'
  <2>1. Pru!TypeOK'
    BY <1>6, <1>a, PruKeepsType DEF Handle, Name, Save, Upload
  <2>2. CASE Name(t)
    BY <2>2, <1>a, <2>1 DEF Name, driverVars
  <2>3. CASE Save(t)
    <3>1. files' \in [Seconds -> Frames \union {NoFile, Garbled}]
      <4>1. frame \in Frames \union {NoFile, Garbled}
        BY <1>a DEF NoFile
      <4> QED
        BY <2>3, <1>a, <4>1 DEF Save
    <3> QED
      BY <2>3, <1>a, <2>1, <3>1 DEF Save, driverVars
  <2>4. CASE Upload(t)
    BY <2>4, <1>a, <2>1 DEF Upload, driverVars
  <2> QED
    BY <1>6, <2>2, <2>3, <2>4 DEF Handle
<1>7. CASE Exit
  <2>1. Pru!TypeOK'
    BY <1>7, <1>a, PruKeepsType DEF Exit
  <2> QED
    <3>1. ~alive' /\ ~unhurried' /\ ~exposing' /\ ~event'
      BY <1>7, Zenon DEF Exit
    <3>2. files' \in [Seconds -> Frames \union {NoFile, Garbled}]
      BY <1>7, <1>a DEF Exit
    <3>3. /\ alive' \in BOOLEAN /\ unhurried' \in BOOLEAN
          /\ exposing' \in BOOLEAN /\ event' \in BOOLEAN
      BY <1>7, Zenon DEF Exit
    <3> QED
      BY <1>7, <1>a, <2>1, <3>1, <3>2, <3>3 DEF Exit
<1>8. CASE UNCHANGED vars
  <2>1. Pru!TypeOK'
    BY <1>8, <1>a, PruKeepsType DEF vars
  <2> QED
    BY <1>8, <1>a, <2>1 DEF vars, threadVars, driverVars
<1> QED
  BY <1>1, <1>2, <1>3, <1>4, <1>5, <1>6, <1>7, <1>8 DEF Next

\* Every variable keeps its type.
THEOREM IdsTypeCorrect == Spec => []TypeOK
<1>1. Typed => TypeOK
  BY DEF Typed
<1> QED
  BY <1>1, InitTyped, StepTyped, PTL DEF Spec

-----------------------------------------------------------------------------
(* Unhurried frames are kept.                                              *)

\* While nothing has been hurried, no save is spoiled and the files hold frames
\* that were delivered.  A name made from now on, and one in hand, is that of a
\* new file or of one that holds the current frame already.
Unspoiled ==
  unhurried =>
    /\ spoiled = {}
    /\ \A s \in Seconds : files[s] \in 0 .. frame
    /\ \A s \in Seconds : s >= clock => files[s] \in {0, frame}
    /\ \A t \in In("save") : files[second[t]] \in {0, frame}

KeepInv == Unspoiled /\ UnhurriedKeepsAll

\* Only a frame, a clock tick, a wake-up, a capture thread and the end of the
\* process touch what the invariant is about.
LEMMA OthersKeep ==
  ASSUME Typed, Start \/ Stop \/ HostStep \/ Fire \/ Close \/ Restart \/ InitCamera \/ UNCHANGED vars
  PROVE  /\ UNCHANGED <<second, files, spoiled, event, frame, clock, unhurried>>
         /\ In("name")' = In("name") /\ In("save")' = In("save")
         /\ \A t \in Handlers : pc[t] # "none" => pc'[t] # "none"
<1>1. CASE Start \/ Stop \/ Fire \/ Close \/ Restart \/ InitCamera \/ ExecProgram \/ UNCHANGED vars
  BY <1>1 DEF Start, Stop, Fire, Close, Restart, InitCamera, ExecProgram, vars, threadVars, driverVars, In
<1>2. CASE DetachHandler
  BY <1>2 DEF DetachHandler, driverVars, In, Typed, TypeOK
<1> QED
  BY <1>1, <1>2 DEF HostStep

LEMMA StepKeeps == Typed /\ KeepInv /\ [Next]_vars => KeepInv'
<1> SUFFICES ASSUME Typed, KeepInv, [Next]_vars, unhurried'
             PROVE  KeepInv'
  BY DEF KeepInv, Unspoiled, UnhurriedKeepsAll
<1>a. /\ clock \in Seconds /\ frame \in Nat /\ Seconds \subseteq Nat
      /\ second \in [Handlers -> Seconds]
      /\ pc \in [Handlers -> {"none", "wait", "name", "save", "upload"}]
      /\ DOMAIN files = Seconds
  BY IdsCaptureAssumption DEF Typed, TypeOK, Seconds, Frames
<1> USE DEF KeepInv, Unspoiled, UnhurriedKeepsAll, Saved
<1>1. CASE Start \/ Stop \/ HostStep \/ Fire \/ Close \/ Restart \/ InitCamera \/ UNCHANGED vars
  <2>1. UNCHANGED <<second, files, spoiled, event, frame, clock, unhurried>>
    BY <1>1, OthersKeep
  <2>2. In("name")' = In("name") /\ In("save")' = In("save")
    BY <1>1, OthersKeep
  <2> QED
    BY <2>1, <2>2
<1>2. CASE Frame
  <2>1. /\ unhurried /\ AtRest
        /\ \A s \in Seconds : files[s] # NoFile => s < clock
    BY <1>2 DEF Frame
  <2>2. In("name") = {} /\ In("save") = {} /\ ~event
    BY <2>1 DEF AtRest
  <2>3. \A f \in 1 .. frame : Saved(f)
    BY <2>1, <2>2
  <2>4. UNCHANGED <<pc, second, files, clock>> /\ frame' = frame + 1 /\ event' /\ spoiled' = {}
    BY <1>2, <2>1, <2>2 DEF Frame
  <2>5. Unspoiled'
    BY <2>1, <2>2, <2>4, <1>a DEF NoFile, In
  <2>6. UnhurriedKeepsAll'
    BY <2>3, <2>4, <1>a
  <2> QED
    BY <2>5, <2>6
<1>3. CASE Tick
  <2>1. /\ UNCHANGED <<pc, second, files, spoiled, event, frame, unhurried>>
        /\ clock' = clock + 1
    BY <1>3 DEF Tick, threadVars, driverVars
  <2> QED
    BY <2>1, <1>a DEF In
<1>4. CASE Wake
  <2>1. PICK woken \in (SUBSET In("wait")) \ {{}} :
          pc' = [t \in Handlers |-> IF t \in woken THEN "name" ELSE pc[t]]
    BY <1>4 DEF Wake
  <2>2. UNCHANGED <<second, files, spoiled, frame, clock, unhurried>>
    BY <1>4 DEF Wake
  <2>3. In("name")' # {} /\ In("save")' = In("save")
    BY <2>1 DEF In
  <2> QED
    BY <2>2, <2>3
<1>5. ASSUME NEW t \in Handlers, Name(t)
      PROVE  KeepInv'
  <2>1. /\ UNCHANGED <<files, event, frame, clock, unhurried>>
        /\ spoiled' = {}
        /\ second' = [second EXCEPT ![t] = clock]
    BY <1>5 DEF Name, driverVars
  <2>2. In("save")' = In("save") \union {t}
    BY <1>5, <1>a DEF Name, In
  <2>3. \A u \in In("save")' : files[second'[u]] \in {0, frame}
    BY <2>1, <2>2, <1>a DEF In
  <2> QED
    BY <2>1, <2>2, <2>3
<1>6. ASSUME NEW t \in Handlers, Save(t)
      PROVE  KeepInv'
  <2>1. /\ UNCHANGED <<second, event, frame, clock, unhurried>>
        /\ spoiled' = {} /\ t \in In("save")
        /\ files' = [files EXCEPT ![second[t]] = frame]
    BY <1>6 DEF Save, driverVars, In
  <2>2. second[t] \in Seconds /\ files[second[t]] \in {0, frame}
    BY <2>1, <1>a DEF In
  <2>3. In("save")' \subseteq In("save")
    BY <1>6, <1>a DEF Save, In
  <2>4. \A s \in Seconds : files'[s] = IF s = second[t] THEN frame ELSE files[s]
    BY <2>1, <1>a
  <2>5. Unspoiled'
    BY <2>1, <2>2, <2>3, <2>4, <1>a DEF In
  <2>6. ASSUME NEW f \in 1 .. frame
        PROVE  \E s \in Seconds : files'[s] = f
    <3>1. CASE f = frame
      BY <3>1, <2>2, <2>4
    <3>2. CASE f # frame
      <4>1. PICK s \in Seconds : files[s] = f
        BY <3>2, <2>1
      <4>2. s # second[t]
        BY <4>1, <3>2, <2>2
      <4> QED
        BY <4>1, <4>2, <2>4
    <3> QED
      BY <3>1, <3>2
  <2> QED
    BY <2>1, <2>5, <2>6
<1>7. ASSUME NEW t \in Handlers, Upload(t)
      PROVE  KeepInv'
  <2>1. UNCHANGED <<second, files, spoiled, event, frame, clock, unhurried>>
    BY <1>7 DEF Upload, driverVars
  <2>2. In("name")' = In("name") /\ In("save")' = In("save")
    BY <1>7, <1>a DEF Upload, In
  <2> QED
    BY <2>1, <2>2
<1>8. CASE Exit
  BY <1>8 DEF Exit
<1> QED
  BY <1>1, <1>2, <1>3, <1>4, <1>5, <1>6, <1>7, <1>8 DEF Next, Handle

\* Frames that meet the process at rest and in a new second all end up in files
\* of their own, whichever of the threads that Start has piled up wake for them
\* (Camera::HandleCaptures).
THEOREM UnhurriedKeeps == Spec => []UnhurriedKeepsAll
<1>1. Init => KeepInv
  BY DEF Init, KeepInv, Unspoiled, UnhurriedKeepsAll, In, NoFile, Saved
<1>2. KeepInv => UnhurriedKeepsAll
  BY DEF KeepInv
<1> QED
  BY <1>1, <1>2, InitTyped, StepTyped, StepKeeps, PTL DEF Spec

-----------------------------------------------------------------------------
(* With one capture thread, none is saved twice.                           *)

Lone == \A t, u \in Handlers \ In("none") : t = u

\* A frame that is announced, or that a thread is busy with, has no file yet,
\* and not both at once: the file it gets is its first.
SavedAtMostOnce ==
  unhurried /\ Lone =>
    /\ \A r, s \in Seconds : files[r] = files[s] /\ files[r] \in Frames => r = s
    /\ event \/ In("name") \union In("save") # {} => ~Saved(frame)
    /\ event => In("name") \union In("save") = {}

LEMMA StepSavesOnce ==
  Typed /\ KeepInv /\ SavedAtMostOnce /\ [Next]_vars => SavedAtMostOnce'
<1> SUFFICES ASSUME Typed, KeepInv, SavedAtMostOnce, [Next]_vars, unhurried', Lone'
             PROVE  SavedAtMostOnce'
  BY DEF SavedAtMostOnce
<1>a. /\ clock \in Seconds /\ frame \in Nat /\ Seconds \subseteq Nat
      /\ second \in [Handlers -> Seconds]
      /\ pc \in [Handlers -> {"none", "wait", "name", "save", "upload"}]
      /\ DOMAIN files = Seconds
  BY IdsCaptureAssumption DEF Typed, TypeOK, Seconds, Frames
<1>b. ASSUME unhurried, \A t \in Handlers : pc[t] # "none" => pc'[t] # "none"
      PROVE  /\ Lone
             /\ \A r, s \in Seconds : files[r] = files[s] /\ files[r] \in Frames => r = s
             /\ event \/ In("name") \union In("save") # {} => ~Saved(frame)
             /\ event => In("name") \union In("save") = {}
  <2>1. Lone
    BY <1>b DEF Lone, In
  <2> QED
    BY <1>b, <2>1 DEF SavedAtMostOnce
<1>1. CASE Start \/ Stop \/ HostStep \/ Fire \/ Close \/ Restart \/ InitCamera \/ UNCHANGED vars
  <2>1. UNCHANGED <<files, event, frame, unhurried>>
    BY <1>1, OthersKeep
  <2>2. In("name")' = In("name") /\ In("save")' = In("save")
    BY <1>1, OthersKeep
  <2>3. \A t \in Handlers : pc[t] # "none" => pc'[t] # "none"
    BY <1>1, OthersKeep
  <2> QED
    BY <2>1, <2>2, <2>3, <1>b DEF SavedAtMostOnce, Saved
<1>2. CASE Frame
  <2>1. /\ unhurried /\ AtRest /\ UNCHANGED <<pc, files>>
        /\ frame' = frame + 1
    BY <1>2 DEF Frame
  <2>2. In("name")' = {} /\ In("save")' = {}
    BY <2>1 DEF AtRest, In
  <2>3. ~Saved(frame)'
    BY <2>1, <1>a DEF KeepInv, Unspoiled, Saved
  <2> QED
    BY <2>1, <2>2, <2>3, <1>b DEF SavedAtMostOnce
<1>3. CASE Tick
  BY <1>3, <1>b DEF Tick, threadVars, driverVars, SavedAtMostOnce, Saved, In
<1>4. CASE Wake
  <2>1. UNCHANGED <<files, frame, unhurried>> /\ event /\ ~event'
    BY <1>4 DEF Wake
  <2>2. \A t \in Handlers : pc[t] # "none" => pc'[t] # "none"
    BY <1>4 DEF Wake, In
  <2> QED
    BY <2>1, <2>2, <1>b DEF SavedAtMostOnce, Saved
<1>5. ASSUME NEW t \in Handlers, Name(t)
      PROVE  SavedAtMostOnce'
  <2>1. UNCHANGED <<files, event, frame, unhurried>> /\ t \in In("name")
    BY <1>5 DEF Name, driverVars, In
  <2>2. \A u \in Handlers : pc[u] # "none" => pc'[u] # "none"
    BY <1>5, <1>a DEF Name
  <2>3. ~event /\ ~Saved(frame)
    BY <2>1, <2>2, <1>b
  <2> QED
    BY <2>1, <2>2, <2>3, <1>b DEF SavedAtMostOnce, Saved
<1>6. ASSUME NEW t \in Handlers, Save(t)
      PROVE  SavedAtMostOnce'
  <2>1. /\ UNCHANGED <<event, frame, unhurried>> /\ t \in In("save")
        /\ files' = [files EXCEPT ![second[t]] = frame]
    BY <1>6 DEF Save, driverVars, In, KeepInv, Unspoiled
  <2>2. \A u \in Handlers : pc[u] # "none" => pc'[u] # "none"
    BY <1>6, <1>a DEF Save
  <2>3. ~event /\ ~Saved(frame) /\ Lone
    BY <2>1, <2>2, <1>b
  <2>4. In("name")' = {} /\ In("save")' = {}
    BY <1>6, <2>3, <1>a DEF Save, Lone, In
  <2>5. \A s \in Seconds : files'[s] = IF s = second[t] THEN frame ELSE files[s]
    BY <2>1, <1>a
  <2>6. \A r, s \in Seconds : files'[r] = files'[s] /\ files'[r] \in Frames => r = s
    BY <2>1, <2>2, <2>3, <2>5, <1>b DEF Saved
  <2> QED
    BY <2>1, <2>3, <2>4, <2>6 DEF SavedAtMostOnce
<1>7. ASSUME NEW t \in Handlers, Upload(t)
      PROVE  SavedAtMostOnce'
  <2>1. UNCHANGED <<files, event, frame, unhurried>>
    BY <1>7 DEF Upload, driverVars
  <2>2. In("name")' = In("name") /\ In("save")' = In("save")
    BY <1>7, <1>a DEF Upload, In
  <2>3. \A u \in Handlers : pc[u] # "none" => pc'[u] # "none"
    BY <1>7, <1>a DEF Upload
  <2> QED
    BY <2>1, <2>2, <2>3, <1>b DEF SavedAtMostOnce, Saved
<1>8. CASE Exit
  BY <1>8 DEF Exit
<1> QED
  BY <1>1, <1>2, <1>3, <1>4, <1>5, <1>6, <1>7, <1>8 DEF Next, Handle

\* As long as one session has left one capture thread, unhurried frames are
\* saved once each (Camera::Start, Camera::HandleCaptures).
THEOREM UnhurriedOnce == Spec => []UnhurriedSavesOnce
<1>1. Init => KeepInv /\ SavedAtMostOnce
  BY DEF Init, KeepInv, Unspoiled, UnhurriedKeepsAll, In, NoFile, Saved, SavedAtMostOnce, Frames
<1>2. SavedAtMostOnce => UnhurriedSavesOnce
  BY DEF SavedAtMostOnce, UnhurriedSavesOnce, Lone
<1> QED
  BY <1>1, <1>2, InitTyped, StepTyped, StepKeeps, StepSavesOnce, PTL DEF Spec

-----------------------------------------------------------------------------
(* Sessions are served.                                                    *)

\* The loop flag follows the session as long as there is a camera, and a process
\* that has yet to open one has turned it off.  From its load on the program
\* cycles, as the only way out of a cycle is with the loop off.
ServedInv ==
  /\ host = "init" => ~alive /\ ~loop
  /\ mode = "session" => alive
  /\ alive => loop = (mode = "session")
  /\ host \in {"exec", "detach"} => mode = "session"
  /\ mode = "session" /\ host # "exec" => phase # "halted"
  /\ mode = "session" /\ host = "idle" => \E t \in Handlers : pc[t] # "none"

LEMMA InitServed == Init => ServedInv
BY DEF Init, ServedInv

LEMMA StepServed == Typed /\ ServedInv /\ [Next]_vars => ServedInv'
<1> SUFFICES ASSUME Typed, ServedInv, [Next]_vars
             PROVE  ServedInv'
  OBVIOUS
<1>a. /\ loop \in BOOLEAN /\ alive \in BOOLEAN
      /\ pc \in [Handlers -> {"none", "wait", "name", "save", "upload"}]
  BY DEF Typed, TypeOK, Pru!TypeOK
<1> USE DEF ServedInv
\* A thread that has been detached stays.
<1>b. ASSUME UNCHANGED <<pruVars, alive, mode, host>>,
             \A t \in Handlers : pc[t] # "none" => pc'[t] # "none"
      PROVE  ServedInv'
  BY <1>b DEF pruVars
<1>1. CASE Start
  BY <1>1 DEF Start, Pru!TurnOn, threadVars
<1>2. CASE ExecProgram
  BY <1>2 DEF ExecProgram, Pru!Exec, threadVars
<1>3. CASE DetachHandler
  <2>1. PICK t \in Handlers : pc' = [pc EXCEPT ![t] = "wait"]
    BY <1>3 DEF DetachHandler, In
  <2>2. pc'[t] # "none"
    BY <2>1, <1>a
  <2> QED
    BY <1>3, <2>2 DEF DetachHandler, pruVars
<1>4. CASE Stop
  BY <1>4 DEF Stop, Pru!TurnOff
<1>5. CASE Fire \/ Close
  <2>1. UNCHANGED <<loop, alive, mode, host, pc>>
    BY <1>5 DEF Fire, Close, Pru!Fire, Pru!Close, threadVars
  <2>2. loop => phase' # "halted"
    BY <1>5 DEF Fire, Close, Pru!Fire, Pru!Close
  <2>3. mode = "session" => loop
    BY <1>a
  <2> QED
    BY <2>1, <2>2, <2>3
<1>6. CASE Frame \/ Tick
  BY <1>6, <1>b DEF Frame, Tick, threadVars
<1>7. CASE Exit
  BY <1>7 DEF Exit, pruVars
<1>8. CASE Restart
  <2>1. host' = "init" /\ ~alive' /\ loop' = FALSE /\ mode' = mode /\ mode # "session"
    BY <1>8 DEF Restart, Pru!TurnOff
  <2> QED
    BY <2>1
<1>9. CASE InitCamera
  <2>1. ~alive /\ loop = FALSE /\ mode # "session"
    BY <1>9, <1>a DEF InitCamera
  <2>2. host' = "idle" /\ loop' = FALSE /\ mode' # "session"
    BY <1>9, <2>1 DEF InitCamera, pruVars
  <2>3. loop' = (mode' = "session")
    BY <2>2
  <2> QED
    BY <2>2, <2>3
<1>10. CASE Wake
  BY <1>b, <1>10, <1>a DEF Wake
<1>11. ASSUME NEW t \in Handlers, Handle(t)
       PROVE  ServedInv'
  BY <1>b, <1>11, <1>a DEF Handle, Name, Save, Upload
<1>12. CASE UNCHANGED vars
  BY <1>b, <1>12 DEF vars, threadVars
<1> QED
  BY <1>1, <1>2, <1>3, <1>4, <1>5, <1>6, <1>7, <1>8, <1>9, <1>10, <1>11, <1>12
     DEF Next, HostStep

THEOREM ServedInvariant == Spec => []ServedInv
<1>1. Typed /\ ServedInv /\ [Next]_vars => Typed' /\ ServedInv'
  BY StepTyped, StepServed
<1> QED
  BY <1>1, InitTyped, InitServed, PTL DEF Spec

\* However many sessions and processes there were, and wherever in a cycle of
\* theirs the next Start came, its session has a cycling PRU and a thread for the
\* frames (Camera::Start, Camera::Stop, Camera::Camera).
THEOREM SessionServed == Spec => []SessionIsServed
<1>1. Typed /\ ServedInv => SessionIsServed
  BY DEF ServedInv, SessionIsServed, Typed, TypeOK, Pru!TypeOK
<1> QED
  BY <1>1, IdsTypeCorrect, ServedInvariant, InitTyped, StepTyped, PTL DEF Spec

\* The composition gives the PRU only steps of its loop and keeps none from it:
\* the program is loaded as soon as the SDK thread gets there, the loop being on
\* (the condition of TriggerLoop's Exec, which PulseCycle meets likewise).
THEOREM DrivesTriggerLoop ==
  Spec => Pru!Init /\ [][Pru!Next]_pruVars /\ [](host = "exec" => loop)
<1>1. Init => Pru!Init
  BY DEF Init, Pru!Init
<1>2. [Next]_vars => [Pru!Next]_pruVars
  <2> SUFFICES ASSUME Next, ~UNCHANGED pruVars
               PROVE  Pru!Next
    BY DEF vars
  <2> QED
    BY DEF Next, Start, Stop, HostStep, ExecProgram, DetachHandler, Fire, Close, Frame, Tick,
         Wake, Handle, Name, Save, Upload, Exit, Restart, InitCamera, Pru!Next, Pru!Cycle
<1>3. Typed /\ ServedInv => (host = "exec" => loop)
  BY DEF ServedInv, Typed, TypeOK, Pru!TypeOK
<1> QED
  BY <1>1, <1>2, <1>3, InitTyped, StepTyped, ServedInvariant, PTL DEF Spec
=============================================================================
