-------------------------- MODULE PulseCycle_proofs --------------------------
(***************************************************************************)
(* What the host and the PRU do to each other, for every word size, clock, *)
(* set of timings and defaults.  The invariant is about the accesses still *)
(* pending in todo: they are what stands between the moment Device says    *)
(* that a session is on and the moment the PRU knows.                      *)
(***************************************************************************)
EXTENDS PulseCycle, PulseTiming_proofs, SequenceTheorems

Prepared(s) == SetCameraPruValues(s) \o CameraStart

-----------------------------------------------------------------------------
(* The lists of accesses.                                                  *)

LEMMA WordsTyped ==
  ASSUME NEW s \in TimedSettings
  PROVE  PruValues(s) \in [trigger : Words, pulse : Words, pause : Words]
BY PruValuesAreWords DEF TimedSettings

LEMMA WriteTyped ==
  ASSUME NEW d \in Delays, NEW w \in Words
  PROVE  Write(d, w) \in Accesses /\ Write(d, w).to = d /\ Write(d, w).word = w
BY DEF Write, Accesses, Writes

LEMMA FlagTyped ==
  ASSUME NEW w \in {0, 1}
  PROVE  /\ Write("flag", w) \in Accesses
         /\ Write("flag", w).to = "flag" /\ Write("flag", w).word = w
BY DEF Write, Accesses, Writes

\* The accesses of SetCameraPruValues write the words of the settings, one for
\* each delay, and leave flag and program alone.
LEMMA SetAccesses ==
  ASSUME NEW s \in TimedSettings
  PROVE  LET q == SetCameraPruValues(s)
         IN /\ q \in Seq(Accesses) /\ Len(q) = 3
            /\ \A i \in 1 .. 3 : q[i].to \in Delays /\ q[i].word = PruValues(s)[q[i].to]
            /\ \A d \in Delays : \E i \in 1 .. 3 : q[i].to = d
<1> DEFINE a == Write("pulse", Pulseduration(s))
           b == Write("trigger", Triggerduration(s))
           c == Write("pause", Pauseduration(s))
           q == <<a, b, c>>
<1>1. /\ Pulseduration(s) \in Words /\ Triggerduration(s) \in Words
      /\ Pauseduration(s) \in Words
  BY WordsTyped DEF PruValues
<1>2. a \in Accesses /\ b \in Accesses /\ c \in Accesses
  BY <1>1, WriteTyped DEF Delays
<1>3. /\ a.to = "pulse" /\ a.word = PruValues(s)["pulse"]
      /\ b.to = "trigger" /\ b.word = PruValues(s)["trigger"]
      /\ c.to = "pause" /\ c.word = PruValues(s)["pause"]
  BY DEF Write, PruValues
<1>4. q = SetCameraPruValues(s)
  BY DEF SetCameraPruValues
<1> HIDE DEF a, b, c
<1>5. /\ q \in Seq(Accesses) /\ Len(q) = 3
      /\ q[1] = a /\ q[2] = b /\ q[3] = c
  BY <1>2
<1> HIDE DEF q
<1>6. \A i \in 1 .. 3 : i = 1 \/ i = 2 \/ i = 3
  OBVIOUS
<1>7. \A i \in 1 .. 3 : q[i].to \in Delays /\ q[i].word = PruValues(s)[q[i].to]
  BY <1>3, <1>5, <1>6 DEF Delays
<1>8. \A d \in Delays : \E i \in 1 .. 3 : q[i].to = d
  BY <1>3, <1>5 DEF Delays
<1> QED
  BY <1>4, <1>5, <1>7, <1>8

\* ReadyState::Start goes on with the flag and then, last, the program.
LEMMA StartAccesses ==
  ASSUME NEW s \in TimedSettings
  PROVE  LET p == Prepared(s)  q == SetCameraPruValues(s)
         IN /\ p \in Seq(Accesses) /\ Len(p) = 5
            /\ \A i \in 1 .. 3 : p[i] = q[i]
            /\ p[4] = Write("flag", 1) /\ p[5] = Exec
<1> DEFINE q == SetCameraPruValues(s)  r == CameraStart
<1>1. q \in Seq(Accesses) /\ Len(q) = 3
  BY SetAccesses
<1>2. Write("flag", 1) \in Accesses /\ Exec \in Accesses
  BY FlagTyped DEF Accesses
<1>3. r \in Seq(Accesses) /\ Len(r) = 2 /\ r[1] = Write("flag", 1) /\ r[2] = Exec
  BY <1>2 DEF CameraStart
<1> HIDE DEF q, r
<1>4. /\ q \o r \in Seq(Accesses) /\ Len(q \o r) = Len(q) + Len(r)
      /\ \A i \in 1 .. Len(q) + Len(r) :
           (q \o r)[i] = IF i <= Len(q) THEN q[i] ELSE r[i - Len(q)]
  BY <1>1, <1>3, ConcatProperties, Zenon
<1> DEFINE p == q \o r
<1> HIDE DEF p
<1>5. p \in Seq(Accesses) /\ Len(p) = 5
  BY <1>1, <1>3, <1>4 DEF p
<1>6. \A i \in 1 .. 5 : p[i] = IF i <= 3 THEN q[i] ELSE r[i - 3]
  BY <1>1, <1>3, <1>4 DEF p
<1>7. (\A i \in 1 .. 3 : p[i] = q[i]) /\ p[4] = r[1] /\ p[5] = r[2]
  BY <1>6
<1>8. p = Prepared(s)
  BY DEF p, q, r, Prepared
<1> QED
  BY <1>3, <1>5, <1>7, <1>8 DEF q

LEMMA InitAccesses ==
  /\ InitPRU \in Seq(Accesses) /\ Len(InitPRU) = 4
  /\ \A i \in 1 .. 4 : InitPRU[i] \in Accesses /\ InitPRU[i] # Exec
<1> DEFINE a == Write("trigger", Defaults.trigger)  b == Write("pulse", Defaults.pulse)
           c == Write("pause", Defaults.pause)  d == Write("flag", 0)
<1>1. a \in Accesses /\ b \in Accesses /\ c \in Accesses /\ d \in Accesses
  BY WriteTyped, FlagTyped, PulseCycleAssumption DEF Delays
<1>2. a # Exec /\ b # Exec /\ c # Exec /\ d # Exec
  BY DEF Write, Exec
<1>3. InitPRU = <<a, b, c, d>>
  BY DEF InitPRU
<1> HIDE DEF a, b, c, d
<1> QED
  BY <1>1, <1>2, <1>3

LEMMA AccessKinds ==
  ASSUME NEW x \in Accesses
  PROVE  /\ x.to \in Delays \union {"flag", "exec"}
         /\ x = Exec <=> x.to = "exec"
         /\ x.to \in Delays => x.word \in Words
         /\ x.to = "flag" => x.word \in {0, 1}
BY DEF Accesses, Writes, Exec, Delays

\* The next access is the first one, and the others move up.
LEMMA NextAccess ==
  ASSUME todo \in Seq(Accesses), todo # <<>>
  PROVE  /\ Len(todo) \in Nat \ {0}
         /\ Head(todo) = todo[1] /\ todo[1] \in Accesses
         /\ Tail(todo) \in Seq(Accesses) /\ Len(Tail(todo)) = Len(todo) - 1
         /\ \A i \in 1 .. Len(todo) - 1 : Tail(todo)[i] = todo[i + 1]
BY HeadTailProperties, LenProperties, ElementOfSeq

-----------------------------------------------------------------------------
(* Type correctness.                                                       *)

\* Settings the device can come to are timings.
LEMMA MixturesAreTimed == Mixtures \subseteq TimedSettings
<1>1. /\ Brought("CapturePeriod") \subseteq Int /\ Brought("PulseWidth") \subseteq Int
      /\ Brought("Predelay") \subseteq Int
  BY PulseCycleAssumption DEF Brought, TimedSettings
<1> QED
  BY <1>1 DEF Mixtures, TimedSettings

\* A message, however short it is cut, leaves such settings.
LEMMA DeserializeMixes ==
  ASSUME settings \in Mixtures, NEW s \in SettingsChoices, NEW n \in 0 .. 3
  PROVE  Deserialize(s, n) \in Mixtures
<1>1. /\ s.CapturePeriod \in Brought("CapturePeriod") /\ s.PulseWidth \in Brought("PulseWidth")
      /\ s.Predelay \in Brought("Predelay")
  BY DEF Brought
<1>2. /\ settings.CapturePeriod \in Brought("CapturePeriod")
      /\ settings.PulseWidth \in Brought("PulseWidth")
      /\ settings.Predelay \in Brought("Predelay")
  BY DEF Mixtures
<1> QED
  BY <1>1, <1>2 DEF Deserialize, Mixtures

\* So have those of the constructor.
LEMMA InitialIsMixture == InitialSettings \in Mixtures
<1>1. InitialSettings \in TimedSettings
  BY PulseCycleAssumption
<1>2. /\ InitialSettings.CapturePeriod \in Brought("CapturePeriod")
      /\ InitialSettings.PulseWidth \in Brought("PulseWidth")
      /\ InitialSettings.Predelay \in Brought("Predelay")
  BY DEF Brought
<1> QED
  BY <1>1, <1>2 DEF Mixtures, TimedSettings

LEMMA SettingsTyped == TypeOK => settings \in TimedSettings
BY MixturesAreTimed DEF TypeOK

\* Nothing but settings of that kind is written to the PRU by an update.
LEMMA UpdateMixes ==
  ASSUME TypeOK, UpdateSettings
  PROVE  settings' \in Mixtures /\ settings' \in TimedSettings
<1>1. PICK s \in SettingsChoices, n \in 0 .. 3 : settings' = Deserialize(s, n)
  BY DEF UpdateSettings
<1>2. settings \in Mixtures
  BY DEF TypeOK
<1> QED
  BY <1>1, <1>2, DeserializeMixes, MixturesAreTimed

LEMMA WordsAreNumbers == {0, 1} \subseteq Int /\ Words \subseteq Int /\ 0 \in Words
BY TimingAssumption DEF Words

LEMMA InitTyped == Init => TypeOK
<1> SUFFICES ASSUME Init PROVE TypeOK
  OBVIOUS
<1>1. todo \in Seq(Accesses) /\ Len(todo) = 4
  BY InitAccesses DEF Init
<1>2. /\ DOMAIN mem = Delays \union {"flag"}
      /\ \A d \in Delays : mem[d] \in Words
      /\ mem.flag \in {0, 1}
  BY WordsAreNumbers DEF Init, Delays
<1>3. loaded \in [Delays -> Words \union {NoDelay}]
  BY DEF Init, NothingLoaded
<1>4. undisturbed \in BOOLEAN
  BY DEF Init
<1> QED
  BY <1>1, <1>2, <1>3, <1>4, InitialIsMixture DEF Init, TypeOK

\* One access leaves the memory with words and a flag.
LEMMA StoreTyped ==
  ASSUME TypeOK, NEW x \in Writes
  PROVE  LET m == [mem EXCEPT ![x.to] = x.word]
         IN /\ DOMAIN m = Delays \union {"flag"}
            /\ \A d \in Delays : m[d] \in Words
            /\ m.flag \in {0, 1}
<1>1. x.to \in Delays \union {"flag"} /\ (x.to \in Delays => x.word \in Words)
        /\ (x.to = "flag" => x.word \in {0, 1})
  BY AccessKinds DEF Accesses, Writes, Delays
<1> QED
  BY <1>1 DEF TypeOK, Delays

LEMMA StepTyped == TypeOK /\ [Next]_vars => TypeOK'
<1> SUFFICES ASSUME TypeOK, [Next]_vars PROVE TypeOK'
  OBVIOUS
<1> todo \in Seq(Accesses) /\ settings \in TimedSettings
  BY SettingsTyped DEF TypeOK
<1>1. ASSUME NEW next \in Active, StartSession(next) PROVE TypeOK'
  <2>1. todo' \in Seq(Accesses) /\ Len(todo') = 5
    BY <1>1, StartAccesses DEF StartSession, Prepared
  <2>2. undisturbed' \in BOOLEAN
    BY <1>1 DEF StartSession
  <2> QED
    BY <1>1, <2>1, <2>2 DEF StartSession, TypeOK, pruVars, Active
<1>2. CASE StopSession
  <2>1. todo' \in Seq(Accesses) /\ Len(todo') = 1
    BY <1>2, FlagTyped DEF StopSession
  <2>2. undisturbed' \in BOOLEAN
    BY <1>2 DEF StopSession
  <2> QED
    BY <1>2, <2>1, <2>2 DEF StopSession, TypeOK, pruVars
<1>3. CASE UpdateSettings
  <2>1. settings' \in Mixtures /\ settings' \in TimedSettings
    BY <1>3, UpdateMixes
  <2>2. todo' \in Seq(Accesses) /\ Len(todo') = 3
    BY <1>3, <2>1, SetAccesses DEF UpdateSettings
  <2>3. undisturbed' \in BOOLEAN
    BY <1>3 DEF UpdateSettings
  <2> QED
    BY <1>3, <2>1, <2>2, <2>3 DEF UpdateSettings, TypeOK, pruVars
<1>4. CASE HostStep
  <2>1. todo' \in Seq(Accesses) /\ Len(todo') <= 5
    BY <1>4, NextAccess DEF HostStep, TypeOK
  <2>2. CASE Head(todo) = Exec
    <3>1. loaded' \in [Delays -> Words \union {NoDelay}]
      BY <1>4, <2>2 DEF HostStep, NothingLoaded
    <3> QED
      BY <1>4, <2>1, <2>2, <3>1 DEF HostStep, TypeOK
  <2>3. CASE Head(todo) # Exec
    <3>1. Head(todo) \in Writes
      BY <1>4, <2>3, NextAccess DEF HostStep, Accesses
    <3>2. mem' = [mem EXCEPT ![Head(todo).to] = Head(todo).word]
      BY <1>4, <2>3 DEF HostStep
    <3>3. /\ DOMAIN mem' = Delays \union {"flag"}
          /\ \A d \in Delays : mem'[d] \in Words
          /\ mem'.flag \in {0, 1}
      BY <3>1, <3>2, StoreTyped
    <3> QED
      BY <1>4, <2>1, <2>3, <3>3 DEF HostStep, TypeOK, pruVars
  <2> QED
    BY <2>2, <2>3
<1>5. CASE Exit
  <2>1. todo' \in Seq(Accesses) /\ Len(todo') <= 5
    BY <1>5 DEF Exit
  <2>2. undisturbed' \in BOOLEAN
    BY <1>5 DEF Exit
  <2> QED
    BY <1>5, <2>1, <2>2 DEF Exit, TypeOK, pruVars
<1>6. CASE Restart
  BY <1>6, InitAccesses, InitialIsMixture DEF Restart, TypeOK, pruVars
<1>7. ASSUME NEW d \in Delays, NEW next \in {"pulse", "pause", "flag"}, Delay(d, next)
      PROVE TypeOK'
  <2>1. loaded' \in [Delays -> Words \union {NoDelay}]
    BY <1>7 DEF Delay, TypeOK, NothingLoaded, Delays
  <2> QED
    BY <1>7, <2>1 DEF Delay, TypeOK, hostVars
<1>8. CASE ReadFlag \/ Branch
  BY <1>8 DEF ReadFlag, Branch, TypeOK, hostVars
<1>9. CASE UNCHANGED vars
  BY <1>9 DEF vars, hostVars, pruVars, TypeOK
<1> QED
  BY <1>1, <1>2, <1>3, <1>4, <1>5, <1>6, <1>7, <1>8, <1>9
     DEF Next, PruStep, Trigger, Pulse, Pause, Delays

\* Host, memory and PRU keep their types, whatever the settings are.
THEOREM PulseTypeCorrect == Spec => []TypeOK
BY InitTyped, StepTyped, PTL DEF Spec

-----------------------------------------------------------------------------
(* The invariant.  In a session, what memory and PRU are not yet, they are *)
(* about to be made by the accesses pending.                               *)

Pending(a) == \E i \in 1 .. Len(todo) : todo[i].to = a

\* The program is loaded last, and in a session that begins.
ExecIsLast ==
  \A i \in 1 .. Len(todo) : todo[i].to = "exec" => mode \in Active /\ i = Len(todo)

\* The loop flag of a session is on or about to be turned on, never off.
FlagIsOn ==
  mode \in Active =>
    /\ mem.flag = 1 \/ Pending("flag")
    /\ \A i \in 1 .. Len(todo) : todo[i].to = "flag" => todo[i].word = 1

\* The PRU of a session cycles with the flag on, or is about to be started.
PruIsCycling ==
  mode \in Active =>
    (mem.flag = 1 /\ phase \notin {"end", "halted"}) \/ Pending("exec")

\* The delays of a session are those of the settings, or about to be.
DelaysFollow ==
  mode \in Active =>
    \A d \in Delays :
      /\ mem[d] = PruValues(settings)[d] \/ Pending(d)
      /\ \A i \in 1 .. Len(todo) :
           todo[i].to = d => todo[i].word = PruValues(settings)[d]

\* What an undisturbed cycle has read so far is what the memory holds.
LoadedIsMemory ==
  mode \in Active /\ undisturbed =>
    /\ todo = <<>>
    /\ phase \in {"pulse", "pause", "flag"} => loaded["trigger"] = mem["trigger"]
    /\ phase \in {"pause", "flag"} => loaded["pulse"] = mem["pulse"]
    /\ phase = "flag" => loaded["pause"] = mem["pause"]

\* A run that is being started ends its accesses with the program; after that
\* only the PRU acts.
RunIsLeftAlone ==
  mode = "RunState" =>
    IF todo # <<>> THEN todo[Len(todo)].to = "exec"
    ELSE phase = "trigger" \/ undisturbed

PulseInv ==
  ExecIsLast /\ FlagIsOn /\ PruIsCycling /\ DelaysFollow /\ LoadedIsMemory
    /\ RunIsLeftAlone

LEMMA InitPulseInv == Init => PulseInv
<1> SUFFICES ASSUME Init PROVE PulseInv
  OBVIOUS
<1>1. mode = "ReadyState" /\ mode \notin Active
  BY DEF Init, Active
<1>2. \A i \in 1 .. Len(todo) : todo[i].to # "exec"
  BY InitAccesses, AccessKinds DEF Init
<1> QED
  BY <1>1, <1>2 DEF PulseInv, ExecIsLast, FlagIsOn, PruIsCycling, DelaysFollow,
                    LoadedIsMemory, RunIsLeftAlone

LEMMA EmptyHasNoAccess == Len(<<>>) = 0
BY EmptySeq

LEMMA StartSessionInv ==
  ASSUME TypeOK, NEW next \in Active, StartSession(next)
  PROVE  PulseInv'
<1> DEFINE q == SetCameraPruValues(settings)
<1>1. settings \in TimedSettings /\ settings' = settings /\ mode' = next
        /\ ~undisturbed' /\ todo' = Prepared(settings)
  BY SettingsTyped DEF StartSession, Prepared
<1>2. /\ Len(todo') = 5 /\ \A i \in 1 .. 3 : todo'[i] = q[i]
      /\ todo'[4].to = "flag" /\ todo'[4].word = 1 /\ todo'[5].to = "exec"
  BY <1>1, StartAccesses, FlagTyped DEF Exec
<1>3. /\ \A i \in 1 .. 3 : q[i].to \in Delays
                           /\ q[i].word = PruValues(settings)[q[i].to]
      /\ \A d \in Delays : \E i \in 1 .. 3 : q[i].to = d
  BY <1>1, SetAccesses
<1> HIDE DEF q
<1>4. \A i \in 1 .. 5 : i \in 1 .. 3 \/ i = 4 \/ i = 5
  OBVIOUS
<1>5. ExecIsLast'
  BY <1>1, <1>2, <1>3, <1>4 DEF ExecIsLast, Delays
<1>6. FlagIsOn'
  BY <1>1, <1>2, <1>3, <1>4 DEF FlagIsOn, Pending, Delays
<1>7. PruIsCycling'
  BY <1>2 DEF PruIsCycling, Pending
<1>8. DelaysFollow'
  BY <1>1, <1>2, <1>3, <1>4 DEF DelaysFollow, Pending, Delays
<1>9. LoadedIsMemory'
  BY <1>1 DEF LoadedIsMemory
<1>10. RunIsLeftAlone'
  <2>1. todo' # <<>>
    <3>1. Len(todo') # 0
      BY <1>2
    <3> QED
      BY <3>1, EmptyHasNoAccess, Zenon
  <2> QED
    BY <1>2, <2>1 DEF RunIsLeftAlone
<1> QED
  BY <1>5, <1>6, <1>7, <1>8, <1>9, <1>10 DEF PulseInv

LEMMA UpdateSettingsInv ==
  ASSUME TypeOK, PulseInv, UpdateSettings
  PROVE  PulseInv'
<1> DEFINE q == SetCameraPruValues(settings')
<1>1. settings' \in TimedSettings
  BY UpdateMixes
<1>2. /\ mode' = mode /\ mode # "RunState" /\ todo = <<>> /\ todo' = q
      /\ undisturbed' = FALSE /\ mem' = mem /\ phase' = phase
  BY DEF UpdateSettings, Ready, pruVars
<1>3. /\ Len(q) = 3
      /\ \A i \in 1 .. 3 : q[i].to \in Delays
                           /\ q[i].word = PruValues(settings')[q[i].to]
      /\ \A d \in Delays : \E i \in 1 .. 3 : q[i].to = d
  BY <1>1, SetAccesses
<1>4. ~Pending("flag") /\ ~Pending("exec")
  BY <1>2 DEF Pending
<1> HIDE DEF q
<1>5. ExecIsLast'
  BY <1>2, <1>3 DEF ExecIsLast, Delays
<1>6. FlagIsOn'
  BY <1>2, <1>3, <1>4 DEF PulseInv, FlagIsOn, Delays
<1>7. PruIsCycling'
  BY <1>2, <1>4 DEF PulseInv, PruIsCycling
<1>8. DelaysFollow'
  BY <1>2, <1>3 DEF DelaysFollow, Pending
<1>9. LoadedIsMemory' /\ RunIsLeftAlone'
  BY <1>2 DEF LoadedIsMemory, RunIsLeftAlone
<1> QED
  BY <1>5, <1>6, <1>7, <1>8, <1>9 DEF PulseInv

\* What a host step does to what is pending: the first access is gone, and the
\* rest is what it was.
LEMMA PendingMovesUp ==
  ASSUME TypeOK, HostStep
  PROVE  /\ Len(todo) \in Nat \ {0} /\ todo[1] \in Accesses
         /\ Len(todo') = Len(todo) - 1
         /\ \A i \in 1 .. Len(todo') : i + 1 \in 1 .. Len(todo) /\ todo'[i] = todo[i + 1]
         /\ \A a : Pending(a) => todo[1].to = a \/ Pending(a)'
<1>1. todo \in Seq(Accesses) /\ todo # <<>> /\ todo' = Tail(todo)
  BY DEF HostStep, TypeOK
<1>2. /\ Len(todo) \in Nat \ {0} /\ todo[1] \in Accesses
      /\ Len(todo') = Len(todo) - 1
      /\ \A i \in 1 .. Len(todo) - 1 : todo'[i] = todo[i + 1]
  BY <1>1, NextAccess
<1>3. ASSUME NEW a, NEW i \in 1 .. Len(todo), todo[i].to = a, i # 1
      PROVE  Pending(a)'
  <2>1. i - 1 \in 1 .. Len(todo') /\ todo'[i - 1] = todo[i]
    BY <1>2, <1>3
  <2> QED
    BY <1>3, <2>1 DEF Pending
<1>4. \A a : Pending(a) => todo[1].to = a \/ Pending(a)'
  BY <1>3 DEF Pending
<1>5. \A i \in 1 .. Len(todo') : i + 1 \in 1 .. Len(todo) /\ todo'[i] = todo[i + 1]
  BY <1>2
<1> QED
  BY <1>2, <1>4, <1>5

LEMMA HostStepInv ==
  ASSUME TypeOK, PulseInv, HostStep
  PROVE  PulseInv'
<1> DEFINE x == todo[1]
<1>1. /\ Len(todo) \in Nat \ {0} /\ x \in Accesses
      /\ Len(todo') = Len(todo) - 1
      /\ \A i \in 1 .. Len(todo') : i + 1 \in 1 .. Len(todo) /\ todo'[i] = todo[i + 1]
      /\ \A a : Pending(a) => x.to = a \/ Pending(a)'
  BY PendingMovesUp
<1>2. /\ mode' = mode /\ settings' = settings /\ ~undisturbed'
      /\ x = Head(todo) /\ 1 \in 1 .. Len(todo)
  BY <1>1, NextAccess DEF HostStep, TypeOK
<1>3. /\ x.to \in Delays \union {"flag", "exec"} /\ (x = Exec <=> x.to = "exec")
      /\ DOMAIN mem = Delays \union {"flag"}
  BY <1>1, AccessKinds DEF TypeOK
<1> HIDE DEF x
<1>4. x.to = "exec" => mode \in Active /\ Len(todo) = 1
  BY <1>1, <1>2 DEF PulseInv, ExecIsLast, x
<1>5. /\ x.to = "exec" => mem' = mem /\ phase' = "trigger"
      /\ x.to # "exec" => mem' = [mem EXCEPT ![x.to] = x.word] /\ phase' = phase
  BY <1>2, <1>3 DEF HostStep, pruVars
<1>6. ExecIsLast'
  BY <1>1, <1>2 DEF PulseInv, ExecIsLast
<1>7. FlagIsOn'
  <2> SUFFICES ASSUME mode \in Active PROVE FlagIsOn'
    BY <1>2 DEF FlagIsOn
  <2>1. \A i \in 1 .. Len(todo') : todo'[i].to = "flag" => todo'[i].word = 1
    BY <1>1 DEF PulseInv, FlagIsOn
  <2>2. x.to = "flag" => x.word = 1
    BY <1>2 DEF PulseInv, FlagIsOn, x
  <2>3. CASE x.to = "flag"
    BY <1>3, <1>5, <2>1, <2>2, <2>3 DEF FlagIsOn
  <2>4. CASE x.to # "flag"
    <3>1. mem'.flag = mem.flag
      BY <1>3, <1>5, <2>4
    <3> QED
      BY <1>1, <2>1, <2>4, <3>1 DEF PulseInv, FlagIsOn
  <2> QED
    BY <2>3, <2>4
<1>8. PruIsCycling'
  <2> SUFFICES ASSUME mode \in Active PROVE PruIsCycling'
    BY <1>2 DEF PruIsCycling
  <2>1. CASE x.to = "exec"
    <3>1. \A i \in 1 .. Len(todo) : todo[i].to # "flag"
      <4>1. Len(todo) = 1 /\ todo[1].to = "exec"
        BY <1>4, <2>1 DEF x
      <4> QED
        BY <4>1
    <3>2. mem.flag = 1
      BY <3>1 DEF PulseInv, FlagIsOn, Pending
    <3> QED
      BY <1>5, <2>1, <3>2 DEF PruIsCycling
  <2>2. CASE x.to # "exec" /\ Pending("exec")
    BY <1>1, <2>2 DEF PruIsCycling
  <2>3. CASE x.to # "exec" /\ ~Pending("exec")
    <3>1. mem.flag = 1 /\ phase \notin {"end", "halted"}
      BY <2>3 DEF PulseInv, PruIsCycling
    <3>2. x.to = "flag" => x.word = 1
      BY <1>2 DEF PulseInv, FlagIsOn, x
    <3>3. mem'.flag = 1
      BY <1>3, <1>5, <2>3, <3>1, <3>2
    <3> QED
      BY <1>5, <2>3, <3>1, <3>3 DEF PruIsCycling
  <2> QED
    BY <2>1, <2>2, <2>3
<1>9. DelaysFollow'
  <2> SUFFICES ASSUME mode \in Active, NEW d \in Delays
               PROVE  /\ mem'[d] = PruValues(settings)[d] \/ Pending(d)'
                      /\ \A i \in 1 .. Len(todo') :
                           todo'[i].to = d => todo'[i].word = PruValues(settings)[d]
    BY <1>2 DEF DelaysFollow
  <2>1. \A i \in 1 .. Len(todo') :
           todo'[i].to = d => todo'[i].word = PruValues(settings)[d]
    BY <1>1 DEF PulseInv, DelaysFollow
  <2>2. CASE x.to = d
    <3>1. x.word = PruValues(settings)[d]
      BY <1>2, <2>2 DEF PulseInv, DelaysFollow, x
    <3>2. mem'[d] = x.word
      BY <1>3, <1>5, <2>2 DEF Delays
    <3> QED
      BY <2>1, <3>1, <3>2
  <2>3. CASE x.to # d
    <3>1. mem'[d] = mem[d]
      BY <1>3, <1>5, <2>3 DEF Delays
    <3> QED
      BY <1>1, <2>1, <2>3, <3>1 DEF PulseInv, DelaysFollow
  <2> QED
    BY <2>2, <2>3
<1>10. LoadedIsMemory'
  BY <1>2 DEF LoadedIsMemory
<1>11. RunIsLeftAlone'
  <2> SUFFICES ASSUME mode = "RunState" PROVE RunIsLeftAlone'
    BY <1>2 DEF RunIsLeftAlone
  <2>1. todo # <<>> /\ todo[Len(todo)].to = "exec"
    BY DEF PulseInv, RunIsLeftAlone, HostStep
  <2>2. CASE Len(todo) = 1
    <3>1. todo' = <<>>
      <4>1. todo' \in Seq(Accesses) /\ Len(todo') = 0
        BY <1>1, <2>2, NextAccess DEF HostStep, TypeOK
      <4> QED
        BY <4>1, EmptySeq
    <3>2. phase' = "trigger"
      BY <1>5, <2>1, <2>2 DEF x
    <3> QED
      BY <3>1, <3>2 DEF RunIsLeftAlone
  <2>3. CASE Len(todo) # 1
    <3>1. Len(todo') \in 1 .. Len(todo') /\ todo'[Len(todo')] = todo[Len(todo)]
      BY <1>1, <2>3
    <3>2. todo' # <<>>
      <4>1. Len(todo') # 0
        BY <3>1
      <4> QED
        BY <4>1, EmptyHasNoAccess, Zenon
    <3> QED
      BY <2>1, <3>1, <3>2 DEF RunIsLeftAlone
  <2> QED
    BY <2>2, <2>3
<1> QED
  BY <1>6, <1>7, <1>8, <1>9, <1>10, <1>11 DEF PulseInv

\* Without a session the invariant only asks that no program is pending.
LEMMA NoSessionInv ==
  ASSUME mode' \notin Active, \A i \in 1 .. Len(todo') : todo'[i].to # "exec"
  PROVE  PulseInv'
BY DEF PulseInv, ExecIsLast, FlagIsOn, PruIsCycling, DelaysFollow, LoadedIsMemory,
       RunIsLeftAlone, Active

LEMMA DelayInv ==
  ASSUME TypeOK, PulseInv,
         NEW d \in Delays, NEW next \in {"pulse", "pause", "flag"},
         Delay(d, next),
         \/ d = "trigger" /\ next = "pulse"
         \/ d = "pulse" /\ next = "pause"
         \/ d = "pause" /\ next = "flag"
  PROVE  PulseInv'
<1>1. /\ mode' = mode /\ settings' = settings /\ todo' = todo /\ mem' = mem
      /\ phase = d /\ phase' = next
  BY DEF Delay, hostVars
<1>2. ExecIsLast' /\ FlagIsOn' /\ PruIsCycling' /\ DelaysFollow'
  BY <1>1 DEF PulseInv, ExecIsLast, FlagIsOn, PruIsCycling, DelaysFollow, Pending
<1>3. LoadedIsMemory'
  <2> SUFFICES ASSUME mode \in Active, undisturbed' PROVE LoadedIsMemory'
    BY <1>1 DEF LoadedIsMemory
  <2>1. CASE d = "trigger"
    <3>1. todo = <<>> /\ next = "pulse"
      BY <2>1 DEF Delay
    <3>2. loaded'["trigger"] = mem["trigger"]
      BY <2>1 DEF Delay, NothingLoaded, Delays
    <3> QED
      BY <1>1, <3>1, <3>2 DEF LoadedIsMemory
  <2>2. CASE d # "trigger"
    <3>1. undisturbed /\ loaded' = [loaded EXCEPT ![d] = mem[d]]
      BY <2>2 DEF Delay
    <3>2. todo = <<>> /\ loaded["trigger"] = mem["trigger"]
            /\ (d = "pause" => loaded["pulse"] = mem["pulse"])
      BY <1>1, <2>2, <3>1 DEF PulseInv, LoadedIsMemory, Delays
    <3>3. /\ loaded'["trigger"] = mem["trigger"] /\ loaded'[d] = mem[d]
          /\ d = "pause" => loaded'["pulse"] = mem["pulse"]
      BY <2>2, <3>1, <3>2 DEF TypeOK, Delays
    <3> QED
      BY <1>1, <2>2, <3>2, <3>3 DEF LoadedIsMemory
  <2> QED
    BY <2>1, <2>2
<1>4. RunIsLeftAlone'
  <2> SUFFICES ASSUME mode = "RunState" PROVE RunIsLeftAlone'
    BY <1>1 DEF RunIsLeftAlone
  <2>1. CASE todo # <<>>
    BY <1>1, <2>1 DEF PulseInv, RunIsLeftAlone
  <2>2. CASE todo = <<>> /\ d = "trigger"
    <3>1. undisturbed'
      BY <2>2 DEF Delay
    <3> QED
      BY <1>1, <2>2, <3>1 DEF RunIsLeftAlone
  <2>3. CASE todo = <<>> /\ d # "trigger"
    <3>1. undisturbed /\ undisturbed' = undisturbed
      BY <1>1, <2>3 DEF PulseInv, RunIsLeftAlone, Delay
    <3>2. undisturbed'
      BY <3>1
    <3> QED
      BY <1>1, <2>3, <3>2 DEF RunIsLeftAlone
  <2> QED
    BY <2>1, <2>2, <2>3
<1> QED
  BY <1>2, <1>3, <1>4 DEF PulseInv

LEMMA BranchInv ==
  ASSUME TypeOK, PulseInv, ReadFlag \/ Branch
  PROVE  PulseInv'
<1>1. /\ mode' = mode /\ settings' = settings /\ todo' = todo /\ mem' = mem
      /\ loaded' = loaded /\ (undisturbed' <=> undisturbed)
      /\ phase' \in {"again", "end", "trigger", "halted"}
      /\ phase = "flag" /\ phase' = "end" => mem.flag = 0
      /\ phase' = "halted" => phase = "end"
      /\ phase' = "end" => phase = "flag"
      /\ phase # "trigger"
  BY DEF ReadFlag, Branch, hostVars, TypeOK
<1>2. ExecIsLast' /\ FlagIsOn' /\ PruIsCycling' /\ DelaysFollow'
  BY <1>1 DEF PulseInv, ExecIsLast, FlagIsOn, PruIsCycling, DelaysFollow, Pending
<1>3. LoadedIsMemory' /\ RunIsLeftAlone'
  BY <1>1 DEF PulseInv, LoadedIsMemory, RunIsLeftAlone
<1> QED
  BY <1>2, <1>3 DEF PulseInv

LEMMA StepPulseInv == TypeOK /\ PulseInv /\ [Next]_vars => PulseInv'
<1> SUFFICES ASSUME TypeOK, PulseInv, [Next]_vars PROVE PulseInv'
  OBVIOUS
<1>1. CASE StopSession
  <2>1. Len(todo') = 1 /\ todo'[1].to = "flag" /\ mode' = "ReadyState"
    BY <1>1, FlagTyped DEF StopSession
  <2> QED
    BY <2>1, NoSessionInv DEF Active
<1>2. CASE Exit
  <2>1. Len(todo') = 0 /\ mode' = "dead"
    BY <1>2 DEF Exit
  <2> QED
    BY <2>1, NoSessionInv DEF Active
<1>3. CASE Restart
  <2>1. todo' = InitPRU /\ mode' = "ReadyState"
    BY <1>3 DEF Restart
  <2>2. \A i \in 1 .. Len(todo') : todo'[i].to # "exec"
    BY <2>1, InitAccesses, AccessKinds
  <2> QED
    BY <2>1, <2>2, NoSessionInv DEF Active
<1>4. CASE UNCHANGED vars
  <2>1. /\ mode' = mode /\ settings' = settings /\ todo' = todo /\ mem' = mem
        /\ loaded' = loaded /\ (undisturbed' <=> undisturbed) /\ phase' = phase
    BY <1>4 DEF vars, hostVars, pruVars
  <2> QED
    BY <2>1 DEF PulseInv, ExecIsLast, FlagIsOn, PruIsCycling, DelaysFollow, Pending,
                LoadedIsMemory, RunIsLeftAlone
<1> QED
  BY <1>1, <1>2, <1>3, <1>4, StartSessionInv, UpdateSettingsInv, HostStepInv, DelayInv,
     BranchInv
     DEF Next, PruStep, Trigger, Pulse, Pause, Delays

\* Every reachable state has it.
THEOREM PulseInvariant == Spec => []PulseInv
BY InitPulseInv, PulseTypeCorrect, StepPulseInv, PTL DEF Spec

-----------------------------------------------------------------------------
(* What a session can rely on.                                             *)

\* A session's PRU keeps cycling from the end of its Start on, however shortly
\* before that the flag was cleared (Camera::Start, Camera::Stop, pulse.p).
THEOREM KeepsCycling == Spec => []SessionKeepsCycling
<1>1. PulseInv => SessionKeepsCycling
  <2> SUFFICES ASSUME PulseInv, mode \in Active, todo = <<>>
               PROVE  phase \notin {"end", "halted"}
    BY DEF SessionKeepsCycling
  <2>1. ~Pending("exec")
    BY DEF Pending
  <2> QED
    BY <2>1 DEF PulseInv, PruIsCycling
<1> QED
  BY <1>1, PulseInvariant, PTL

\* An undisturbed cycle of a session has read the words of the settings, of every
\* set of timings (SetCameraPruValues, pulse.p).
LEMMA CycleLoads ==
  ASSUME TypeOK, PulseInv, mode \in Active, undisturbed, phase = "flag"
  PROVE  loaded = PruValues(settings)
<1>1. /\ todo = <<>> /\ loaded["trigger"] = mem["trigger"]
      /\ loaded["pulse"] = mem["pulse"] /\ loaded["pause"] = mem["pause"]
  BY DEF PulseInv, LoadedIsMemory
<1>2. \A d \in Delays : mem[d] = PruValues(settings)[d]
  <2>1. \A d \in Delays : ~Pending(d)
    BY <1>1 DEF Pending
  <2> QED
    BY <2>1 DEF PulseInv, DelaysFollow
<1>3. \A d \in Delays : loaded[d] = PruValues(settings)[d]
  BY <1>1, <1>2 DEF Delays
<1>4. PruValues(settings) = [d \in Delays |-> PruValues(settings)[d]]
  BY DEF PruValues, Delays
<1>5. loaded = [d \in Delays |-> loaded[d]]
  BY DEF TypeOK
<1> QED
  BY <1>3, <1>4, <1>5

\* Cycles follow the settings, whatever happened before they began.
THEOREM CyclesFollow == Spec => []CyclesFollowSettings
<1>1. TypeOK /\ PulseInv => CyclesFollowSettings
  BY CycleLoads DEF CyclesFollowSettings
<1> QED
  BY <1>1, PulseTypeCorrect, PulseInvariant, PTL

\* And last the capture period, with no runaway delay, when the settings are in
\* range (CycleIsCapturePeriod).
THEOREM CyclesLast == Spec => []CyclesLastTheirPeriod
<1>1. TypeOK /\ PulseInv => CyclesLastTheirPeriod
  <2> SUFFICES ASSUME TypeOK, PulseInv, mode \in Active, undisturbed, phase = "flag",
                      InRange(settings)
               PROVE  /\ \A d \in Delays : loaded[d] > 0
                      /\ CycleTurns(loaded) = Turns(settings.CapturePeriod * UsPerMs)
    BY DEF CyclesLastTheirPeriod
  <2>1. CycleMeetsSettings(settings)
    BY SettingsTyped, CycleIsCapturePeriod DEF TimedSettings
  <2>2. loaded = PruValues(settings)
    BY CycleLoads
  <2>3. /\ PruValues(settings).trigger > 0 /\ PruValues(settings).pulse > 0
        /\ PruValues(settings).pause > 0
        /\ CycleTurns(PruValues(settings)) = Turns(settings.CapturePeriod * UsPerMs)
    BY <2>1 DEF CycleMeetsSettings
  <2> QED
    BY <2>2, <2>3 DEF Delays
<1> QED
  BY <1>1, PulseTypeCorrect, PulseInvariant, PTL

\* From its second cycle on a run is left alone by the host
\* (RunState::SetDeviceSettings rejects).
THEOREM RunsUndisturbed == Spec => []RunsAreUndisturbed
<1>1. PulseInv => RunsAreUndisturbed
  BY DEF PulseInv, RunIsLeftAlone, RunsAreUndisturbed
<1> QED
  BY <1>1, PulseInvariant, PTL

-----------------------------------------------------------------------------
(* What the RAM and the PRU may hold outside sessions, too.                *)

\* A host step in full: the first access is made.
LEMMA AccessMade ==
  ASSUME TypeOK, HostStep
  PROVE  LET x == todo[1]
         IN /\ 1 \in 1 .. Len(todo)
            /\ x.to \in Delays \union {"flag", "exec"}
            /\ mode' = mode /\ settings' = settings
            /\ x.to = "exec" => mem' = mem /\ phase' = "trigger" /\ loaded' = NothingLoaded
            /\ x.to # "exec" => UNCHANGED <<phase, loaded>>
            /\ x.to = "flag" => mem'.flag = x.word
            /\ x.to # "flag" => mem'.flag = mem.flag
            /\ \A d \in Delays : mem'[d] = IF x.to = d THEN x.word ELSE mem[d]
<1> DEFINE x == todo[1]
<1>1. Len(todo) \in Nat \ {0} /\ x \in Accesses /\ x = Head(todo)
  BY NextAccess DEF HostStep, TypeOK
<1>2. /\ x.to \in Delays \union {"flag", "exec"} /\ (x = Exec <=> x.to = "exec")
      /\ DOMAIN mem = Delays \union {"flag"}
  BY <1>1, AccessKinds DEF TypeOK
<1> HIDE DEF x
<1>3. /\ x.to = "exec" => mem' = mem /\ phase' = "trigger" /\ loaded' = NothingLoaded
      /\ x.to # "exec" => mem' = [mem EXCEPT ![x.to] = x.word] /\ UNCHANGED <<phase, loaded>>
      /\ mode' = mode /\ settings' = settings
  BY <1>1, <1>2 DEF HostStep, pruVars
<1>4. \A d \in Delays : d \notin {"flag", "exec"}
  BY DEF Delays
<1> QED
  BY <1>1, <1>2, <1>3, <1>4 DEF x

\* InitPRU writes the defaults and, last, a cleared flag.
LEMMA InitWrites ==
  /\ \A i \in 1 .. 4, d \in Delays : InitPRU[i].to = d => InitPRU[i].word = Defaults[d]
  /\ \A i \in 1 .. 4 : InitPRU[i].to = "flag" => InitPRU[i].word = 0
  /\ InitPRU[4].to = "flag"
<1>1. \A i \in 1 .. 4 : i = 1 \/ i = 2 \/ i = 3 \/ i = 4
  OBVIOUS
<1> QED
  BY <1>1 DEF InitPRU, Write, Delays

\* Outside sessions the flag is off, or about to be turned off and never on.
FlagIsOff ==
  mode = "ReadyState" =>
    /\ mem.flag = 0 \/ Pending("flag")
    /\ \A i \in 1 .. Len(todo) : todo[i].to = "flag" => todo[i].word = 0

LEMMA InitFlagIsOff == Init => FlagIsOff
<1> SUFFICES ASSUME Init PROVE FlagIsOff
  OBVIOUS
<1>1. todo = InitPRU /\ Len(todo) = 4 /\ 4 \in 1 .. 4
  BY InitAccesses DEF Init
<1> QED
  BY <1>1, InitWrites DEF FlagIsOff, Pending

LEMMA StepFlagIsOff == TypeOK /\ FlagIsOff /\ [Next]_vars => FlagIsOff'
<1> SUFFICES ASSUME TypeOK, FlagIsOff, [Next]_vars, mode' = "ReadyState"
             PROVE  FlagIsOff'
  BY DEF FlagIsOff
<1>1. ASSUME NEW next \in Active, StartSession(next) PROVE FALSE
  BY <1>1 DEF StartSession, Active
<1>2. CASE StopSession
  <2>1. Len(todo') = 1 /\ todo'[1].to = "flag" /\ todo'[1].word = 0 /\ 1 \in 1 .. 1
    BY <1>2, FlagTyped DEF StopSession
  <2> QED
    BY <2>1 DEF FlagIsOff, Pending
<1>3. CASE UpdateSettings
  <2>1. settings' \in TimedSettings
    BY <1>3, UpdateMixes
  <2>2. Len(todo') = 3 /\ \A i \in 1 .. 3 : todo'[i].to \in Delays
    BY <1>3, <2>1, SetAccesses DEF UpdateSettings
  <2>3. mode = "ReadyState" /\ todo = <<>> /\ mem' = mem
    BY <1>3 DEF UpdateSettings, Ready
  <2>4. mem.flag = 0
    BY <2>3 DEF FlagIsOff, Pending
  <2> QED
    BY <2>2, <2>3, <2>4 DEF FlagIsOff, Delays
<1>4. CASE HostStep
  <2>1. /\ \A i \in 1 .. Len(todo') : i + 1 \in 1 .. Len(todo) /\ todo'[i] = todo[i + 1]
        /\ \A a : Pending(a) => todo[1].to = a \/ Pending(a)'
    BY <1>4, PendingMovesUp
  <2>2. /\ 1 \in 1 .. Len(todo) /\ mode = "ReadyState"
        /\ todo[1].to = "flag" => mem'.flag = todo[1].word
        /\ todo[1].to # "flag" => mem'.flag = mem.flag
    BY <1>4, AccessMade
  <2> QED
    BY <2>1, <2>2 DEF FlagIsOff
<1>5. CASE Exit
  BY <1>5 DEF Exit
<1>6. CASE Restart
  <2>1. todo' = InitPRU /\ Len(todo') = 4 /\ 4 \in 1 .. 4
    BY <1>6, InitAccesses DEF Restart
  <2> QED
    BY <2>1, InitWrites DEF FlagIsOff, Pending
<1>7. CASE PruStep \/ UNCHANGED vars
  <2>1. UNCHANGED <<mode, todo, mem>>
    BY <1>7 DEF PruStep, Trigger, Pulse, Pause, Delay, ReadFlag, Branch, vars, hostVars
  <2> QED
    BY <2>1 DEF FlagIsOff, Pending
<1> QED
  BY <1>1, <1>2, <1>3, <1>4, <1>5, <1>6, <1>7 DEF Next

\* An idle device's PRU does nothing but go on to its halt, whenever in its cycle
\* the flag was cleared and whoever left it running (Camera::Stop, Camera::InitPRU).
THEOREM IdleWindsDown == Spec => IdlePruWindsDown
<1>1. TypeOK /\ FlagIsOff /\ [Next]_vars
        => [Idle /\ Idle' /\ pruVars' # pruVars => StepsLeft(phase') < StepsLeft(phase)]_vars
  <2> SUFFICES ASSUME TypeOK, FlagIsOff, Next, Idle, Idle', pruVars' # pruVars
               PROVE  StepsLeft(phase') < StepsLeft(phase)
    BY DEF vars, pruVars
  <2>1. mem.flag = 0
    BY DEF FlagIsOff, Idle, Pending
  <2>2. PruStep
    BY DEF Next, StartSession, StopSession, UpdateSettings, HostStep, Exit, Restart, Idle,
           Active
  <2>3. CASE Trigger
    BY <2>3 DEF Trigger, Delay, StepsLeft
  <2>4. CASE Pulse
    BY <2>4 DEF Pulse, Delay, StepsLeft
  <2>5. CASE Pause
    BY <2>5 DEF Pause, Delay, StepsLeft
  <2>6. CASE ReadFlag
    BY <2>1, <2>6 DEF ReadFlag, StepsLeft
  <2>7. CASE Branch
    BY <2>7 DEF Branch, StepsLeft
  <2> QED
    BY <2>2, <2>3, <2>4, <2>5, <2>6, <2>7 DEF PruStep
<1> QED
  BY <1>1, PulseTypeCorrect, InitFlagIsOff, StepFlagIsOff, PTL DEF Spec, IdlePruWindsDown

-----------------------------------------------------------------------------

\* What is written and, once a program runs, what is in the RAM and what the PRU
\* has read, are words computed for the delay they are used for.
WordsAreOwn ==
  /\ \A i \in 1 .. Len(todo), d \in Delays : todo[i].to = d => todo[i].word \in Computed(d)
  /\ phase # "halted" => \A d \in Delays : mem[d] \in Computed(d)
  /\ DelaysAreComputed

LEMMA InitWordsAreOwn == Init => WordsAreOwn
<1> SUFFICES ASSUME Init PROVE WordsAreOwn
  OBVIOUS
<1>1. todo = InitPRU /\ Len(todo) = 4 /\ phase = "halted" /\ loaded = NothingLoaded
  BY InitAccesses DEF Init
<1> QED
  BY <1>1, InitWrites DEF WordsAreOwn, Computed, DelaysAreComputed, NothingLoaded

\* Settings the device can have yield words the delays may have.
LEMMA OwnSettings ==
  ASSUME NEW s \in Mixtures, NEW d \in Delays
  PROVE  PruValues(s)[d] \in Computed(d)
BY DEF Computed

LEMMA StepWordsAreOwn == TypeOK /\ PulseInv /\ WordsAreOwn /\ [Next]_vars => WordsAreOwn'
<1> SUFFICES ASSUME TypeOK, PulseInv, WordsAreOwn, [Next]_vars
             PROVE  WordsAreOwn'
  OBVIOUS
<1>a. /\ settings \in Mixtures
      /\ settings \in TimedSettings
  BY SettingsTyped DEF TypeOK
<1>1. ASSUME NEW next \in Active, StartSession(next) PROVE WordsAreOwn'
  <2> DEFINE q == SetCameraPruValues(settings)
  <2>1. UNCHANGED <<mem, phase, loaded>> /\ todo' = Prepared(settings)
    BY <1>1 DEF StartSession, pruVars, Prepared
  <2>2. /\ Len(todo') = 5 /\ \A i \in 1 .. 3 : todo'[i] = q[i]
        /\ todo'[4].to = "flag" /\ todo'[5].to = "exec"
    BY <2>1, <1>a, StartAccesses, FlagTyped DEF Exec
  <2>3. \A i \in 1 .. 3 : q[i].to \in Delays /\ q[i].word = PruValues(settings)[q[i].to]
    BY <1>a, SetAccesses
  <2> HIDE DEF q
  <2>4. \A i \in 1 .. 5 : i \in 1 .. 3 \/ i = 4 \/ i = 5
    OBVIOUS
  <2>5. ASSUME NEW i \in 1 .. 5, NEW d \in Delays, todo'[i].to = d
        PROVE  todo'[i].word \in Computed(d)
    <3>1. i \in 1 .. 3
      BY <2>2, <2>4, <2>5 DEF Delays
    <3> QED
      BY <3>1, <2>2, <2>3, <2>5, <1>a, OwnSettings
  <2> QED
    BY <2>1, <2>2, <2>5 DEF WordsAreOwn, DelaysAreComputed
<1>2. CASE StopSession
  <2>1. /\ Len(todo') = 1 /\ todo'[1].to = "flag" /\ \A i \in 1 .. 1 : i = 1
        /\ UNCHANGED <<mem, phase, loaded>>
    BY <1>2, FlagTyped DEF StopSession, pruVars
  <2> QED
    BY <2>1 DEF WordsAreOwn, DelaysAreComputed, Delays
<1>3. CASE UpdateSettings
  <2>1. /\ settings' \in Mixtures /\ settings' \in TimedSettings
        /\ UNCHANGED <<mem, phase, loaded>>
    BY <1>3, UpdateMixes DEF UpdateSettings, pruVars
  <2>2. Len(todo') = 3 /\ \A i \in 1 .. 3 : todo'[i].to \in Delays
                             /\ todo'[i].word = PruValues(settings')[todo'[i].to]
    BY <1>3, <2>1, SetAccesses DEF UpdateSettings
  <2> QED
    BY <2>1, <2>2, OwnSettings DEF WordsAreOwn, DelaysAreComputed
<1>4. CASE HostStep
  <2> DEFINE x == todo[1]
  <2>1. \A i \in 1 .. Len(todo') : i + 1 \in 1 .. Len(todo) /\ todo'[i] = todo[i + 1]
    BY <1>4, PendingMovesUp
  <2>2. \A i \in 1 .. Len(todo'), d \in Delays :
          todo'[i].to = d => todo'[i].word \in Computed(d)
    BY <2>1 DEF WordsAreOwn
  <2>3. /\ 1 \in 1 .. Len(todo)
        /\ x.to = "exec" => mem' = mem /\ loaded' = NothingLoaded
        /\ x.to # "exec" => UNCHANGED <<phase, loaded>>
        /\ \A d \in Delays : mem'[d] = IF x.to = d THEN x.word ELSE mem[d]
    BY <1>4, AccessMade
  <2>4. \A d \in Delays : x.to = d => x.word \in Computed(d)
    BY <2>3 DEF WordsAreOwn
  <2>5. CASE x.to = "exec"
    <3>1. mode \in Active /\ Len(todo) = 1
      BY <2>3, <2>5 DEF PulseInv, ExecIsLast
    <3>2. \A d \in Delays : ~Pending(d)
      <4>1. \A i \in 1 .. Len(todo) : todo[i].to = "exec"
        BY <2>5, <3>1
      <4> QED
        BY <4>1 DEF Pending, Delays
    <3>3. \A d \in Delays : mem[d] = PruValues(settings)[d]
      BY <3>1, <3>2 DEF PulseInv, DelaysFollow
    <3>4. \A d \in Delays : mem'[d] \in Computed(d)
      BY <2>3, <2>5, <3>3, <1>a, OwnSettings
    <3>5. DelaysAreComputed'
      BY <2>3, <2>5 DEF DelaysAreComputed, NothingLoaded
    <3> QED
      BY <2>2, <3>4, <3>5 DEF WordsAreOwn
  <2>6. CASE x.to # "exec"
    <3>1. phase' # "halted" => \A d \in Delays : mem'[d] \in Computed(d)
      BY <2>3, <2>4, <2>6 DEF WordsAreOwn
    <3>2. DelaysAreComputed'
      BY <2>3, <2>6 DEF WordsAreOwn, DelaysAreComputed
    <3> QED
      BY <2>2, <3>1, <3>2 DEF WordsAreOwn
  <2> QED
    BY <2>5, <2>6
<1>5. CASE Exit
  BY <1>5 DEF Exit, pruVars, WordsAreOwn, DelaysAreComputed
<1>6. CASE Restart
  <2>1. todo' = InitPRU /\ Len(todo') = 4 /\ UNCHANGED <<mem, phase, loaded>>
    BY <1>6, InitAccesses DEF Restart, pruVars
  <2> QED
    BY <2>1, InitWrites DEF WordsAreOwn, DelaysAreComputed, Computed
<1>7. ASSUME NEW d \in Delays, NEW next \in {"pulse", "pause", "flag"}, Delay(d, next)
      PROVE  WordsAreOwn'
  <2>1. /\ todo' = todo /\ mem' = mem /\ phase # "halted" /\ mem[d] \in Computed(d)
    BY <1>7 DEF Delay, hostVars, WordsAreOwn, Delays
  <2>2. \/ loaded' = [loaded EXCEPT ![d] = mem[d]]
        \/ loaded' = [NothingLoaded EXCEPT ![d] = mem[d]]
    BY <1>7 DEF Delay
  <2>3. DelaysAreComputed'
    BY <2>1, <2>2 DEF WordsAreOwn, DelaysAreComputed, NothingLoaded, TypeOK
  <2> QED
    BY <2>1, <2>3 DEF WordsAreOwn
<1>8. CASE ReadFlag \/ Branch \/ UNCHANGED vars
  <2>1. /\ UNCHANGED <<todo, mem, loaded>>
        /\ phase' # "halted" => phase # "halted"
    BY <1>8 DEF ReadFlag, Branch, vars, hostVars, pruVars
  <2> QED
    BY <2>1 DEF WordsAreOwn, DelaysAreComputed
<1> QED
  BY <1>1, <1>2, <1>3, <1>4, <1>5, <1>6, <1>7, <1>8
     DEF Next, PruStep, Trigger, Pulse, Pause, Delays

\* Whatever accesses fall into a cycle and wherever a process died in its writes,
\* no delay is timed by what was never computed for it (InitPRU,
\* SetCameraPruValues, pulse.p).
THEOREM ComputedDelays == Spec => []DelaysAreComputed
<1>1. WordsAreOwn => DelaysAreComputed
  BY DEF WordsAreOwn
<1> QED
  BY <1>1, InitWordsAreOwn, StepWordsAreOwn, PulseTypeCorrect, PulseInvariant, PTL DEF Spec

\* A device never enters a delay loop with a zero, the 2^32 turns of pulse.p, if
\* whatever it is sent is in range in every mixture of fields: then not even after a
\* message cut short, in a cycle that mixes settings, or between two processes.
\* Messages that are each in range do not do, since Deserialize may take the period
\* of one and leave the pulse of another (Deserialize, SetCameraPruValues, pulse.p).
THEOREM NoRunawayDelay ==
  ASSUME \A s \in Mixtures : InRange(s),
         \A d \in Delays : Defaults[d] > 0
  PROVE  Spec => [](\A d \in Delays : loaded[d] # 0)
<1>1. ASSUME NEW s \in Mixtures, NEW d \in Delays
      PROVE  PruValues(s)[d] # 0
  <2>1. s \in TimedSettings /\ InRange(s)
    BY MixturesAreTimed
  <2>2. CycleMeetsSettings(s)
    BY <2>1, CycleIsCapturePeriod DEF TimedSettings
  <2>3. /\ PruValues(s).trigger > 0 /\ PruValues(s).pulse > 0 /\ PruValues(s).pause > 0
    BY <2>2 DEF CycleMeetsSettings
  <2> QED
    BY <2>3 DEF Delays
<1>2. DelaysAreComputed => \A d \in Delays : loaded[d] # 0
  BY <1>1 DEF DelaysAreComputed, Computed, NoDelay
<1> QED
  BY <1>2, ComputedDelays, PTL

-----------------------------------------------------------------------------
(* Seen by the trigger, host and PRU are TriggerLoop: writes of the flag   *)
(* turn the loop on and off, the load starts it, the trigger's delay fires *)
(* and the read of the flag closes the cycle.                              *)

LoopOn == mem.flag # 0

LoopSafety == Loop!Init /\ [][Loop!Next]_Loop!vars

LEMMA HostStepRefines ==
  ASSUME TypeOK, PulseInv, HostStep
  PROVE  Loop!Next \/ UNCHANGED Loop!vars
<1> DEFINE x == todo[1]
<1>1. /\ Len(todo) \in Nat \ {0} /\ x \in Accesses /\ x = Head(todo)
      /\ 1 \in 1 .. Len(todo)
  BY PendingMovesUp, NextAccess DEF HostStep, TypeOK
<1>2. /\ x.to \in Delays \union {"flag", "exec"} /\ (x = Exec <=> x.to = "exec")
      /\ (x.to = "flag" => x.word \in {0, 1})
      /\ DOMAIN mem = Delays \union {"flag"}
  BY <1>1, AccessKinds DEF TypeOK
<1>3. CASE x.to = "exec"
  <2>1. phase' = "trigger" /\ mem' = mem /\ mode \in Active /\ Len(todo) = 1
    BY <1>1, <1>2, <1>3 DEF HostStep, PulseInv, ExecIsLast
  <2>2. ~Pending("flag")
    BY <1>3, <2>1 DEF Pending
  <2>3. LoopOn
    BY <2>1, <2>2 DEF PulseInv, FlagIsOn, LoopOn
  <2>4. CyclePhase' = "trigger"
    BY <2>1 DEF CyclePhase
  <2> QED
    BY <2>1, <2>3, <2>4 DEF Loop!Next, Loop!Exec, LoopOn
<1> HIDE DEF x
<1>4. CASE x.to = "flag"
  <2>1. mem'.flag = x.word /\ CyclePhase' = CyclePhase
    BY <1>1, <1>2, <1>4 DEF HostStep, pruVars, CyclePhase
  <2> QED
    BY <1>2, <1>4, <2>1 DEF Loop!Next, Loop!TurnOn, Loop!TurnOff
<1>5. CASE x.to \in Delays
  <2>1. mem'.flag = mem.flag /\ CyclePhase' = CyclePhase
    BY <1>1, <1>2, <1>5 DEF HostStep, pruVars, CyclePhase, Delays
  <2> QED
    BY <2>1 DEF Loop!vars
<1> QED
  BY <1>2, <1>3, <1>4, <1>5

LEMMA PruStepRefines ==
  ASSUME TypeOK, PruStep
  PROVE  Loop!Next \/ UNCHANGED Loop!vars
<1>1. mem' = mem
  BY DEF PruStep, Trigger, Pulse, Pause, Delay, ReadFlag, Branch
<1>2. CASE Trigger
  <2>1. CyclePhase = "trigger" /\ CyclePhase' = "rest"
    BY <1>2 DEF Trigger, Delay, CyclePhase
  <2> QED
    BY <1>1, <2>1 DEF Loop!Next, Loop!Cycle, Loop!Fire
<1>3. CASE ReadFlag
  <2>1. CyclePhase = "rest" /\ CyclePhase' = IF mem.flag # 0 THEN "trigger" ELSE "halted"
    BY <1>3 DEF ReadFlag, CyclePhase
  <2> QED
    BY <1>1, <2>1 DEF Loop!Next, Loop!Cycle, Loop!Close
<1>4. CASE Pulse \/ Pause
  <2>1. CyclePhase = "rest" /\ CyclePhase' = "rest"
    BY <1>4 DEF Pulse, Pause, Delay, CyclePhase
  <2> QED
    BY <1>1, <2>1 DEF Loop!vars
<1>5. CASE Branch
  <2>1. CyclePhase' = CyclePhase
    BY <1>5 DEF Branch, CyclePhase
  <2> QED
    BY <1>1, <2>1 DEF Loop!vars
<1> QED
  BY <1>2, <1>3, <1>4, <1>5 DEF PruStep

LEMMA StepRefinesLoop ==
  TypeOK /\ PulseInv /\ [Next]_vars => [Loop!Next]_Loop!vars
<1> SUFFICES ASSUME TypeOK, PulseInv, [Next]_vars
             PROVE  Loop!Next \/ UNCHANGED Loop!vars
  OBVIOUS
<1>1. ASSUME UNCHANGED <<mem, phase>> PROVE UNCHANGED Loop!vars
  BY <1>1 DEF Loop!vars, CyclePhase
<1>2. \/ HostStep \/ PruStep \/ UNCHANGED <<mem, phase>>
  BY DEF Next, StartSession, StopSession, UpdateSettings, Exit, Restart, vars, pruVars
<1> QED
  BY <1>1, <1>2, HostStepRefines, PruStepRefines

\* However the host's accesses fall between the PRU's, the two are the trigger
\* loop that IdsCapture is built on (the safety part of ImplementsTriggerLoop).
THEOREM RefinesTriggerLoop == Spec => LoopSafety
<1>1. Init => Loop!Init
  BY DEF Init, Loop!Init, CyclePhase
<1> QED
  BY <1>1, PulseTypeCorrect, PulseInvariant, StepRefinesLoop, PTL DEF Spec, LoopSafety

-----------------------------------------------------------------------------
(* Seen by the service, host and PRU are CaptureSession: a session begins  *)
(* with the load of the program and ends with its Stop or the process.     *)

\* Served by cases, now and in the next state.
ServedByCases ==
  /\ mode \notin Active => Served = "ReadyState"
  /\ Pending("exec") => Served = "ReadyState"
  /\ mode \in Active /\ ~Pending("exec") => Served = mode

LEMMA ServedCases == TypeOK => ServedByCases
<1> SUFFICES ASSUME TypeOK PROVE ServedByCases
  OBVIOUS
<1>1. \A i \in 1 .. Len(todo) : todo[i] = Exec <=> todo[i].to = "exec"
  BY AccessKinds, ElementOfSeq DEF TypeOK
<1>2. Pending("exec") <=> \E i \in 1 .. Len(todo) : todo[i] = Exec
  BY <1>1 DEF Pending
<1> QED
  BY <1>2 DEF ServedByCases, Served

LEMMA ServedNext == TypeOK /\ TypeOK' => ServedByCases /\ ServedByCases'
BY ServedCases, PTL

Configuration == [d \in Delays |-> mem[d]]

\* A word of the RAM is written outside sessions or in a preview.
LEMMA WriteConfigures ==
  ASSUME TypeOK, TypeOK', UNCHANGED Served, Served # "RunState"
  PROVE  Session!Configure
<1>1. Configuration' \in [Delays -> Words]
  BY DEF TypeOK, Configuration
<1> QED
  BY <1>1 DEF Session!Configure, Configuration

LEMMA HostStepServes ==
  ASSUME TypeOK, TypeOK', PulseInv, HostStep
  PROVE  Session!Next \/ UNCHANGED Session!vars
<1> DEFINE x == todo[1]
<1>1. /\ 1 \in 1 .. Len(todo) /\ mode' = mode
      /\ x.to = "exec" => mem' = mem
      /\ \A i \in 1 .. Len(todo') : i + 1 \in 1 .. Len(todo) /\ todo'[i] = todo[i + 1]
      /\ \A a : Pending(a) => x.to = a \/ Pending(a)'
      /\ Len(todo') = Len(todo) - 1 /\ Len(todo) \in Nat
  BY AccessMade, PendingMovesUp
<1>2. ServedByCases /\ ServedByCases'
  BY ServedNext
<1> HIDE DEF x
<1>3. CASE x.to = "exec"
  <2>1. mode \in Active /\ Len(todo) = 1 /\ Pending("exec")
    BY <1>1, <1>3 DEF PulseInv, ExecIsLast, Pending, x
  <2>2. ~Pending("exec")'
    BY <1>1, <2>1 DEF Pending
  <2>3. Served = "ReadyState" /\ Served' = mode
    BY <1>1, <1>2, <2>1, <2>2 DEF ServedByCases
  <2>4. Configuration' \in [Delays -> Words]
    BY DEF TypeOK, Configuration
  <2> QED
    BY <2>1, <2>3, <2>4 DEF Session!Next, Session!Begin, Session!Active, Active, Configuration
<1>4. CASE x.to # "exec"
  <2>1. Pending("exec") <=> Pending("exec")'
    BY <1>1, <1>4 DEF Pending
  <2>2. UNCHANGED Served
    BY <1>1, <1>2, <2>1 DEF ServedByCases
  <2>3. Served # "RunState"
    <3>1. CASE Pending("exec") \/ mode # "RunState"
      BY <1>2, <3>1 DEF ServedByCases, Active
    <3>2. CASE mode = "RunState"
      <4>1. todo # <<>> /\ todo[Len(todo)].to = "exec"
        BY <3>2 DEF PulseInv, RunIsLeftAlone, HostStep
      <4> QED
        BY <1>1, <3>1, <4>1 DEF Pending
    <3> QED
      BY <3>1, <3>2
  <2> QED
    BY <2>2, <2>3, WriteConfigures DEF Session!Next
<1> QED
  BY <1>3, <1>4

LEMMA StepServes ==
  TypeOK /\ TypeOK' /\ PulseInv /\ [Next]_vars => [Session!Next]_Session!vars
<1> SUFFICES ASSUME TypeOK, TypeOK', PulseInv, [Next]_vars
             PROVE  Session!Next \/ UNCHANGED Session!vars
  OBVIOUS
<1>1. ServedByCases /\ ServedByCases'
  BY ServedNext
\* Other steps than the host's accesses leave the RAM alone: what is served stays,
\* or a session is over.
<1>2. ASSUME UNCHANGED mem, Served' = Served \/ Served' = "ReadyState"
      PROVE  Session!Next \/ UNCHANGED Session!vars
  <2>1. Served \in Active \union {"ReadyState"}
    BY DEF Served
  <2>2. Configuration' = Configuration
    BY <1>2 DEF Configuration
  <2> QED
    BY <1>2, <2>1, <2>2
       DEF Session!Next, Session!End, Session!vars, Session!Active, Active, Configuration
<1>3. ASSUME NEW next \in Active, StartSession(next)
      PROVE  Session!Next \/ UNCHANGED Session!vars
  <2>1. settings \in TimedSettings /\ todo' = Prepared(settings) /\ mem' = mem
    BY <1>3, SettingsTyped DEF StartSession, Prepared
  <2>2. Pending("exec")'
    BY <2>1, StartAccesses DEF Pending, Exec
  <2> QED
    BY <1>1, <1>2, <2>1, <2>2 DEF ServedByCases
<1>4. CASE StopSession \/ Exit \/ Restart
  <2>1. mode' \notin Active /\ mem' = mem
    BY <1>4 DEF StopSession, Exit, Restart, Active
  <2> QED
    BY <1>1, <1>2, <2>1 DEF ServedByCases
<1>5. CASE UpdateSettings
  <2>1. /\ settings' \in TimedSettings /\ todo = <<>> /\ mode' = mode /\ mem' = mem
        /\ todo' = SetCameraPruValues(settings')
    BY <1>5, UpdateMixes DEF UpdateSettings, Ready
  <2>2. ~Pending("exec") /\ ~Pending("exec")'
    BY <2>1, SetAccesses DEF Pending, Delays
  <2>3. Served' = Served
    BY <1>1, <2>1, <2>2 DEF ServedByCases
  <2> QED
    BY <1>2, <2>1, <2>3
<1>6. CASE PruStep \/ UNCHANGED vars
  <2>1. UNCHANGED <<mode, todo, mem>>
    BY <1>6 DEF PruStep, Trigger, Pulse, Pause, Delay, ReadFlag, Branch, vars, hostVars
  <2>2. Served' = Served
    BY <2>1 DEF Served
  <2> QED
    BY <1>2, <2>1, <2>2
<1> QED
  BY <1>3, <1>4, <1>5, <1>6, HostStepServes DEF Next

\* For every word size and set of timings, what Device promises of its sessions
\* holds down to the RAM of the PRU, although host and PRU get to each word in
\* their own time and the process may end between any two (SetCameraPruValues,
\* Camera::Start, Camera::InitPRU).
THEOREM RefinesCaptureSession == Spec => ImplementsCaptureSession
<1>1. Init => Session!Init
  <2> SUFFICES ASSUME Init PROVE Session!Init
    OBVIOUS
  <2>1. Served = "ReadyState"
    BY DEF Init, Served, Active
  <2>2. TypeOK
    BY InitTyped
  <2>3. Configuration \in [Delays -> Words]
    BY <2>2 DEF TypeOK, Configuration
  <2> QED
    BY <2>1, <2>3 DEF Session!Init, Configuration, Active
<1> QED
  BY <1>1, PulseTypeCorrect, PulseInvariant, StepServes, PTL
     DEF Spec, ImplementsCaptureSession, Session!Spec
=============================================================================
