------------------------ MODULE SerialUpdates_proofs -------------------------
(***************************************************************************)
(* Updates that do not meet, for every set of updates: what they leave     *)
(* behind at each stage and between two processes, and that they implement *)
(* UpdateProtocol.                                                         *)
(***************************************************************************)
EXTENDS SerialUpdates, FirmwareUpdate_proofs

-----------------------------------------------------------------------------
(* Serial updates.  Each finds at every stage what it has put there itself, *)
(* and nothing else unless a rm -rf has failed before.                     *)

StageInv ==
  \A u \in Updates :
    /\ update[u] \in {"parse", "download", "verify", "extract"} /\ ~rmFailed
         => fwtmp = Empty
    /\ update[u] = "verify" => tarball = u
    /\ update[u] \in {"extract", "version", "apply"} => tarball = u /\ u \in Valid
    /\ update[u] \in {"version", "apply"} =>
         /\ fwtmp.there /\ fwtmp.package = u
         /\ ~rmFailed => fwtmp.error = None
    /\ update[u] = "apply" => fwtmp.swVersion = u
    /\ update[u] = "verification" => u \notin Valid
    /\ update[u] = "extraction" => u \in Valid

LEMMA StepStages ==
  TypeOK /\ CleanInv /\ StageInv /\ OneAtATime /\ OneAtATime' /\ [Next]_vars
    => StageInv'
<1> SUFFICES ASSUME TypeOK, CleanInv, StageInv, OneAtATime, OneAtATime', [Next]_vars
             PROVE  StageInv'
  OBVIOUS
<1>a. \A t, u \in Updates : update[t] # "none" /\ update[u] # "none" => t = u
  BY DEF OneAtATime, InProgress
<1>b. \A u \in Updates : update[u] # "none" => proc = "up"
  BY DEF OneAtATime, InProgress
<1> USE DEF TypeOK, StageInv, disk
<1>1. ASSUME NEW u \in Updates, CallFirmwareUpdate(u)
      PROVE  StageInv'
  <2>1. update' = [update EXCEPT ![u] = "parse"] /\ update[u] = "none"
    BY <1>1 DEF CallFirmwareUpdate, Goto
  <2>2. \A t, v \in Updates : update'[t] # "none" /\ update'[v] # "none" => t = v
    BY DEF OneAtATime, InProgress
  <2>3. \A t \in Updates : update[t] = "none"
    BY <2>1, <2>2
  <2>4. proc' = "up"
    BY <2>1 DEF OneAtATime, InProgress
  <2>5. ~rmFailed => fwtmp = Empty
    BY <1>1, <2>3, <2>4 DEF CallFirmwareUpdate, CleanInv
  <2> QED
    BY <1>1, <2>1, <2>3, <2>5 DEF CallFirmwareUpdate
<1>2. ASSUME NEW u \in Updates, ParsePayload(u) \/ Download(u)
      PROVE  StageInv'
  <2>1. CASE ProcessEnds
    BY <2>1 DEF ProcessEnds
  <2>2. CASE Goto(u, "parse", "download") /\ UNCHANGED <<tarball, fwtmp, rmFailed>>
    BY <2>2, <1>a DEF Goto
  <2>3. CASE Goto(u, "download", "verify") /\ tarball' = u /\ UNCHANGED <<fwtmp, rmFailed>>
    BY <2>3, <1>a DEF Goto
  <2> QED
    BY <1>2, <2>1, <2>2, <2>3 DEF ParsePayload, Download
<1>3. ASSUME NEW u \in Updates, Verify(u)
      PROVE  StageInv'
  BY <1>3, <1>a DEF Verify, Goto
<1>4. ASSUME NEW u \in Updates, Extract(u)
      PROVE  StageInv'
  <2>1. fwtmp \in Directories
    BY DEF Directories
  <2>2. /\ tarball = u /\ u \in Valid /\ (~rmFailed => fwtmp = Empty)
        /\ UNCHANGED <<tarball, rmFailed>>
    BY <1>4 DEF Extract, Goto
  <2>3. CASE Goto(u, "extract", "version")
             /\ fwtmp' = [fwtmp EXCEPT !.there = TRUE, !.package = tarball]
    <3>1. /\ fwtmp'.there /\ fwtmp'.package = u
          /\ fwtmp'.error = fwtmp.error /\ (fwtmp = Empty => fwtmp.error = None)
      BY <2>1, <2>2, <2>3 DEF Directories, Empty
    <3>2. update'[u] = "version" /\ \A t \in Updates \ {u} : update'[t] = "none"
      BY <2>3, <1>a DEF Goto
    <3> QED
      BY <2>2, <3>1, <3>2
  <2>4. CASE Goto(u, "extract", "extraction")
    BY <2>2, <2>4, <1>a DEF Goto
  <2> QED
    BY <1>4, <2>3, <2>4 DEF Extract
<1>5. ASSUME NEW u \in Updates, WriteVersion(u)
      PROVE  StageInv'
  BY <1>5, <1>a DEF WriteVersion, Goto, WithFile, Empty
<1>6. ASSUME NEW u \in Updates, Apply(u) \/ HandleFirmwareUpdateError(u)
      PROVE  StageInv'
  BY <1>6 DEF Apply, HandleFirmwareUpdateError, ProcessEnds
<1>7. CASE CheckFwtmp \/ AnnounceCompleted \/ RemoveFwtmp
  BY <1>7, <1>b DEF CheckFwtmp, AnnounceCompleted, RemoveFwtmp
<1>8. CASE SendFwUpdateStatus \/ Restart \/ CutOff
  BY <1>8 DEF SendFwUpdateStatus, Restart, CutOff, ProcessEnds
<1>9. CASE UNCHANGED vars
  BY <1>9 DEF vars
<1> QED
  BY <1>1, <1>2, <1>3, <1>4, <1>5, <1>6, <1>7, <1>8, <1>9
     DEF Next, UpdateStep, Constructor

-----------------------------------------------------------------------------
(* What is not verified stays out of everything the device keeps.          *)

VerifiedInv == OnlyVerified /\ fwtmp.swVersion \in Valid \union {None}

LEMMA StepVerified ==
  TypeOK /\ StageInv /\ VerifiedInv /\ [Next]_vars => VerifiedInv'
<1> SUFFICES ASSUME TypeOK, StageInv, VerifiedInv, [Next]_vars
             PROVE  VerifiedInv'
  OBVIOUS
<1>a. fwtmp \in Directories
  BY DEF TypeOK, Directories
<1> USE DEF VerifiedInv, OnlyVerified, disk
<1>1. ASSUME NEW u \in Updates, CallFirmwareUpdate(u) \/ ParsePayload(u) \/ Download(u)
      PROVE  VerifiedInv'
  BY <1>1 DEF CallFirmwareUpdate, ParsePayload, Download
<1>2. ASSUME NEW u \in Updates, Verify(u) \/ Extract(u)
      PROVE  VerifiedInv'
  BY <1>2, <1>a DEF Verify, Extract, Directories
<1>3. ASSUME NEW u \in Updates, WriteVersion(u)
      PROVE  VerifiedInv'
  BY <1>3, <1>a DEF WriteVersion, Goto, WithFile, StageInv, Directories
<1>4. ASSUME NEW u \in Updates, Apply(u)
      PROVE  VerifiedInv'
  BY <1>4 DEF Apply, StageInv, Empty
<1>5. ASSUME NEW u \in Updates, HandleFirmwareUpdateError(u)
      PROVE  VerifiedInv'
  BY <1>5, <1>a DEF HandleFirmwareUpdateError, WithFile, Directories
<1>6. CASE Constructor
  <2>1. CASE CheckFwtmp \/ AnnounceCompleted
    BY <2>1 DEF CheckFwtmp, AnnounceCompleted
  <2>2. CASE RemoveFwtmp
    <3>1. fwtmp'.swVersion \in {fwtmp.swVersion, None}
      BY <2>2, <1>a, RemnantsTyped DEF RemoveFwtmp, Empty
    <3> QED
      BY <2>2, <3>1 DEF RemoveFwtmp
  <2> QED
    BY <1>6, <2>1, <2>2 DEF Constructor
<1>7. CASE SendFwUpdateStatus \/ Restart \/ CutOff
  BY <1>7 DEF SendFwUpdateStatus, Restart, CutOff
<1>8. CASE UNCHANGED vars
  BY <1>8 DEF vars
<1> QED
  BY <1>1, <1>2, <1>3, <1>4, <1>5, <1>6, <1>7, <1>8 DEF Next, UpdateStep

-----------------------------------------------------------------------------
(* What is said of an update.  A directory that an update which was not    *)
(* cut off has left to the next process holds an error, or the version of  *)
(* an update whose apply.sh was started.                                   *)

LeftInv ==
  /\ \A u \in Updates :
       \/ update[u] = "verification"
       \/ update[u] = "extraction" /\ faults = "none"
       => fwtmp.there
  /\ (\A u \in Updates : update[u] = "none") /\ fwtmp.there /\ fwtmp.error = None
       => fwtmp.swVersion \in applied
  /\ proc = "announce" \/ sender = "completed" => config \in applied
  /\ CompletedWasApplied

LEMMA StepLeaves ==
  faults # "leftovers" /\ ~rmFailed /\ TypeOK /\ StageInv /\ OneAtATime /\ LeftInv
    /\ [Next]_vars => LeftInv'
<1> SUFFICES ASSUME faults # "leftovers", ~rmFailed, TypeOK, StageInv, OneAtATime,
                    LeftInv, [Next]_vars
             PROVE  LeftInv'
  OBVIOUS
<1>a. \A t, u \in Updates : update[t] # "none" /\ update[u] # "none" => t = u
  BY DEF OneAtATime, InProgress
<1>b. \A u \in Updates : update[u] # "none" => proc = "up"
  BY DEF OneAtATime, InProgress
<1>c. /\ fwtmp \in Directories /\ None \notin Errors \union {"completed"}
      /\ update \in [Updates -> {"none", "parse", "download", "verify", "extract",
                                 "version", "apply"} \union Errors]
  BY UpdateAssumption DEF TypeOK, Directories, Errors
<1> USE DEF LeftInv, CompletedWasApplied, disk
<1>1. ASSUME NEW u \in Updates, CallFirmwareUpdate(u)
      PROVE  LeftInv'
  <2>1. update' = [update EXCEPT ![u] = "parse"]
    BY <1>1 DEF CallFirmwareUpdate, Goto
  <2>2. UNCHANGED <<faults, proc, fwtmp, config, applied, sender, report>>
    BY <1>1 DEF CallFirmwareUpdate
  <2> QED
    BY <1>c, <2>1, <2>2 DEF Errors
<1>2. ASSUME NEW u \in Updates, ParsePayload(u) \/ Download(u)
      PROVE  LeftInv'
  <2>1. fwtmp = Empty /\ UNCHANGED <<faults, fwtmp, config, applied, report>>
    BY <1>2 DEF ParsePayload, Download, Goto, StageInv
  <2>2. CASE ProcessEnds
    BY <1>c, <2>1, <2>2 DEF ProcessEnds, Empty, Errors
  <2>3. CASE UNCHANGED <<proc, sender>> /\ update'[u] \in {"download", "verify"}
             /\ \A t \in Updates \ {u} : update'[t] = update[t]
    BY <2>1, <2>3 DEF Empty, Errors
  <2> QED
    BY <1>2, <1>c, <2>2, <2>3 DEF ParsePayload, Download, Goto
<1>3. ASSUME NEW u \in Updates, Verify(u) \/ Extract(u)
      PROVE  LeftInv'
  <2>1. /\ \/ update'[u] \in {"extract", "version"} \/ fwtmp'.there
           \/ update'[u] = "extraction" /\ faults # "none"
        /\ update'[u] # "none"
        /\ \A t \in Updates \ {u} : update'[t] = "none"
    BY <1>3, <1>a, <1>c DEF Verify, Extract, Goto, Directories
  <2>2. UNCHANGED <<faults, proc, config, applied, sender, report>>
    BY <1>3 DEF Verify, Extract
  <2> QED
    BY <2>1, <2>2 DEF Errors
<1>4. ASSUME NEW u \in Updates, WriteVersion(u)
      PROVE  LeftInv'
  <2>1. /\ update'[u] = "apply"
        /\ \A t \in Updates \ {u} : update'[t] = "none"
    BY <1>4, <1>a, <1>c DEF WriteVersion, Goto
  <2>2. UNCHANGED <<proc, config, applied, sender, report>>
    BY <1>4 DEF WriteVersion
  <2> QED
    BY <2>1, <2>2 DEF Errors
<1>5. ASSUME NEW u \in Updates, Apply(u)
      PROVE  LeftInv'
  <2>1. fwtmp.swVersion = u /\ fwtmp.package = u /\ u # None
    BY <1>5, UpdateAssumption DEF Apply, StageInv, Empty
  <2>2. applied' = applied \union {u} /\ UNCHANGED <<fwtmp, config, report>>
    BY <1>5, <2>1 DEF Apply
  <2> QED
    BY <1>5, <1>c, <2>1, <2>2 DEF Apply, ProcessEnds, Errors
<1>6. ASSUME NEW u \in Updates, HandleFirmwareUpdateError(u)
      PROVE  LeftInv'
  <2>1. /\ update[u] \in Errors /\ None \notin Errors
        /\ fwtmp'.there => fwtmp'.error = update[u]
    BY <1>6, <1>c DEF HandleFirmwareUpdateError, WithFile, Directories
  <2>2. UNCHANGED <<faults, config, applied, report>>
    BY <1>6 DEF HandleFirmwareUpdateError
  <2> QED
    BY <1>6, <1>c, <2>1, <2>2 DEF HandleFirmwareUpdateError, ProcessEnds, Errors
<1>7. CASE CheckFwtmp
  <2>1. \A u \in Updates : update[u] = "none"
    BY <1>7, <1>b DEF CheckFwtmp
  <2>2. UNCHANGED <<update, fwtmp, applied, report>>
    BY <1>7 DEF CheckFwtmp
  <2>3. CASE ~fwtmp.there /\ proc' = "up" /\ UNCHANGED <<sender, config>>
    BY <2>1, <2>2, <2>3
  <2>4. CASE /\ sender' = fwtmp.error /\ fwtmp.error # None
             /\ proc' = "clean" /\ UNCHANGED config
    BY <2>1, <2>2, <2>4, <1>c DEF Directories, Errors
  <2>5. CASE /\ fwtmp.there /\ fwtmp.error = None
             /\ config' = fwtmp.swVersion
             /\ proc' = "announce" /\ UNCHANGED sender
    BY <2>1, <2>2, <2>5
  <2> QED
    BY <1>7, <2>3, <2>4, <2>5 DEF CheckFwtmp
<1>8. CASE AnnounceCompleted \/ RemoveFwtmp
  <2>1. \A u \in Updates : update[u] = "none"
    BY <1>8, <1>b DEF AnnounceCompleted, RemoveFwtmp
  <2> QED
    BY <1>8, <2>1 DEF AnnounceCompleted, RemoveFwtmp, Empty, Errors
<1>9. CASE SendFwUpdateStatus
  BY <1>9, UpdateAssumption DEF SendFwUpdateStatus, StatusMessage, Errors
<1>10. CASE Restart \/ CutOff
  BY <1>10 DEF Restart, CutOff
<1>11. CASE UNCHANGED vars
  BY <1>11 DEF vars
<1> QED
  BY <1>1, <1>2, <1>3, <1>4, <1>5, <1>6, <1>7, <1>8, <1>9, <1>10, <1>11
     DEF Next, UpdateStep, Constructor

-----------------------------------------------------------------------------
(* The invariant of all this.                                              *)

SerialInv ==
  /\ TypeOK /\ CleanInv
  /\ serial => OneAtATime /\ StageInv /\ VerifiedInv
  /\ serial /\ faults # "leftovers" => LeftInv

LEMMA InitSerial == SerialInit => SerialInv
<1> SUFFICES ASSUME SerialInit PROVE SerialInv
  OBVIOUS
<1>1. TypeOK /\ CleanInv
  BY InitTyped, InitClean DEF SerialInit
<1>2. OneAtATime /\ StageInv
  BY DEF SerialInit, Init, OneAtATime, InProgress, StageInv
<1>3. VerifiedInv
  BY DEF SerialInit, Init, VerifiedInv, OnlyVerified, Empty
<1>4. LeftInv
  BY UpdateAssumption
     DEF SerialInit, Init, LeftInv, CompletedWasApplied, Errors, Empty
<1> QED
  BY <1>1, <1>2, <1>3, <1>4 DEF SerialInv

\* Whether there are faults is chosen once.
LEMMA FaultsAreConstant == [Next]_vars => UNCHANGED faults
BY DEF Next, UpdateStep, Constructor, CallFirmwareUpdate, ParsePayload, Download,
       Verify, Extract, WriteVersion, Apply, HandleFirmwareUpdateError, CheckFwtmp,
       AnnounceCompleted, RemoveFwtmp, SendFwUpdateStatus, Restart,
       CutOff, vars

LEMMA StepSerial == SerialInv /\ [SerialNext]_serialVars => SerialInv'
<1> SUFFICES ASSUME SerialInv, [SerialNext]_serialVars
             PROVE  SerialInv'
  OBVIOUS
<1>1. [Next]_vars
  BY DEF SerialNext, serialVars
<1>2. TypeOK' /\ CleanInv'
  BY <1>1, StepTyped, StepClean DEF SerialInv
<1>3. serial' => serial /\ OneAtATime /\ OneAtATime'
  BY DEF SerialNext, serialVars, SerialInv, vars, disk, OneAtATime, InProgress
<1>4. serial' => StageInv' /\ VerifiedInv'
  BY <1>1, <1>3, StepStages, StepVerified DEF SerialInv
<1>5. serial' /\ faults' # "leftovers" => LeftInv'
  BY <1>1, <1>3, FaultsAreConstant, StepLeaves DEF SerialInv, CleanInv
<1> QED
  BY <1>2, <1>3, <1>4, <1>5 DEF SerialInv

THEOREM SerialInvariant == SerialSpec => []SerialInv
BY InitSerial, StepSerial, PTL DEF SerialSpec

\* Updates that do not meet apply what they verified, and nothing else is applied
\* or recorded, whatever fails or is cut off (HandleFirmwareUpdate).
THEOREM SerialSound == SerialSpec => []SerialUpdatesAreSound
<1>1. SerialInv => SerialUpdatesAreSound
  BY DEF SerialInv, StageInv, VerifiedInv, SerialUpdatesAreSound,
         AppliesWhatItVerified, Empty
<1> QED
  BY <1>1, SerialInvariant, PTL

\* Serial updates that nothing cuts off are reported as completed only once
\* apply.sh was started for the version that is reported, however an update
\* fails and whatever payload ends the process (HandleFirmwareUpdate, the
\* constructor).
THEOREM UncutCompleted == SerialSpec => []UncutCompletedWasApplied
<1>1. SerialInv => UncutCompletedWasApplied
  BY DEF SerialInv, LeftInv, UncutCompletedWasApplied
<1> QED
  BY <1>1, SerialInvariant, PTL

-----------------------------------------------------------------------------
(* The protocol.                                                           *)

\* A status to be sent is in the hands of this process only.
HandOver == proc \in {"down", "boot", "announce"} => sender = None

LEMMA StepHandOver == HandOver /\ [Next]_vars => HandOver'
<1> SUFFICES ASSUME HandOver, [Next]_vars
             PROVE  HandOver'
  OBVIOUS
<1> USE DEF HandOver
<1>1. ASSUME NEW u \in Updates, CallFirmwareUpdate(u) \/ UpdateStep(u)
      PROVE  HandOver'
  BY <1>1 DEF CallFirmwareUpdate, UpdateStep, ParsePayload, Download, Verify, Extract,
       WriteVersion, Apply, HandleFirmwareUpdateError, ProcessEnds
<1>2. CASE Constructor
  BY <1>2 DEF Constructor, CheckFwtmp, AnnounceCompleted, RemoveFwtmp
<1>3. CASE SendFwUpdateStatus \/ Restart \/ CutOff
  BY <1>3 DEF SendFwUpdateStatus, Restart, CutOff, ProcessEnds
<1>4. CASE UNCHANGED vars
  BY <1>4 DEF vars
<1> QED
  BY <1>1, <1>2, <1>3, <1>4 DEF Next

LEMMA CurrentIsOnly ==
  ASSUME NEW S \in SUBSET Updates, NEW u \in S, \A t \in S : t = u
  PROVE  (CHOOSE t \in S : TRUE) = u
OBVIOUS

\* Outcome by cases, now and in the next state.
OutcomeByCases ==
  /\ sender # None => Outcome = StatusMessage
  /\ sender = None /\ proc = "announce" =>
       Outcome = [status |-> "completed", version |-> config]
  /\ sender = None /\ proc \in {"down", "boot"} /\ fwtmp.there => Outcome = Left
  /\ sender = None /\ proc \in {"down", "boot"} /\ ~fwtmp.there =>
       Outcome = Protocol!Nothing
  /\ sender = None /\ proc \notin {"announce", "down", "boot"} =>
       Outcome = Protocol!Nothing

LEMMA OutcomeCases == OutcomeByCases /\ OutcomeByCases'
BY DEF OutcomeByCases, Outcome, Protocol!Nothing, Protocol!Status

CurrentByCases ==
  /\ (\A u \in Updates : update[u] = "none") => Current = None
  /\ \A u \in Updates :
       update[u] # "none" /\ (\A t \in Updates \ {u} : update[t] = "none") => Current = u

LEMMA CurrentCases == CurrentByCases /\ CurrentByCases'
<1>1. ASSUME \A u \in Updates : update[u] = "none"
      PROVE  Current = None
  BY <1>1 DEF Current, InProgress
<1>2. ASSUME NEW u \in Updates, update[u] # "none",
             \A t \in Updates \ {u} : update[t] = "none"
      PROVE  Current = u
  <2>1. u \in InProgress /\ \A t \in InProgress : t = u
    BY <1>2 DEF InProgress
  <2>2. InProgress \in SUBSET Updates
    BY DEF InProgress
  <2> QED
    BY <2>1, <2>2, CurrentIsOnly DEF Current
<1>3. ASSUME \A u \in Updates : update'[u] = "none"
      PROVE  Current' = None
  BY <1>3 DEF Current, InProgress
<1>4. ASSUME NEW u \in Updates, update'[u] # "none",
             \A t \in Updates \ {u} : update'[t] = "none"
      PROVE  Current' = u
  <2>1. u \in InProgress' /\ \A t \in InProgress' : t = u
    BY <1>4 DEF InProgress
  <2>2. InProgress' \in SUBSET Updates
    BY DEF InProgress
  <2> QED
    BY <2>1, <2>2, CurrentIsOnly DEF Current
<1> QED
  BY <1>1, <1>2, <1>3, <1>4 DEF CurrentByCases

Stutter == UNCHANGED <<Current, Fetched, Outcome, applied, report>>

\* What a thread does for an update is all one step of the protocol, its end.
LEMMA UpdateStepRefines ==
  ASSUME TypeOK, CleanInv, ~rmFailed, OneAtATime, OneAtATime', StageInv, LeftInv,
         NEW u \in Updates, CallFirmwareUpdate(u) \/ UpdateStep(u)
  PROVE  Protocol!OrderlyStep \/ Stutter
<1> DEFINE alone == \A t \in Updates \ {u} : update[t] = "none"
           goes  == \E to : to # "none" /\ update' = [update EXCEPT ![u] = to]
<1>a. /\ update[u] # "none" => alone /\ proc = "up" /\ sender = None
      /\ update'[u] # "none" => proc' = "up" /\ sender' = None
                                /\ \A t \in Updates \ {u} : update'[t] = "none"
  BY DEF OneAtATime, InProgress
<1>b. /\ update \in [Updates -> {"none", "parse", "download", "verify", "extract",
                                 "version", "apply"} \union Errors]
      /\ None \notin Updates /\ None \notin Errors \union {"completed"}
      /\ fwtmp \in Directories
  BY UpdateAssumption DEF TypeOK, Directories, Errors
<1> HIDE DEF alone, goes
\* Between call and end nothing is seen of it.
<1>1. ASSUME update[u] # "none", goes, UNCHANGED <<applied, report>>
      PROVE  /\ Current # None /\ UNCHANGED <<Current, Outcome, applied, report>>
             /\ UNCHANGED Fetched => Stutter
  <2>1. update'[u] # "none"
    BY <1>1, <1>b DEF goes
  <2>2. Current = u /\ Current' = u
    BY <1>1, <2>1, <1>a, CurrentCases DEF CurrentByCases, alone
  <2>3. Outcome = Protocol!Nothing /\ Outcome' = Protocol!Nothing
    BY <1>1, <2>1, <1>a, OutcomeCases DEF OutcomeByCases
  <2> QED
    BY <1>1, <2>2, <2>3, <1>b DEF Stutter
\* The end: a process that is down, and its directory.
<1>2. ASSUME update[u] # "none", ProcessEnds
      PROVE  /\ Current = u /\ Current # None /\ Current' = None
             /\ Outcome = Protocol!Nothing
             /\ Fetched' = FALSE
             /\ fwtmp'.there => Outcome' = Left'
             /\ ~fwtmp'.there => Outcome' = Protocol!Nothing
  <2>1. Current = u /\ Current' = None
    BY <1>2, <1>a, CurrentCases DEF CurrentByCases, ProcessEnds, alone
  <2>2. Outcome = Protocol!Nothing
    BY <1>2, <1>a, OutcomeCases DEF OutcomeByCases
  <2>3. proc' = "down" /\ sender' = None
    BY <1>2 DEF ProcessEnds
  <2>4. Fetched' = FALSE
    BY <1>2 DEF ProcessEnds, Fetched
  <2> QED
    BY <2>1, <2>2, <2>3, <2>4, <1>b, OutcomeCases DEF OutcomeByCases
\* Whether the package is there can be told from this update's stage.
<1>c. /\ alone => Fetched = (update[u] \notin {"none", "parse", "download"})
      /\ (\A t \in Updates \ {u} : update'[t] = "none") =>
           Fetched' = (update'[u] \notin {"none", "parse", "download"})
  BY DEF Fetched, alone
<1>3. CASE CallFirmwareUpdate(u)
  <2>1. /\ update[u] = "none" /\ update' = [update EXCEPT ![u] = "parse"]
        /\ UNCHANGED <<proc, sender, applied, report>>
    BY <1>3 DEF CallFirmwareUpdate, Goto
  <2>2. /\ update'[u] = "parse"
        /\ \A t \in Updates : update[t] = "none"
    BY <2>1, <1>a, <1>b
  <2>3. Current = None /\ Current' = u
    BY <2>2, <1>a, CurrentCases DEF CurrentByCases
  <2>4. Outcome = Protocol!Nothing /\ Outcome' = Protocol!Nothing
    BY <2>1, <2>2, <1>a, OutcomeCases DEF OutcomeByCases
  <2>5. ~Fetched /\ ~Fetched'
    BY <2>2, <1>a, <1>c DEF alone
  <2> QED
    BY <2>1, <2>3, <2>4, <2>5 DEF Protocol!OrderlyStep, Protocol!Call, Fetched
<1>4. CASE ParsePayload(u) \/ Download(u)
  <2>1. /\ update[u] \in {"parse", "download"} /\ fwtmp = Empty
        /\ UNCHANGED <<fwtmp, applied, report>>
    BY <1>4 DEF ParsePayload, Download, Goto, StageInv, disk
  <2>2. update[u] # "none" /\ ~Fetched
    BY <2>1, <1>a, <1>c
  <2>3. CASE ProcessEnds
    <3>1. ~fwtmp'.there
      BY <2>1 DEF Empty
    <3> QED
      BY <1>2, <2>1, <2>2, <2>3, <3>1 DEF Protocol!OrderlyStep, Protocol!Drop, Fetched
  <2>4. CASE update' = [update EXCEPT ![u] = "download"]
    <3>1. goes /\ update'[u] = "download"
      BY <2>4, <1>b DEF goes
    <3>2. ~Fetched'
      BY <3>1, <1>a, <1>c
    <3> QED
      BY <1>1, <2>1, <2>2, <3>1, <3>2 DEF Fetched
  <2>5. CASE update' = [update EXCEPT ![u] = "verify"]
    <3>1. goes /\ update'[u] = "verify"
      BY <2>5, <1>b DEF goes
    <3>2. Fetched'
      BY <3>1, <1>a, <1>c
    <3> QED
      BY <1>1, <2>1, <2>2, <3>1, <3>2 DEF Protocol!OrderlyStep, Protocol!Fetch
  <2> QED
    BY <1>4, <2>3, <2>4, <2>5 DEF ParsePayload, Download, Goto
<1>5. CASE Verify(u) \/ Extract(u) \/ WriteVersion(u)
  <2>1. /\ update[u] \in {"verify", "extract", "version"}
        /\ \E to \in {"extract", "version", "apply"} \union Errors :
             update' = [update EXCEPT ![u] = to]
        /\ UNCHANGED <<applied, report>>
    BY <1>5 DEF Verify, Extract, WriteVersion, Goto, Errors
  <2>2. /\ goes /\ update[u] # "none"
        /\ update'[u] \notin {"none", "parse", "download"}
    BY <2>1, <1>b DEF goes, Errors
  <2>3. Fetched /\ Fetched'
    BY <2>1, <2>2, <1>a, <1>c
  <2> QED
    BY <1>1, <2>1, <2>2, <2>3 DEF Fetched
<1>6. CASE Apply(u)
  <2>1. /\ update[u] = "apply" /\ ProcessEnds /\ UNCHANGED <<fwtmp, report>>
        /\ applied' = applied \union ({fwtmp.package} \ {None})
    BY <1>6 DEF Apply, disk
  <2>2. /\ u \in Valid /\ fwtmp.there /\ fwtmp.error = None
        /\ fwtmp.package = u /\ fwtmp.swVersion = u
    BY <2>1 DEF StageInv
  <2>3. Outcome' = Protocol!Status("completed", u)
    BY <1>2, <2>1, <2>2 DEF Left, Protocol!Status
  <2>4. applied' = applied \union {u}
    BY <2>1, <2>2, <1>b
  <2>5. Fetched
    BY <2>1, <1>a, <1>c
  <2> QED
    BY <1>2, <2>1, <2>2, <2>3, <2>4, <2>5 DEF Protocol!OrderlyStep, Protocol!Complete
<1>7. CASE HandleFirmwareUpdateError(u)
  <2>1. /\ update[u] \in Errors /\ ProcessEnds /\ UNCHANGED <<applied, report>>
        /\ fwtmp' = WithFile(fwtmp, "error", update[u])
    BY <1>7 DEF HandleFirmwareUpdateError
  <2>2. update[u] # "none" /\ update[u] # None
    BY <2>1, <1>b DEF Errors
  <2>3. Fetched
    BY <2>1, <1>a, <1>c DEF Errors
  <2>4. update[u] = IF u \in Valid THEN "extraction" ELSE "verification"
    BY <2>1 DEF StageInv, Errors
  <2>5. CASE fwtmp.there
    <3>1. fwtmp'.there /\ fwtmp'.error = update[u]
      BY <2>1, <2>5, <1>b DEF WithFile, Directories
    <3>2. Outcome' = Protocol!Status(update[u], None)
      BY <1>2, <2>1, <2>2, <3>1 DEF Left, Protocol!Status
    <3> QED
      BY <1>2, <2>1, <2>2, <2>3, <2>4, <3>2 DEF Protocol!OrderlyStep, Protocol!Fail
  <2>6. CASE ~fwtmp.there
    <3>1. faults # "none" /\ u \in Valid
      BY <2>1, <2>4, <2>6 DEF LeftInv
    <3>2. ~fwtmp'.there
      BY <2>1, <2>6 DEF WithFile
    <3> QED
      BY <1>2, <2>1, <2>2, <2>3, <3>1, <3>2 DEF Protocol!OrderlyStep, Protocol!Lose
  <2> QED
    BY <2>5, <2>6
<1> QED
  BY <1>3, <1>4, <1>5, <1>6, <1>7 DEF UpdateStep

\* The constructor hands the outcome on, and the sender sends it.
LEMMA HandingOnRefines ==
  ASSUME TypeOK, OneAtATime, HandOver, faults # "leftovers",
         Constructor \/ SendFwUpdateStatus \/ Restart
  PROVE  Protocol!OrderlyStep \/ Stutter
<1>a. /\ None \notin Errors \union {"completed"}
      /\ fwtmp \in Directories
      /\ sender \in Statuses \union {None}
  BY UpdateAssumption DEF TypeOK, Directories, Errors
<1>b. UNCHANGED update => UNCHANGED <<Current, Fetched>>
  BY DEF Current, InProgress, Fetched
<1>1. CASE CheckFwtmp
  <2>1. /\ proc = "boot" /\ sender = None
        /\ UNCHANGED <<update, fwtmp, applied, report>>
    BY <1>1 DEF CheckFwtmp, HandOver
  <2>2. CASE ~fwtmp.there /\ proc' = "up" /\ UNCHANGED sender
    BY <2>1, <2>2, <1>b, OutcomeCases DEF OutcomeByCases, Stutter
  <2>3. CASE fwtmp.there /\ fwtmp.error # None /\ sender' = fwtmp.error
    <3>1. Outcome = [status |-> fwtmp.error, version |-> None]
      BY <2>1, <2>3, OutcomeCases DEF OutcomeByCases, Left
    <3>2. sender' # None /\ sender' # "completed"
      BY <2>3, <1>a DEF Directories, Errors
    <3>3. Outcome' = [status |-> fwtmp.error, version |-> None]
      BY <2>3, <3>2, OutcomeCases DEF OutcomeByCases, StatusMessage
    <3> QED
      BY <2>1, <3>1, <3>3, <1>b DEF Stutter
  <2>4. CASE /\ fwtmp.there /\ fwtmp.error = None
             /\ config' = fwtmp.swVersion /\ proc' = "announce" /\ UNCHANGED sender
    <3>1. Outcome = [status |-> "completed", version |-> fwtmp.swVersion]
      BY <2>1, <2>4, OutcomeCases DEF OutcomeByCases, Left
    <3>2. Outcome' = [status |-> "completed", version |-> fwtmp.swVersion]
      BY <2>1, <2>4, OutcomeCases DEF OutcomeByCases
    <3> QED
      BY <2>1, <3>1, <3>2, <1>b DEF Stutter
  <2> QED
    BY <1>1, <2>2, <2>3, <2>4 DEF CheckFwtmp
<1>2. CASE AnnounceCompleted
  <2>1. /\ proc = "announce" /\ sender = None /\ sender' = "completed"
        /\ UNCHANGED <<update, config, applied, report>>
    BY <1>2 DEF AnnounceCompleted, HandOver, disk
  <2>2. Outcome = [status |-> "completed", version |-> config]
    BY <2>1, OutcomeCases DEF OutcomeByCases
  <2>3. Outcome' = [status |-> "completed", version |-> config]
    BY <2>1, <1>a, OutcomeCases DEF OutcomeByCases, StatusMessage
  <2> QED
    BY <2>1, <2>2, <2>3, <1>b DEF Stutter
<1>3. CASE RemoveFwtmp
  <2>1. /\ proc = "clean" /\ proc' = "up"
        /\ UNCHANGED <<update, config, sender, applied, report>>
    BY <1>3 DEF RemoveFwtmp
  <2>2. UNCHANGED Outcome
    BY <2>1, OutcomeCases DEF OutcomeByCases, StatusMessage
  <2> QED
    BY <2>1, <2>2, <1>b DEF Stutter
<1>4. CASE SendFwUpdateStatus
  <2>1. /\ sender # None /\ sender' = None
        /\ report' = StatusMessage \/ (faults # "none" /\ UNCHANGED report)
        /\ UNCHANGED <<proc, update, applied>>
    BY <1>4 DEF SendFwUpdateStatus
  <2>2. Outcome = StatusMessage /\ Outcome # Protocol!Nothing
    BY <2>1, OutcomeCases
       DEF OutcomeByCases, StatusMessage, Protocol!Nothing, Protocol!Status
  <2>3. Outcome' = Protocol!Nothing
    BY <2>1, OutcomeCases DEF OutcomeByCases, HandOver
  <2> QED
    BY <2>1, <2>2, <2>3, <1>b
       DEF Protocol!OrderlyStep, Protocol!Send, Protocol!SendNothing
<1>5. CASE Restart
  <2>1. /\ \/ proc = "down" /\ proc' = "boot"
           \/ UNCHANGED proc
        /\ UNCHANGED <<update, fwtmp, config, sender, applied, report>>
    BY <1>5 DEF Restart, disk
  <2>2. UNCHANGED Outcome
    BY <2>1 DEF Outcome, Left, StatusMessage
  <2> QED
    BY <2>1, <2>2, <1>b DEF Stutter
<1> QED
  BY <1>1, <1>2, <1>3, <1>4, <1>5 DEF Constructor

LEMMA StepRefinesProtocol ==
  SerialInv /\ HandOver /\ [SerialNext]_serialVars => [Protocol!Next]_Protocol!vars
<1> SUFFICES ASSUME SerialInv, HandOver, [SerialNext]_serialVars
             PROVE  [Protocol!Next]_Protocol!vars
  OBVIOUS
<1>1. CASE ~(serial' /\ faults' # "leftovers")
  BY <1>1, FaultsAreConstant DEF Protocol!Next, SerialNext, serialVars
<1>2. CASE UNCHANGED serialVars
  <2>1. Stutter
    BY <1>2 DEF serialVars, vars, disk, Stutter, Current, InProgress, Fetched, Outcome,
                Left, StatusMessage
  <2> QED
    BY <1>2, <2>1 DEF Stutter, Protocol!vars, serialVars, vars
<1>3. CASE serial' /\ faults' # "leftovers" /\ SerialNext
  <2>1. Next /\ serial /\ OneAtATime /\ OneAtATime'
    BY <1>3 DEF SerialNext, SerialInv
  <2>2. faults # "leftovers"
    BY <1>3, <2>1, FaultsAreConstant
  <2>3. /\ TypeOK /\ CleanInv /\ StageInv /\ LeftInv
    BY <2>1, <2>2 DEF SerialInv
  <2>4. Protocol!OrderlyStep \/ Stutter
    <3>1. ASSUME NEW u \in Updates, CallFirmwareUpdate(u) \/ UpdateStep(u)
          PROVE  Protocol!OrderlyStep \/ Stutter
      BY <2>1, <2>2, <2>3, <3>1, UpdateStepRefines DEF CleanInv
    <3>2. ASSUME Constructor \/ SendFwUpdateStatus \/ Restart
          PROVE  Protocol!OrderlyStep \/ Stutter
      BY <2>1, <2>2, <2>3, <3>2, HandingOnRefines
    <3> QED
      BY <2>1, <2>2, <3>1, <3>2 DEF Next, CutOff
  <2>5. CASE Protocol!OrderlyStep
    BY <1>3, <2>1, <2>2, <2>5, FaultsAreConstant DEF Protocol!Next
  <2>6. CASE Stutter
    BY <1>3, <2>1, <2>2, <2>6, FaultsAreConstant DEF Stutter, Protocol!vars
  <2> QED
    BY <2>4, <2>5, <2>6
<1> QED
  BY <1>1, <1>2, <1>3

\* An update, the restart it causes and the report of the next process are the
\* protocol, for every set of updates: each that is called for ends once, with
\* the outcome its package deserves, and each outcome is sent once, for the right
\* version, unless the device is lossy, which loses some and makes up none
\* (HandleFirmwareUpdate, Device::Device, SendD2C_FwUpdateStatus).
THEOREM RefinesUpdateProtocol == SerialSpec => ImplementsUpdateProtocol
<1>1. SerialInit => HandOver
  BY DEF SerialInit, Init, HandOver
<1>2. HandOver /\ [SerialNext]_serialVars => HandOver'
  BY StepHandOver DEF SerialNext, serialVars
<1>3. SerialInit => Protocol!Init
  <2> SUFFICES ASSUME SerialInit PROVE Protocol!Init
    OBVIOUS
  <2>1. Current = None
    BY CurrentCases DEF CurrentByCases, SerialInit, Init
  <2>2. Outcome = Protocol!Nothing
    BY OutcomeCases DEF OutcomeByCases, SerialInit, Init, Empty
  <2>3. faults \in Faults /\ serial = TRUE
    BY DEF SerialInit, Init
  <2>4. Fetched = FALSE
    BY DEF SerialInit, Init, Fetched
  <2> QED
    BY <2>1, <2>2, <2>3, <2>4
       DEF SerialInit, Init, Protocol!Init, Protocol!Nothing, Protocol!Status
<1> QED
  BY <1>1, <1>2, <1>3, SerialInvariant, StepRefinesProtocol, PTL
     DEF SerialSpec, ImplementsUpdateProtocol, Protocol!Safety
=============================================================================
