------------------------ MODULE FirmwareUpdate_proofs ------------------------
(***************************************************************************)
(* Safety of FirmwareUpdate for every set of updates, valid or not, with   *)
(* cut off anywhere, and with failing scripts and removals.                *)
(***************************************************************************)
EXTENDS FirmwareUpdate, TLAPS

\* What .fwtmp may hold, and what it holds after mkdir, a file or rm.
Directories ==
  [there : BOOLEAN, package : Versions, swVersion : Versions,
   error : Errors \union {None}]

LEMMA DirectoryTyped ==
  ASSUME NEW f \in Directories, NEW v \in Versions
  PROVE  /\ Empty \in Directories
         /\ [f EXCEPT !.there = TRUE] \in Directories
         /\ [f EXCEPT !.there = TRUE, !.package = v] \in Directories
BY DEF Directories, Empty, Versions

\* What a failed rm leaves is a directory without any new file.
LEMMA RemnantsTyped ==
  ASSUME fwtmp \in Directories, NEW r \in Remnants
  PROVE  r \in Directories /\ r.there /\ r.swVersion \in {fwtmp.swVersion, None}
<1>1. /\ {fwtmp.package, None} \subseteq Versions
      /\ {fwtmp.swVersion, None} \subseteq Versions
      /\ {fwtmp.error, None} \subseteq Errors \union {None}
  BY DEF Directories, Versions
<1> QED
  BY <1>1 DEF Remnants, Directories

LEMMA InitTyped == Init => TypeOK
<1>1. Empty \in Directories
  BY DEF Empty, Directories, Versions
<1> SUFFICES ASSUME Init PROVE TypeOK
  OBVIOUS
<1>2. fwtmp \in Directories /\ faults \in Faults
  BY <1>1 DEF Init
<1>3. /\ rmFailed \in BOOLEAN /\ applied \subseteq Updates
      /\ update \in [Updates -> {"none", "parse", "download", "verify", "extract",
                                 "version", "apply"} \union Errors]
      /\ report \in [status : Statuses \union {None}, version : Versions]
  BY DEF Init, Versions
<1>4. proc = "boot" /\ tarball \in Versions /\ config \in Versions /\ sender = None
  BY DEF Init, Versions
<1> QED
  BY <1>2, <1>3, <1>4 DEF TypeOK, Directories

LEMMA StepTyped == TypeOK /\ [Next]_vars => TypeOK'
<1> SUFFICES ASSUME TypeOK, [Next]_vars
             PROVE  TypeOK'
  OBVIOUS
<1>a. fwtmp \in Directories /\ tarball \in Versions
  BY DEF TypeOK, Directories
<1> USE DEF TypeOK, Errors, Statuses, Versions, disk
<1>1. ASSUME NEW u \in Updates, CallFirmwareUpdate(u)
      PROVE  TypeOK'
  BY <1>1 DEF CallFirmwareUpdate, Goto
<1>2. ASSUME NEW u \in Updates, ParsePayload(u) \/ Download(u)
      PROVE  TypeOK'
  BY <1>2 DEF ParsePayload, Download, Goto, ProcessEnds
<1>3. ASSUME NEW u \in Updates, Verify(u)
      PROVE  TypeOK'
  <2>1. fwtmp' \in Directories
    BY <1>3, <1>a, DirectoryTyped DEF Verify
  <2> QED
    BY <1>3, <2>1 DEF Verify, Goto, Directories
<1>4. ASSUME NEW u \in Updates, Extract(u)
      PROVE  TypeOK'
  <2>1. fwtmp' \in Directories
    <3>1. \/ fwtmp' = [fwtmp EXCEPT !.there = TRUE, !.package = tarball]
          \/ fwtmp' = [fwtmp EXCEPT !.there = TRUE]
          \/ fwtmp' = fwtmp
      BY <1>4 DEF Extract
    <3>2. /\ [fwtmp EXCEPT !.there = TRUE, !.package = tarball] \in Directories
          /\ [fwtmp EXCEPT !.there = TRUE] \in Directories
      BY <1>a, DirectoryTyped
    <3> QED
      BY <1>a, <3>1, <3>2
  <2> QED
    BY <1>4, <2>1 DEF Extract, Goto, Directories
<1>5. ASSUME NEW u \in Updates, WriteVersion(u)
      PROVE  TypeOK'
  BY <1>5 DEF WriteVersion, Goto, WithFile
<1>6. ASSUME NEW u \in Updates, Apply(u)
      PROVE  TypeOK'
  BY <1>6 DEF Apply, ProcessEnds
<1>7. ASSUME NEW u \in Updates, HandleFirmwareUpdateError(u)
      PROVE  TypeOK'
  BY <1>7 DEF HandleFirmwareUpdateError, ProcessEnds, WithFile
<1>8. CASE Constructor
  <2>1. CASE CheckFwtmp
    BY <1>a, <2>1 DEF CheckFwtmp, Directories
  <2>2. CASE AnnounceCompleted
    BY <2>2 DEF AnnounceCompleted
  <2>3. CASE RemoveFwtmp
    <3>1. fwtmp' \in Directories
      BY <1>a, <2>3, DirectoryTyped, RemnantsTyped DEF RemoveFwtmp
    <3> QED
      BY <2>3, <3>1 DEF RemoveFwtmp, Directories
  <2> QED
    BY <1>8, <2>1, <2>2, <2>3 DEF Constructor
<1>9. CASE SendFwUpdateStatus
  BY <1>9 DEF SendFwUpdateStatus, StatusMessage
<1>10. CASE Restart \/ CutOff
  BY <1>10 DEF Restart, CutOff, ProcessEnds
<1>11. CASE UNCHANGED vars
  BY <1>11 DEF vars
<1> QED
  BY <1>1, <1>2, <1>3, <1>4, <1>5, <1>6, <1>7, <1>8, <1>9, <1>10, <1>11
     DEF Next, UpdateStep

\* Every variable keeps its type.
THEOREM UpdateTypeCorrect == Spec => []TypeOK
BY InitTyped, StepTyped, PTL DEF Spec

-----------------------------------------------------------------------------
(* An idle device.  A directory that is not there has no files; whatever   *)
(* makes one is a thread that goes on, or ends the process, or a rm -rf    *)
(* that has failed and been noted.                                         *)

CleanInv ==
  /\ ~fwtmp.there => fwtmp = Empty
  /\ proc = "up" /\ (\A u \in Updates : update[u] = "none") /\ ~rmFailed => fwtmp = Empty
  /\ rmFailed => faults = "leftovers"

LEMMA StepClean == TypeOK /\ CleanInv /\ [Next]_vars => CleanInv'
<1> SUFFICES ASSUME TypeOK, CleanInv, [Next]_vars
             PROVE  CleanInv'
  OBVIOUS
<1> USE DEF TypeOK, CleanInv, disk
<1>1. ASSUME NEW u \in Updates, CallFirmwareUpdate(u)
      PROVE  CleanInv'
  BY <1>1 DEF CallFirmwareUpdate, Goto
<1>2. ASSUME NEW u \in Updates, ParsePayload(u) \/ Download(u)
      PROVE  CleanInv'
  BY <1>2 DEF ParsePayload, Download, Goto, ProcessEnds
<1>3. ASSUME NEW u \in Updates, Verify(u) \/ Extract(u)
      PROVE  CleanInv'
  <2>1. update'[u] # "none"
    BY <1>3 DEF Verify, Extract, Goto
  <2>2. fwtmp' = fwtmp \/ fwtmp'.there
    BY <1>3 DEF Verify, Extract
  <2>3. UNCHANGED <<faults, rmFailed>>
    BY <1>3 DEF Verify, Extract
  <2> QED
    BY <2>1, <2>2, <2>3
<1>4. ASSUME NEW u \in Updates, WriteVersion(u)
      PROVE  CleanInv'
  BY <1>4 DEF WriteVersion, Goto, WithFile
<1>5. ASSUME NEW u \in Updates, Apply(u) \/ HandleFirmwareUpdateError(u)
      PROVE  CleanInv'
  BY <1>5 DEF Apply, HandleFirmwareUpdateError, ProcessEnds, WithFile
<1>6. CASE Constructor
  <2>1. CASE CheckFwtmp \/ AnnounceCompleted
    BY <2>1 DEF CheckFwtmp, AnnounceCompleted
  <2>2. CASE RemoveFwtmp
    <3>1. fwtmp \in Directories
      BY DEF Directories
    <3>2. \/ fwtmp' = Empty /\ ~rmFailed'
          \/ fwtmp'.there /\ rmFailed' /\ faults' = "leftovers"
      BY <2>2, <3>1, RemnantsTyped DEF RemoveFwtmp
    <3> QED
      BY <3>2
  <2> QED
    BY <1>6, <2>1, <2>2 DEF Constructor
<1>7. CASE SendFwUpdateStatus \/ Restart \/ CutOff
  BY <1>7 DEF SendFwUpdateStatus, Restart, CutOff, ProcessEnds
<1>8. CASE UNCHANGED vars
  BY <1>8 DEF vars
<1> QED
  BY <1>1, <1>2, <1>3, <1>4, <1>5, <1>6, <1>7, <1>8 DEF Next, UpdateStep

LEMMA InitClean == Init => CleanInv
BY DEF Init, CleanInv, Empty

LEMMA CleanMeansIdle == CleanInv => IdleIsClean
BY DEF CleanInv, IdleIsClean, InProgress

\* An idle device has a clean directory, wherever updates and processes before
\* were cut off, and again after a rm -rf that failed as soon as one succeeds (the
\* constructor).
THEOREM IdleDeviceIsClean == Spec => []IdleIsClean
BY InitClean, StepClean, CleanMeansIdle, UpdateTypeCorrect, PTL DEF Spec

=============================================================================
