---------------------------- MODULE FirmwareUpdate ---------------------------
(***************************************************************************)
(* The firmware update: Device::DeviceMethodCallback, class                *)
(* FirmwareUpdateHandler, and the part of Device's constructor that looks  *)
(* at what the process before has left in ~/.fwtmp and reports it.         *)
(*                                                                         *)
(* What carries an update across the end of the process is on disk: the    *)
(* downloaded package and the directory .fwtmp with the extracted update,  *)
(* the file sw-version and the file error.  Every call of the direct       *)
(* method detaches a thread of its own; nothing keeps two apart, or one    *)
(* apart from the constructor, which registers the method first and cleans *)
(* the directory later.  The scripts verify.sh, xfwupdate.sh and apply.sh  *)
(* are not part of the repository: they may succeed or fail, and apply.sh  *)
(* is only started here.  Nothing waits for its end, not the next process  *)
(* either, which may remove .fwtmp under it.                               *)
(***************************************************************************)
EXTENDS FiniteSets, Naturals

CONSTANTS
  Updates,   \* updates that can be called for; also their versions
  Valid,     \* the ones verify.sh accepts
  None       \* no version, no package, no error

ASSUME UpdateAssumption ==
  /\ Valid \subseteq Updates
  /\ None \notin Updates \union {"verification", "extraction", "completed"}

VARIABLES
  faults,     \* what may go wrong, see Faults
  proc,       \* the process: down, in its constructor (boot, announce, clean), up
  update,     \* update[u]: what is done for u next: "parse" in the method's
              \* callback, then by u's thread; "none" for nothing
  tarball,    \* /home/debian/fwupdate.tar.gz
  fwtmp,      \* .fwtmp: there or not, and its files
  rmFailed,   \* the last rm -rf left .fwtmp behind
  applied,    \* packages whose apply.sh was started
  config,     \* "softwareversion" of config.json
  sender,     \* the status the constructor's detached thread is to send
  report      \* the last status message sent

disk == <<tarball, fwtmp, config>>
vars == <<faults, proc, update, disk, rmFailed, applied, sender, report>>

\* Nothing beyond failing scripts; or an outcome may get lost, too, because
\* xfwupdate.sh fails before it makes .fwtmp or config.json cannot be read when a
\* status is sent; or else .fwtmp may be left over, too, because the process is cut
\* off or rm -rf fails.
Faults == {"none", "losses", "leftovers"}

Errors == {"verification", "extraction"}
Statuses == Errors \union {"completed"}
Versions == Updates \union {None}

Empty == [there |-> FALSE, package |-> None, swVersion |-> None, error |-> None]

TypeOK ==
  /\ faults \in Faults
  /\ proc \in {"down", "boot", "announce", "clean", "up"}
  /\ update \in [Updates -> {"none", "parse", "download", "verify", "extract",
                             "version", "apply"} \union Errors]
  /\ tarball \in Versions
  /\ fwtmp \in [there : BOOLEAN, package : Versions, swVersion : Versions,
                error : Errors \union {None}]
  /\ rmFailed \in BOOLEAN
  /\ applied \subseteq Updates
  /\ config \in Versions
  /\ sender \in Statuses \union {None}
  /\ report \in [status : Statuses \union {None}, version : Versions]

Init ==
  /\ faults \in Faults
  /\ proc = "boot"
  /\ update = [u \in Updates |-> "none"]
  /\ tarball = None /\ fwtmp = Empty /\ config = None
  /\ rmFailed = FALSE /\ applied = {}
  /\ sender = None /\ report = [status |-> None, version |-> None]

Goto(u, from, to) == update[u] = from /\ update' = [update EXCEPT ![u] = to]

\* The process ends, and with it all of its threads.
ProcessEnds ==
  /\ proc' = "down"
  /\ update' = [u \in Updates |-> "none"]
  /\ sender' = None

-----------------------------------------------------------------------------
(* Device::DeviceMethodCallback and HandleFirmwareUpdate.                  *)

\* The method is registered before the constructor looks at .fwtmp; the SDK
\* makes its callbacks one at a time.
CallFirmwareUpdate(u) ==
  /\ proc # "down"
  /\ \A t \in Updates : update[t] # "parse"
  /\ Goto(u, "none", "parse")
  /\ UNCHANGED <<faults, proc, disk, rmFailed, applied, sender, report>>

\* A payload with all three strings gets a thread.  One that is no JSON or lacks
\* a string throws, and nothing between here and the SDK catches that.
ParsePayload(u) ==
  \/ /\ Goto(u, "parse", "download")
     /\ UNCHANGED <<faults, proc, disk, rmFailed, applied, sender, report>>
  \/ /\ update[u] = "parse" /\ ProcessEnds
     /\ UNCHANGED <<faults, disk, rmFailed, applied, report>>

\* Two seconds' sleep and the download; nothing catches its exception.
Download(u) ==
  \/ /\ Goto(u, "download", "verify")
     /\ tarball' = u
     /\ UNCHANGED <<faults, proc, fwtmp, config, rmFailed, applied, sender, report>>
  \/ /\ update[u] = "download" /\ ProcessEnds
     /\ tarball' = None
     /\ UNCHANGED <<faults, fwtmp, config, rmFailed, applied, report>>

\* Mutants of Verify: the script's result is not looked at; no mkdir.
VerifyBlindly(u) ==
  /\ Goto(u, "verify", "extract")
  /\ UNCHANGED <<faults, proc, disk, rmFailed, applied, sender, report>>

VerifyWithoutMkdir(u) ==
  /\ Goto(u, "verify", IF tarball \in Valid THEN "extract" ELSE "verification")
  /\ UNCHANGED <<faults, proc, disk, rmFailed, applied, sender, report>>

\* verify.sh looks at the file that is there; on failure mkdir makes sure
\* that the error has a place to go to.
Verify(u) ==
  /\ \/ /\ tarball \in Valid
        /\ Goto(u, "verify", "extract")
        /\ UNCHANGED fwtmp
     \/ /\ tarball \notin Valid
        /\ Goto(u, "verify", "verification")
        /\ fwtmp' = [fwtmp EXCEPT !.there = TRUE]
  /\ UNCHANGED <<faults, proc, tarball, config, rmFailed, applied, sender, report>>

\* xfwupdate.sh extracts the file that is there by now, or fails.
Extract(u) ==
  /\ \/ /\ Goto(u, "extract", "version")
        /\ fwtmp' = [fwtmp EXCEPT !.there = TRUE, !.package = tarball]
     \/ /\ Goto(u, "extract", "extraction")
        /\ \/ fwtmp' = [fwtmp EXCEPT !.there = TRUE]
           \/ faults # "none" /\ UNCHANGED fwtmp
  /\ UNCHANGED <<faults, proc, tarball, config, rmFailed, applied, sender, report>>

\* Opening an ofstream where there is no directory fails without a word.
WithFile(f, name, value) == IF f.there THEN [f EXCEPT ![name] = value] ELSE f

WriteVersion(u) ==
  /\ Goto(u, "version", "apply")
  /\ fwtmp' = WithFile(fwtmp, "swVersion", u)
  /\ UNCHANGED <<faults, proc, tarball, config, rmFailed, applied, sender, report>>

\* Start apply.sh in the background and exit(0).
Apply(u) ==
  /\ update[u] = "apply" /\ ProcessEnds
  /\ applied' = applied \union ({fwtmp.package} \ {None})
  /\ UNCHANGED <<faults, disk, rmFailed, report>>

\* Mutant of HandleFirmwareUpdateError: the error goes to the wrong file.
WriteErrorAsVersion(u) ==
  /\ update[u] \in Errors /\ ProcessEnds
  /\ fwtmp' = WithFile(fwtmp, "swVersion", update[u])
  /\ UNCHANGED <<faults, tarball, config, rmFailed, applied, report>>

\* HandleFirmwareUpdateError: the error file and exit(1).
HandleFirmwareUpdateError(u) ==
  /\ update[u] \in Errors /\ ProcessEnds
  /\ fwtmp' = WithFile(fwtmp, "error", update[u])
  /\ UNCHANGED <<faults, tarball, config, rmFailed, applied, report>>

UpdateStep(u) ==
  ParsePayload(u) \/ Download(u) \/ Verify(u) \/ Extract(u) \/ WriteVersion(u)
    \/ Apply(u) \/ HandleFirmwareUpdateError(u)

-----------------------------------------------------------------------------
(* The world around the process.                                           *)

\* "This will reopen automatically", whether apply.sh has ended or not.
Restart ==
  /\ proc = "down"
  /\ proc' = "boot"
  /\ UNCHANGED <<faults, update, disk, rmFailed, applied, sender, report>>

\* The camera's terminate_on_error, a power cut, or anything else that ends the
\* process.
CutOff ==
  /\ faults = "leftovers"
  /\ ProcessEnds
  /\ UNCHANGED <<faults, disk, rmFailed, applied, report>>

-----------------------------------------------------------------------------
(* The constructor, from the registration of the method on.                *)

\* Mutant of CheckFwtmp: no look at the file error.
CheckVersionOnly ==
  /\ proc = "boot"
  /\ \/ ~fwtmp.there /\ proc' = "up" /\ UNCHANGED config
     \/ fwtmp.there /\ config' = fwtmp.swVersion /\ proc' = "announce"
  /\ UNCHANGED <<faults, update, tarball, fwtmp, rmFailed, applied, sender, report>>

\* If folder ~/.fwtmp exists: an error to report, or a version to record.
CheckFwtmp ==
  /\ proc = "boot"
  /\ \/ ~fwtmp.there /\ proc' = "up" /\ UNCHANGED <<sender, config>>
     \/ /\ fwtmp.there /\ fwtmp.error # None
        /\ sender' = fwtmp.error
        /\ proc' = "clean" /\ UNCHANGED config
     \/ /\ fwtmp.there /\ fwtmp.error = None
        /\ config' = fwtmp.swVersion          \* setsetting softwareversion
        /\ proc' = "announce" /\ UNCHANGED sender
  /\ UNCHANGED <<faults, update, tarball, fwtmp, rmFailed, applied, report>>

AnnounceCompleted ==
  /\ proc = "announce"
  /\ sender' = "completed"
  /\ proc' = "clean"
  /\ UNCHANGED <<faults, update, disk, rmFailed, applied, report>>

\* Mutant of RemoveFwtmp: rm without -r, whose result is not looked at.
RemoveNothing ==
  /\ proc = "clean" /\ proc' = "up"
  /\ rmFailed' = FALSE
  /\ UNCHANGED <<faults, update, disk, applied, sender, report>>

\* What rm -rf may leave when it fails: the directory, with any of its files.
Remnants ==
  [there : {TRUE}, package : {fwtmp.package, None},
   swVersion : {fwtmp.swVersion, None}, error : {fwtmp.error, None}]

\* rm -rf .fwtmp.  When it fails the constructor prints that and goes on.
RemoveFwtmp ==
  /\ proc = "clean"
  /\ \/ fwtmp' = Empty /\ rmFailed' = FALSE
     \/ faults = "leftovers" /\ fwtmp' \in Remnants /\ rmFailed' = TRUE
  /\ proc' = "up"
  /\ UNCHANGED <<faults, update, tarball, config, applied, sender, report>>

Constructor == CheckFwtmp \/ AnnounceCompleted \/ RemoveFwtmp

\* With the version config.json has by now (told apart for completed updates only).
StatusMessage ==
  [status |-> sender, version |-> IF sender = "completed" THEN config ELSE None]

\* Mutant of SendFwUpdateStatus: it waits for another status than the last.
SendOtherStatus ==
  /\ sender # None /\ sender' = None
  /\ report # StatusMessage /\ report' = StatusMessage
  /\ UNCHANGED <<faults, proc, update, disk, rmFailed, applied>>

\* The detached thread reads the version and sends; what it throws is caught and
\* printed, and nothing is sent.
SendFwUpdateStatus ==
  /\ sender # None /\ sender' = None
  /\ \/ report' = StatusMessage
     \/ faults # "none" /\ UNCHANGED report
  /\ UNCHANGED <<faults, proc, update, disk, rmFailed, applied>>

-----------------------------------------------------------------------------

Next ==
  \/ \E u \in Updates : CallFirmwareUpdate(u) \/ UpdateStep(u)
  \/ Constructor \/ SendFwUpdateStatus \/ Restart \/ CutOff

\* Threads and scripts make progress, the process is reopened; nobody has to
\* call for updates, and the power need not fail.
Fairness ==
  /\ \A u \in Updates : WF_vars(UpdateStep(u))
  /\ WF_vars(Constructor) /\ WF_vars(Restart) /\ WF_vars(SendFwUpdateStatus)

Spec == Init /\ [][Next]_vars /\ Fairness

-----------------------------------------------------------------------------

InProgress == {u \in Updates : update[u] # "none"}

\* What an idle device finds in .fwtmp at its next start was left by an update
\* after this moment: nothing is reported twice or much later, unless rm -rf has
\* failed, and then only until it succeeds again (constructor).
IdleIsClean == proc = "up" /\ InProgress = {} /\ ~rmFailed => fwtmp = Empty

\* Updates do not meet each other or the constructor's cleaning, and the next
\* one is called for when the outcome of the one before has been sent.
OneAtATime ==
  /\ \A t, u \in InProgress : t = u
  /\ InProgress # {} => proc = "up" /\ sender = None

\* Parts of what is said of serial updates, see SerialUpdates.
AppliesWhatItVerified ==
  \A u \in Updates :
    update[u] = "apply" =>
      /\ u \in Valid /\ fwtmp.package = u /\ fwtmp.swVersion = u
      /\ fwtmp.error = None \/ rmFailed

OnlyVerified == applied \subseteq Valid /\ config \in Valid \union {None}

CompletedWasApplied == report.status = "completed" => report.version \in applied

\* Whatever ended the process before: "If folder ~/.fwtmp exists, we just
\* rebooted from a firmware update" (Device.cpp:81).  That it was not left there
\* by a failed rm -rf is granted.
SerialCompletedWasApplied == [](OneAtATime /\ ~rmFailed) => []CompletedWasApplied
=============================================================================
