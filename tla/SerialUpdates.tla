---------------------------- MODULE SerialUpdates ----------------------------
(***************************************************************************)
(* FirmwareUpdate with a history variable, what is true of updates that do *)
(* not meet, and the UpdateProtocol that they implement.  What is one step *)
(* of the protocol is spread over the thread that is at an update, the     *)
(* files it leaves, the constructor of the next process and the thread     *)
(* that this constructor detaches.                                         *)
(***************************************************************************)
EXTENDS FirmwareUpdate

VARIABLE serial    \* updates have not met each other or the constructor yet

serialVars == <<vars, serial>>

SerialInit == Init /\ serial = TRUE

SerialNext == Next /\ serial' = (serial /\ OneAtATime')

SerialSpec == SerialInit /\ [][SerialNext]_serialVars /\ Fairness

-----------------------------------------------------------------------------

\* An update that is about to be applied is the one that was verified, in full,
\* and the version beside it is its own, so that the next start records what
\* was applied (HandleFirmwareUpdate); an old error beside it is one that rm -rf
\* left.  Wherever power or process are cut off, and whatever rm -rf leaves, a
\* package that is not sound is neither applied nor recorded as the version of
\* the device, not even by the process that comes after (the constructor).
SerialUpdatesAreSound == serial => AppliesWhatItVerified /\ OnlyVerified

\* A device that says "completed" names a version whose apply.sh was started, if
\* nothing cuts updates off and .fwtmp can be removed (HandleFirmwareUpdate, the
\* constructor), whatever payload the calls come with and whichever outcomes get
\* lost.
UncutCompletedWasApplied == serial /\ faults # "leftovers" => CompletedWasApplied

-----------------------------------------------------------------------------

\* The update under way.
Current == IF InProgress = {} THEN None ELSE CHOOSE u \in InProgress : TRUE

Fetched == \E u \in Updates : update[u] \notin {"none", "parse", "download"}

\* What the next process will make of .fwtmp.
Left ==
  IF fwtmp.error # None THEN [status |-> fwtmp.error, version |-> None]
                        ELSE [status |-> "completed", version |-> fwtmp.swVersion]

\* The outcome is on disk from the end of one process until the constructor of
\* the next has looked at it, and then in the hands of a detached thread.
Outcome ==
  CASE sender # None -> StatusMessage
    [] sender = None /\ proc = "announce" ->
         [status |-> "completed", version |-> config]
    [] sender = None /\ proc \in {"down", "boot"} /\ fwtmp.there -> Left
    [] OTHER -> [status |-> None, version |-> None]

Protocol == INSTANCE UpdateProtocol
  WITH orderly <- (serial /\ faults # "leftovers"), lossy <- (faults # "none"),
       current <- Current, fetched <- Fetched, outcome <- Outcome

\* Update, restart and report together are the protocol: no outcome is lost
\* between the processes (but where xfwupdate.sh makes no directory or config.json
\* is unreadable), reported twice, reported for another update, or made up from a
\* directory that nobody cleaned (HandleFirmwareUpdate, Device::Device,
\* SendD2C_FwUpdateStatus).
ImplementsUpdateProtocol == Protocol!Safety

\* And it goes on: an update ends, and its outcome is sent, across the restart
\* that its end causes (HandleFirmwareUpdateError, the constructor).
OutcomesAreSent == Protocol!Liveness
=============================================================================
