---------------------------- MODULE UpdateProtocol ---------------------------
(***************************************************************************)
(* What the device promises who calls for firmware updates, however many   *)
(* processes, files and scripts an update goes through: as long as calls   *)
(* wait for the outcome of the one before, an update that is called for    *)
(* ends with one outcome, which is the one its package deserves; without   *)
(* one only when its call cannot be parsed or its package not fetched; and *)
(* every outcome is sent, once, under the version it is about.  A lossy    *)
(* device may lose the outcome of a sound package that could not be        *)
(* extracted, and any outcome instead of sending it; it makes up none.     *)
(*                                                                         *)
(* Nothing is promised from the moment on when updates have met, or where   *)
(* the process may be cut off or a directory be left over.                 *)
(***************************************************************************)
CONSTANTS
  Updates,   \* updates that can be called for; also their versions
  Valid,     \* the ones with a sound package
  None

VARIABLES
  orderly,   \* updates have not met yet, and nothing is left over
  lossy,     \* outcomes may get lost
  current,   \* the update under way
  fetched,   \* its package has been fetched
  outcome,   \* the outcome still to be sent
  applied,   \* the updates that were applied
  report     \* the last outcome sent

vars == <<orderly, lossy, current, fetched, outcome, applied, report>>

Status(status, version) == [status |-> status, version |-> version]

Nothing == Status(None, None)

Init ==
  /\ orderly \in BOOLEAN /\ lossy \in BOOLEAN
  /\ current = None /\ fetched = FALSE /\ outcome = Nothing
  /\ applied = {} /\ report = Nothing

\* The next update is called for when the outcome of the last has been sent.
Call(u) ==
  /\ current = None /\ outcome = Nothing
  /\ current' = u
  /\ UNCHANGED <<fetched, outcome, applied, report>>

Fetch ==
  /\ current # None /\ ~fetched /\ fetched'
  /\ UNCHANGED <<current, outcome, applied, report>>

\* The call cannot be parsed, or the package not downloaded.
Drop ==
  /\ current # None /\ ~fetched /\ current' = None
  /\ UNCHANGED <<fetched, outcome, applied, report>>

\* An unsound package fails in its verification, a sound one later or never.
Fail ==
  /\ fetched /\ ~fetched' /\ current' = None
  /\ outcome' = Status(IF current \in Valid THEN "extraction" ELSE "verification", None)
  /\ UNCHANGED <<applied, report>>

\* An extraction that fails without leaving anything.
Lose ==
  /\ lossy /\ fetched /\ ~fetched' /\ current \in Valid /\ current' = None
  /\ UNCHANGED <<outcome, applied, report>>

Complete ==
  /\ fetched /\ ~fetched' /\ current \in Valid /\ current' = None
  /\ applied' = applied \union {current}
  /\ outcome' = Status("completed", current)
  /\ UNCHANGED report

Send ==
  /\ outcome # Nothing /\ outcome' = Nothing
  /\ report' = outcome
  /\ UNCHANGED <<current, fetched, applied>>

\* What sending it throws is caught.
SendNothing ==
  /\ lossy /\ outcome # Nothing /\ outcome' = Nothing
  /\ UNCHANGED <<current, fetched, applied, report>>

OrderlyStep ==
  \/ \E u \in Updates : Call(u)
  \/ Fetch \/ Drop \/ Fail \/ Lose \/ Complete \/ Send \/ SendNothing

Next ==
  /\ UNCHANGED lossy
  /\ (orderly /\ orderly' /\ OrderlyStep) \/ ~orderly'

Safety == Init /\ [][Next]_vars

\* While things are in order, no update goes on for ever and no outcome is
\* kept for ever.
Ends == orderly /\ current # None ~> ~orderly \/ current = None

Sends == orderly /\ outcome # Nothing ~> ~orderly \/ outcome = Nothing

Liveness == Ends /\ Sends

Spec == Safety /\ Liveness
=============================================================================
