-------------------------- MODULE MCFirmwareUpdate ---------------------------
(* The specification TLC checks for SerialUpdates. *)
EXTENDS SerialUpdates

\* Nothing but type and IdleIsClean is claimed of updates that have met.  Where
\* .fwtmp may be left over they do what they do elsewhere and more, so that it is
\* enough to let them meet there.
MCSpec ==
  /\ SerialInit
  /\ [][SerialNext /\ (serial' \/ faults = "leftovers")]_serialVars
  /\ Fairness
=============================================================================
