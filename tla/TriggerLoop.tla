----------------------------- MODULE TriggerLoop -----------------------------
(***************************************************************************)
(* What the PRU is to the rest of the program, whatever its delays are and *)
(* however the host's accesses fall between its own: a loop that fires the *)
(* camera's trigger once a cycle, looks at the loop flag at the end of the *)
(* cycle and nowhere else, and is started with the flag on.  It needs no   *)
(* process to go on.                                                       *)
(***************************************************************************)
VARIABLES
  loop,     \* the loop flag
  phase     \* "halted", "trigger" (about to fire) or "rest" (of the cycle)

vars == <<loop, phase>>

TypeOK == loop \in BOOLEAN /\ phase \in {"halted", "trigger", "rest"}

\* Powered up: no program, and a flag of either value.
Init == loop \in BOOLEAN /\ phase = "halted"

TurnOn == loop' = TRUE /\ UNCHANGED phase

TurnOff == loop' = FALSE /\ UNCHANGED phase

\* The program is loaded, over one that may still run.
Exec == loop /\ phase' = "trigger" /\ UNCHANGED loop

Fire == phase = "trigger" /\ phase' = "rest" /\ UNCHANGED loop

Close ==
  /\ phase = "rest"
  /\ phase' = IF loop THEN "trigger" ELSE "halted"
  /\ UNCHANGED loop

Cycle == Fire \/ Close

Next == TurnOn \/ TurnOff \/ Exec \/ Cycle

Spec == Init /\ [][Next]_vars /\ WF_vars(Cycle)
=============================================================================
