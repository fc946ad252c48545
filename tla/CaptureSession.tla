---------------------------- MODULE CaptureSession ---------------------------
(***************************************************************************)
(* What the device promises the service that commands it, whatever its     *)
(* camera is and however the handlers are split into steps: at most one    *)
(* capture session at a time, of one of two kinds, started and ended as a  *)
(* whole, and a measuring ("RunState") session whose camera configuration  *)
(* stays what it was when the session began.                               *)
(***************************************************************************)
CONSTANTS Configs     \* camera configurations

VARIABLES
  mode,               \* "ReadyState", "RunState" or "PreviewState"
  capturing,          \* the camera has been told to capture
  config              \* the configuration the camera captures with

vars == <<mode, capturing, config>>

Active == {"RunState", "PreviewState"}

Init == mode = "ReadyState" /\ capturing = FALSE /\ config \in Configs

\* A session begins from ReadyState only; the camera takes its configuration.
Begin(m) ==
  /\ mode = "ReadyState" /\ mode' = m
  /\ capturing' = TRUE
  /\ config' \in Configs

\* It ends where it began: there is no way from RunState to PreviewState.
End ==
  /\ mode \in Active /\ mode' = "ReadyState"
  /\ capturing' = FALSE
  /\ UNCHANGED config

\* The camera is reconfigured between sessions or during a preview.
Configure ==
  /\ mode # "RunState"
  /\ config' \in Configs
  /\ UNCHANGED <<mode, capturing>>

Next == (\E m \in Active : Begin(m)) \/ End \/ Configure

Spec == Init /\ [][Next]_vars
=============================================================================
