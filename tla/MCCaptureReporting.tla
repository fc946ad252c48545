------------------------- MODULE MCCaptureReporting --------------------------
(* TLC values for CaptureReporting. *)
EXTENDS CaptureReporting, TLC

MCInitialCameras ==
  {[simulated |-> TRUE, pru |-> [trigger |-> 0, pulse |-> 0, pause |-> 0],
    gain |-> 0, exposure |-> 0, capturePeriod |-> 10]}

MCInitialSettings ==
  [StateName |-> "ReadyState", CapturePeriod |-> 5000, CurrentCaptureName |-> NoName,
   Gain |-> 0, Exposure |-> 0, PulseWidth |-> 4, Predelay |-> 1000]

\* Dashboards that echo a capture they heard of while the device was ready.
Echo(n) == [MCInitialSettings EXCEPT !.CurrentCaptureName = n]

MCBodies == {[upto |-> 7, values |-> Echo(n)] : n \in Names}

MCOneBody == {[upto |-> 7, values |-> Echo(CHOOSE n \in Names : TRUE)]}

\* Nothing distinguishes the capture threads, or the images, in what the safety
\* run checks.
MCSymmetry == Permutations(Notifiers) \union Permutations(Names)

\* The runs leave out GetDeviceSettings: a message that is asked for differs from
\* an announcement in its type only, and nothing the runs check looks at it.
MCNext == SystemNext /\ ~GetDeviceSettings

MCSpec == SystemInit /\ [][MCNext]_systemVars /\ SystemFairness

\* The liveness run leaves out previews too: a preview is a session of another name.
MCLivenessSpec ==
  /\ SystemInit
  /\ [][MCNext /\ target' # "PreviewState"]_systemVars
  /\ SystemFairness
=============================================================================
