--------------------------- MODULE MCDeviceControl ---------------------------
(* TLC values for DeviceControl. *)
EXTENDS DeviceControl

\* Timing words of 6 bits; as with the code's 32, a capture period that is long
\* enough (here 4 ms, there 21475 ms) wraps.
MCInitialCameras ==
  [simulated : BOOLEAN, pru : {[trigger |-> 4, pulse |-> 10, pause |-> 20]},
   gain : {30}, exposure : {20}, capturePeriod : {10}]

MCInitialSettings ==
  [StateName |-> "ReadyState", CapturePeriod |-> 2, CurrentCaptureName |-> NoName,
   Gain |-> 30, Exposure |-> 20, PulseWidth |-> 4, Predelay |-> 1]

\* What a dashboard sends back: older names of state and capture, new values.
Edited ==
  [StateName |-> "PreviewState", CapturePeriod |-> 4,
   CurrentCaptureName |-> CHOOSE n \in Names : TRUE,
   Gain |-> 40, Exposure |-> 25, PulseWidth |-> 0, Predelay |-> 30]

\* Complete; cut short after the names, and between the pulse settings; no JSON.
MCBodies == {[upto |-> n, values |-> Edited] : n \in {0, 2, 3, 6, 7}}
=============================================================================
