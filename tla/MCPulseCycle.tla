----------------------------- MODULE MCPulseCycle ----------------------------
(* TLC values for PulseCycle. *)
EXTENDS PulseCycle

Timing(period, pulse, predelay) ==
  [CapturePeriod |-> period, PulseWidth |-> pulse, Predelay |-> predelay]

\* Words of 6 bits, 4 instructions a microsecond, 5 microseconds a millisecond:
\* a period of 4 ms wraps, as one of 22 s does with the code's words.
MCInitialSettings == Timing(3, 4, 1)
MCDefaults == [trigger |-> 4, pulse |-> 10, pause |-> 30]

\* One in range and one whose period wraps; cut short, they mix to a pause of zero
\* (1, 4, 1) and to a pulse longer than the period (1, 4, 3), among others.
MCChoices == {Timing(1, 1, 3), Timing(4, 4, 1)}
=============================================================================
