----------------------------- MODULE PulseTiming -----------------------------
(***************************************************************************)
(* The arithmetic between the device settings and the three delay words    *)
(* that the PRU program pulse.p counts down: Device::SetCameraPruValues in *)
(* Device.cpp (unsigned int arithmetic, which wraps) and the delay loops   *)
(* of pulse.p (decrement first, then test for zero).                       *)
(*                                                                         *)
(* The code's values are WordSize = 2^32, InsPerUs = 200, InsPerLoop = 2   *)
(* and UsPerMs = 1000; TLC uses smaller ones with the same wrap-around.    *)
(***************************************************************************)
EXTENDS Integers

CONSTANTS
  WordSize,     \* 2^w: the number of values of an unsigned int
  InsPerUs,     \* PRU instructions in a microsecond
  InsPerLoop,   \* PRU instructions in one turn of a delay loop
  UsPerMs       \* microseconds in a millisecond

ASSUME TimingAssumption ==
  /\ WordSize \in Nat \ {0}
  /\ InsPerUs \in Nat /\ InsPerLoop \in 1 .. InsPerUs
  /\ UsPerMs \in Nat \ {0}

-----------------------------------------------------------------------------

Words == 0 .. WordSize - 1

\* Mutant of Word: signed variables, which go below zero instead of wrapping.
UnreducedWord(n) == n

\* The conversion of an int to unsigned int, and what every unsigned
\* addition, subtraction and product is reduced by.
Word(n) == n % WordSize

\* us -> turns of a delay loop: v *= 200; v /= 2.
LoopsOfUs(us) == Word(Word(us) * InsPerUs) \div InsPerLoop

Pulseduration(s) == LoopsOfUs(s.PulseWidth)

Triggerduration(s) == LoopsOfUs(s.Predelay)

\* Mutant of Pauseduration: the pulse is not taken off.
PauseAfterTrigger(s) ==
  Word(LoopsOfUs(Word(s.CapturePeriod) * UsPerMs) - Triggerduration(s))

\* ms -> turns, less the turns that the trigger and the pulse take.
Pauseduration(s) ==
  Word(LoopsOfUs(Word(s.CapturePeriod) * UsPerMs)
         - Triggerduration(s) - Pulseduration(s))

\* The words PRU0's data RAM holds after SetCameraPruValues.
PruValues(s) ==
  [trigger |-> Triggerduration(s),
   pulse   |-> Pulseduration(s),
   pause   |-> Pauseduration(s)]

-----------------------------------------------------------------------------

\* How often a loop "SUB r0, r0, 1; QBNE loop, r0, 0" turns when it is entered
\* with r0 = w: it decrements before it tests, so 0 is the longest delay.
LoopTurns(w) == IF w = 0 THEN WordSize ELSE w

\* The turns of one trigger-pulse-pause cycle of pulse.p over these words.
CycleTurns(v) == LoopTurns(v.trigger) + LoopTurns(v.pulse) + LoopTurns(v.pause)

\* Settings no step of the arithmetic above wraps on.
InRange(s) ==
  /\ s.PulseWidth > 0 /\ s.Predelay > 0
  /\ s.CapturePeriod * UsPerMs * InsPerUs < WordSize
  /\ s.PulseWidth + s.Predelay < s.CapturePeriod * UsPerMs

\* The turns of a delay of us microseconds.
Turns(us) == (us * InsPerUs) \div InsPerLoop

\* Settings in range get what they ask for: a trigger of Predelay and a pulse
\* of PulseWidth microseconds, once every CapturePeriod, and no delay of zero,
\* which would last the longest (SetCameraPruValues, pulse.p).
CycleMeetsSettings(s) ==
  LET v == PruValues(s)
  IN /\ v.trigger = Turns(s.Predelay)
     /\ v.pulse = Turns(s.PulseWidth)
     /\ v.trigger > 0 /\ v.pulse > 0 /\ v.pause > 0
     /\ CycleTurns(v) = Turns(s.CapturePeriod * UsPerMs)
=============================================================================
