------------------------- MODULE PulseTiming_proofs --------------------------
(* Facts about the pulse arithmetic, for every word size and clock rate. *)
EXTENDS PulseTiming, TLAPS

\* Every conversion to unsigned yields a word.
LEMMA WordIsWord ==
  ASSUME NEW n \in Int
  PROVE  Word(n) \in Words
BY TimingAssumption DEF Word, Words

\* A conversion changes nothing that is a word already.
LEMMA WordOfWord ==
  ASSUME NEW n \in Words
  PROVE  Word(n) = n
BY TimingAssumption DEF Word, Words

\* A quotient of naturals is a natural no larger than the dividend.
LEMMA QuotientBound ==
  ASSUME NEW a \in Nat, NEW k \in Nat \ {0}
  PROVE  a \div k \in 0 .. a
<1>1. a \div k \in Int
  OBVIOUS
<1>2. k * (a \div k) <= a /\ a < k * (a \div k) + k
  BY Z3
<1>3. a \div k >= 0
  BY <1>1, <1>2, Z3
<1>4. a \div k <= k * (a \div k)
  BY <1>1, <1>3, Z3
<1> QED
  BY <1>1, <1>2, <1>3, <1>4

\* So a delay in turns is a word, whatever the microseconds.
LEMMA LoopsAreWords ==
  ASSUME NEW us \in Int
  PROVE  LoopsOfUs(us) \in Words
<1> DEFINE v == Word(Word(us) * InsPerUs)
<1>1. v \in Words
  BY TimingAssumption, WordIsWord DEF Words
<1>2. v \div InsPerLoop \in 0 .. v
  BY <1>1, TimingAssumption, QuotientBound DEF Words
<1> QED
  BY <1>1, <1>2, TimingAssumption DEF LoopsOfUs, Words

\* What SetCameraPruValues writes fits the PRU's words, whatever the settings
\* a SetDeviceSettings message brought.
LEMMA PruValuesAreWords ==
  ASSUME NEW s, s.CapturePeriod \in Int, s.PulseWidth \in Int, s.Predelay \in Int
  PROVE  PruValues(s) \in [trigger : Words, pulse : Words, pause : Words]
<1>1. Triggerduration(s) \in Words /\ Pulseduration(s) \in Words
  BY LoopsAreWords DEF Triggerduration, Pulseduration
<1>2. Word(s.CapturePeriod) * UsPerMs \in Int
  BY WordIsWord, TimingAssumption DEF Words
<1>3. LoopsOfUs(Word(s.CapturePeriod) * UsPerMs) \in Words
  BY <1>2, LoopsAreWords
<1>4. Pauseduration(s) \in Words
  BY <1>1, <1>3, WordIsWord DEF Pauseduration, Words
<1> QED
  BY <1>1, <1>4 DEF PruValues

-----------------------------------------------------------------------------

\* Without a wrap the turns of a delay are its instructions by InsPerLoop.
LEMMA LoopsWithoutWrap ==
  ASSUME NEW us \in Nat, us * InsPerUs < WordSize
  PROVE  LoopsOfUs(us) = Turns(us)
<1>1. us <= us * InsPerUs
  BY TimingAssumption, Z3
<1>2. us \in Words /\ us * InsPerUs \in Words
  BY <1>1, TimingAssumption DEF Words
<1> QED
  BY <1>2, WordOfWord DEF LoopsOfUs, Turns

\* What a division by the instructions of a loop leaves behind.
LEMMA TurnsBounds ==
  ASSUME NEW us \in Nat
  PROVE  /\ Turns(us) \in 0 .. us * InsPerUs
         /\ Turns(us) * InsPerLoop <= us * InsPerUs
         /\ us * InsPerUs < Turns(us) * InsPerLoop + InsPerLoop
<1> DEFINE a == us * InsPerUs
<1>1. a \in Nat /\ InsPerLoop \in Nat \ {0}
  BY TimingAssumption
<1> HIDE DEF a
<1>2. a \div InsPerLoop \in 0 .. a
  BY <1>1, QuotientBound
<1>3. /\ (a \div InsPerLoop) * InsPerLoop <= a
      /\ a < (a \div InsPerLoop) * InsPerLoop + InsPerLoop
  BY <1>1, Z3
<1> QED
  BY <1>2, <1>3 DEF Turns, a

\* Two delays that leave at least a microsecond of a third take fewer turns.
LEMMA TurnsOfParts ==
  ASSUME NEW a \in Nat, NEW b \in Nat, NEW c \in Nat, a + b < c
  PROVE  Turns(a) + Turns(b) < Turns(c)
<1> DEFINE A == Turns(a)  B == Turns(b)  C == Turns(c)
<1>1. A \in Nat /\ B \in Nat /\ C \in Nat
  BY TurnsBounds, TimingAssumption
<1>2. /\ A * InsPerLoop <= a * InsPerUs
      /\ B * InsPerLoop <= b * InsPerUs
      /\ c * InsPerUs < C * InsPerLoop + InsPerLoop
  BY TurnsBounds
<1> HIDE DEF A, B, C
<1>3. a * InsPerUs + b * InsPerUs + InsPerUs <= c * InsPerUs
  <2>1. a + b + 1 <= c
    OBVIOUS
  <2>2. (a + b + 1) * InsPerUs <= c * InsPerUs
    BY <2>1, TimingAssumption, Z3
  <2> QED
    BY <2>2, TimingAssumption, Z3
<1>4. (A + B) * InsPerLoop + InsPerLoop < C * InsPerLoop + InsPerLoop
  <2>1. A * InsPerLoop + B * InsPerLoop + InsPerLoop < C * InsPerLoop + InsPerLoop
    BY <1>1, <1>2, <1>3, TimingAssumption, Z3
  <2> QED
    BY <2>1, <1>1, TimingAssumption, Z3
<1>5. A + B < C
  BY <1>1, <1>4, TimingAssumption, Z3
<1> QED
  BY <1>5 DEF A, B, C

\* A delay of some microseconds takes some turns.
LEMMA TurnsPositive ==
  ASSUME NEW us \in Nat \ {0}
  PROVE  Turns(us) > 0
<1>1. Turns(0) \in Nat
  BY TurnsBounds, TimingAssumption
<1>2. Turns(0) + Turns(0) < Turns(us)
  BY TurnsOfParts
<1>3. Turns(us) \in Nat
  BY TurnsBounds, TimingAssumption
<1> QED
  BY <1>1, <1>2, <1>3

\* Settings whose delays fit their period, and their period the words, get the
\* cycle they ask for out of SetCameraPruValues and pulse.p: no step of the
\* unsigned arithmetic wraps and no delay loop is entered with a zero.
THEOREM CycleIsCapturePeriod ==
  ASSUME NEW s, s.CapturePeriod \in Int, s.PulseWidth \in Int, s.Predelay \in Int,
         InRange(s)
  PROVE  CycleMeetsSettings(s)
<1> DEFINE p == s.Predelay  w == s.PulseWidth  c == s.CapturePeriod
           us == c * UsPerMs
<1>1. p \in Nat \ {0} /\ w \in Nat \ {0} /\ us \in Nat \ {0} /\ p + w < us
  BY TimingAssumption DEF InRange
<1>2. c \in Nat /\ c <= us
  BY <1>1, TimingAssumption, Z3
<1>3. us * InsPerUs < WordSize
  BY DEF InRange
<1> HIDE DEF p, w, us
<1>4. us <= us * InsPerUs /\ p * InsPerUs <= us * InsPerUs
                         /\ w * InsPerUs <= us * InsPerUs
  BY <1>1, TimingAssumption, Z3
<1>5. p * InsPerUs < WordSize /\ w * InsPerUs < WordSize
  BY <1>1, <1>3, <1>4, TimingAssumption
<1>6. Triggerduration(s) = Turns(p) /\ Pulseduration(s) = Turns(w)
  BY <1>1, <1>5, LoopsWithoutWrap DEF Triggerduration, Pulseduration, p, w
<1>7. Word(c) = c
  BY <1>1, <1>2, <1>3, <1>4, WordOfWord, TimingAssumption DEF Words
<1>8. LoopsOfUs(Word(c) * UsPerMs) = Turns(us)
  BY <1>1, <1>3, <1>7, LoopsWithoutWrap DEF us
<1>9. /\ Turns(p) \in Nat \ {0} /\ Turns(w) \in Nat \ {0}
      /\ Turns(us) \in Nat /\ Turns(us) < WordSize
      /\ Turns(p) + Turns(w) < Turns(us)
  <2>1. Turns(us) \in 0 .. us * InsPerUs /\ Turns(p) \in Nat /\ Turns(w) \in Nat
    BY <1>1, TurnsBounds, TimingAssumption
  <2>2. Turns(p) > 0 /\ Turns(w) > 0
    BY <1>1, TurnsPositive
  <2>3. Turns(p) + Turns(w) < Turns(us)
    BY <1>1, TurnsOfParts
  <2>4. us * InsPerUs \in Nat
    BY <1>1, TimingAssumption
  <2> QED
    BY <1>3, <2>1, <2>2, <2>3, <2>4, TimingAssumption
<1>10. Pauseduration(s) = Turns(us) - Turns(p) - Turns(w)
  <2>1. Turns(us) - Turns(p) - Turns(w) \in Words
    BY <1>9, TimingAssumption DEF Words
  <2> QED
    BY <2>1, <1>6, <1>8, WordOfWord DEF Pauseduration
<1>11. PruValues(s) = [trigger |-> Turns(p), pulse |-> Turns(w),
                       pause |-> Turns(us) - Turns(p) - Turns(w)]
  BY <1>6, <1>10 DEF PruValues
<1>12. CycleTurns(PruValues(s)) = Turns(us)
  <2>1. LoopTurns(Turns(p)) = Turns(p) /\ LoopTurns(Turns(w)) = Turns(w)
    BY <1>9 DEF LoopTurns
  <2>2. LoopTurns(Turns(us) - Turns(p) - Turns(w)) = Turns(us) - Turns(p) - Turns(w)
    BY <1>9 DEF LoopTurns
  <2> QED
    BY <1>9, <1>11, <2>1, <2>2 DEF CycleTurns
<1> QED
  BY <1>9, <1>11, <1>12 DEF CycleMeetsSettings, p, w, us

-----------------------------------------------------------------------------
(* With the values of the code: words of 32 bits, 200 instructions a       *)
(* microsecond, two of them a turn.                                        *)

CodeValues ==
  WordSize = 4294967296 /\ InsPerUs = 200 /\ InsPerLoop = 2 /\ UsPerMs = 1000

\* What a CapturePeriod may be: up to 21474 ms, with a predelay and a pulse that
\* take some time and less than the period.
THEOREM CodeRange ==
  ASSUME CodeValues,
         NEW s, s.CapturePeriod \in Int, s.PulseWidth \in Int, s.Predelay \in Int
  PROVE  InRange(s) <=> /\ s.PulseWidth > 0 /\ s.Predelay > 0
                        /\ s.CapturePeriod <= 21474
                        /\ s.PulseWidth + s.Predelay < s.CapturePeriod * 1000
BY SMT DEF CodeValues, InRange

\* The settings of Device's constructor (Device.cpp:68-71) are among them.
COROLLARY InitialCycle ==
  ASSUME CodeValues,
         NEW s, s.CapturePeriod = 5000, s.PulseWidth = 4, s.Predelay = 1000
  PROVE  CycleMeetsSettings(s) /\ CycleTurns(PruValues(s)) = 500000000
<1>1. InRange(s)
  BY SMT, CodeRange
<1>2. CycleMeetsSettings(s)
  BY <1>1, CycleIsCapturePeriod
<1>3. CycleTurns(PruValues(s)) = Turns(5000 * 1000)
  BY SMT, <1>2 DEF CycleMeetsSettings, CodeValues
<1>4. Turns(5000 * 1000) = 500000000
  BY SMT DEF Turns, CodeValues
<1> QED
  BY SMT, <1>2, <1>3, <1>4

\* A difference that goes below zero comes out as much below the word size.
LEMMA WordOfNegative ==
  ASSUME NEW n \in Int, n < 0, 0 <= n + WordSize
  PROVE  Word(n) = n + WordSize
BY TimingAssumption, Z3 DEF Word

\* A millisecond more than the range and the product wraps: the constructor's pulse
\* and predelay with a period of 21475 ms make a cycle of twice as long, since what
\* SetCameraPruValues takes off the few turns that are left wraps again.
THEOREM FirstWrappingPeriod ==
  ASSUME CodeValues,
         NEW s, s.CapturePeriod = 21475, s.PulseWidth = 4, s.Predelay = 1000
  PROVE  CycleTurns(PruValues(s)) = 4294983648
<1> USE DEF CodeValues
<1>1. Word(21475) = 21475 /\ Word(21475000) = 21475000 /\ Word(21475000 * 200) = 32704
  BY SMT DEF Word
<1>2. LoopsOfUs(Word(s.CapturePeriod) * UsPerMs) = 16352
  BY SMT, <1>1 DEF LoopsOfUs
<1>3. Word(4) = 4 /\ Word(800) = 800 /\ Word(1000) = 1000 /\ Word(200000) = 200000
  BY SMT DEF Word
<1>4. Pulseduration(s) = 400 /\ Triggerduration(s) = 100000
  BY SMT, <1>3 DEF Pulseduration, Triggerduration, LoopsOfUs
<1> DEFINE n == 16352 - 100000 - 400
<1>5. n \in Int /\ n < 0 /\ 0 <= n + WordSize /\ n + WordSize = 4294883248
  BY SMT
<1>6. Pauseduration(s) = Word(n)
  BY SMT, <1>2, <1>4 DEF Pauseduration
<1> HIDE DEF n
<1>7. Pauseduration(s) = 4294883248
  BY SMT, <1>5, <1>6, WordOfNegative
<1> QED
  BY SMT, <1>4, <1>7 DEF PruValues, CycleTurns, LoopTurns
=============================================================================
