-------------------------- MODULE ExponentialAverage --------------------------
(***************************************************************************)
(* ExponentialMovingAverage in exact arithmetic: the average is the        *)
(* fraction emaNum / emaDen.                                               *)
(***************************************************************************)
EXTENDS Integers

CONSTANTS
    Factor, EmaSamples,
    MaxUpdates      \* bound

ASSUME EmaAssumption == Factor \in Nat \ {0} /\ EmaSamples \subseteq Int /\ MaxUpdates \in Nat

VARIABLES emaCount, emaNum, emaDen,
          seen, total   \* the samples so far: the set of them, and their sum

emaVars == <<emaCount, emaNum, emaDen, seen, total>>

EmaInit == emaCount = 0 /\ emaNum = 0 /\ emaDen = 1 /\ seen = {} /\ total = 0

\* Mutant: the divisor is FACTOR from the first sample on.
DivisorFixed(count) == Factor

Divisor(count) == IF count < Factor THEN count ELSE Factor

\* average + (value - average) / divisor.
Update(value) ==
    /\ emaCount < MaxUpdates /\ emaCount' = emaCount + 1
    /\ emaNum' = emaNum * (Divisor(emaCount') - 1) + value * emaDen
    /\ emaDen' = emaDen * Divisor(emaCount')
    /\ seen' = seen \cup {value} /\ total' = total + value

EmaNext == \E v \in EmaSamples : Update(v)

EmaSpec == EmaInit /\ [][EmaNext]_emaVars
-----------------------------------------------------------------------------
\* The initial 0 never biases the average: the first FACTOR updates give the plain mean,
\* and afterwards the average stays between the smallest and the largest sample.
EmaIsMeanThenBounded ==
    /\ emaCount \in 1 .. Factor => emaNum * emaCount = total * emaDen
    /\ emaCount > 0 =>
         (\E v \in seen : v * emaDen <= emaNum) /\ (\E v \in seen : v * emaDen >= emaNum)
=============================================================================
