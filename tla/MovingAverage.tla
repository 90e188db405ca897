---------------------------- MODULE MovingAverage ----------------------------
(***************************************************************************)
(* SingleSumSMA: a moving average over an unsigned type, with a running    *)
(* sum that is added to before it is subtracted from.  An addition that    *)
(* overflows wraps, as that of an integer in a release build, or panics,   *)
(* as with overflow checks and as Duration does in every build.  NoSumSMA, *)
(* which sums its window at every read, is the reference.                  *)
(***************************************************************************)
EXTENDS Naturals, Sequences

CONSTANTS
    WindowSize,
    Modulus,   \* the number of values of the sample type, 2^w for a width of w bits
    Samples    \* the samples that are pushed

ASSUME AverageAssumption ==
    /\ WindowSize \in Nat \ {0, 1} /\ Modulus \in Nat \ {0}
    /\ Samples \subseteq 0 .. Modulus - 1

VARIABLES
    window, sum,
    checked   \* whether an overflow panics

averageVars == <<window, sum, checked>>

Wrap(n) == n % Modulus

AverageInit == window = <<>> /\ sum = 0 /\ checked \in BOOLEAN

\* The sample after which the window drops its oldest one.
Shifted == IF Len(window) = WindowSize THEN Tail(window) ELSE window

\* The sum takes the sample first: when that panics, nothing has changed yet.
Panics(sample) == checked /\ sum + sample >= Modulus

\* Mutant: the oldest sample leaves the window before the addition that may panic.
PushPopsFirst(sample) ==
    /\ sum' = IF Panics(sample) THEN sum
              ELSE IF Len(window) = WindowSize
              THEN Wrap(Wrap(sum + sample) + Modulus - Head(window))
              ELSE Wrap(sum + sample)
    /\ window' = IF Panics(sample) THEN Shifted ELSE Append(Shifted, sample)
    /\ UNCHANGED checked

Push(sample) ==
    /\ sum' = IF Panics(sample) THEN sum
              ELSE IF Len(window) = WindowSize
              THEN Wrap(Wrap(sum + sample) + Modulus - Head(window))
              ELSE Wrap(sum + sample)
    /\ window' = IF Panics(sample) THEN window ELSE Append(Shifted, sample)
    /\ UNCHANGED checked

Clear == sum' = Wrap(sum + Modulus - sum) /\ window' = <<>> /\ UNCHANGED checked

AverageNext == Clear \/ \E s \in Samples : Push(s)

AverageSpec == AverageInit /\ [][AverageNext]_averageVars

Average == IF window = <<>> THEN <<>> ELSE <<sum \div Len(window)>>

\* The samples of w, added up one after the other.
WindowSum(w) ==
    LET total[n \in 0 .. Len(w)] == IF n = 0 THEN 0 ELSE Wrap(total[n - 1] + w[n])
    IN  total[Len(w)]

\* NoSumSMA::average.
ReferenceAverage ==
    IF window = <<>> THEN <<>> ELSE <<WindowSum(window) \div Len(window)>>

\* The running sum never drifts: even when adding before subtracting overflows the
\* type, and wraps or panics, SingleSumSMA and NoSumSMA report the same average of the
\* window after any pushes and clears.
AveragesAgree == Len(window) <= WindowSize /\ Average = ReferenceAverage
=============================================================================
