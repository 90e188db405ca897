---------------------------- MODULE WeightedChoice ----------------------------
(***************************************************************************)
(* WeightedCollection over integer weights, negative ones included: the    *)
(* random number of pick_index is one of the total_weight equally likely   *)
(* integers below it, the random keys of into_shuffled are any.            *)
(***************************************************************************)
EXTENDS Integers, Sequences, FiniteSets

CONSTANTS
    Weights, MaxItems,  \* the collections that are built
    SortKeys            \* the keys u^(1/w) can take; 0 by underflow

ASSUME WeightedAssumption == Weights \subseteq Int /\ MaxItems \in Nat /\ SortKeys \subseteq Nat

VARIABLES weights, picked, shuffled

weightedVars == <<weights, picked, shuffled>>

Positive(w) == IF w > 0 THEN w ELSE 0

\* The sums of the positive weights: at n, that of the first n items.
Cumulative(ws) ==
    LET upTo[n \in 0 .. Len(ws)] == IF n = 0 THEN 0 ELSE upTo[n - 1] + Positive(ws[n])
    IN  upTo
TotalWeight(ws) == Cumulative(ws)[Len(ws)]

WeightedInit ==
    /\ weights \in UNION {[1 .. n -> Weights] : n \in 0 .. MaxItems}
    /\ picked = {} /\ shuffled = <<>>

\* Mutant: the bound is taken to belong to the item.
PickIndexClosed(ws, r) ==
    IF TotalWeight(ws) <= 0 THEN {}
    ELSE {i \in DOMAIN ws : r <= Cumulative(ws)[i] /\ \A j \in 1 .. i - 1 : r > Cumulative(ws)[j]}

\* pick_index with the random number r: no index, or the first whose cumulative weight
\* exceeds it, or else the last with a positive weight.
PickIndex(ws, r) ==
    LET over == {i \in DOMAIN ws : r < Cumulative(ws)[i]}
        heavy == {i \in DOMAIN ws : ws[i] > 0}
    IN  IF TotalWeight(ws) <= 0 THEN {}
        ELSE IF Len(ws) = 1 THEN {1}
        ELSE IF over # {} THEN {i \in over : \A j \in over : i <= j}
        ELSE {i \in heavy : \A j \in heavy : i >= j}

Draws(ws) == 0 .. TotalWeight(ws) - 1

Pick ==
    /\ \E r \in Draws(weights) : picked' = PickIndex(weights, r)
    /\ UNCHANGED <<weights, shuffled>>

\* into_shuffled: a stable sort by descending key, where an item of no weight has key 0.
Before(keys, i, j) == keys[i] > keys[j] \/ (keys[i] = keys[j] /\ i < j)
Shuffle ==
    /\ \E keys \in [DOMAIN weights -> SortKeys \cup {0}] :
         /\ \A i \in DOMAIN weights : weights[i] <= 0 => keys[i] = 0
         /\ shuffled' = [n \in DOMAIN weights |->
                CHOOSE i \in DOMAIN weights :
                    Cardinality({j \in DOMAIN weights : Before(keys, j, i)}) = n - 1]
    /\ UNCHANGED <<weights, picked>>

WeightedNext == Pick \/ Shuffle

WeightedSpec == WeightedInit /\ [][WeightedNext]_weightedVars
-----------------------------------------------------------------------------
\* pick_index chooses each item with probability weight / total_weight (probability_of), an
\* item without a positive weight never, and nothing only if no weight is positive: counted
\* over all draws.
PicksAreProportional ==
    \A i \in DOMAIN weights :
        Cardinality({r \in Draws(weights) : PickIndex(weights, r) = {i}}) = Positive(weights[i])
=============================================================================
