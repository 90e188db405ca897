------------------------------ MODULE InFlight ------------------------------
(***************************************************************************)
(* The watermarks of ChainFaults: how many writes are between submission   *)
(* and confirmation, and the most that ever were, per operation and in all. *)
(*                                                                         *)
(* Entering takes four steps, each atomic on its own map entry or counter, *)
(* and leaving takes two; the steps of different writes interleave freely. *)
(***************************************************************************)
EXTENDS Naturals, FiniteSets

CONSTANTS Calls, Ops

VARIABLES
    guard,      \* how far each write is: "out", "peak", "total", "top", "held", "leaving"
    guardOp,    \* the operation of its InFlightGuard
    seen,       \* the count a write still has to fold into a watermark
    inFlight, peakInFlight, total, peakTotal

inFlightVars == <<guard, guardOp, seen, inFlight, peakInFlight, total, peakTotal>>

\* The operation recorded for a write without a guard, which nothing reads.
NoGuard == CHOOSE op \in Ops : TRUE

Larger(m, n) == IF m >= n THEN m ELSE n

InFlightInit ==
    /\ guard = [k \in Calls |-> "out"]
    /\ guardOp = [k \in Calls |-> NoGuard]
    /\ seen = [k \in Calls |-> 0]
    /\ inFlight = [op \in Ops |-> 0]
    /\ peakInFlight = [op \in Ops |-> 0]
    /\ total = 0
    /\ peakTotal = 0

Move(k, from, to) == guard[k] = from /\ guard' = [guard EXCEPT ![k] = to]

Enter(k, op) ==
    /\ Move(k, "out", "peak")
    /\ guardOp' = [guardOp EXCEPT ![k] = op]
    /\ inFlight' = [inFlight EXCEPT ![op] = @ + 1]
    /\ seen' = [seen EXCEPT ![k] = inFlight[op] + 1]
    /\ UNCHANGED <<peakInFlight, total, peakTotal>>

RaisePeak(k) ==
    /\ Move(k, "peak", "total")
    /\ peakInFlight' = [peakInFlight EXCEPT ![guardOp[k]] = Larger(@, seen[k])]
    /\ UNCHANGED <<guardOp, seen, inFlight, total, peakTotal>>

FetchAddTotal(k) ==
    /\ Move(k, "total", "top")
    /\ total' = total + 1
    /\ seen' = [seen EXCEPT ![k] = total + 1]
    /\ UNCHANGED <<guardOp, inFlight, peakInFlight, peakTotal>>

\* Mutant: a plain store instead of fetch_max.
StoreTotal(k) ==
    /\ Move(k, "top", "held")
    /\ peakTotal' = seen[k]
    /\ seen' = [seen EXCEPT ![k] = 0]
    /\ UNCHANGED <<guardOp, inFlight, peakInFlight, total>>
FetchMaxTotal(k) ==
    /\ Move(k, "top", "held")
    /\ peakTotal' = Larger(peakTotal, seen[k])
    /\ seen' = [seen EXCEPT ![k] = 0]
    /\ UNCHANGED <<guardOp, inFlight, peakInFlight, total>>

\* Dropping the guard: leave_in_flight.
SaturatingDec(n) == IF n = 0 THEN 0 ELSE n - 1

Leave(k) ==
    /\ Move(k, "held", "leaving")
    /\ inFlight' = [inFlight EXCEPT ![guardOp[k]] = SaturatingDec(@)]
    /\ UNCHANGED <<guardOp, seen, peakInFlight, total, peakTotal>>

LeaveTotal(k) ==
    /\ Move(k, "leaving", "out")
    /\ total' = SaturatingDec(total)
    /\ guardOp' = [guardOp EXCEPT ![k] = NoGuard]
    /\ UNCHANGED <<seen, inFlight, peakInFlight, peakTotal>>

Entering(k) == RaisePeak(k) \/ FetchAddTotal(k) \/ FetchMaxTotal(k)

------------------------------------------------------------------------------
In(phases) == {k \in Calls : guard[k] \in phases}
Of(phases, op) == {k \in In(phases) : guardOp[k] = op}

InFlightTypeOK ==
    /\ guard \in [Calls -> {"out", "peak", "total", "top", "held", "leaving"}]
    /\ guardOp \in [Calls -> Ops]
    /\ seen \in [Calls -> Nat]
    /\ inFlight \in [Ops -> Nat]
    /\ peakInFlight \in [Ops -> Nat]
    /\ total \in Nat
    /\ peakTotal \in Nat

\* The counters are the guards alive, each counted from its own step of entering
\* to its own step of leaving: a dropped confirmation leaves nothing behind.  The
\* watermarks never under-report: any writes that are outstanding together, once
\* their enter_in_flight has returned, are covered by the peak.
PeaksCoverGuards ==
    /\ \A op \in Ops :
         /\ inFlight[op] = Cardinality(Of({"peak", "total", "top", "held"}, op))
         /\ peakInFlight[op] >= Cardinality(Of({"total", "top", "held"}, op))
    /\ total = Cardinality(In({"top", "held", "leaving"}))
    /\ peakTotal >= Cardinality(In({"held"}))
==============================================================================
