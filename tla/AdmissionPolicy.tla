--------------------------- MODULE AdmissionPolicy ---------------------------
(***************************************************************************)
(* The pure decisions of the shared encode/decode thread pool              *)
(* (parallelize/mod.rs and parallelize/cpu/arbitration.rs): how many       *)
(* decode tasks may be outstanding at a time.                              *)
(* Counters are usize, far from overflow: plain naturals.                  *)
(***************************************************************************)
EXTENDS Integers

\* Option::None of decode_admit_cap: decode is unconstrained.
NoCap == -1

\* Decode counts as a flood once it exceeds this multiple of encode.
DECODE_FLOOD_FACTOR == 2

AtLeast(n, floor) == IF n < floor THEN floor ELSE n
AtMost(n, ceiling) == IF n > ceiling THEN ceiling ELSE n

\* u32::clamp(1, 100), applied to both percentages.
ClampPct(p) == AtMost(AtLeast(p, 1), 100)

\* Running tasks from which the pool counts as saturated: the percentage of
\* the pool rounded DOWN, but never 0.
OccupancyThreshold(poolThreads, occupancyPct) ==
    AtLeast((poolThreads * occupancyPct) \div 100, 1)

\* Threads decode yields to encode: the percentage of the pool rounded UP, but
\* no more than there is encode work.
EncodeReserve(poolThreads, encOutstanding, reservePct) ==
    AtMost((poolThreads * reservePct + 99) \div 100, encOutstanding)

\* The most decode tasks that may be outstanding, or NoCap.
DecodeAdmitCap(poolThreads, running, dec, enc, occupancyPct, reservePct) ==
    IF \/ running < OccupancyThreshold(poolThreads, occupancyPct)
       \/ enc = 0
       \/ dec <= enc * DECODE_FLOOD_FACTOR
    THEN NoCap
    ELSE AtLeast(poolThreads - EncodeReserve(poolThreads, enc, reservePct), 1)

\* Cap is the largest number of decode tasks, but at least 1, that leaves encode
\* as many threads as it has tasks or as its percentage of the pool, whichever
\* is less: the promise of decode_admit_cap, stated without its roundings.
LeavesReserve(k, poolThreads, encOutstanding, reservePct) ==
    (poolThreads - k) * 100 >= AtMost(poolThreads * reservePct, encOutstanding * 100)
IsFairCap(cap, poolThreads, encOutstanding, reservePct) ==
    /\ cap >= 1
    /\ cap = 1 \/ LeavesReserve(cap, poolThreads, encOutstanding, reservePct)
    /\ ~LeavesReserve(cap + 1, poolThreads, encOutstanding, reservePct)

\* The test try_reserve_decode makes on its snapshot of the counters.
UnderCap(decOutstanding, cap) == cap = NoCap \/ decOutstanding < cap
=============================================================================
